---------------------------- MODULE ScopedClient ----------------------------
(***************************************************************************)
(* Startup and the client's authorisation: the settings getConnector       *)
(* accepts (cmd/baton-ramp/main.go, pkg/config/authselect.go), the token   *)
(* source each request takes by its scope class (pkg/client/token_scope.go,*)
(* client.go), and the cache every GET passes through before it needs a    *)
(* token (pkg/client/helpers.go), while the OAuth app and its credentials  *)
(* change in Ramp.                                                         *)
(***************************************************************************)
EXTENDS Integers, FiniteSets

CONSTANTS
    Setting,      \* the settings the process may be started with
    Operation,    \* the operations the platform asks for
    App,          \* the sets of scopes the OAuth app may have at first
    Caller,       \* threads of the connector, one call each
    MaxChanges,   \* bound: changes to the app, its tokens and credentials
    MaxFailed,    \* bound: answers that do not decode
    Nothing       \* no token, no cached answer, no connector

ReadScopes  == {"users:read", "vendors:read", "audit_logs:read"}
WriteScopes == {"users:write", "vendors:write"}
Scopes      == ReadScopes \cup WriteScopes
Class       == {"read", "users_write", "vendors_write"}
AuthMethod  == {"access_token", "client_credentials"}

Reads ==
    {"ListUsers", "FindUserByEmail", "ListVendors", "GetVendor",
     "ListVendorAgreements", "GetVendorAgreement", "ListAuditLogEvents"}
UserWrites == {"CreateUser", "DeactivateUser", "ReactivateUser"}
Operations == Reads \cup UserWrites \cup {"UpdateVendorOwner"}

ASSUME ScopedClientAssumption ==
    /\ Setting \subseteq
          [authMethod : AuthMethod \cup {"", "unknown"}, token : BOOLEAN,
           clientID : BOOLEAN, secret : BOOLEAN, auditLogEvents : BOOLEAN]
    /\ Operation \subseteq Operations
    /\ App \subseteq SUBSET Scopes
    /\ MaxChanges \in Nat /\ MaxFailed \in Nat
    /\ Nothing \notin AuthMethod
    /\ Nothing \notin [scopes : SUBSET Scopes, live : BOOLEAN]

VARIABLES
    setting,    \* how the process is configured
    method,     \* the auth method getConnector settled on, or Nothing
    app,        \* Ramp: the scopes the OAuth app has
    trusted,    \* Ramp: whether it accepts the client credentials
    tokens,     \* the token each class's source holds
    cache,      \* the HTTP cache: "page", "undecodable" or Nothing
    call,       \* each thread's call
    changes,    \* changes in Ramp so far
    failed      \* answers so far that did not decode

vars == <<setting, method, app, trusted, tokens, cache, call, changes, failed>>

Token == [scopes : SUBSET Scopes, live : BOOLEAN]

Outcome == {"none", "answered", "cached", "undecodable", "forbidden",
            "missing_scope", "bad_credentials", "no_token"}

(* lacked: the scopes the app has been without at some time of the call.   *)
Call == [pc : {"idle", "send", "done"}, operation : Operations,
         token : Token \cup {Nothing}, outcome : Outcome,
         lacked : SUBSET Scopes]

IdleCall == [pc |-> "idle", operation |-> "ListUsers", token |-> Nothing,
             outcome |-> "none", lacked |-> {}]

-----------------------------------------------------------------------------
(***************************************************************************)
(* Settings.                                                               *)
(***************************************************************************)
NeedsBothCredentials(s) ==
    IF s.authMethod # "" THEN s.authMethod
    ELSE IF s.clientID /\ s.secret THEN "client_credentials" ELSE ""

AutoSelectAuthMethod(s) ==
    IF s.authMethod # "" THEN s.authMethod
    ELSE IF s.clientID \/ s.secret THEN "client_credentials" ELSE ""

SelectedMethod(s) ==
    IF AutoSelectAuthMethod(s) = "" THEN "access_token"
    ELSE AutoSelectAuthMethod(s)

(* field.Validate: every required field of the method's group.             *)
Validates(s) ==
    CASE SelectedMethod(s) = "access_token"       -> s.token
      [] SelectedMethod(s) = "client_credentials" -> s.clientID /\ s.secret
      [] OTHER -> FALSE

readScopes ==
    {"users:read", "vendors:read"}
      \cup IF setting.auditLogEvents THEN {"audit_logs:read"} ELSE {}

AllScopesAtOnce(class) == readScopes \cup WriteScopes

(* readScopes, usersWriteScopes and vendorsWriteScopes.                    *)
RequestedScopes(class) ==
    readScopes \cup CASE class = "read"          -> {}
                      [] class = "users_write"   -> {"users:write"}
                      [] class = "vendors_write" -> {"vendors:write"}

-----------------------------------------------------------------------------
(***************************************************************************)
(* Operations.                                                             *)
(***************************************************************************)
scopeClass(op) ==
    CASE op \in Reads      -> "read"
      [] op \in UserWrites -> "users_write"
      [] OTHER             -> "vendors_write"

(* The scope Ramp asks of the request's token.                             *)
NeededScope(op) ==
    CASE op \in {"ListUsers", "FindUserByEmail"} -> "users:read"
      [] op = "ListAuditLogEvents"               -> "audit_logs:read"
      [] op \in UserWrites                       -> "users:write"
      [] op = "UpdateVendorOwner"                -> "vendors:write"
      [] OTHER                                   -> "vendors:read"

(* The cache keeps the 200 of every GET; ListVendorAgreements is a POST.   *)
Cached(op) == op \in Reads \ {"ListVendorAgreements"}

LooksUpAll(op) == cache[op] # Nothing

(* The request is answered from the cache.  The look-up by email carries   *)
(* Cache-Control: no-cache and passes over the answer it left there.       *)
Hit(op) == op # "FindUserByEmail" /\ cache[op] # Nothing

(* No feed is advertised unless audit-log-events is set.                   *)
Offered(op) == op = "ListAuditLogEvents" => setting.auditLogEvents

ReusesAnyToken(class) ==
    IF tokens["users_write"] # Nothing THEN "users_write" ELSE class

(* A client built from an access token has no write sources, and the read  *)
(* source stands in for them.                                              *)
forClass(class) == IF method = "client_credentials" THEN class ELSE "read"

-----------------------------------------------------------------------------
Init ==
    /\ setting \in Setting
    /\ method = Nothing
    /\ app \in App
    /\ trusted \in BOOLEAN
    /\ tokens = [class \in Class |-> Nothing]
    /\ cache = [op \in Operation |-> Nothing]
    /\ call = [c \in Caller |-> IdleCall]
    /\ changes = 0
    /\ failed = 0

(* WithToken, WithTokenSources: an access token was issued outside, with   *)
(* the scopes the app had; the other sources hold no token yet.            *)
TokenSources(m) ==
    [class \in Class |-> IF m = "access_token" /\ class = "read"
                           THEN [scopes |-> app, live |-> TRUE] ELSE Nothing]

(* getConnector: settings that validate give a connector.                  *)
Start ==
    /\ method = Nothing
    /\ Validates(setting)
    /\ method' = SelectedMethod(setting)
    /\ tokens' = TokenSources(SelectedMethod(setting))
    /\ UNCHANGED <<setting, app, trusted, cache, call, changes, failed>>

(* The process ends, or is refused, and is to be started again, perhaps    *)
(* with other settings.                                                    *)
Stop ==
    /\ method' = Nothing
    /\ setting' \in Setting
    /\ setting' # setting => changes < MaxChanges
    /\ changes' = IF setting' = setting THEN changes ELSE changes + 1
    /\ tokens' = [class \in Class |-> Nothing]
    /\ cache' = [op \in Operation |-> Nothing]
    /\ call' = [c \in Caller |-> IdleCall]
    /\ UNCHANGED <<app, trusted, failed>>

Begins(c, op, outcome, pc, token) ==
    call' = [call EXCEPT ![c] =
        [pc |-> pc, operation |-> op, token |-> token, outcome |-> outcome,
         lacked |-> Scopes \ app]]

(* A GET that hits the cache goes no further, whatever has become of the   *)
(* credentials.                                                            *)
AnswerFromCache(c, op) ==
    /\ call[c].pc = "idle"
    /\ method # Nothing
    /\ Offered(op)
    /\ Hit(op)
    /\ Begins(c, op, IF cache[op] = "page" THEN "cached" ELSE "undecodable",
              "done", Nothing)
    /\ UNCHANGED <<setting, method, app, trusted, tokens, cache, changes, failed>>

(* Ramp refuses the token for a scope the app lacks, or the credentials.   *)
classifyTokenError == IF trusted THEN "missing_scope" ELSE "bad_credentials"

(* RoundTrip: the class's source gives the token it holds, or asks Ramp    *)
(* for one with all the scopes of the class.  Nothing remembers a refusal. *)
AskToken(c, op) ==
    LET class == forClass(scopeClass(op))
        held  == tokens[class]
        asked == [scopes |-> RequestedScopes(class), live |-> TRUE]
    IN  /\ call[c].pc = "idle"
        /\ method # Nothing
        /\ Offered(op)
        /\ ~Hit(op)
        /\ IF held # Nothing
             THEN /\ Begins(c, op, "none", "send", held)
                  /\ UNCHANGED tokens
           ELSE IF trusted /\ asked.scopes \subseteq app
             THEN /\ Begins(c, op, "none", "send", asked)
                  /\ tokens' = [tokens EXCEPT ![class] = asked]
           ELSE /\ Begins(c, op, classifyTokenError, "done", Nothing)
                /\ UNCHANGED tokens
        /\ UNCHANGED <<setting, method, app, trusted, cache, changes, failed>>

(* The token endpoint is out of reach, or answers with another error.      *)
TokenFails(c, op) ==
    /\ call[c].pc = "idle"
    /\ method = "client_credentials"
    /\ Offered(op)
    /\ ~Hit(op)
    /\ tokens[forClass(scopeClass(op))] = Nothing
    /\ failed < MaxFailed
    /\ failed' = failed + 1
    /\ Begins(c, op, "no_token", "done", Nothing)
    /\ UNCHANGED <<setting, method, app, trusted, tokens, cache, changes>>

(* Ramp accepts the request or not, as the token then stands.              *)
Accepts(token, op) == token.live /\ NeededScope(op) \in token.scopes

Ends(c, outcome) ==
    call' = [call EXCEPT ![c].pc = "done", ![c].outcome = outcome]

RampAnswers(c) ==
    /\ call[c].pc = "send"
    /\ LET op == call[c].operation
       IN  IF Accepts(call[c].token, op)
             THEN /\ Ends(c, "answered")
                  /\ cache' = IF Cached(op) THEN [cache EXCEPT ![op] = "page"]
                                            ELSE cache
             ELSE /\ Ends(c, "forbidden")
                  /\ UNCHANGED cache
    /\ UNCHANGED <<setting, method, app, trusted, tokens, changes, failed>>

(* A 200 whose body does not decode fails the call, and is cached.         *)
AnswerUndecodable(c) ==
    /\ call[c].pc = "send"
    /\ Accepts(call[c].token, call[c].operation)
    /\ failed < MaxFailed
    /\ failed' = failed + 1
    /\ Ends(c, "undecodable")
    /\ cache' = IF Cached(call[c].operation)
                  THEN [cache EXCEPT ![call[c].operation] = "undecodable"]
                  ELSE cache
    /\ UNCHANGED <<setting, method, app, trusted, tokens, changes>>

Returns(c) ==
    /\ call[c].pc = "done"
    /\ call' = [call EXCEPT ![c] = IdleCall]
    /\ UNCHANGED <<setting, method, app, trusted, tokens, cache, changes, failed>>

-----------------------------------------------------------------------------
(* A token of a source reaches its expiry; an access token never does.     *)
TokenKept(class) == FALSE /\ UNCHANGED vars

TokenExpires(class) ==
    /\ method = "client_credentials"
    /\ tokens[class] # Nothing
    /\ tokens' = [tokens EXCEPT ![class] = Nothing]
    /\ UNCHANGED <<setting, method, app, trusted, cache, call, changes, failed>>

(* A cached answer reaches its TTL, or a full sync that succeeded clears   *)
(* the cache of it.                                                        *)
Expire(op) ==
    /\ cache[op] # Nothing
    /\ cache' = [cache EXCEPT ![op] = Nothing]
    /\ UNCHANGED <<setting, method, app, trusted, tokens, call, changes, failed>>

(* Someone adds a scope to the app or takes one away.                      *)
ChangeScope(s) ==
    /\ changes < MaxChanges
    /\ changes' = changes + 1
    /\ app' = IF s \in app THEN app \ {s} ELSE app \cup {s}
    /\ call' = [c \in Caller |-> IF call[c].pc = "idle" THEN call[c]
                 ELSE [call[c] EXCEPT !.lacked = @ \cup (Scopes \ app')]]
    /\ UNCHANGED <<setting, method, trusted, tokens, cache, failed>>

(* The credentials are rejected from now on, or accepted again; tokens     *)
(* issued before may be revoked with them.                                 *)
ChangeCredentials(revoked) ==
    /\ changes < MaxChanges
    /\ changes' = changes + 1
    /\ trusted' = ~trusted
    /\ tokens' = [class \in Class |->
          IF revoked /\ tokens[class] # Nothing
            THEN [tokens[class] EXCEPT !.live = FALSE] ELSE tokens[class]]
    /\ call' = [c \in Caller |->
          IF revoked /\ call[c].token # Nothing
            THEN [call[c] EXCEPT !.token.live = FALSE] ELSE call[c]]
    /\ UNCHANGED <<setting, method, app, cache, failed>>

Calls(op) == \E c \in Caller : AnswerFromCache(c, op) \/ AskToken(c, op)

Next ==
    \/ Start \/ Stop
    \/ \E c \in Caller :
          \/ \E op \in Operation :
                AnswerFromCache(c, op) \/ AskToken(c, op) \/ TokenFails(c, op)
          \/ RampAnswers(c) \/ AnswerUndecodable(c) \/ Returns(c)
    \/ \E class \in Class : TokenExpires(class)
    \/ \E op \in Operation : Expire(op)
    \/ \E s \in Scopes : ChangeScope(s)
    \/ \E revoked \in BOOLEAN : ChangeCredentials(revoked)

Spec == Init /\ [][Next]_vars

(* The platform starts the process and keeps asking for every operation,   *)
(* calls end, and tokens and cached answers expire.                        *)
Fairness ==
    /\ WF_vars(Start)
    /\ \A op \in Operation : SF_vars(Calls(op)) /\ WF_vars(Expire(op))
    /\ \A c \in Caller : WF_vars(RampAnswers(c)) /\ WF_vars(Returns(c))
    /\ \A class \in Class : WF_vars(TokenExpires(class))

FairSpec == Spec /\ Fairness

-----------------------------------------------------------------------------
(* The GETs whose answer another call may be given.                        *)
ReadsThatMayBeStale ==
    {"ListUsers", "ListVendors", "GetVendor", "GetVendorAgreement",
     "ListAuditLogEvents"}

(* Types; a call that is under way has a token, no POST or PATCH leaves an *)
(* answer in the cache, and only a GET that may use one is answered from   *)
(* it: CreateUser's look-up by email always asks Ramp.                     *)
TypeOK ==
    /\ setting \in Setting
    /\ method \in AuthMethod \cup {Nothing}
    /\ app \in SUBSET Scopes
    /\ trusted \in BOOLEAN
    /\ tokens \in [Class -> Token \cup {Nothing}]
    /\ cache \in [Operation -> {"page", "undecodable", Nothing}]
    /\ \A op \in Operation : cache[op] # Nothing =>
          op \in ReadsThatMayBeStale \cup {"FindUserByEmail"}
    /\ call \in [Caller -> Call]
    /\ \A c \in Caller : call[c].outcome = "cached" =>
          call[c].operation \in ReadsThatMayBeStale
    /\ \A c \in Caller : call[c].pc = "send" => call[c].token # Nothing
    /\ changes \in 0..MaxChanges
    /\ failed \in 0..MaxFailed

(* A process runs only on a complete set of credentials, and on the access *)
(* token, when there is anything of the OAuth credentials, only if told to:*)
(* half of the OAuth credentials is never quietly passed over.             *)
RunsAsConfigured ==
    method # Nothing =>
        /\ method = "access_token" => setting.token
        /\ method = "client_credentials" => setting.clientID /\ setting.secret
        /\ setting.authMethod \in {"", method}
        /\ (setting.clientID \/ setting.secret) /\ method = "access_token" =>
              setting.authMethod = "access_token"

(* What the README asks the app to have for an operation: the read scopes, *)
(* the audit log's when polling is enabled, and the operation's own.       *)
DocumentedScopes(op) ==
    {"users:read", "vendors:read", NeededScope(op)}
      \cup IF setting.auditLogEvents THEN {"audit_logs:read"} ELSE {}

(* "Each is optional and independent": no call fails for the want of a     *)
(* scope it does not need, a write scope or the audit log's.               *)
ScopesIndependent ==
    \A c \in Caller : call[c].outcome = "missing_scope" =>
        DocumentedScopes(call[c].operation) \cap call[c].lacked # {}

(* "A write scope is requested only when an operation that needs it runs": *)
(* no request carries a write scope other than its own.                    *)
LeastPrivilege ==
    method = "client_credentials" =>
        \A c \in Caller : call[c].pc = "send" =>
            call[c].token.scopes \cap WriteScopes
              \subseteq {NeededScope(call[c].operation)}

(* An operation succeeds: Ramp or the cache answers it.                    *)
Succeeds(op) ==
    \E c \in Caller : /\ call[c].operation = op
                      /\ call[c].outcome \in {"answered", "cached"}

Entitled(op) ==
    /\ method = "client_credentials"
    /\ trusted
    /\ Offered(op)
    /\ DocumentedScopes(op) \subseteq app

(* No refusal sticks: once the app has what an operation needs and stays   *)
(* that way, the operation succeeds again and again, whatever tokens were  *)
(* revoked, refused or issued before, and whatever answers were cached.    *)
WorksAgain ==
    \A op \in Operation : <>[]Entitled(op) => []<>Succeeds(op)
=============================================================================
