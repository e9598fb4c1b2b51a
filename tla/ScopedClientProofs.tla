------------------------- MODULE ScopedClientProofs -------------------------
(***************************************************************************)
(* Theorems about ScopedClient: types, and which scopes a request carries, *)
(* which a refusal is about, and which credentials a connector runs on,    *)
(* for any settings, operations, app and number of threads.                *)
(***************************************************************************)
EXTENDS ScopedClient, TLAPS

LEMMA Bounds == MaxChanges \in Nat /\ MaxFailed \in Nat
BY ScopedClientAssumption

(* A counter short of its bound may be raised by one.                      *)
LEMMA Counts ==
    ASSUME NEW Bound \in Nat, NEW n \in 0..Bound, n < Bound
    PROVE  n + 1 \in 0..Bound
OBVIOUS

(* The scopes of a class: known ones, those the operations of the class    *)
(* are documented to need, and no write scope but theirs.                  *)
LEMMA ScopeFacts ==
    ASSUME NEW op \in Operations, TypeOK
    PROVE  /\ scopeClass(op) \in Class
           /\ forClass(scopeClass(op)) \in Class
           /\ method = "client_credentials" => forClass(scopeClass(op)) = scopeClass(op)
           /\ RequestedScopes(scopeClass(op)) \cap WriteScopes
                \subseteq {NeededScope(op)}
           /\ RequestedScopes(forClass(scopeClass(op)))
                \subseteq DocumentedScopes(op)
<1>1. CASE op \in UserWrites
  <2>1. scopeClass(op) = "users_write" /\ NeededScope(op) = "users:write"
    BY <1>1 DEF scopeClass, NeededScope, UserWrites, Reads
  <2> QED
    BY <2>1 DEF forClass, Class, RequestedScopes, readScopes, WriteScopes,
                DocumentedScopes
<1>2. CASE op = "UpdateVendorOwner"
  <2>1. scopeClass(op) = "vendors_write" /\ NeededScope(op) = "vendors:write"
    BY <1>2 DEF scopeClass, NeededScope, UserWrites, Reads
  <2> QED
    BY <2>1 DEF forClass, Class, RequestedScopes, readScopes, WriteScopes,
                DocumentedScopes
<1>3. CASE op \in Reads
  <2>1. scopeClass(op) = "read"
    BY <1>3 DEF scopeClass, Reads, UserWrites
  <2> QED
    BY <2>1 DEF forClass, Class, RequestedScopes, readScopes, WriteScopes,
                DocumentedScopes
<1> QED BY <1>1, <1>2, <1>3 DEF Operations

LEMMA RequestedIsScopes ==
    ASSUME NEW class \in Class
    PROVE  RequestedScopes(class) \in SUBSET Scopes
BY DEF RequestedScopes, readScopes, Class, Scopes, ReadScopes, WriteScopes

(* What Begins and Ends make of the calls.                                 *)
LEMMA BeginsEffect ==
    ASSUME TypeOK, NEW c \in Caller, NEW op \in Operation,
           NEW outcome \in Outcome, NEW pc \in {"send", "done"},
           NEW token \in Token \cup {Nothing}, pc = "send" => token # Nothing,
           Begins(c, op, outcome, pc, token)
    PROVE  /\ call' \in [Caller -> Call]
           /\ \A d \in Caller \ {c} : call'[d] = call[d]
           /\ call'[c] = [pc |-> pc, operation |-> op, token |-> token,
                          outcome |-> outcome, lacked |-> Scopes \ app]
           /\ \A d \in Caller : call'[d].pc = "send" => call'[d].token # Nothing
<1> DEFINE new == [pc |-> pc, operation |-> op, token |-> token,
                   outcome |-> outcome, lacked |-> Scopes \ app]
<1>1. new \in Call
  BY ScopedClientAssumption DEF Call
<1>2. /\ call' = [call EXCEPT ![c] = new]
      /\ call \in [Caller -> Call]
      /\ \A d \in Caller : call[d].pc = "send" => call[d].token # Nothing
  BY DEF Begins, TypeOK
<1>3. new.pc = pc /\ new.token = token
  OBVIOUS
<1> HIDE DEF new
<1>4. /\ call' \in [Caller -> Call]
      /\ \A d \in Caller \ {c} : call'[d] = call[d]
      /\ call'[c] = new
  BY <1>1, <1>2
<1> QED BY <1>2, <1>3, <1>4 DEF new

(* A call that begins is answered from the cache only if it may be.        *)
LEMMA BeginsFresh ==
    ASSUME TypeOK, NEW c \in Caller, NEW op \in Operation,
           NEW outcome \in Outcome, NEW pc \in {"send", "done"},
           NEW token \in Token \cup {Nothing}, pc = "send" => token # Nothing,
           Begins(c, op, outcome, pc, token),
           outcome = "cached" => op \in ReadsThatMayBeStale
    PROVE  \A d \in Caller : call'[d].outcome = "cached" =>
              call'[d].operation \in ReadsThatMayBeStale
<1>1. /\ \A d \in Caller \ {c} : call'[d] = call[d]
      /\ call'[c] = [pc |-> pc, operation |-> op, token |-> token,
                     outcome |-> outcome, lacked |-> Scopes \ app]
  BY BeginsEffect
<1>2. call'[c].outcome = outcome /\ call'[c].operation = op
  BY <1>1
<1> QED BY <1>1, <1>2 DEF TypeOK

LEMMA EndsEffect ==
    ASSUME TypeOK, NEW c \in Caller, NEW outcome \in Outcome, Ends(c, outcome)
    PROVE  /\ call' \in [Caller -> Call]
           /\ \A d \in Caller \ {c} : call'[d] = call[d]
           /\ call'[c].pc = "done" /\ call'[c].outcome = outcome
           /\ call'[c].operation = call[c].operation
<1> DEFINE new == [call[c] EXCEPT !.pc = "done", !.outcome = outcome]
<1>1. call \in [Caller -> Call] /\ call[c] \in Call
  BY DEF TypeOK
<1>2. /\ new \in Call /\ new.pc = "done" /\ new.outcome = outcome
      /\ new.operation = call[c].operation
  BY <1>1 DEF Call
<1>3. call' = [call EXCEPT ![c] = new]
  BY <1>1 DEF Ends
<1> HIDE DEF new
<1> QED BY <1>1, <1>2, <1>3

(* What a change of credentials does to a token, held or in a request: its *)
(* scopes stay.                                                            *)
LEMMA RevokedToken ==
    ASSUME NEW t \in Token
    PROVE  /\ [t EXCEPT !.live = FALSE] \in Token
           /\ [t EXCEPT !.live = FALSE].scopes = t.scopes
BY DEF Token

LEMMA CredentialsEffect ==
    ASSUME TypeOK, NEW revoked \in BOOLEAN, ChangeCredentials(revoked)
    PROVE  /\ tokens' \in [Class -> Token \cup {Nothing}]
           /\ \A class \in Class : tokens'[class] # Nothing =>
                 /\ tokens[class] # Nothing
                 /\ tokens'[class].scopes = tokens[class].scopes
           /\ call' \in [Caller -> Call]
           /\ \A c \in Caller :
                 /\ call'[c].pc = call[c].pc
                 /\ call'[c].operation = call[c].operation
                 /\ call'[c].outcome = call[c].outcome
                 /\ call'[c].lacked = call[c].lacked
                 /\ call[c].token # Nothing =>
                       /\ call'[c].token # Nothing
                       /\ call'[c].token.scopes = call[c].token.scopes
<1>1. /\ tokens \in [Class -> Token \cup {Nothing}]
      /\ call \in [Caller -> Call]
      /\ Nothing \notin Token
  BY ScopedClientAssumption DEF TypeOK, Token
<1>2. \A class \in Class :
         tokens'[class] = IF revoked /\ tokens[class] # Nothing
                            THEN [tokens[class] EXCEPT !.live = FALSE]
                            ELSE tokens[class]
  BY DEF ChangeCredentials
<1>3. /\ tokens' \in [Class -> Token \cup {Nothing}]
      /\ \A class \in Class : tokens'[class] # Nothing =>
            /\ tokens[class] # Nothing
            /\ tokens'[class].scopes = tokens[class].scopes
  <2>1. \A class \in Class :
           /\ tokens'[class] \in Token \cup {Nothing}
           /\ tokens'[class] # Nothing =>
                 /\ tokens[class] # Nothing
                 /\ tokens'[class].scopes = tokens[class].scopes
    BY <1>1, <1>2, RevokedToken
  <2>2. tokens' = [class \in Class |-> tokens'[class]]
    BY DEF ChangeCredentials
  <2> QED BY <2>1, <2>2
<1>4. ASSUME NEW c \in Caller
      PROVE  /\ call'[c] \in Call
             /\ call'[c].pc = call[c].pc
             /\ call'[c].operation = call[c].operation
             /\ call'[c].outcome = call[c].outcome
             /\ call'[c].lacked = call[c].lacked
             /\ call[c].token # Nothing =>
                   /\ call'[c].token # Nothing
                   /\ call'[c].token.scopes = call[c].token.scopes
  <2> DEFINE t   == [call[c].token EXCEPT !.live = FALSE]
             new == [call[c] EXCEPT !.token = t]
  <2>1. call[c] \in Call /\ call[c].token \in Token \cup {Nothing}
    BY <1>1 DEF Call
  <2>2. CASE revoked /\ call[c].token # Nothing
    <3>1. t \in Token /\ t.scopes = call[c].token.scopes
      BY <2>1, <2>2, RevokedToken
    <3>2. call'[c] = new
      BY <2>2 DEF ChangeCredentials
    <3> HIDE DEF t
    <3>3. /\ new \in Call /\ new.token = t /\ new.pc = call[c].pc
          /\ new.operation = call[c].operation
          /\ new.outcome = call[c].outcome /\ new.lacked = call[c].lacked
      BY <2>1, <3>1 DEF Call
    <3> QED BY <1>1, <3>1, <3>2, <3>3
  <2>3. CASE ~(revoked /\ call[c].token # Nothing)
    <3>1. call'[c] = call[c]
      BY <2>3 DEF ChangeCredentials
    <3> QED BY <2>1, <3>1
  <2> QED BY <2>2, <2>3
<1>5. call' \in [Caller -> Call]
  <2>1. call' = [c \in Caller |-> call'[c]]
    BY DEF ChangeCredentials
  <2> QED BY <1>4, <2>1
<1> QED BY <1>3, <1>4, <1>5

(* A change to the app leaves of each call all but what it has been        *)
(* without, which can only grow.                                           *)
LEMMA ScopeEffect ==
    ASSUME TypeOK, NEW s \in Scopes, ChangeScope(s)
    PROVE  /\ app' \in SUBSET Scopes
           /\ call' \in [Caller -> Call]
           /\ \A c \in Caller :
                 /\ call'[c].pc = call[c].pc
                 /\ call'[c].operation = call[c].operation
                 /\ call'[c].token = call[c].token
                 /\ call'[c].outcome = call[c].outcome
                 /\ call[c].lacked \subseteq call'[c].lacked
<1>1. app' \in SUBSET Scopes
  BY DEF TypeOK, ChangeScope
<1>2. ASSUME NEW c \in Caller
      PROVE  /\ call'[c] \in Call
             /\ call'[c].pc = call[c].pc
             /\ call'[c].operation = call[c].operation
             /\ call'[c].token = call[c].token
             /\ call'[c].outcome = call[c].outcome
             /\ call[c].lacked \subseteq call'[c].lacked
  <2> DEFINE new == [call[c] EXCEPT !.lacked = @ \cup (Scopes \ app')]
  <2>1. call[c] \in Call
    BY DEF TypeOK
  <2>2. call'[c] = IF call[c].pc = "idle" THEN call[c] ELSE new
    BY DEF ChangeScope
  <2>3. /\ new \in Call /\ new.pc = call[c].pc
        /\ new.operation = call[c].operation /\ new.token = call[c].token
        /\ new.outcome = call[c].outcome
        /\ call[c].lacked \subseteq new.lacked
    BY <2>1 DEF Call
  <2> HIDE DEF new
  <2> QED BY <2>1, <2>2, <2>3
<1>3. call' = [c \in Caller |-> call'[c]]
  BY DEF ChangeScope
<1> QED BY <1>1, <1>2, <1>3

LEMMA IdleCallType ==
    IdleCall \in Call /\ IdleCall.pc = "idle" /\ IdleCall.outcome = "none"
BY DEF IdleCall, Call, Outcome, Operations, Reads

-----------------------------------------------------------------------------
(* The start and the end of a process keep the types.                      *)
LEMMA TypeStart == TypeOK /\ Start => TypeOK'
<1> SUFFICES ASSUME TypeOK, Start PROVE TypeOK'
  OBVIOUS
<1>1. SelectedMethod(setting) \in AuthMethod
  BY DEF Start, Validates, AuthMethod
<1>2. tokens' \in [Class -> Token \cup {Nothing}]
  BY DEF Start, TokenSources, TypeOK, Token
<1> QED BY <1>1, <1>2 DEF TypeOK, Start

LEMMA TypeStop == TypeOK /\ Stop => TypeOK'
<1> SUFFICES ASSUME TypeOK, Stop PROVE TypeOK'
  OBVIOUS
<1>1. changes' \in 0..MaxChanges
  <2>1. changes \in 0..MaxChanges
    BY DEF TypeOK
  <2>2. changes' = changes \/ (changes < MaxChanges /\ changes' = changes + 1)
    BY DEF Stop
  <2> QED BY <2>1, <2>2, Bounds, Counts
<1>2. /\ tokens' \in [Class -> Token \cup {Nothing}]
      /\ cache' \in [Operation -> {"page", "undecodable", Nothing}]
      /\ \A op \in Operation : cache'[op] = Nothing
  BY DEF Stop
<1>3. /\ call' \in [Caller -> Call]
      /\ \A c \in Caller : call'[c].pc # "send" /\ call'[c].outcome = "none"
  BY IdleCallType DEF Stop
<1> QED BY <1>1, <1>2, <1>3 DEF TypeOK, Stop

(* The steps of a call keep the types.                                     *)
LEMMA TypeAnswerFromCache ==
    ASSUME TypeOK, NEW c \in Caller, NEW op \in Operation,
           AnswerFromCache(c, op)
    PROVE  TypeOK'
<1> DEFINE outcome == IF cache[op] = "page" THEN "cached" ELSE "undecodable"
<1>1. outcome \in Outcome /\ "done" \in {"send", "done"}
      /\ Nothing \in Token \cup {Nothing}
  BY DEF Outcome
<1>2. /\ Begins(c, op, outcome, "done", Nothing)
      /\ op \in ReadsThatMayBeStale
  BY DEF AnswerFromCache, Hit, TypeOK
<1> HIDE DEF outcome
<1>3. /\ call' \in [Caller -> Call]
      /\ \A d \in Caller : call'[d].pc = "send" => call'[d].token # Nothing
      /\ \A d \in Caller : call'[d].outcome = "cached" =>
            call'[d].operation \in ReadsThatMayBeStale
  BY <1>1, <1>2, BeginsEffect, BeginsFresh
<1> QED BY <1>3 DEF TypeOK, AnswerFromCache

LEMMA TypeAskToken ==
    ASSUME TypeOK, NEW c \in Caller, NEW op \in Operation, AskToken(c, op)
    PROVE  TypeOK'
<1> DEFINE class == forClass(scopeClass(op))
           asked == [scopes |-> RequestedScopes(class), live |-> TRUE]
<1>1. op \in Operations /\ class \in Class
  BY ScopeFacts, ScopedClientAssumption
<1>2. /\ tokens[class] \in Token \cup {Nothing}
      /\ asked \in Token /\ Nothing \notin Token
      /\ "none" \in Outcome /\ "send" \in {"send", "done"}
      /\ "done" \in {"send", "done"} /\ classifyTokenError \in Outcome
      /\ classifyTokenError # "cached" /\ "none" # "cached"
      /\ Nothing \in Token \cup {Nothing}
  BY <1>1, RequestedIsScopes, ScopedClientAssumption
     DEF Token, TypeOK, Outcome, classifyTokenError
<1>3. \/ Begins(c, op, "none", "send", tokens[class])
         /\ tokens[class] # Nothing /\ UNCHANGED tokens
      \/ Begins(c, op, "none", "send", asked)
         /\ tokens' = [tokens EXCEPT ![class] = asked]
      \/ Begins(c, op, classifyTokenError, "done", Nothing) /\ UNCHANGED tokens
  BY DEF AskToken
<1> HIDE DEF class, asked
<1>4. /\ call' \in [Caller -> Call]
      /\ \A d \in Caller : call'[d].pc = "send" => call'[d].token # Nothing
      /\ \A d \in Caller : call'[d].outcome = "cached" =>
            call'[d].operation \in ReadsThatMayBeStale
  <2>1. CASE Begins(c, op, "none", "send", tokens[class]) /\ tokens[class] # Nothing
    BY <2>1, <1>2, BeginsEffect, BeginsFresh
  <2>2. CASE Begins(c, op, "none", "send", asked)
    <3>1. asked \in Token \cup {Nothing} /\ asked # Nothing
      BY <1>2
    <3> QED BY <2>2, <3>1, <1>2, BeginsEffect, BeginsFresh
  <2>3. CASE Begins(c, op, classifyTokenError, "done", Nothing)
    BY <2>3, <1>2, BeginsEffect, BeginsFresh
  <2> QED BY <1>3, <2>1, <2>2, <2>3
<1>5. tokens' \in [Class -> Token \cup {Nothing}]
  BY <1>1, <1>2, <1>3 DEF TypeOK
<1> QED BY <1>4, <1>5 DEF TypeOK, AskToken

LEMMA TypeTokenFails ==
    ASSUME TypeOK, NEW c \in Caller, NEW op \in Operation, TokenFails(c, op)
    PROVE  TypeOK'
<1>1. "no_token" \in Outcome /\ "no_token" # "cached" /\ "done" \in {"send", "done"}
      /\ Nothing \in Token \cup {Nothing}
      /\ Begins(c, op, "no_token", "done", Nothing)
  BY DEF Outcome, TokenFails
<1>2. /\ call' \in [Caller -> Call]
      /\ \A d \in Caller : call'[d].pc = "send" => call'[d].token # Nothing
      /\ \A d \in Caller : call'[d].outcome = "cached" =>
            call'[d].operation \in ReadsThatMayBeStale
  BY <1>1, BeginsEffect, BeginsFresh
<1>3. failed' \in 0..MaxFailed
  <2>1. failed \in 0..MaxFailed
    BY DEF TypeOK
  <2>2. failed < MaxFailed /\ failed' = failed + 1
    BY DEF TokenFails
  <2> QED BY <2>1, <2>2, Bounds, Counts
<1> QED BY <1>2, <1>3 DEF TypeOK, TokenFails

(* What is cached: every GET, whether it may be answered from there or not.*)
LEMMA CachedReads ==
    \A op \in Operation : Cached(op) =>
       op \in ReadsThatMayBeStale \cup {"FindUserByEmail"}
BY DEF Cached, Reads, ReadsThatMayBeStale

LEMMA TypeRampAnswers ==
    ASSUME TypeOK, NEW c \in Caller, RampAnswers(c)
    PROVE  TypeOK'
<1> DEFINE op == call[c].operation
<1>1. "answered" \in Outcome /\ "forbidden" \in Outcome
  BY DEF Outcome
<1>2. Ends(c, "answered") \/ Ends(c, "forbidden")
  BY DEF RampAnswers
<1>3. /\ call' \in [Caller -> Call]
      /\ \A d \in Caller : call'[d].pc = "send" => call'[d].token # Nothing
      /\ \A d \in Caller : call'[d].outcome = "cached" =>
            call'[d].operation \in ReadsThatMayBeStale
  BY <1>1, <1>2, EndsEffect DEF TypeOK
<1>4. cache' = cache \/ (Cached(op) /\ cache' = [cache EXCEPT ![op] = "page"])
  BY DEF RampAnswers
<1>5. /\ cache' \in [Operation -> {"page", "undecodable", Nothing}]
      /\ \A o \in Operation : cache'[o] # Nothing => cache[o] # Nothing \/ Cached(o)
  BY <1>4 DEF TypeOK
<1> QED BY <1>3, <1>5, CachedReads DEF TypeOK, RampAnswers

LEMMA TypeAnswerUndecodable ==
    ASSUME TypeOK, NEW c \in Caller, AnswerUndecodable(c)
    PROVE  TypeOK'
<1> DEFINE op == call[c].operation
<1>1. "undecodable" \in Outcome /\ Ends(c, "undecodable")
  BY DEF Outcome, AnswerUndecodable
<1>2. /\ call' \in [Caller -> Call]
      /\ \A d \in Caller : call'[d].pc = "send" => call'[d].token # Nothing
      /\ \A d \in Caller : call'[d].outcome = "cached" =>
            call'[d].operation \in ReadsThatMayBeStale
  BY <1>1, EndsEffect DEF TypeOK
<1>3. cache' = cache
      \/ (Cached(op) /\ cache' = [cache EXCEPT ![op] = "undecodable"])
  BY DEF AnswerUndecodable
<1>4. /\ cache' \in [Operation -> {"page", "undecodable", Nothing}]
      /\ \A o \in Operation : cache'[o] # Nothing => cache[o] # Nothing \/ Cached(o)
  BY <1>3 DEF TypeOK
<1>5. failed' \in 0..MaxFailed
  <2>1. failed \in 0..MaxFailed
    BY DEF TypeOK
  <2>2. failed < MaxFailed /\ failed' = failed + 1
    BY DEF AnswerUndecodable
  <2> QED BY <2>1, <2>2, Bounds, Counts
<1> QED BY <1>2, <1>4, <1>5, CachedReads DEF TypeOK, AnswerUndecodable

LEMMA TypeReturns ==
    ASSUME TypeOK, NEW c \in Caller, Returns(c)
    PROVE  TypeOK'
<1>1. /\ call' \in [Caller -> Call]
      /\ \A d \in Caller : call'[d].pc = "send" => call'[d].token # Nothing
      /\ \A d \in Caller : call'[d].outcome = "cached" =>
            call'[d].operation \in ReadsThatMayBeStale
  BY IdleCallType DEF TypeOK, Returns
<1> QED BY <1>1 DEF TypeOK, Returns

(* So do the changes around it.                                            *)
LEMMA TypeTokenExpires ==
    ASSUME TypeOK, NEW class \in Class, TokenExpires(class)
    PROVE  TypeOK'
BY DEF TypeOK, TokenExpires

LEMMA TypeExpire ==
    ASSUME TypeOK, NEW op \in Operation, Expire(op)
    PROVE  TypeOK'
<1>1. /\ cache' \in [Operation -> {"page", "undecodable", Nothing}]
      /\ \A o \in Operation : cache'[o] # Nothing => cache[o] # Nothing
  BY DEF TypeOK, Expire
<1> QED BY <1>1 DEF TypeOK, Expire

LEMMA TypeChangeScope ==
    ASSUME TypeOK, NEW s \in Scopes, ChangeScope(s)
    PROVE  TypeOK'
<1>1. changes' \in 0..MaxChanges
  <2>1. changes \in 0..MaxChanges
    BY DEF TypeOK
  <2>2. changes < MaxChanges /\ changes' = changes + 1
    BY DEF ChangeScope
  <2> QED BY <2>1, <2>2, Bounds, Counts
<1>2. /\ app' \in SUBSET Scopes /\ call' \in [Caller -> Call]
      /\ \A c \in Caller :
            /\ call'[c].pc = call[c].pc /\ call'[c].token = call[c].token
            /\ call'[c].outcome = call[c].outcome
            /\ call'[c].operation = call[c].operation
  BY ScopeEffect
<1> QED BY <1>1, <1>2 DEF TypeOK, ChangeScope

LEMMA TypeChangeCredentials ==
    ASSUME TypeOK, NEW revoked \in BOOLEAN, ChangeCredentials(revoked)
    PROVE  TypeOK'
<1>1. changes' \in 0..MaxChanges /\ trusted' \in BOOLEAN
  <2>1. changes \in 0..MaxChanges
    BY DEF TypeOK
  <2>2. changes < MaxChanges /\ changes' = changes + 1 /\ trusted' = ~trusted
    BY DEF ChangeCredentials
  <2> QED BY <2>1, <2>2, Bounds, Counts
<1>2. /\ tokens' \in [Class -> Token \cup {Nothing}]
      /\ call' \in [Caller -> Call]
      /\ \A c \in Caller :
            /\ call'[c].pc = call[c].pc
            /\ call'[c].outcome = call[c].outcome
            /\ call'[c].operation = call[c].operation
            /\ call[c].token # Nothing => call'[c].token # Nothing
  BY CredentialsEffect
<1> QED BY <1>1, <1>2 DEF TypeOK, ChangeCredentials

LEMMA TypeNext == TypeOK /\ [Next]_vars => TypeOK'
<1> SUFFICES ASSUME TypeOK, [Next]_vars PROVE TypeOK'
  OBVIOUS
<1>1. CASE Start
  BY <1>1, TypeStart
<1>2. CASE Stop
  BY <1>2, TypeStop
<1>3. CASE \E c \in Caller, op \in Operation :
              AnswerFromCache(c, op) \/ AskToken(c, op) \/ TokenFails(c, op)
  BY <1>3, TypeAnswerFromCache, TypeAskToken, TypeTokenFails
<1>4. CASE \E c \in Caller : RampAnswers(c) \/ AnswerUndecodable(c) \/ Returns(c)
  BY <1>4, TypeRampAnswers, TypeAnswerUndecodable, TypeReturns
<1>5. CASE \E class \in Class : TokenExpires(class)
  BY <1>5, TypeTokenExpires
<1>6. CASE \E op \in Operation : Expire(op)
  BY <1>6, TypeExpire
<1>7. CASE \E s \in Scopes : ChangeScope(s)
  BY <1>7, TypeChangeScope
<1>8. CASE \E revoked \in BOOLEAN : ChangeCredentials(revoked)
  BY <1>8, TypeChangeCredentials
<1>9. CASE UNCHANGED vars
  BY <1>9 DEF TypeOK, vars
<1> QED BY <1>1, <1>2, <1>3, <1>4, <1>5, <1>6, <1>7, <1>8, <1>9 DEF Next

LEMMA TypeInit == Init => TypeOK
<1> SUFFICES ASSUME Init PROVE TypeOK
  OBVIOUS
<1>1. /\ call \in [Caller -> Call]
      /\ \A c \in Caller : call[c].pc # "send" /\ call[c].outcome = "none"
  BY IdleCallType DEF Init
<1>2. /\ tokens \in [Class -> Token \cup {Nothing}]
      /\ cache \in [Operation -> {"page", "undecodable", Nothing}]
      /\ \A op \in Operation : cache[op] = Nothing
  BY DEF Init
<1>3. setting \in Setting /\ app \in SUBSET Scopes
  BY ScopedClientAssumption DEF Init
<1>4. changes \in 0..MaxChanges /\ failed \in 0..MaxFailed
  BY Bounds DEF Init
<1> QED BY <1>1, <1>2, <1>3, <1>4 DEF Init, TypeOK

(* The types hold throughout; in particular a request always has a token,  *)
(* no POST or PATCH is kept in the cache, and the look-up by email, though *)
(* its answer is kept like any GET's, is never answered from there (query  *)
(* and queryUncached in pkg/client/helpers.go).                            *)
THEOREM TypeCorrect == Spec => []TypeOK
BY TypeInit, TypeNext, PTL DEF Spec

-----------------------------------------------------------------------------
(* With no connector there is no request; a connector's method is the one  *)
(* its settings select, and they validate.                                 *)
RunInv ==
    /\ method = Nothing => \A c \in Caller : call[c].pc # "send"
    /\ method # Nothing => method = SelectedMethod(setting) /\ Validates(setting)

(* Of OAuth tokens, each source holds, and each request carries, one with  *)
(* just the scopes of its class.                                           *)
TokenInv ==
    method = "client_credentials" =>
        /\ \A class \in Class : tokens[class] # Nothing =>
              tokens[class].scopes = RequestedScopes(class)
        /\ \A c \in Caller : call[c].pc = "send" =>
              call[c].token.scopes = RequestedScopes(scopeClass(call[c].operation))

(* Steps other than a start or an end leave the settings and the method.   *)
LEMMA RunInvNext == TypeOK /\ RunInv /\ [Next]_vars => RunInv'
<1> SUFFICES ASSUME TypeOK, RunInv, [Next]_vars PROVE RunInv'
  OBVIOUS
<1>1. CASE Start
  <2>1. \A c \in Caller : call'[c].pc # "send"
    BY <1>1 DEF Start, RunInv
  <2>2. method' = SelectedMethod(setting) /\ Validates(setting)
        /\ setting' = setting
    BY <1>1 DEF Start
  <2> QED BY <2>1, <2>2 DEF RunInv, SelectedMethod, AutoSelectAuthMethod, Validates
<1>2. CASE Stop
  BY <1>2, IdleCallType DEF Stop, RunInv
<1> DEFINE Kept == setting' = setting /\ method' = method
<1>3. ASSUME Kept, \A c \in Caller : call'[c].pc = "send" =>
                      call[c].pc = "send" \/ method # Nothing
      PROVE  RunInv'
  BY <1>3 DEF RunInv, SelectedMethod, AutoSelectAuthMethod, Validates
<1> DEFINE NoNewRequest ==
      \A c \in Caller : call'[c].pc = "send" =>
         call[c].pc = "send" \/ method # Nothing
<1>4. ASSUME NEW c \in Caller, NEW op \in Operation,
             AnswerFromCache(c, op) \/ AskToken(c, op) \/ TokenFails(c, op)
      PROVE  Kept /\ NoNewRequest
  <2>1. Kept
    BY <1>4 DEF AnswerFromCache, AskToken, TokenFails
  <2>2. method # Nothing
    BY <1>4, ScopedClientAssumption
       DEF AnswerFromCache, AskToken, TokenFails, AuthMethod
  <2> QED BY <2>1, <2>2
<1>5. ASSUME NEW c \in Caller,
             RampAnswers(c) \/ AnswerUndecodable(c) \/ Returns(c)
      PROVE  Kept /\ NoNewRequest
  <2>1. Kept
    BY <1>5 DEF RampAnswers, AnswerUndecodable, Returns
  <2>2. CASE Returns(c)
    BY <2>1, <2>2, IdleCallType DEF Returns, TypeOK
  <2>3. CASE RampAnswers(c) \/ AnswerUndecodable(c)
    <3>1. "answered" \in Outcome /\ "forbidden" \in Outcome
          /\ "undecodable" \in Outcome
      BY DEF Outcome
    <3>2. \E outcome \in Outcome : Ends(c, outcome)
      BY <2>3, <3>1 DEF RampAnswers, AnswerUndecodable
    <3> QED BY <2>1, <3>2, EndsEffect
  <2> QED BY <1>5, <2>2, <2>3
<1>6. ASSUME NEW s \in Scopes, ChangeScope(s)
      PROVE  Kept /\ NoNewRequest
  BY <1>6, ScopeEffect DEF ChangeScope
<1>7. ASSUME NEW revoked \in BOOLEAN, ChangeCredentials(revoked)
      PROVE  Kept /\ NoNewRequest
  BY <1>7, CredentialsEffect DEF ChangeCredentials
<1>8. CASE (\E class \in Class : TokenExpires(class))
           \/ (\E op \in Operation : Expire(op)) \/ UNCHANGED vars
  <2>1. Kept /\ call' = call
    BY <1>8 DEF TokenExpires, Expire, vars
  <2> QED BY <2>1, <1>3
<1> QED BY <1>1, <1>2, <1>3, <1>4, <1>5, <1>6, <1>7, <1>8 DEF Next

LEMMA RunInvInit == Init => RunInv
BY IdleCallType DEF Init, RunInv

(* A connector runs on a complete set of credentials, and on the access    *)
(* token beside OAuth credentials, or half of them, only when told to      *)
(* (AutoSelectAuthMethod, getConnector), whatever the settings and changes.*)
THEOREM CredentialsAsConfigured == Spec => []RunsAsConfigured
<1>1. RunInv => RunsAsConfigured
  BY DEF RunInv, RunsAsConfigured, SelectedMethod, AutoSelectAuthMethod, Validates
<1> QED
  BY <1>1, TypeInit, TypeNext, RunInvInit, RunInvNext, PTL DEF Spec

-----------------------------------------------------------------------------
LEMMA TokenInvInit == Init => TokenInv
<1>1. Nothing # "client_credentials"
  BY ScopedClientAssumption DEF AuthMethod
<1> QED BY <1>1 DEF Init, TokenInv

(* The scopes of a class are a matter of the settings.                     *)
LEMMA RequestedUnchanged ==
    setting' = setting =>
        \A class \in Class : RequestedScopes(class)' = RequestedScopes(class)
BY DEF RequestedScopes, readScopes

LEMMA TokenInvAskToken ==
    ASSUME TypeOK, TokenInv, NEW c \in Caller, NEW op \in Operation,
           AskToken(c, op)
    PROVE  TokenInv'
<1> DEFINE class == forClass(scopeClass(op))
           asked == [scopes |-> RequestedScopes(class), live |-> TRUE]
<1> SUFFICES ASSUME method = "client_credentials"
             PROVE  TokenInv'
  BY DEF AskToken, TokenInv
<1>1. op \in Operations /\ class \in Class /\ class = scopeClass(op)
  BY ScopeFacts, ScopedClientAssumption
<1>2. /\ tokens[class] \in Token \cup {Nothing} /\ tokens \in [Class -> Token \cup {Nothing}]
      /\ asked \in Token /\ asked.scopes = RequestedScopes(class)
      /\ "none" \in Outcome /\ "send" \in {"send", "done"}
      /\ "done" \in {"send", "done"} /\ classifyTokenError \in Outcome
      /\ Nothing \notin Token
  BY <1>1, RequestedIsScopes, ScopedClientAssumption
     DEF Token, TypeOK, Outcome, classifyTokenError
<1>3. setting' = setting /\ method' = method
  BY DEF AskToken
<1>4. \/ Begins(c, op, "none", "send", tokens[class])
         /\ tokens[class] # Nothing /\ UNCHANGED tokens
      \/ Begins(c, op, "none", "send", asked)
         /\ tokens' = [tokens EXCEPT ![class] = asked]
      \/ Begins(c, op, classifyTokenError, "done", Nothing) /\ UNCHANGED tokens
  BY DEF AskToken
<1>5. \A k \in Class : tokens'[k] # Nothing => tokens'[k].scopes = RequestedScopes(k)
  <2>1. \A k \in Class : tokens[k] # Nothing => tokens[k].scopes = RequestedScopes(k)
    BY DEF TokenInv
  <2> HIDE DEF class, asked
  <2> QED BY <1>1, <1>2, <1>4, <2>1
<1>6. ASSUME NEW token \in Token, token.scopes = RequestedScopes(class),
             Begins(c, op, "none", "send", token)
      PROVE  \A d \in Caller : call'[d].pc = "send" =>
                call'[d].token.scopes = RequestedScopes(scopeClass(call'[d].operation))
  <2>1. token # Nothing
    BY <1>2
  <2>2. /\ \A d \in Caller \ {c} : call'[d] = call[d]
        /\ call'[c] = [pc |-> "send", operation |-> op, token |-> token,
                       outcome |-> "none", lacked |-> Scopes \ app]
    BY <1>2, <1>6, <2>1, BeginsEffect
  <2> QED BY <1>1, <1>6, <2>2 DEF TokenInv
<1>7. ASSUME Begins(c, op, classifyTokenError, "done", Nothing)
      PROVE  \A d \in Caller : call'[d].pc = "send" =>
                call'[d].token.scopes = RequestedScopes(scopeClass(call'[d].operation))
  <2>1. /\ \A d \in Caller \ {c} : call'[d] = call[d]
        /\ call'[c] = [pc |-> "done", operation |-> op, token |-> Nothing,
                       outcome |-> classifyTokenError, lacked |-> Scopes \ app]
    BY <1>2, <1>7, BeginsEffect
  <2> QED BY <2>1 DEF TokenInv
<1>8. \A d \in Caller : call'[d].pc = "send" =>
         call'[d].token.scopes = RequestedScopes(scopeClass(call'[d].operation))
  <2>1. CASE Begins(c, op, "none", "send", tokens[class]) /\ tokens[class] # Nothing
    <3>1. tokens[class].scopes = RequestedScopes(class)
      BY <1>1, <2>1 DEF TokenInv
    <3> QED BY <1>2, <1>6, <2>1, <3>1
  <2>2. CASE Begins(c, op, "none", "send", asked)
    BY <1>2, <1>6, <2>2
  <2>3. CASE Begins(c, op, classifyTokenError, "done", Nothing)
    BY <1>7, <2>3
  <2> QED BY <1>4, <2>1, <2>2, <2>3
<1> QED BY <1>3, <1>5, <1>8 DEF TokenInv, RequestedScopes, readScopes

(* A step that leaves the settings, the scopes of tokens and the requests. *)
LEMMA TokenInvKept ==
    ASSUME TokenInv, setting' = setting, method' = method,
           \A class \in Class : tokens'[class] # Nothing =>
              /\ tokens[class] # Nothing
              /\ tokens'[class].scopes = tokens[class].scopes,
           \A c \in Caller : call'[c].pc = "send" =>
              /\ call[c].pc = "send"
              /\ call'[c].operation = call[c].operation
              /\ call'[c].token.scopes = call[c].token.scopes
    PROVE  TokenInv'
BY DEF TokenInv, RequestedScopes, readScopes

LEMMA TokenInvNext == TypeOK /\ RunInv /\ TokenInv /\ [Next]_vars => TokenInv'
<1> SUFFICES ASSUME TypeOK, RunInv, TokenInv, [Next]_vars PROVE TokenInv'
  OBVIOUS
<1>1. CASE Start
  <2>1. /\ \A c \in Caller : call'[c].pc # "send"
        /\ method' = SelectedMethod(setting)
        /\ tokens' = TokenSources(SelectedMethod(setting))
    BY <1>1 DEF Start, RunInv
  <2>2. method' = "client_credentials" => \A class \in Class : tokens'[class] = Nothing
    BY <2>1 DEF TokenSources
  <2> QED BY <2>1, <2>2 DEF TokenInv
<1>2. CASE Stop
  BY <1>2, ScopedClientAssumption DEF Stop, TokenInv, AuthMethod
<1>3. ASSUME NEW c \in Caller, NEW op \in Operation, AskToken(c, op)
      PROVE  TokenInv'
  BY <1>3, TokenInvAskToken
<1>4. ASSUME NEW c \in Caller, NEW op \in Operation,
             AnswerFromCache(c, op) \/ TokenFails(c, op)
      PROVE  TokenInv'
  <2>1. /\ setting' = setting /\ method' = method /\ tokens' = tokens
    BY <1>4 DEF AnswerFromCache, TokenFails
  <2>2. {"cached", "undecodable", "no_token"} \subseteq Outcome
        /\ "done" \in {"send", "done"} /\ Nothing \in Token \cup {Nothing}
    BY DEF Outcome
  <2>3. PICK outcome \in Outcome : Begins(c, op, outcome, "done", Nothing)
    BY <1>4, <2>2 DEF AnswerFromCache, TokenFails
  <2>4. /\ \A d \in Caller \ {c} : call'[d] = call[d]
        /\ call'[c] = [pc |-> "done", operation |-> op, token |-> Nothing,
                       outcome |-> outcome, lacked |-> Scopes \ app]
    BY <2>2, <2>3, BeginsEffect
  <2> QED BY <2>1, <2>4, TokenInvKept
<1>5. ASSUME NEW c \in Caller,
             RampAnswers(c) \/ AnswerUndecodable(c) \/ Returns(c)
      PROVE  TokenInv'
  <2>1. setting' = setting /\ method' = method /\ tokens' = tokens
    BY <1>5 DEF RampAnswers, AnswerUndecodable, Returns
  <2>2. (\A d \in Caller \ {c} : call'[d] = call[d]) /\ call'[c].pc # "send"
    <3>1. CASE Returns(c)
      BY <3>1, IdleCallType DEF Returns, TypeOK
    <3>2. CASE RampAnswers(c) \/ AnswerUndecodable(c)
      <4>1. {"answered", "forbidden", "undecodable"} \subseteq Outcome
        BY DEF Outcome
      <4>2. \E outcome \in Outcome : Ends(c, outcome)
        BY <3>2, <4>1 DEF RampAnswers, AnswerUndecodable
      <4> QED BY <4>2, EndsEffect
    <3> QED BY <1>5, <3>1, <3>2
  <2> QED BY <2>1, <2>2, TokenInvKept
<1>6. ASSUME NEW class \in Class, TokenExpires(class)
      PROVE  TokenInv'
  <2>1. \A k \in Class : tokens'[k] # Nothing => tokens'[k] = tokens[k]
    BY <1>6 DEF TokenExpires, TypeOK
  <2>2. setting' = setting /\ method' = method /\ call' = call
    BY <1>6 DEF TokenExpires
  <2> QED BY <2>1, <2>2, TokenInvKept
<1>7. ASSUME NEW s \in Scopes, ChangeScope(s)
      PROVE  TokenInv'
  <2>1. setting' = setting /\ method' = method /\ tokens' = tokens
    BY <1>7 DEF ChangeScope
  <2> QED BY <1>7, <2>1, ScopeEffect, TokenInvKept
<1>8. ASSUME NEW revoked \in BOOLEAN, ChangeCredentials(revoked)
      PROVE  TokenInv'
  <2>1. setting' = setting /\ method' = method
    BY <1>8 DEF ChangeCredentials
  <2>2. \A c \in Caller : call[c].pc = "send" => call[c].token # Nothing
    BY DEF TypeOK
  <2> QED BY <1>8, <2>1, <2>2, CredentialsEffect, TokenInvKept
<1>9. CASE (\E op \in Operation : Expire(op)) \/ UNCHANGED vars
  <2>1. setting' = setting /\ method' = method /\ tokens' = tokens /\ call' = call
    BY <1>9 DEF Expire, vars
  <2> QED BY <2>1, TokenInvKept
<1> QED BY <1>1, <1>2, <1>3, <1>4, <1>5, <1>6, <1>7, <1>8, <1>9 DEF Next

(* No OAuth request carries a write scope other than the one its own       *)
(* operation needs (TokenSources.forClass, usersWriteScopes,               *)
(* vendorsWriteScopes), however requests, expiries and restarts interleave.*)
THEOREM RequestsLeastPrivileged == Spec => []LeastPrivilege
<1>1. TypeOK /\ TokenInv => LeastPrivilege
  <2> SUFFICES ASSUME TypeOK, TokenInv, method = "client_credentials",
                      NEW c \in Caller, call[c].pc = "send"
               PROVE  call[c].token.scopes \cap WriteScopes
                        \subseteq {NeededScope(call[c].operation)}
    BY DEF LeastPrivilege
  <2>1. call[c].operation \in Operations
    BY DEF TypeOK, Call
  <2> QED BY <2>1, ScopeFacts DEF TokenInv
<1> QED
  BY <1>1, TypeInit, TypeNext, RunInvInit, RunInvNext, TokenInvInit,
     TokenInvNext, PTL DEF Spec

-----------------------------------------------------------------------------
(* A call that keeps its operation and outcome, and loses none of what it  *)
(* has been without, is no worse off.                                      *)
LEMMA ScopesIndependentKept ==
    ASSUME ScopesIndependent, setting' = setting,
           \A c \in Caller : call'[c].outcome = "missing_scope" =>
              /\ call[c].outcome = "missing_scope"
              /\ call'[c].operation = call[c].operation
              /\ call[c].lacked \subseteq call'[c].lacked
    PROVE  ScopesIndependent'
BY DEF ScopesIndependent, DocumentedScopes

LEMMA IndependentStep ==
    ASSUME setting' = setting,
           \A c \in Caller : call'[c].outcome = "missing_scope" =>
              DocumentedScopes(call'[c].operation) \cap call'[c].lacked # {}
    PROVE  ScopesIndependent'
BY DEF ScopesIndependent, DocumentedScopes

(* A refusal for a scope: the class asks for nothing undocumented, so what *)
(* the app lacked is among what the operation needs.                       *)
LEMMA IndependentAskToken ==
    ASSUME TypeOK, ScopesIndependent, NEW c \in Caller, NEW op \in Operation,
           AskToken(c, op)
    PROVE  ScopesIndependent'
<1> DEFINE class == forClass(scopeClass(op))
           asked == [scopes |-> RequestedScopes(class), live |-> TRUE]
<1>1. op \in Operations /\ class \in Class
      /\ RequestedScopes(class) \subseteq DocumentedScopes(op)
      /\ RequestedScopes(class) \subseteq Scopes
  BY ScopeFacts, RequestedIsScopes, ScopedClientAssumption
<1>2. /\ tokens[class] \in Token \cup {Nothing}
      /\ asked \in Token /\ Nothing \notin Token
      /\ "none" \in Outcome /\ "send" \in {"send", "done"}
      /\ "done" \in {"send", "done"} /\ classifyTokenError \in Outcome
      /\ Nothing \in Token \cup {Nothing}
  BY <1>1, RequestedIsScopes, ScopedClientAssumption
     DEF Token, TypeOK, Outcome, classifyTokenError
<1>3. setting' = setting
  BY DEF AskToken
<1>4. ASSUME NEW token \in Token, Begins(c, op, "none", "send", token)
      PROVE  ScopesIndependent'
  <2>1. /\ \A d \in Caller \ {c} : call'[d] = call[d]
        /\ call'[c] = [pc |-> "send", operation |-> op, token |-> token,
                       outcome |-> "none", lacked |-> Scopes \ app]
    BY <1>2, <1>4, BeginsEffect
  <2> QED BY <1>3, <2>1, ScopesIndependentKept
<1>5. ASSUME Begins(c, op, classifyTokenError, "done", Nothing),
             ~(trusted /\ RequestedScopes(class) \subseteq app)
      PROVE  ScopesIndependent'
  <2>1. /\ \A d \in Caller \ {c} : call'[d] = call[d]
        /\ call'[c] = [pc |-> "done", operation |-> op, token |-> Nothing,
                       outcome |-> classifyTokenError, lacked |-> Scopes \ app]
    BY <1>2, <1>5, BeginsEffect
  <2>2. CASE ~trusted
    BY <1>3, <2>1, <2>2, ScopesIndependentKept DEF classifyTokenError
  <2>3. CASE trusted
    <3>1. DocumentedScopes(op) \cap (Scopes \ app) # {}
      BY <1>1, <1>5, <2>3
    <3>2. \A d \in Caller : call'[d].outcome = "missing_scope" =>
             DocumentedScopes(call'[d].operation) \cap call'[d].lacked # {}
      BY <2>1, <3>1 DEF ScopesIndependent
    <3> QED BY <1>3, <3>2, IndependentStep
  <2> QED BY <2>2, <2>3
<1>6. \/ Begins(c, op, "none", "send", tokens[class]) /\ tokens[class] # Nothing
      \/ Begins(c, op, "none", "send", asked)
      \/ /\ Begins(c, op, classifyTokenError, "done", Nothing)
         /\ ~(trusted /\ RequestedScopes(class) \subseteq app)
  BY DEF AskToken
<1> QED BY <1>2, <1>4, <1>5, <1>6

LEMMA IndependentNext ==
    TypeOK /\ ScopesIndependent /\ [Next]_vars => ScopesIndependent'
<1> SUFFICES ASSUME TypeOK, ScopesIndependent, [Next]_vars
             PROVE  ScopesIndependent'
  OBVIOUS
<1>0. IdleCall.outcome = "none"
  BY DEF IdleCall
<1>1. CASE Stop
  BY <1>0, <1>1 DEF Stop, ScopesIndependent
<1>2. ASSUME NEW c \in Caller, NEW op \in Operation, AskToken(c, op)
      PROVE  ScopesIndependent'
  BY <1>2, IndependentAskToken
<1>3. ASSUME NEW c \in Caller, NEW op \in Operation,
             AnswerFromCache(c, op) \/ TokenFails(c, op)
      PROVE  ScopesIndependent'
  <2>1. setting' = setting
    BY <1>3 DEF AnswerFromCache, TokenFails
  <2>2. {"cached", "undecodable", "no_token"} \subseteq Outcome
        /\ "done" \in {"send", "done"} /\ Nothing \in Token \cup {Nothing}
    BY DEF Outcome
  <2>3. PICK outcome \in Outcome : /\ outcome # "missing_scope"
                                  /\ Begins(c, op, outcome, "done", Nothing)
    BY <1>3, <2>2 DEF AnswerFromCache, TokenFails
  <2>4. /\ \A d \in Caller \ {c} : call'[d] = call[d]
        /\ call'[c] = [pc |-> "done", operation |-> op, token |-> Nothing,
                       outcome |-> outcome, lacked |-> Scopes \ app]
    BY <2>2, <2>3, BeginsEffect
  <2> QED BY <2>1, <2>3, <2>4, ScopesIndependentKept
<1>4. ASSUME NEW c \in Caller,
             RampAnswers(c) \/ AnswerUndecodable(c) \/ Returns(c)
      PROVE  ScopesIndependent'
  <2>1. setting' = setting
    BY <1>4 DEF RampAnswers, AnswerUndecodable, Returns
  <2>2. (\A d \in Caller \ {c} : call'[d] = call[d])
        /\ call'[c].outcome # "missing_scope"
    <3>1. CASE Returns(c)
      BY <1>0, <3>1 DEF Returns, TypeOK
    <3>2. CASE RampAnswers(c) \/ AnswerUndecodable(c)
      <4>1. {"answered", "forbidden", "undecodable"} \subseteq Outcome
        BY DEF Outcome
      <4>2. PICK outcome \in Outcome : outcome # "missing_scope" /\ Ends(c, outcome)
        BY <3>2, <4>1 DEF RampAnswers, AnswerUndecodable
      <4> QED BY <4>2, EndsEffect
    <3> QED BY <1>4, <3>1, <3>2
  <2> QED BY <2>1, <2>2, ScopesIndependentKept
<1>5. ASSUME NEW s \in Scopes, ChangeScope(s)
      PROVE  ScopesIndependent'
  <2>1. setting' = setting
    BY <1>5 DEF ChangeScope
  <2> QED BY <1>5, <2>1, ScopeEffect, ScopesIndependentKept
<1>6. ASSUME NEW revoked \in BOOLEAN, ChangeCredentials(revoked)
      PROVE  ScopesIndependent'
  <2>1. setting' = setting
    BY <1>6 DEF ChangeCredentials
  <2> QED BY <1>6, <2>1, CredentialsEffect, ScopesIndependentKept
<1>7. CASE \/ Start \/ (\E class \in Class : TokenExpires(class))
           \/ (\E op \in Operation : Expire(op)) \/ UNCHANGED vars
  <2>1. setting' = setting /\ call' = call
    BY <1>7 DEF Start, TokenExpires, Expire, vars
  <2> QED BY <2>1, ScopesIndependentKept
<1> QED BY <1>1, <1>2, <1>3, <1>4, <1>5, <1>6, <1>7 DEF Next

(* "Each is optional and independent" (README.md): a call is refused for   *)
(* the want of a scope only if the app has lacked, while it ran, a scope   *)
(* the operation is documented to need; a missing write scope, or one      *)
(* taken away at any moment, is no business of the other operations.       *)
THEOREM RefusalsDocumented == Spec => []ScopesIndependent
<1>1. Init => ScopesIndependent
  BY DEF Init, ScopesIndependent, IdleCall
<1> QED
  BY <1>1, TypeInit, TypeNext, IndependentNext, PTL DEF Spec
=============================================================================
