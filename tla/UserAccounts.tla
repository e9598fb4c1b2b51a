---------------------------- MODULE UserAccounts ----------------------------
(***************************************************************************)
(* Creating, disabling and enabling Ramp users: userBuilder.CreateAccount  *)
(* (pkg/connector/users.go), handleDisableUser and handleEnableUser        *)
(* (pkg/connector/actions.go) over the client's FindUserByEmail, an        *)
(* uncached GET, CreateUser, a deferred POST, and the status PATCHes       *)
(* (pkg/client/users.go).  Calls overlap, requests fail or come late, Ramp *)
(* creates an invited user some time after the request, and people sign up *)
(* and change status in Ramp, and the connector process may restart.       *)
(***************************************************************************)
EXTENDS Integers, Sequences, FiniteSets

CONSTANTS
    Address, NoAddress,   \* e-mail addresses as spelled; none given
    Folded,               \* the address with its case folded
    Call,                 \* slots for concurrent calls
    MaxCalls,             \* bound: calls in one behaviour
    MaxAccounts,          \* bound: accounts in Ramp
    MaxEdits              \* bound: status changes made in Ramp itself

ASSUME AccountAssumption ==
    /\ NoAddress \notin Address
    /\ Folded \in [Address -> Address]
    /\ MaxCalls \in Nat /\ MaxAccounts \in Nat /\ MaxEdits \in Nat

VARIABLES
    accounts,   \* Ramp: the accounts, in the order they came to be
    tasks,      \* Ramp: deferred creations still to be carried out
    late,       \* Ramp: status PATCHes given up on, not yet applied
    call,       \* connector: the calls
    begun,      \* calls begun so far
    edits       \* status changes made in Ramp so far

vars == <<accounts, tasks, late, call, begun, edits>>

Status  == {"invited", "active", "inactive"}
ByHand  == 0
Key     == 1..MaxCalls
AccountID == 1..MaxAccounts

(* key is the idempotency key that made the account, born the number of    *)
(* calls begun when it came to be, both history.                           *)
AccountState ==
    [address : Address, status : Status, key : {ByHand} \cup Key, born : 0..MaxCalls]

Task        == [key : Key, address : Address]
StatusPatch == [user : AccountID, status : Status]

Running == {"find", "create", "created", "patch", "patched"}
Outcome == {"invalid", "already_exists", "action_required", "succeeded", "failed"}

(* user is the account found or to be patched; held, as history, the       *)
(* statuses it has had meanwhile.                                          *)
CallState ==
    [op : {"create", "disable", "enable"}, address : Address \cup {NoAddress},
     user : {0} \cup AccountID, key : {0} \cup Key,
     pc : {"idle"} \cup Running \cup Outcome, held : SUBSET Status]

Idle == [op |-> "create", address |-> NoAddress, user |-> 0, key |-> 0,
         pc |-> "idle", held |-> {}]
Invalid == [Idle EXCEPT !.pc = "invalid"]

Init ==
    /\ accounts = <<>>
    /\ tasks = {}
    /\ late = {}
    /\ call = [c \in Call |-> Idle]
    /\ begun = 0
    /\ edits = 0

CaseMatters(a, b) == a = b

(* strings.EqualFold.                                                      *)
EqualFold(a, b) == Folded[a] = Folded[b]

KeyLeftEmpty(c) == 0

(* A fresh uuid for each CreateUserRequest; CreateAccount makes one a call.*)
IdempotencyKey(c) == call[c].key

TargetStatus(k) == IF k.op = "disable" THEN "inactive" ELSE "active"

(* Account u gets status s: every running call on it has lived to see it.  *)
Seen(u, s, calls) ==
    [d \in Call |-> IF calls[d].user = u /\ calls[d].pc \in {"patch", "patched"}
                      THEN [calls[d] EXCEPT !.held = @ \cup {s}]
                      ELSE calls[d]]

Begin(c, k) ==
    /\ call[c].pc \notin Running
    /\ begun < MaxCalls
    /\ begun' = begun + 1
    /\ call' = [call EXCEPT ![c] = k]
    /\ UNCHANGED <<accounts, tasks, late, edits>>

-----------------------------------------------------------------------------
(***************************************************************************)
(* CreateAccount.  wellFormed stands for the names and the role it checks. *)
(***************************************************************************)
CreateAccount(c, address, wellFormed) ==
    Begin(c, IF address = NoAddress \/ ~wellFormed
               THEN Invalid
               ELSE [Idle EXCEPT !.address = address, !.key = begun + 1,
                                 !.pc = "find"])

(* Ramp answers the e-mail filter with every account that has the address  *)
(* and, if it matches more loosely, perhaps with others; NotFound, which   *)
(* CreateAccount takes for an answer, is an empty one.                     *)
FilteredUsers(address) ==
    LET with == {u \in DOMAIN accounts :
                    Folded[accounts[u].address] = Folded[address]}
    IN  {U \in SUBSET DOMAIN accounts : with \subseteq U}

TakesAnyUser(c, u) ==
    call' = [call EXCEPT ![c].pc = "already_exists", ![c].user = u]

Finds(c, u) ==
    /\ EqualFold(accounts[u].address, call[c].address)
    /\ call' = [call EXCEPT ![c].pc = "already_exists", ![c].user = u]

FindUserByEmail(c) ==
    /\ call[c].pc = "find"
    /\ \E U \in FilteredUsers(call[c].address) :
          \/ \E u \in U : Finds(c, u)
          \/ /\ \A u \in U : ~EqualFold(accounts[u].address, call[c].address)
             /\ call' = [call EXCEPT ![c].pc = "create"]
    /\ UNCHANGED <<accounts, tasks, late, begun, edits>>

Invite(c) == [key |-> IdempotencyKey(c), address |-> call[c].address]

(* Ramp accepts the deferred creation.                                     *)
CreateUser(c) ==
    /\ call[c].pc = "create"
    /\ tasks' = tasks \cup {Invite(c)}
    /\ call' = [call EXCEPT ![c].pc = "created"]
    /\ UNCHANGED <<accounts, late, begun, edits>>

-----------------------------------------------------------------------------
(***************************************************************************)
(* disable_user and enable_user; user 0 is a missing or empty user_id.     *)
(***************************************************************************)
HandleUserAction(c, op, u) ==
    Begin(c, IF u = 0
               THEN Invalid
               ELSE [Idle EXCEPT
                       !.op = op, !.user = u, !.pc = "patch",
                       !.held = {accounts[v].status : v \in {u} \cap DOMAIN accounts}])

(* Ramp carries out the PATCH of a user it has.                            *)
PatchUser(c) ==
    /\ call[c].pc = "patch"
    /\ call[c].user \in DOMAIN accounts
    /\ accounts' = [accounts EXCEPT ![call[c].user].status = TargetStatus(call[c])]
    /\ call' = Seen(call[c].user, TargetStatus(call[c]),
                    [call EXCEPT ![c].pc = "patched"])
    /\ UNCHANGED <<tasks, late, begun, edits>>

(* The response to a POST or PATCH arrives.                                *)
Returns(c) ==
    /\ \/ /\ call[c].pc = "created"
          /\ call' = [call EXCEPT ![c].pc = "action_required"]
       \/ /\ call[c].pc = "patched"
          /\ call' = [call EXCEPT ![c].pc = "succeeded"]
    /\ UNCHANGED <<accounts, tasks, late, begun, edits>>

(* A request fails, is refused or times out, before or after Ramp handled  *)
(* it: the call fails.  A creation may still be accepted, a PATCH applied. *)
RequestFails(c) ==
    /\ call[c].pc \in Running
    /\ call' = [call EXCEPT ![c].pc = "failed"]
    /\ \/ UNCHANGED <<tasks, late>>
       \/ /\ call[c].pc = "create"
          /\ tasks' = tasks \cup {Invite(c)}
          /\ UNCHANGED late
       \/ /\ call[c].pc = "patch"
          /\ late' = late \cup {[user |-> call[c].user, status |-> TargetStatus(call[c])]}
          /\ UNCHANGED tasks
    /\ UNCHANGED <<accounts, begun, edits>>

(* The process restarts: every call is gone.                               *)
Restart ==
    /\ call' = [c \in Call |-> IF call[c].pc \in Running
                                 THEN [call[c] EXCEPT !.pc = "failed"]
                                 ELSE call[c]]
    /\ UNCHANGED <<accounts, tasks, late, begun, edits>>

-----------------------------------------------------------------------------
(***************************************************************************)
(* Ramp.                                                                   *)
(***************************************************************************)
NewAccount(address, key) ==
    /\ Len(accounts) < MaxAccounts
    /\ accounts' = Append(accounts, [address |-> address, status |-> "invited",
                                     key |-> key, born |-> begun])

(* A deferred creation is carried out, once, or refused.                   *)
CarryOut(t) ==
    /\ t \in tasks
    /\ tasks' = tasks \ {t}
    /\ NewAccount(t.address, t.key) \/ UNCHANGED accounts
    /\ UNCHANGED <<late, call, begun, edits>>

(* Somebody is invited in Ramp itself.                                     *)
SignUp(address) ==
    /\ NewAccount(address, ByHand)
    /\ UNCHANGED <<tasks, late, call, begun, edits>>

SetStatus(u, s) ==
    /\ u \in DOMAIN accounts
    /\ accounts' = [accounts EXCEPT ![u].status = s]
    /\ call' = Seen(u, s, call)
    /\ UNCHANGED <<tasks, begun>>

(* An invitation is accepted, or a status changed in Ramp itself.          *)
Edit(u, s) ==
    /\ edits < MaxEdits
    /\ edits' = edits + 1
    /\ SetStatus(u, s)
    /\ UNCHANGED late

(* A PATCH the connector gave up on is applied after all.                  *)
LatePatch(p) ==
    /\ p \in late
    /\ late' = late \ {p}
    /\ SetStatus(p.user, p.status)
    /\ UNCHANGED edits

-----------------------------------------------------------------------------
CallStep(c) ==
    \/ FindUserByEmail(c)
    \/ CreateUser(c)
    \/ PatchUser(c)
    \/ Returns(c)
    \/ RequestFails(c)

Next ==
    \/ \E c \in Call, a \in Address \cup {NoAddress}, w \in BOOLEAN :
          CreateAccount(c, a, w)
    \/ \E c \in Call, op \in {"disable", "enable"}, u \in {0} \cup AccountID :
          HandleUserAction(c, op, u)
    \/ \E c \in Call : CallStep(c)
    \/ Restart
    \/ \E t \in Task : CarryOut(t)
    \/ \E a \in Address : SignUp(a)
    \/ \E u \in AccountID, s \in Status : Edit(u, s)
    \/ \E p \in StatusPatch : LatePatch(p)

Spec == Init /\ [][Next]_vars

-----------------------------------------------------------------------------
TypeOK ==
    /\ accounts \in Seq(AccountState)
    /\ Len(accounts) <= MaxAccounts
    /\ tasks \subseteq Task
    /\ late \subseteq StatusPatch
    /\ call \in [Call -> CallState]
    /\ begun \in 0..MaxCalls
    /\ edits \in 0..MaxEdits

(* "Account creation also filters by email to return an existing user      *)
(* instead of creating a duplicate": however calls overlap and responses   *)
(* are lost, CreateAccount makes a second account for an address only if   *)
(* the call that made it began before the first account was there.  (One   *)
(* made by hand has key 0.)                                                *)
SecondAccountOverlaps ==
    \A u, v \in DOMAIN accounts :
        /\ u < v
        /\ Folded[accounts[u].address] = Folded[accounts[v].address]
        => accounts[v].key <= accounts[u].born

(* What a call reports is true: an account it found is one of the address  *)
(* asked for, a status it says it set was the user's during the call.      *)
ReportsTrue ==
    \A c \in Call :
        /\ call[c].pc = "already_exists" =>
              /\ call[c].user \in DOMAIN accounts
              /\ Folded[accounts[call[c].user].address] = Folded[call[c].address]
        /\ call[c].pc = "succeeded" => TargetStatus(call[c]) \in call[c].held
=============================================================================
