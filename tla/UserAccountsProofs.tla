------------------------- MODULE UserAccountsProofs -------------------------
(***************************************************************************)
(* Theorems about UserAccounts: types, when a second account for one       *)
(* address can come to be, and the truth of what a call reports, for any   *)
(* number of calls, accounts, spellings of addresses, restarts and edits.  *)
(***************************************************************************)
EXTENDS UserAccounts, SequenceTheorems, TLAPS

(* A new account is the last; those before it stay as they were.           *)
LEMMA NewAccountEffect ==
    ASSUME TypeOK, NEW a \in Address, NEW k \in {ByHand} \cup Key,
           NewAccount(a, k)
    PROVE  /\ accounts' \in Seq(AccountState) /\ Len(accounts') <= MaxAccounts
           /\ DOMAIN accounts = 1..Len(accounts) /\ Len(accounts) \in Nat
           /\ DOMAIN accounts' = 1..(Len(accounts) + 1)
           /\ \A u \in DOMAIN accounts : accounts'[u] = accounts[u]
           /\ accounts'[Len(accounts) + 1] =
                [address |-> a, status |-> "invited", key |-> k, born |-> begun]
<1> DEFINE new == [address |-> a, status |-> "invited", key |-> k, born |-> begun]
<1>1. new \in AccountState
  BY DEF TypeOK, AccountState, Status
<1>2. accounts' = Append(accounts, new) /\ accounts \in Seq(AccountState)
      /\ Len(accounts) < MaxAccounts
  BY DEF NewAccount, TypeOK
<1> HIDE DEF new
<1>3. /\ accounts' \in Seq(AccountState) /\ Len(accounts') = Len(accounts) + 1
      /\ \A u \in 1..Len(accounts) : accounts'[u] = accounts[u]
      /\ accounts'[Len(accounts) + 1] = new
  BY <1>1, <1>2, AppendProperties
<1>4. Len(accounts) \in Nat /\ DOMAIN accounts = 1..Len(accounts)
      /\ DOMAIN accounts' = 1..Len(accounts')
  BY <1>2, <1>3, LenProperties
<1> QED BY <1>2, <1>3, <1>4, AccountAssumption DEF new

(* A status change leaves the address, the key and the birth of every      *)
(* account alone.                                                          *)
LEMMA StatusEffect ==
    ASSUME TypeOK, NEW u \in DOMAIN accounts, NEW s \in Status,
           accounts' = [accounts EXCEPT ![u].status = s]
    PROVE  /\ accounts' \in Seq(AccountState) /\ Len(accounts') <= MaxAccounts
           /\ DOMAIN accounts' = DOMAIN accounts
           /\ \A v \in DOMAIN accounts :
                 /\ accounts'[v].address = accounts[v].address
                 /\ accounts'[v].key = accounts[v].key
                 /\ accounts'[v].born = accounts[v].born
<1> DEFINE new == [accounts[u] EXCEPT !.status = s]
<1>1. accounts \in Seq(AccountState) /\ DOMAIN accounts = 1..Len(accounts)
  BY LenProperties DEF TypeOK
<1>2. accounts[u] \in AccountState
  BY <1>1, ElementOfSeq
<1>3. /\ new \in AccountState /\ new.address = accounts[u].address
      /\ new.key = accounts[u].key /\ new.born = accounts[u].born
  BY <1>2 DEF AccountState
<1>4. accounts' = [accounts EXCEPT ![u] = new]
  OBVIOUS
<1> HIDE DEF new
<1>5. /\ accounts' \in Seq(AccountState) /\ Len(accounts') = Len(accounts)
      /\ \A v \in 1..Len(accounts) :
            accounts'[v] = IF v = u THEN new ELSE accounts[v]
  BY <1>1, <1>3, <1>4, ExceptSeq
<1>6. DOMAIN accounts' = 1..Len(accounts')
  BY <1>5, LenProperties
<1> QED BY <1>1, <1>3, <1>5, <1>6 DEF TypeOK

(* Seen changes nothing of a call but its history, which it may extend.    *)
LEMMA SeenEffect ==
    ASSUME NEW u \in AccountID, NEW s \in Status, NEW calls \in [Call -> CallState]
    PROVE  /\ Seen(u, s, calls) \in [Call -> CallState]
           /\ \A d \in Call :
                 /\ Seen(u, s, calls)[d].op = calls[d].op
                 /\ Seen(u, s, calls)[d].address = calls[d].address
                 /\ Seen(u, s, calls)[d].user = calls[d].user
                 /\ Seen(u, s, calls)[d].key = calls[d].key
                 /\ Seen(u, s, calls)[d].pc = calls[d].pc
                 /\ calls[d].held \subseteq Seen(u, s, calls)[d].held
                 /\ calls[d].user = u /\ calls[d].pc = "patched"
                       => s \in Seen(u, s, calls)[d].held
<1> SUFFICES ASSUME NEW d \in Call
             PROVE  /\ Seen(u, s, calls)[d] \in CallState
                    /\ Seen(u, s, calls)[d].op = calls[d].op
                    /\ Seen(u, s, calls)[d].address = calls[d].address
                    /\ Seen(u, s, calls)[d].user = calls[d].user
                    /\ Seen(u, s, calls)[d].key = calls[d].key
                    /\ Seen(u, s, calls)[d].pc = calls[d].pc
                    /\ calls[d].held \subseteq Seen(u, s, calls)[d].held
                    /\ calls[d].user = u /\ calls[d].pc = "patched"
                          => s \in Seen(u, s, calls)[d].held
  BY DEF Seen
<1>1. calls[d] \in CallState
  OBVIOUS
<1> QED BY <1>1 DEF Seen, CallState

-----------------------------------------------------------------------------
(***************************************************************************)
(* Types.                                                                  *)
(***************************************************************************)
LEMMA InitTypeOK == Init => TypeOK
<1>1. <<>> \in Seq(AccountState) /\ Len(<<>>) = 0
  OBVIOUS
<1>2. Idle \in CallState
  BY DEF Idle, CallState
<1> QED BY <1>1, <1>2, AccountAssumption DEF Init, TypeOK

(* A call under way keeps its type when a step of it changes its pc.       *)
LEMMA PCTypes ==
    ASSUME NEW c \in Call, call \in [Call -> CallState],
           NEW pc \in {"idle"} \cup Running \cup Outcome
    PROVE  [call EXCEPT ![c].pc = pc] \in [Call -> CallState]
<1>1. call[c] \in CallState
  OBVIOUS
<1>2. [call[c] EXCEPT !.pc = pc] \in CallState
  BY <1>1 DEF CallState
<1> QED BY <1>2

(* A creation under way has its address and key, a status change its user: *)
(* what TypeOK lacks to be inductive.                                      *)
CallsComplete ==
    \A c \in Call :
        /\ call[c].pc \in {"find", "create", "created"} =>
              call[c].key \in Key /\ call[c].address \in Address
        /\ call[c].pc \in {"patch", "patched"} => call[c].user \in AccountID

TypeInv == TypeOK /\ CallsComplete

LEMMA InviteTypes ==
    ASSUME TypeInv, NEW c \in Call, call[c].pc = "create"
    PROVE  Invite(c) \in Task
  BY DEF Invite, IdempotencyKey, Task, TypeInv, CallsComplete

LEMMA PatchTypes ==
    ASSUME TypeInv, NEW c \in Call, call[c].pc = "patch"
    PROVE  [user |-> call[c].user, status |-> TargetStatus(call[c])] \in StatusPatch
  BY DEF StatusPatch, TargetStatus, Status, TypeInv, CallsComplete

LEMMA BeginTypes ==
    ASSUME TypeInv, NEW c \in Call, NEW k \in CallState, Begin(c, k),
           k.pc \in {"find", "create", "created"} =>
              k.key \in Key /\ k.address \in Address,
           k.pc \in {"patch", "patched"} => k.user \in AccountID
    PROVE  TypeInv'
<1>1. TypeOK'
  BY AccountAssumption DEF Begin, TypeInv, TypeOK
<1>2. CallsComplete'
  BY DEF Begin, TypeInv, TypeOK, CallsComplete
<1> QED BY <1>1, <1>2 DEF TypeInv

LEMMA NextTypeInv == TypeInv /\ [Next]_vars => TypeInv'
<1> SUFFICES ASSUME TypeInv, [Next]_vars PROVE TypeInv'
  OBVIOUS
<1> USE AccountAssumption
<1>0. /\ TypeOK /\ CallsComplete
      /\ \A c \in Call : call[c] \in CallState
  BY DEF TypeInv, TypeOK
<1>1. ASSUME NEW c \in Call, NEW a \in Address \cup {NoAddress}, NEW w \in BOOLEAN,
             CreateAccount(c, a, w)
      PROVE  TypeInv'
  <2> DEFINE found == [Idle EXCEPT !.address = a, !.key = begun + 1, !.pc = "find"]
  <2>1. CASE a = NoAddress \/ ~w
    <3>1. Invalid \in CallState /\ Invalid.pc = "invalid"
      BY DEF Invalid, Idle, CallState, Running, Outcome
    <3>2. Begin(c, Invalid)
      BY <1>1, <2>1 DEF CreateAccount
    <3> QED BY <3>1, <3>2, BeginTypes
  <2>2. CASE ~(a = NoAddress \/ ~w)
    <3>1. Begin(c, found)
      BY <1>1, <2>2 DEF CreateAccount
    <3>2. a \in Address /\ begun + 1 \in Key
      BY <1>0, <2>2, <3>1 DEF Begin, TypeOK, Key
    <3>3. found \in CallState /\ found.pc = "find" /\ found.key \in Key
          /\ found.address \in Address
      BY <3>2 DEF Idle, CallState, Running
    <3> QED BY <3>1, <3>3, BeginTypes
  <2> QED BY <2>1, <2>2
<1>2. ASSUME NEW c \in Call, NEW op \in {"disable", "enable"},
             NEW u \in {0} \cup AccountID, HandleUserAction(c, op, u)
      PROVE  TypeInv'
  <2> DEFINE held == {accounts[v].status : v \in {u} \cap DOMAIN accounts}
             patch == [Idle EXCEPT !.op = op, !.user = u, !.pc = "patch", !.held = held]
  <2>1. CASE u = 0
    <3>1. Invalid \in CallState /\ Invalid.pc = "invalid"
      BY DEF Invalid, Idle, CallState, Running, Outcome
    <3>2. Begin(c, Invalid)
      BY <1>2, <2>1 DEF HandleUserAction
    <3> QED BY <3>1, <3>2, BeginTypes
  <2>2. CASE u # 0
    <3>1. Begin(c, patch)
      BY <1>2, <2>2 DEF HandleUserAction
    <3>2. \A v \in DOMAIN accounts : accounts[v].status \in Status
      <4>1. accounts \in Seq(AccountState) /\ DOMAIN accounts = 1..Len(accounts)
        BY <1>0, LenProperties DEF TypeOK
      <4>2. \A v \in DOMAIN accounts : accounts[v] \in AccountState
        BY <4>1, ElementOfSeq
      <4> QED BY <4>2 DEF AccountState
    <3>3. held \in SUBSET Status
      BY <3>2
    <3>4. patch \in CallState /\ patch.pc = "patch" /\ patch.user = u
      BY <3>3 DEF Idle, CallState, Running
    <3> QED BY <2>2, <3>1, <3>4, BeginTypes
  <2> QED BY <2>1, <2>2
<1>3. ASSUME NEW c \in Call, FindUserByEmail(c)
      PROVE  TypeInv'
  <2>1. UNCHANGED <<accounts, tasks, late, begun, edits>> /\ call[c].pc = "find"
    BY <1>3 DEF FindUserByEmail
  <2>2. CASE call' = [call EXCEPT ![c].pc = "create"]
    <3>1. call' \in [Call -> CallState]
      BY <1>0, <2>2 DEF TypeOK, CallState, Running
    <3>2. CallsComplete'
      BY <1>0, <2>1, <2>2 DEF TypeOK, CallsComplete
    <3> QED BY <1>0, <2>1, <3>1, <3>2 DEF TypeInv, TypeOK
  <2>3. ASSUME NEW u \in DOMAIN accounts, Finds(c, u)
        PROVE  TypeInv'
    <3>1. u \in AccountID
      BY <1>0, LenProperties DEF TypeOK, AccountID
    <3>2. call' = [call EXCEPT ![c].pc = "already_exists", ![c].user = u]
      BY <2>3 DEF Finds
    <3>3. call' \in [Call -> CallState]
      <4>1. [call[c] EXCEPT !.pc = "already_exists", !.user = u] \in CallState
        BY <1>0, <3>1 DEF CallState, Outcome
      <4> QED BY <1>0, <3>2, <4>1 DEF TypeOK
    <3>4. CallsComplete'
      BY <1>0, <3>1, <3>2 DEF TypeOK, CallsComplete
    <3> QED BY <1>0, <2>1, <3>3, <3>4 DEF TypeInv, TypeOK
  <2>4. (\E u \in DOMAIN accounts : Finds(c, u)) \/ call' = [call EXCEPT ![c].pc = "create"]
    BY <1>3 DEF FindUserByEmail, FilteredUsers
  <2> QED BY <2>2, <2>3, <2>4
<1>4. ASSUME NEW c \in Call, CreateUser(c)
      PROVE  TypeInv'
  <2>1. Invite(c) \in Task
    BY <1>4, InviteTypes DEF CreateUser
  <2>2. call' \in [Call -> CallState]
    BY <1>0, <1>4 DEF CreateUser, TypeOK, CallState, Running
  <2>3. CallsComplete'
    BY <1>0, <1>4 DEF CreateUser, TypeOK, CallsComplete
  <2> QED BY <1>0, <1>4, <2>1, <2>2, <2>3 DEF CreateUser, TypeInv, TypeOK
<1>5. ASSUME NEW c \in Call, PatchUser(c)
      PROVE  TypeInv'
  <2> DEFINE u == call[c].user
             s == TargetStatus(call[c])
             patched == [call EXCEPT ![c].pc = "patched"]
  <2>1. u \in DOMAIN accounts /\ u \in AccountID /\ s \in Status
    BY <1>0, <1>5 DEF PatchUser, TargetStatus, Status, CallsComplete
  <2>2. accounts' = [accounts EXCEPT ![u].status = s] /\ call' = Seen(u, s, patched)
    BY <1>5 DEF PatchUser
  <2>3. patched \in [Call -> CallState]
    BY <1>0 DEF TypeOK, CallState, Running
  <2>4. accounts' \in Seq(AccountState) /\ Len(accounts') <= MaxAccounts
    BY <1>0, <2>1, <2>2, StatusEffect
  <2>5. call' \in [Call -> CallState] /\ \A d \in Call :
           /\ call'[d].address = patched[d].address /\ call'[d].user = patched[d].user
           /\ call'[d].key = patched[d].key /\ call'[d].pc = patched[d].pc
    <3> HIDE DEF u, s, patched
    <3> QED BY <2>1, <2>2, <2>3, SeenEffect
  <2>6. CallsComplete'
    <3>1. \A d \in Call : patched[d].pc \in {"patch", "patched"} =>
                             call[d].pc \in {"patch", "patched"}
      BY <1>0, <1>5 DEF PatchUser, TypeOK, CallState
    <3>2. \A d \in Call : /\ patched[d].address = call[d].address
                          /\ patched[d].user = call[d].user
                          /\ patched[d].key = call[d].key
      BY <1>0 DEF CallState
    <3>3. \A d \in Call : patched[d].pc \in {"find", "create", "created"} =>
                             call[d].pc = patched[d].pc
      BY <1>0 DEF TypeOK, CallState
    <3> HIDE DEF patched
    <3> QED BY <1>0, <2>5, <3>1, <3>2, <3>3 DEF CallsComplete
  <2> QED BY <1>0, <1>5, <2>4, <2>5, <2>6 DEF PatchUser, TypeInv, TypeOK
<1>6. ASSUME NEW c \in Call, Returns(c)
      PROVE  TypeInv'
  <2>1. PICK pc \in {"action_required", "succeeded"} :
           call' = [call EXCEPT ![c].pc = pc]
    BY <1>6 DEF Returns
  <2>2. call' \in [Call -> CallState] /\ CallsComplete'
    <3>1. [call[c] EXCEPT !.pc = pc] \in CallState
      BY <1>0 DEF CallState, Outcome
    <3>2. \A d \in Call : call'[d] = IF d = c THEN [call[c] EXCEPT !.pc = pc] ELSE call[d]
      BY <1>0, <2>1 DEF TypeOK
    <3>3. [call[c] EXCEPT !.pc = pc].pc = pc
      BY <1>0 DEF CallState
    <3>4. call' \in [Call -> CallState]
      BY <1>0, <2>1, <3>1 DEF TypeOK
    <3>5. CallsComplete'
      BY <1>0, <3>2, <3>3 DEF CallsComplete
    <3> QED BY <3>4, <3>5
  <2> QED BY <1>0, <1>6, <2>2 DEF Returns, TypeInv, TypeOK
<1>7. ASSUME NEW c \in Call, RequestFails(c)
      PROVE  TypeInv'
  <2>1. call' \in [Call -> CallState]
    BY <1>0, <1>7 DEF RequestFails, TypeOK, CallState, Outcome
  <2>2. CallsComplete'
    BY <1>0, <1>7 DEF RequestFails, TypeOK, CallsComplete
  <2>3. tasks' \subseteq Task /\ late' \subseteq StatusPatch
    BY <1>0, <1>7, InviteTypes, PatchTypes DEF RequestFails, TypeOK
  <2> QED BY <1>0, <1>7, <2>1, <2>2, <2>3 DEF RequestFails, TypeInv, TypeOK
<1>8. ASSUME Restart
      PROVE  TypeInv'
  <2>1. call' \in [Call -> CallState]
    <3>1. \A c \in Call : [call[c] EXCEPT !.pc = "failed"] \in CallState
      BY <1>0 DEF CallState, Outcome
    <3> QED BY <1>0, <1>8, <3>1 DEF Restart
  <2>2. \A c \in Call : call'[c].pc \notin Running
    BY <1>0, <1>8 DEF Restart, CallState, Running
  <2>3. CallsComplete'
    BY <2>2 DEF CallsComplete, Running
  <2> QED BY <1>0, <1>8, <2>1, <2>3 DEF Restart, TypeInv, TypeOK
<1>9. ASSUME NEW t \in Task, CarryOut(t)
      PROVE  TypeInv'
  <2>1. accounts' \in Seq(AccountState) /\ Len(accounts') <= MaxAccounts
    BY <1>0, <1>9, NewAccountEffect DEF CarryOut, TypeOK, Task
  <2> QED BY <1>0, <1>9, <2>1 DEF CarryOut, TypeInv, TypeOK, CallsComplete
<1>10. ASSUME NEW a \in Address, SignUp(a)
       PROVE  TypeInv'
  <2>1. accounts' \in Seq(AccountState) /\ Len(accounts') <= MaxAccounts
    BY <1>0, <1>10, NewAccountEffect DEF SignUp
  <2> QED BY <1>0, <1>10, <2>1 DEF SignUp, TypeInv, TypeOK, CallsComplete
<1>11. ASSUME NEW u \in AccountID, NEW s \in Status, SetStatus(u, s)
       PROVE  /\ accounts' \in Seq(AccountState) /\ Len(accounts') <= MaxAccounts
              /\ call' \in [Call -> CallState]
              /\ CallsComplete'
  <2>1. accounts' \in Seq(AccountState) /\ Len(accounts') <= MaxAccounts
    BY <1>0, <1>11, StatusEffect DEF SetStatus
  <2>2. call' = Seen(u, s, call) /\ call \in [Call -> CallState]
    BY <1>0, <1>11 DEF SetStatus, TypeOK
  <2>3. /\ call' \in [Call -> CallState]
        /\ \A d \in Call : /\ call'[d].address = call[d].address
                           /\ call'[d].user = call[d].user
                           /\ call'[d].key = call[d].key
                           /\ call'[d].pc = call[d].pc
    BY <2>2, SeenEffect
  <2>4. CallsComplete'
    BY <1>0, <2>3 DEF CallsComplete
  <2> QED BY <2>1, <2>3, <2>4
<1>12. ASSUME NEW u \in AccountID, NEW s \in Status, Edit(u, s)
       PROVE  TypeInv'
  <2>1. SetStatus(u, s)
    BY <1>12 DEF Edit
  <2>2. /\ accounts' \in Seq(AccountState) /\ Len(accounts') <= MaxAccounts
        /\ call' \in [Call -> CallState] /\ CallsComplete'
    BY <1>11, <2>1
  <2>3. UNCHANGED <<tasks, late, begun>> /\ edits' \in 0..MaxEdits
    BY <1>0, <1>12 DEF Edit, SetStatus, TypeOK
  <2> QED BY <1>0, <2>2, <2>3 DEF TypeInv, TypeOK
<1>13. ASSUME NEW p \in StatusPatch, LatePatch(p)
       PROVE  TypeInv'
  <2>1. SetStatus(p.user, p.status) /\ p.user \in AccountID /\ p.status \in Status
    BY <1>13 DEF LatePatch, StatusPatch
  <2>2. late' \subseteq StatusPatch
    BY <1>0, <1>13 DEF LatePatch, TypeOK
  <2> QED BY <1>0, <1>11, <1>13, <2>1, <2>2 DEF LatePatch, SetStatus, TypeInv, TypeOK
<1>14. CASE UNCHANGED vars
  BY <1>0, <1>14 DEF vars, TypeInv, TypeOK, CallsComplete
<1> QED
  BY <1>1, <1>2, <1>3, <1>4, <1>5, <1>6, <1>7, <1>8, <1>9, <1>10, <1>12, <1>13,
     <1>14 DEF Next, CallStep

LEMMA InitTypeInv == Init => TypeInv
<1>1. Init => CallsComplete
  BY DEF Init, CallsComplete, Idle
<1> QED BY <1>1, InitTypeOK DEF TypeInv

LEMMA TypeInvariant == Spec => []TypeInv
  BY InitTypeInv, NextTypeInv, PTL DEF Spec

(* Every reachable state of the accounts, the tasks and the calls is well  *)
(* typed: a creation always carries the idempotency key of its own call.   *)
THEOREM TypeCorrect == Spec => []TypeOK
<1>1. TypeInv => TypeOK
  BY DEF TypeInv
<1> QED BY <1>1, TypeInvariant, PTL

-----------------------------------------------------------------------------
(***************************************************************************)
(* Second accounts.  A call that decided to create, and a creation Ramp    *)
(* still has to carry out, are older than every account the address has.   *)
(***************************************************************************)
Older(key, address) ==
    \A u \in DOMAIN accounts :
        Folded[accounts[u].address] = Folded[address] => key <= accounts[u].born

CallsOlder == \A c \in Call : call[c].pc = "create" =>
                                Older(call[c].key, call[c].address)
TasksOlder == \A t \in tasks : Older(t.key, t.address)

(* Keys are numbers of calls begun.                                        *)
KeysBegun ==
    /\ \A c \in Call : call[c].key <= begun
    /\ \A t \in tasks : t.key <= begun

SecondInv ==
    /\ TypeInv
    /\ SecondAccountOverlaps
    /\ CallsOlder
    /\ TasksOlder
    /\ KeysBegun

LEMMA InitSecondInv == Init => SecondInv
<1> SUFFICES ASSUME Init PROVE SecondInv
  OBVIOUS
<1>1. TypeInv
  BY InitTypeInv
<1>2. DOMAIN accounts = {} /\ tasks = {} /\ begun = 0
      /\ \A c \in Call : call[c].pc = "idle" /\ call[c].key = 0
  BY DEF Init, Idle
<1> QED BY <1>1, <1>2 DEF SecondInv, SecondAccountOverlaps, CallsOlder, TasksOlder, KeysBegun

(* A new account may come when what makes it is older than the accounts    *)
(* its address has.                                                        *)
LEMMA NewAccountSecondInv ==
    ASSUME SecondInv, NEW a \in Address, NEW k \in {ByHand} \cup Key,
           NewAccount(a, k), Older(k, a), TypeInv',
           tasks' \subseteq tasks, UNCHANGED <<call, begun>>
    PROVE  SecondInv'
<1>0. TypeOK /\ TypeOK'
  BY DEF SecondInv, TypeInv
<1> DEFINE last == Len(accounts) + 1
<1>1. /\ DOMAIN accounts = 1..Len(accounts) /\ Len(accounts) \in Nat
      /\ DOMAIN accounts' = 1..last
      /\ \A u \in DOMAIN accounts : accounts'[u] = accounts[u]
      /\ accounts'[last].address = a /\ accounts'[last].key = k
      /\ accounts'[last].born = begun
  <2>1. accounts'[last] =
          [address |-> a, status |-> "invited", key |-> k, born |-> begun]
    BY <1>0, NewAccountEffect
  <2>2. /\ DOMAIN accounts = 1..Len(accounts) /\ Len(accounts) \in Nat
        /\ DOMAIN accounts' = 1..last
        /\ \A u \in DOMAIN accounts : accounts'[u] = accounts[u]
    BY <1>0, NewAccountEffect
  <2> QED BY <2>1, <2>2
<1>2. \A u \in DOMAIN accounts' : u \in DOMAIN accounts \/ u = last
  BY <1>1
<1>3. SecondAccountOverlaps'
  <2> SUFFICES ASSUME NEW u \in DOMAIN accounts', NEW v \in DOMAIN accounts', u < v,
                      Folded[accounts'[u].address] = Folded[accounts'[v].address]
               PROVE  accounts'[v].key <= accounts'[u].born
    BY DEF SecondAccountOverlaps
  <2>1. u \in DOMAIN accounts
    BY <1>1
  <2>2. CASE v \in DOMAIN accounts
    BY <1>1, <2>1, <2>2 DEF SecondInv, SecondAccountOverlaps
  <2>3. CASE v = last
    BY <1>1, <2>1, <2>3 DEF Older
  <2> QED BY <1>2, <2>2, <2>3
<1>4. ASSUME NEW key, NEW address, Older(key, address), key <= begun
      PROVE  Older(key, address)'
  BY <1>1, <1>2, <1>4 DEF Older
<1>5. CallsOlder'
  BY <1>4 DEF SecondInv, CallsOlder, KeysBegun, Older
<1>6. TasksOlder' /\ KeysBegun'
  BY <1>4 DEF SecondInv, TasksOlder, KeysBegun, Older
<1> QED BY <1>3, <1>5, <1>6 DEF SecondInv

(* A step that leaves the addresses, keys and births of the accounts alone *)
(* and gives no call a new decision to create.                             *)
LEMMA CallsSecondInv ==
    ASSUME SecondInv, TypeInv', begun' >= begun,
           DOMAIN accounts' = DOMAIN accounts,
           \A u \in DOMAIN accounts :
              /\ accounts'[u].address = accounts[u].address
              /\ accounts'[u].key = accounts[u].key
              /\ accounts'[u].born = accounts[u].born,
           \A c \in Call : call'[c].key <= begun',
           \A c \in Call : call'[c].pc = "create" =>
              /\ call'[c].key = call[c].key /\ call'[c].address = call[c].address
              /\ \/ call[c].pc = "create"
                 \/ Older(call[c].key, call[c].address),
           \A t \in tasks' :
              \/ t \in tasks
              \/ \E c \in Call : /\ t.key = call[c].key /\ t.address = call[c].address
                                /\ call[c].pc = "create"
    PROVE  SecondInv'
<1>1. TypeOK /\ TypeOK'
  BY DEF SecondInv, TypeInv
<1>2. SecondAccountOverlaps'
  BY DEF SecondInv, SecondAccountOverlaps
<1>3. ASSUME NEW key, NEW address, Older(key, address)
      PROVE  Older(key, address)'
  BY <1>3 DEF Older
<1>4. CallsOlder'
  <2> SUFFICES ASSUME NEW c \in Call, call'[c].pc = "create"
               PROVE  Older(call[c].key, call[c].address)'
    BY DEF CallsOlder, Older
  <2>1. Older(call[c].key, call[c].address)
    BY DEF SecondInv, CallsOlder
  <2> QED BY <2>1 DEF Older
<1>5. TasksOlder'
  <2> SUFFICES ASSUME NEW t \in tasks' PROVE Older(t.key, t.address)'
    BY DEF TasksOlder, Older
  <2>1. Older(t.key, t.address)
    BY DEF SecondInv, CallsOlder, TasksOlder
  <2> QED BY <1>3, <2>1
<1>6. KeysBegun'
  <2> SUFFICES ASSUME NEW t \in tasks' PROVE t.key <= begun'
    BY DEF KeysBegun
  <2>1. t.key <= begun /\ t.key \in Nat
    BY <1>1 DEF SecondInv, KeysBegun, TypeOK, Task, Key
  <2> QED BY <1>1, <2>1, AccountAssumption DEF TypeOK
<1> QED BY <1>2, <1>4, <1>5, <1>6 DEF SecondInv

LEMMA NextSecondInv == SecondInv /\ [Next]_vars => SecondInv'
<1> SUFFICES ASSUME SecondInv, [Next]_vars PROVE SecondInv'
  OBVIOUS
<1>0. /\ TypeInv /\ TypeInv' /\ TypeOK /\ TypeOK'
      /\ call \in [Call -> CallState] /\ begun \in Nat /\ begun' \in Nat
      /\ \A c \in Call : call[c].key \in Nat /\ call[c].key <= begun
  <2>1. TypeInv /\ TypeInv'
    BY NextTypeInv DEF SecondInv
  <2>2. TypeOK /\ TypeOK' /\ call \in [Call -> CallState]
    BY <2>1 DEF TypeInv, TypeOK
  <2>3. begun \in Nat /\ begun' \in Nat
    BY <2>2, AccountAssumption DEF TypeOK
  <2>4. \A c \in Call : call[c].key \in Nat
    BY <2>2 DEF CallState, Key
  <2> QED BY <2>1, <2>2, <2>3, <2>4 DEF SecondInv, KeysBegun
<1>1. ASSUME NEW c \in Call, NEW k \in CallState, Begin(c, k), k.pc # "create",
             k.key \in Nat, k.key <= begun + 1
      PROVE  SecondInv'
  <2>1. call' = [call EXCEPT ![c] = k] /\ begun' = begun + 1
        /\ UNCHANGED <<accounts, tasks, late, edits>>
    BY <1>1 DEF Begin
  <2>2. \A d \in Call : call'[d] = IF d = c THEN k ELSE call[d]
    BY <1>0, <2>1
  <2>3. \A d \in Call : call'[d].key <= begun'
    BY <1>0, <1>1, <2>1, <2>2
  <2>4. \A d \in Call : call'[d].pc = "create" =>
            /\ call'[d].key = call[d].key /\ call'[d].address = call[d].address
            /\ call[d].pc = "create"
    BY <1>1, <2>2
  <2> QED BY <1>0, <2>1, <2>3, <2>4, CallsSecondInv
<1>2. ASSUME NEW c \in Call, NEW a \in Address \cup {NoAddress}, NEW w \in BOOLEAN,
             CreateAccount(c, a, w)
      PROVE  SecondInv'
  <2> DEFINE k == IF a = NoAddress \/ ~w THEN Invalid
                  ELSE [Idle EXCEPT !.address = a, !.key = begun + 1, !.pc = "find"]
  <2>1. Begin(c, k)
    BY <1>2 DEF CreateAccount
  <2>2. k \in CallState
    BY <1>0, <2>1 DEF Begin, TypeOK, Invalid, Idle, CallState, Running, Outcome, Key
  <2>3. k.pc # "create" /\ k.key \in {0, begun + 1}
    BY DEF Invalid, Idle
  <2> HIDE DEF k
  <2>4. k.key \in Nat /\ k.key <= begun + 1
    BY <1>0, <2>3
  <2> QED BY <1>1, <2>1, <2>2, <2>3, <2>4
<1>3. ASSUME NEW c \in Call, NEW op \in {"disable", "enable"},
             NEW u \in {0} \cup AccountID, HandleUserAction(c, op, u)
      PROVE  SecondInv'
  <2> DEFINE k == IF u = 0 THEN Invalid
                  ELSE [Idle EXCEPT !.op = op, !.user = u, !.pc = "patch",
                          !.held = {accounts[v].status : v \in {u} \cap DOMAIN accounts}]
  <2>1. Begin(c, k)
    BY <1>3 DEF HandleUserAction
  <2>2. call'[c] = k /\ call'[c] \in CallState
    BY <1>0, <2>1 DEF Begin, TypeOK
  <2>3. k.pc # "create" /\ k.key = 0
    BY DEF Invalid, Idle
  <2> HIDE DEF k
  <2> QED BY <1>0, <1>1, <2>1, <2>2, <2>3
<1>4. ASSUME NEW c \in Call, FindUserByEmail(c)
      PROVE  SecondInv'
  <2>1. UNCHANGED <<accounts, tasks, late, begun, edits>>
    BY <1>4 DEF FindUserByEmail
  <2>2. PICK U \in FilteredUsers(call[c].address) :
           \/ \E u \in U : Finds(c, u)
           \/ /\ \A u \in U : ~EqualFold(accounts[u].address, call[c].address)
              /\ call' = [call EXCEPT ![c].pc = "create"]
    BY <1>4 DEF FindUserByEmail
  <2>3. ASSUME NEW u \in U, Finds(c, u)
        PROVE  SecondInv'
    <3>1. call' = [call EXCEPT ![c].pc = "already_exists", ![c].user = u]
      BY <2>3 DEF Finds
    <3>2. \A d \in Call : /\ call'[d].key = call[d].key
                          /\ call'[d].address = call[d].address
                          /\ call'[d].pc = "create" => call[d].pc = "create"
      BY <1>0, <3>1 DEF CallState
    <3> QED BY <1>0, <2>1, <3>2, CallsSecondInv
  <2>4. CASE /\ \A u \in U : ~EqualFold(accounts[u].address, call[c].address)
             /\ call' = [call EXCEPT ![c].pc = "create"]
    <3>1. \A u \in DOMAIN accounts :
             Folded[accounts[u].address] # Folded[call[c].address]
      BY <2>4 DEF FilteredUsers, EqualFold
    <3>2. Older(call[c].key, call[c].address)
      BY <3>1 DEF Older
    <3>3. \A d \in Call : /\ call'[d].key = call[d].key
                          /\ call'[d].address = call[d].address
                          /\ d # c => call'[d].pc = call[d].pc
      BY <1>0, <2>4 DEF CallState
    <3> QED BY <1>0, <2>1, <3>2, <3>3, CallsSecondInv
  <2> QED BY <2>2, <2>3, <2>4
<1>5. ASSUME NEW c \in Call, CreateUser(c) \/ RequestFails(c) \/ Returns(c)
      PROVE  SecondInv'
  <2>1. UNCHANGED <<accounts, begun>>
    BY <1>5 DEF CreateUser, RequestFails, Returns
  <2>2. PICK pc \in {"created", "failed", "action_required", "succeeded"} :
           call' = [call EXCEPT ![c].pc = pc]
    BY <1>5 DEF CreateUser, RequestFails, Returns
  <2>3. \A d \in Call : /\ call'[d].key = call[d].key
                        /\ call'[d].address = call[d].address
                        /\ call'[d].pc = "create" => call[d].pc = "create"
    BY <1>0, <2>2 DEF CallState
  <2>4. \A t \in tasks' : t \in tasks \/ (t = Invite(c) /\ call[c].pc = "create")
    BY <1>5 DEF CreateUser, RequestFails, Returns
  <2>5. Invite(c).key = call[c].key /\ Invite(c).address = call[c].address
    BY DEF Invite, IdempotencyKey
  <2> QED BY <1>0, <2>1, <2>3, <2>4, <2>5, CallsSecondInv
<1>6. ASSUME NEW u \in AccountID, NEW s \in Status, NEW calls \in [Call -> CallState],
             accounts' = [accounts EXCEPT ![u].status = s], u \in DOMAIN accounts,
             call' = Seen(u, s, calls), UNCHANGED <<tasks, begun>>,
             \A d \in Call : /\ calls[d].key = call[d].key
                             /\ calls[d].address = call[d].address
                             /\ calls[d].pc = "create" => call[d].pc = "create"
      PROVE  SecondInv'
  <2>1. /\ DOMAIN accounts' = DOMAIN accounts
        /\ \A v \in DOMAIN accounts :
              /\ accounts'[v].address = accounts[v].address
              /\ accounts'[v].key = accounts[v].key
              /\ accounts'[v].born = accounts[v].born
    BY <1>0, <1>6, StatusEffect
  <2>2. \A d \in Call : /\ call'[d].key = calls[d].key
                        /\ call'[d].address = calls[d].address
                        /\ call'[d].pc = calls[d].pc
    BY <1>6, SeenEffect
  <2>3. \A d \in Call : /\ call'[d].key = call[d].key
                        /\ call'[d].address = call[d].address
                        /\ call'[d].pc = "create" => call[d].pc = "create"
    BY <1>6, <2>2
  <2> QED BY <1>0, <1>6, <2>1, <2>3, CallsSecondInv
<1>7. ASSUME NEW c \in Call, PatchUser(c)
      PROVE  SecondInv'
  <2> DEFINE patched == [call EXCEPT ![c].pc = "patched"]
  <2>1. call[c].user \in AccountID /\ TargetStatus(call[c]) \in Status
    BY <1>0, <1>7 DEF PatchUser, TypeInv, CallsComplete, TargetStatus, Status
  <2>2. patched \in [Call -> CallState]
    BY <1>0, PCTypes DEF Running
  <2>3. \A d \in Call : /\ patched[d].key = call[d].key
                        /\ patched[d].address = call[d].address
                        /\ patched[d].pc = "create" => call[d].pc = "create"
    BY <1>0 DEF CallState
  <2>4. /\ accounts' = [accounts EXCEPT ![call[c].user].status = TargetStatus(call[c])]
        /\ call[c].user \in DOMAIN accounts
        /\ call' = Seen(call[c].user, TargetStatus(call[c]), patched)
        /\ UNCHANGED <<tasks, begun>>
    BY <1>7 DEF PatchUser
  <2> HIDE DEF patched
  <2> QED BY <1>6, <2>1, <2>2, <2>3, <2>4
<1>8. ASSUME NEW u \in AccountID, NEW s \in Status, SetStatus(u, s)
      PROVE  SecondInv'
  BY <1>0, <1>6, <1>8 DEF SetStatus
<1>9. ASSUME Restart
      PROVE  SecondInv'
  <2>1. \A d \in Call : /\ call'[d].key = call[d].key
                        /\ call'[d].address = call[d].address
                        /\ call'[d].pc # "create"
    BY <1>0, <1>9 DEF Restart, CallState, Running
  <2> QED BY <1>0, <1>9, <2>1, CallsSecondInv DEF Restart
<1>10. ASSUME NEW t \in Task, CarryOut(t)
       PROVE  SecondInv'
  <2>1. UNCHANGED <<call, begun>> /\ t \in tasks /\ tasks' \subseteq tasks
    BY <1>10 DEF CarryOut
  <2>2. CASE NewAccount(t.address, t.key)
    <3>1. t.address \in Address /\ t.key \in {ByHand} \cup Key
      BY DEF Task
    <3>2. Older(t.key, t.address)
      BY <2>1 DEF SecondInv, TasksOlder
    <3> QED BY <1>0, <2>1, <2>2, <3>1, <3>2, NewAccountSecondInv
  <2>3. CASE UNCHANGED accounts
    BY <1>0, <2>1, <2>3, CallsSecondInv
  <2> QED BY <1>10, <2>2, <2>3 DEF CarryOut
<1>11. ASSUME NEW a \in Address, SignUp(a)
       PROVE  SecondInv'
  <2>1. NewAccount(a, ByHand) /\ UNCHANGED <<tasks, call, begun>>
    BY <1>11 DEF SignUp
  <2>2. \A u \in DOMAIN accounts : accounts[u].born \in Nat
    <3>1. accounts \in Seq(AccountState) /\ DOMAIN accounts = 1..Len(accounts)
      BY <1>0, LenProperties DEF TypeOK
    <3>2. \A u \in DOMAIN accounts : accounts[u] \in AccountState
      BY <3>1, ElementOfSeq
    <3> QED BY <3>2, AccountAssumption DEF AccountState
  <2>3. Older(ByHand, a)
    BY <2>2 DEF Older, ByHand
  <2> QED BY <1>0, <2>1, <2>3, NewAccountSecondInv
<1>12. ASSUME NEW u \in AccountID, NEW s \in Status, Edit(u, s)
       PROVE  SecondInv'
  BY <1>8, <1>12 DEF Edit
<1>13. ASSUME NEW p \in StatusPatch, LatePatch(p)
       PROVE  SecondInv'
  BY <1>8, <1>13 DEF LatePatch, StatusPatch
<1>14. CASE UNCHANGED vars
  BY <1>0, <1>14, CallsSecondInv DEF vars
<1> QED
  BY <1>2, <1>3, <1>4, <1>5, <1>7, <1>9, <1>10, <1>11, <1>12, <1>13, <1>14
     DEF Next, CallStep

(* However calls overlap, responses are lost and creations are carried out *)
(* late, CreateAccount makes a second account for an address only if the   *)
(* call began before the first account was there.                          *)
THEOREM SecondAccountsOverlap == Spec => []SecondAccountOverlaps
<1>1. SecondInv => SecondAccountOverlaps
  BY DEF SecondInv
<1> QED BY <1>1, InitSecondInv, NextSecondInv, PTL DEF Spec

-----------------------------------------------------------------------------
(***************************************************************************)
(* Reports.  What a call will report is settled once Ramp has carried out  *)
(* its PATCH, and one found account stays the one that was asked for.      *)
(***************************************************************************)
FoundIsAsked(k) ==
    k.pc = "already_exists" =>
        /\ k.user \in DOMAIN accounts
        /\ Folded[accounts[k.user].address] = Folded[k.address]

StatusWasHeld(k) ==
    k.pc \in {"patched", "succeeded"} => TargetStatus(k) \in k.held

ReportInv ==
    /\ TypeInv
    /\ \A c \in Call : FoundIsAsked(call[c]) /\ StatusWasHeld(call[c])

LEMMA InitReportInv == Init => ReportInv
  BY InitTypeInv DEF Init, ReportInv, FoundIsAsked, StatusWasHeld, Idle

(* A step that keeps the accounts and their addresses, and each call that  *)
(* reports or is about to, but for its history.                            *)
LEMMA KeptReportInv ==
    ASSUME ReportInv, TypeInv',
           DOMAIN accounts \subseteq DOMAIN accounts',
           \A u \in DOMAIN accounts : accounts'[u].address = accounts[u].address,
           \A c \in Call :
              \/ call'[c].pc \notin {"already_exists", "patched", "succeeded"}
              \/ FoundIsAsked(call'[c]) /\ StatusWasHeld(call'[c])
              \/ /\ call'[c].op = call[c].op /\ call'[c].user = call[c].user
                 /\ call'[c].address = call[c].address
                 /\ call'[c].pc = call[c].pc \/ (call'[c].pc = "succeeded" /\ call[c].pc = "patched")
                 /\ call[c].held \subseteq call'[c].held
    PROVE  ReportInv'
<1> SUFFICES ASSUME NEW c \in Call
             PROVE  FoundIsAsked(call[c])' /\ StatusWasHeld(call[c])'
  BY DEF ReportInv
<1>1. FoundIsAsked(call[c]) /\ StatusWasHeld(call[c])
  BY DEF ReportInv
<1>2. CASE call'[c].pc \notin {"already_exists", "patched", "succeeded"}
  BY <1>2 DEF FoundIsAsked, StatusWasHeld
<1>3. CASE FoundIsAsked(call'[c]) /\ StatusWasHeld(call'[c])
  BY <1>3 DEF FoundIsAsked, StatusWasHeld
<1>4. CASE /\ call'[c].op = call[c].op /\ call'[c].user = call[c].user
           /\ call'[c].address = call[c].address
           /\ call'[c].pc = call[c].pc \/ (call'[c].pc = "succeeded" /\ call[c].pc = "patched")
           /\ call[c].held \subseteq call'[c].held
  BY <1>1, <1>4 DEF FoundIsAsked, StatusWasHeld, TargetStatus
<1> QED BY <1>2, <1>3, <1>4

LEMMA NextReportInv == ReportInv /\ [Next]_vars => ReportInv'
<1> SUFFICES ASSUME ReportInv, [Next]_vars PROVE ReportInv'
  OBVIOUS
<1>0. /\ TypeInv /\ TypeInv' /\ TypeOK
      /\ call \in [Call -> CallState] /\ \A c \in Call : call[c] \in CallState
  BY NextTypeInv DEF ReportInv, TypeInv, TypeOK
<1>1. ASSUME NEW c \in Call, NEW k, Begin(c, k), k.pc \in {"find", "patch", "invalid"}
      PROVE  ReportInv'
  <2>1. \A d \in Call : call'[d] = IF d = c THEN k ELSE call[d]
    BY <1>0, <1>1 DEF Begin
  <2>2. UNCHANGED accounts
    BY <1>1 DEF Begin
  <2> QED BY <1>0, <1>1, <2>1, <2>2, KeptReportInv
<1>2. ASSUME NEW c \in Call, NEW a \in Address \cup {NoAddress}, NEW w \in BOOLEAN,
             CreateAccount(c, a, w)
      PROVE  ReportInv'
  BY <1>1, <1>2 DEF CreateAccount, Invalid, Idle
<1>3. ASSUME NEW c \in Call, NEW op \in {"disable", "enable"},
             NEW u \in {0} \cup AccountID, HandleUserAction(c, op, u)
      PROVE  ReportInv'
  BY <1>1, <1>3 DEF HandleUserAction, Invalid, Idle
<1>4. ASSUME NEW c \in Call, FindUserByEmail(c)
      PROVE  ReportInv'
  <2>1. UNCHANGED accounts
    BY <1>4 DEF FindUserByEmail
  <2>2. ASSUME NEW u \in DOMAIN accounts, Finds(c, u)
        PROVE  ReportInv'
    <3>1. \A d \in Call : d # c => call'[d] = call[d]
      BY <1>0, <2>2 DEF Finds
    <3>2. /\ call'[c].pc = "already_exists" /\ call'[c].user = u
          /\ call'[c].address = call[c].address
      BY <1>0, <2>2 DEF Finds, CallState
    <3>3. FoundIsAsked(call'[c]) /\ StatusWasHeld(call'[c])
      BY <2>2, <3>2 DEF Finds, EqualFold, FoundIsAsked, StatusWasHeld
    <3> QED BY <1>0, <2>1, <3>1, <3>3, KeptReportInv
  <2>3. CASE call' = [call EXCEPT ![c].pc = "create"]
    <3>1. \A d \in Call : call'[d] = call[d] \/ call'[d].pc = "create"
      BY <1>0, <2>3 DEF CallState
    <3> QED BY <1>0, <2>1, <3>1, KeptReportInv
  <2> QED BY <1>4, <2>2, <2>3 DEF FindUserByEmail, FilteredUsers
<1>5. ASSUME NEW c \in Call, CreateUser(c) \/ RequestFails(c)
      PROVE  ReportInv'
  <2>1. UNCHANGED accounts
    BY <1>5 DEF CreateUser, RequestFails
  <2>2. \A d \in Call : call'[d] = call[d] \/ call'[d].pc \in {"created", "failed"}
    BY <1>0, <1>5 DEF CreateUser, RequestFails, CallState
  <2> QED BY <1>0, <2>1, <2>2, KeptReportInv
<1>6. ASSUME NEW c \in Call, Returns(c)
      PROVE  ReportInv'
  <2>1. UNCHANGED accounts
    BY <1>6 DEF Returns
  <2>2. CASE call' = [call EXCEPT ![c].pc = "action_required"]
    <3>1. \A d \in Call : call'[d] = call[d] \/ call'[d].pc = "action_required"
      BY <1>0, <2>2 DEF CallState
    <3> QED BY <1>0, <2>1, <3>1, KeptReportInv
  <2>3. CASE call[c].pc = "patched" /\ call' = [call EXCEPT ![c].pc = "succeeded"]
    <3>1. \A d \in Call : d # c => call'[d] = call[d]
      BY <2>3
    <3>2. /\ call'[c].op = call[c].op /\ call'[c].user = call[c].user
          /\ call'[c].address = call[c].address /\ call'[c].held = call[c].held
          /\ call'[c].pc = "succeeded" /\ call[c].pc = "patched"
      BY <1>0, <2>3 DEF CallState
    <3> QED BY <1>0, <2>1, <3>1, <3>2, KeptReportInv
  <2> QED BY <1>6, <2>2, <2>3 DEF Returns
<1>7. ASSUME NEW c \in Call, PatchUser(c)
      PROVE  ReportInv'
  <2> DEFINE u == call[c].user
             s == TargetStatus(call[c])
             patched == [call EXCEPT ![c].pc = "patched"]
  <2>1. /\ u \in DOMAIN accounts /\ u \in AccountID /\ s \in Status
        /\ accounts' = [accounts EXCEPT ![u].status = s]
        /\ call' = Seen(u, s, patched)
    BY <1>0, <1>7 DEF PatchUser, TypeInv, CallsComplete, TargetStatus, Status
  <2>2. DOMAIN accounts' = DOMAIN accounts
        /\ \A v \in DOMAIN accounts : accounts'[v].address = accounts[v].address
    <3> HIDE DEF u, s
    <3> QED BY <1>0, <2>1, StatusEffect
  <2>3. patched \in [Call -> CallState]
    BY <1>0, PCTypes DEF Running
  <2>4. \A d \in Call :
           /\ call'[d].op = patched[d].op /\ call'[d].user = patched[d].user
           /\ call'[d].address = patched[d].address /\ call'[d].pc = patched[d].pc
           /\ patched[d].held \subseteq call'[d].held
           /\ patched[d].user = u /\ patched[d].pc = "patched" => s \in call'[d].held
    <3> HIDE DEF u, s, patched
    <3> QED BY <2>1, <2>3, SeenEffect
  <2>5. \A d \in Call : d # c => patched[d] = call[d]
    OBVIOUS
  <2>6. patched[c].pc = "patched" /\ patched[c].user = u /\ patched[c].op = call[c].op
    BY <1>0 DEF CallState
  <2>7. StatusWasHeld(call'[c]) /\ FoundIsAsked(call'[c])
    BY <2>4, <2>6 DEF StatusWasHeld, FoundIsAsked, TargetStatus
  <2> HIDE DEF u, s, patched
  <2> QED BY <1>0, <2>2, <2>4, <2>5, <2>7, KeptReportInv
<1>8. ASSUME NEW u \in AccountID, NEW s \in Status, SetStatus(u, s)
      PROVE  ReportInv'
  <2>1. DOMAIN accounts' = DOMAIN accounts
        /\ \A v \in DOMAIN accounts : accounts'[v].address = accounts[v].address
    BY <1>0, <1>8, StatusEffect DEF SetStatus
  <2>2. \A d \in Call :
           /\ call'[d].op = call[d].op /\ call'[d].user = call[d].user
           /\ call'[d].address = call[d].address /\ call'[d].pc = call[d].pc
           /\ call[d].held \subseteq call'[d].held
    <3>1. call' = Seen(u, s, call) /\ call \in [Call -> CallState]
      BY <1>0, <1>8 DEF SetStatus
    <3> QED BY <3>1, SeenEffect
  <2> QED BY <1>0, <2>1, <2>2, KeptReportInv
<1>9. ASSUME Restart
      PROVE  ReportInv'
  <2>1. \A d \in Call : call'[d] = call[d] \/ call'[d].pc = "failed"
    BY <1>0, <1>9 DEF Restart, CallState
  <2>2. UNCHANGED accounts
    BY <1>9 DEF Restart
  <2> QED BY <1>0, <2>1, <2>2, KeptReportInv
<1>10. ASSUME NEW a \in Address, NEW k \in {ByHand} \cup Key,
              NewAccount(a, k) \/ UNCHANGED accounts, UNCHANGED call
       PROVE  ReportInv'
  <2>1. DOMAIN accounts \subseteq DOMAIN accounts'
        /\ \A v \in DOMAIN accounts : accounts'[v].address = accounts[v].address
    <3>1. CASE NewAccount(a, k)
      <4>1. /\ DOMAIN accounts = 1..Len(accounts) /\ Len(accounts) \in Nat
            /\ DOMAIN accounts' = 1..(Len(accounts) + 1)
            /\ \A v \in DOMAIN accounts : accounts'[v] = accounts[v]
        BY <1>0, <3>1, NewAccountEffect
      <4> QED BY <4>1
    <3> QED BY <1>10, <3>1
  <2> QED BY <1>0, <1>10, <2>1, KeptReportInv
<1>11. ASSUME NEW t \in Task, CarryOut(t)
       PROVE  ReportInv'
  BY <1>10, <1>11 DEF CarryOut, Task
<1>12. ASSUME NEW a \in Address, SignUp(a)
       PROVE  ReportInv'
  BY <1>10, <1>12 DEF SignUp
<1>13. ASSUME NEW u \in AccountID, NEW s \in Status, Edit(u, s)
       PROVE  ReportInv'
  BY <1>8, <1>13 DEF Edit
<1>14. ASSUME NEW p \in StatusPatch, LatePatch(p)
       PROVE  ReportInv'
  BY <1>8, <1>14 DEF LatePatch, StatusPatch
<1>15. CASE UNCHANGED vars
  BY <1>0, <1>15, KeptReportInv DEF vars
<1> QED
  BY <1>2, <1>3, <1>4, <1>5, <1>6, <1>7, <1>9, <1>11, <1>12, <1>13, <1>14, <1>15
     DEF Next, CallStep

(* What CreateAccount, disable_user and enable_user report is true: the    *)
(* account found has the address asked for, the status set was the user's. *)
THEOREM ReportsAreTrue == Spec => []ReportsTrue
<1>1. ReportInv => ReportsTrue
  BY DEF ReportInv, FoundIsAsked, StatusWasHeld, ReportsTrue
<1> QED BY <1>1, InitReportInv, NextReportInv, PTL DEF Spec
=============================================================================
