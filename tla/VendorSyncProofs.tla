-------------------------- MODULE VendorSyncProofs --------------------------
(***************************************************************************)
(* Theorems about VendorSync: types, and that a full sync reports no owner *)
(* from before the end of the full sync that preceded it, for any number   *)
(* of vendors, pages, calls, retries, restarts, syncs and edits, with the  *)
(* cache on or off; that it reports every vendor (SyncReport); and how old *)
(* what targeted syncs, grants and revokes read can be.                    *)
(***************************************************************************)
EXTENDS VendorSync, VendorOwnerProofs

(* How far the full sync is, and that the pages and answers it works with  *)
(* have an owner for every vendor they are to have one for.                *)
PhaseInv ==
    /\ sync.pc \in {"idle", "list", "reset", "fill"} => sync.page \in 1..Pages
    /\ \A n \in 1..Pages : listed[n] # Uncached =>
         \A v \in OnPage(n) : listed[n][v] # Absent
    /\ sync.pc = "reset" => \A v \in OnPage(sync.page) : sync.answer[v] # Absent
    /\ sync.pc = "fill" => \A v \in sync.fill :
          v \in OnPage(sync.page) /\ sync.answer[v] # Absent
    /\ sync.pc = "fetched" => \A v \in sync.vendor : sync.answer[v] # Absent

FreshListed ==
    \A n \in 1..Pages, v \in Vendor :
        listed[n] # Uncached /\ listed[n][v] # Absent => listed[n][v] \in since[v]

FreshAnswer ==
    \A v \in Vendor : sync.answer[v] # Absent => sync.answer[v] \in since[v]

(* The map, once the first page has reset it.                              *)
FreshMap ==
    sync.page # 1 \/ sync.pc \in {"fill", "grants", "fetched"} =>
        \A v \in Vendor : vendorOwners[v] # Absent => vendorOwners[v] \in since[v]

(* A hole in the map is one a restart has left, and whatever may fill it   *)
(* has been read since.                                                    *)
FreshSources(v) ==
    /\ cache[v] \in since[v] \cup {Uncached}
    /\ \A d \in Call : call[d].pc = "answered" /\ call[d].vendor = v =>
         call[d].answer \in since[v]
    /\ target.pc \in {"got", "fetched"} /\ target.vendor = v =>
         target.answer \in since[v]

FreshHoles == \A v \in sync.todo : vendorOwners[v] = Absent => FreshSources(v)

(* The platform has nothing of the page to be listed, nor of later ones.   *)
NothingAhead ==
    /\ sync.pc \in {"list", "reset"} => \A v \in sync.todo : PageOf[v] < sync.page
    /\ sync.pc = "fill" => \A v \in sync.todo : PageOf[v] <= sync.page

FreshInv ==
    /\ \A v \in Vendor : owner[v] \in since[v]
    /\ FreshListed /\ FreshAnswer /\ FreshMap /\ FreshHoles /\ NothingAhead
    /\ SyncReportsRecentOwner

-----------------------------------------------------------------------------
(* Constants.                                                              *)
LEMMA Constants ==
    /\ Absent \notin Owner /\ Uncached \notin Owner /\ Nobody \in Owner
    /\ Vendor # {} /\ Pages \in Nat \ {0} /\ PageOf \in [Vendor -> 1..Pages]
    /\ MaxSyncs \in Nat
    /\ 1 \in 1..Pages /\ 1 \in 1..(Pages + 1)
    /\ \A n : OnPage(n) \subseteq Vendor
BY SyncAssumption, OwnerAssumption DEF Owner, OnPage

(* The order of the pages.                                                 *)
LEMMA PageOrder ==
    ASSUME NEW v \in Vendor, NEW n \in 1..Pages
    PROVE  /\ PageOf[v] \in 1..Pages /\ ~(PageOf[v] < 1)
           /\ PageOf[v] < n <=> PageOf[v] <= n /\ v \notin OnPage(n)
           /\ PageOf[v] <= n <=> PageOf[v] < n + 1
           /\ v \in OnPage(n) => PageOf[v] <= n
BY Constants DEF OnPage

LEMMA Counts ==
    ASSUME NEW Bound \in Nat, NEW n \in 0..Bound, n < Bound
    PROVE  n + 1 \in 0..Bound
OBVIOUS

LEMMA IdleTypes ==
    /\ Nothing \in [Vendor -> Entry] /\ \A v \in Vendor : Nothing[v] = Absent
    /\ IdleSync \in SyncState
    /\ IdleSync.pc = "idle" /\ IdleSync.page = 1 /\ IdleSync.answer = Nothing
    /\ IdleSync.fill = {} /\ IdleSync.vendor = {} /\ IdleSync.todo = {}
    /\ IdleSync.reported = Nothing
    /\ IdleTarget \in TargetState /\ IdleTarget.pc = "idle"
<1>1. Nothing \in [Vendor -> Entry] /\ \A v \in Vendor : Nothing[v] = Absent
  BY DEF Nothing, Entry
<1>2. (CHOOSE v \in Vendor : TRUE) \in Vendor
  BY Constants
<1>3. IdleSync \in SyncState
  BY <1>1, Constants DEF IdleSync, SyncState
<1>4. IdleTarget \in TargetState /\ IdleTarget.pc = "idle"
  BY <1>2, Constants DEF IdleTarget, TargetState
<1> QED BY <1>1, <1>3, <1>4 DEF IdleSync

(* A page is well typed, and its cached copy is no Uncached.               *)
LEMMA SyncFields ==
    ASSUME SyncTypeOK
    PROVE  /\ sync \in SyncState /\ sync.page \in 1..(Pages + 1)
           /\ sync.answer \in [Vendor -> Entry] /\ sync.fill \subseteq Vendor
           /\ sync.vendor \subseteq Vendor /\ sync.todo \subseteq Vendor
           /\ sync.reported \in [Vendor -> Entry]
           /\ target \in TargetState /\ target.vendor \in Vendor
           /\ target.answer \in Owner
           /\ owner \in [Vendor -> Owner]
           /\ cache \in [Vendor -> Owner \cup {Uncached}]
           /\ call \in [Call -> CallState]
           /\ vendorOwners \in [Vendor -> Entry]
           /\ listed \in [1..Pages -> [Vendor -> Entry] \cup {Uncached}]
           /\ syncs \in 0..MaxSyncs
           /\ since \in [Vendor -> SUBSET Owner]
           /\ recent \in [Vendor -> SUBSET Owner]
BY DEF SyncTypeOK, TypeOK, SyncState, TargetState

LEMMA OwnerOf ==
    ASSUME SyncTypeOK, NEW v \in Vendor
    PROVE  /\ VendorOwnerID(v) \in Owner /\ GrantsOwner(v) \in Owner
           /\ VendorOwnerID(v) = owner[v]
                \/ (cache[v] # Uncached /\ VendorOwnerID(v) = cache[v])
BY SyncFields DEF VendorOwnerID, GrantsOwner, Entry

-----------------------------------------------------------------------------
(* What each step of a full sync does to the fields of sync.               *)
LEMMA ListDoes ==
    ASSUME SyncTypeOK, PhaseInv, ListVendors
    PROVE  /\ sync.pc = "list" /\ sync'.pc = "reset" /\ sync.page \in 1..Pages
           /\ sync' \in SyncState
           /\ sync'.page = sync.page /\ sync'.todo = sync.todo
           /\ sync'.reported = sync.reported
           /\ \/ listed[sync.page] # Uncached /\ sync'.answer = listed[sync.page]
              \/ \A v \in Vendor : sync'.answer[v] =
                    IF v \in OnPage(sync.page) THEN owner[v] ELSE Absent
           /\ UNCHANGED <<vendorOwners, listed, target, syncs, since, recent>>
           /\ UNCHANGED ownerVars
<1> DEFINE fresh == [v \in Vendor |-> IF v \in OnPage(sync.page)
                                        THEN owner[v] ELSE Absent]
           answer == IF Caching /\ listed[sync.page] # Uncached
                       THEN listed[sync.page] ELSE fresh
<1>1. sync.page \in 1..Pages /\ sync.pc = "list"
  BY DEF PhaseInv, ListVendors
<1>2. fresh \in [Vendor -> Entry]
  BY SyncFields DEF Entry
<1> HIDE DEF fresh
<1>3. answer \in [Vendor -> Entry]
  BY <1>1, <1>2, SyncFields
<1>4. sync' = [sync EXCEPT !.pc = "reset", !.answer = answer]
  BY DEF ListVendors, fresh
<1>5. \/ answer = listed[sync.page] /\ listed[sync.page] # Uncached
      \/ answer = fresh
  OBVIOUS
<1> HIDE DEF answer
<1>6. /\ sync' \in SyncState /\ sync'.pc = "reset" /\ sync'.answer = answer
      /\ sync'.page = sync.page /\ sync'.todo = sync.todo
      /\ sync'.reported = sync.reported
  BY <1>3, <1>4, SyncFields DEF SyncState
<1>7. answer = fresh => \A v \in Vendor : answer[v] =
         IF v \in OnPage(sync.page) THEN owner[v] ELSE Absent
  BY DEF fresh
<1> QED BY <1>1, <1>5, <1>6, <1>7 DEF ListVendors

LEMMA ResetDoes ==
    ASSUME SyncTypeOK, PhaseInv, ListReset
    PROVE  /\ sync.pc = "reset" /\ sync'.pc = "fill" /\ sync.page \in 1..Pages
           /\ sync' \in SyncState
           /\ sync'.page = sync.page /\ sync'.answer = sync.answer
           /\ sync'.fill = OnPage(sync.page) /\ sync'.todo = sync.todo
           /\ sync'.reported = sync.reported
           /\ vendorOwners' = IF sync.page = 1 THEN Nothing ELSE vendorOwners
           /\ listed' \in {listed, [listed EXCEPT ![sync.page] = sync.answer]}
           /\ UNCHANGED <<target, syncs, since, recent>>
           /\ UNCHANGED ownerVars
<1>1. OnPage(sync.page) \subseteq Vendor
  BY DEF OnPage
<1> QED BY <1>1, SyncFields DEF SyncState, ListReset, PhaseInv

(* A page asked for again, because a resource could not be built or the    *)
(* process was restarted, leaves of the account the pages before it.       *)
LEMMA AgainDoes ==
    ASSUME SyncTypeOK, PhaseInv, sync.pc \in {"reset", "fill"}, sync' = PageAgain
    PROVE  /\ sync' \in SyncState /\ sync'.pc = "list" /\ sync'.page = sync.page
           /\ sync.page \in 1..Pages
           /\ sync'.answer = sync.answer /\ sync'.reported = sync.reported
           /\ sync'.todo = sync.todo \ OnPage(sync.page)
BY SyncFields DEF SyncState, PageAgain, PhaseInv

LEMMA FillDoes ==
    ASSUME SyncTypeOK, PhaseInv, NEW v \in Vendor, ListFill(v)
    PROVE  /\ sync.pc = "fill" /\ sync' \in SyncState /\ sync.page \in 1..Pages
           /\ v \in sync.fill /\ sync.answer[v] # Absent
           /\ sync'.page = sync.page /\ sync'.answer = sync.answer
           /\ sync'.reported = sync.reported
           /\ vendorOwners' = [vendorOwners EXCEPT ![v] = sync.answer[v]]
           /\ \/ /\ sync'.pc = "fill" /\ sync'.fill = sync.fill \ {v}
                 /\ sync'.todo = sync.todo \cup {v}
              \/ /\ sync'.pc = "list"
                 /\ sync'.todo = sync.todo \ OnPage(sync.page)
           /\ UNCHANGED <<listed, target, syncs, since, recent>>
           /\ UNCHANGED ownerVars
<1>1. /\ sync.pc = "fill" /\ v \in sync.fill /\ sync.answer[v] # Absent
      /\ vendorOwners' = [vendorOwners EXCEPT ![v] = sync.answer[v]]
      /\ sync.page \in 1..Pages
      /\ UNCHANGED <<listed, target, syncs, since, recent>>
      /\ UNCHANGED ownerVars
  BY DEF ListFill, KeepOwner, PhaseInv
<1>2. CASE sync' = [sync EXCEPT !.fill = @ \ {v}, !.todo = @ \cup {v}]
  BY <1>1, <1>2, SyncFields DEF SyncState
<1>3. CASE sync' = PageAgain
  BY <1>1, <1>3, AgainDoes
<1> QED BY <1>2, <1>3 DEF ListFill

LEMMA ReturnsDoes ==
    ASSUME SyncTypeOK, PhaseInv, ListReturns
    PROVE  /\ sync.pc = "fill" /\ sync' \in SyncState
           /\ sync'.pc = IF sync.page = Pages THEN "grants" ELSE "list"
           /\ sync'.page = sync.page + 1 /\ sync.page \in 1..Pages
           /\ sync'.page # 1 /\ (sync.page # Pages => sync'.page \in 1..Pages)
           /\ sync'.answer = sync.answer /\ sync'.todo = sync.todo
           /\ sync'.reported = sync.reported
           /\ UNCHANGED <<vendorOwners, listed, target, syncs, since, recent>>
           /\ UNCHANGED ownerVars
<1>1. sync.pc = "fill" /\ sync.page \in 1..Pages
  BY DEF ListReturns, PhaseInv
<1>2. /\ sync.page + 1 \in 1..(Pages + 1) /\ sync.page + 1 # 1
      /\ sync.page # Pages => sync.page + 1 \in 1..Pages
  <2>1. Pages \in Nat
    BY Constants
  <2> QED BY ONLY <1>1, <2>1
<1> QED BY <1>1, <1>2, SyncFields DEF SyncState, ListReturns

LEMMA GrantsDoes ==
    ASSUME SyncTypeOK, NEW v \in Vendor, Grants(v)
    PROVE  /\ sync.pc = "grants" /\ v \in sync.todo /\ sync' \in SyncState
           /\ sync'.page = sync.page
           /\ \/ /\ vendorOwners[v] = Absent /\ sync'.pc = "fetched"
                 /\ sync'.vendor = {v} /\ sync'.todo = sync.todo
                 /\ sync'.reported = sync.reported
                 /\ sync'.answer = [sync.answer EXCEPT ![v] = GrantsOwner(v)]
              \/ /\ vendorOwners[v] # Absent /\ sync'.pc = "grants"
                 /\ sync'.todo = sync.todo \ {v} /\ sync'.answer = sync.answer
                 /\ sync'.reported = [sync.reported EXCEPT ![v] = GrantsOwner(v)]
           /\ UNCHANGED <<vendorOwners, listed, target, syncs, since, recent>>
           /\ UNCHANGED ownerVars
<1> DEFINE o == GrantsOwner(v)
<1>1. o \in Entry
  BY OwnerOf DEF Entry
<1> HIDE DEF o
<1>2. /\ [sync.answer EXCEPT ![v] = o] \in [Vendor -> Entry]
      /\ [sync.reported EXCEPT ![v] = o] \in [Vendor -> Entry]
  BY <1>1, SyncFields
<1>3. CASE FromGet(v)
  <2>1. sync' = [sync EXCEPT !.pc = "fetched", !.vendor = {v},
                             !.answer = [sync.answer EXCEPT ![v] = o]]
    BY <1>3, SyncFields DEF Grants, SyncState, o
  <2>2. /\ sync.pc = "grants" /\ v \in sync.todo /\ vendorOwners[v] = Absent
        /\ UNCHANGED <<vendorOwners, listed, target, syncs, since, recent>>
        /\ UNCHANGED ownerVars
    BY <1>3 DEF Grants, FromGet
  <2>3. /\ sync' \in SyncState /\ sync'.page = sync.page /\ sync'.pc = "fetched"
        /\ sync'.todo = sync.todo /\ sync'.reported = sync.reported
        /\ sync'.vendor = {v} /\ sync'.answer = [sync.answer EXCEPT ![v] = o]
    BY <1>2, <2>1, <2>2, SyncFields DEF SyncState
  <2> QED BY <2>2, <2>3 DEF o
<1>4. CASE ~FromGet(v)
  <2>1. sync' = [sync EXCEPT !.todo = sync.todo \ {v},
                             !.reported = [sync.reported EXCEPT ![v] = o]]
    BY <1>4, SyncFields DEF Grants, SyncState, o
  <2>2. /\ sync.pc = "grants" /\ v \in sync.todo /\ vendorOwners[v] # Absent
        /\ UNCHANGED <<vendorOwners, listed, target, syncs, since, recent>>
        /\ UNCHANGED ownerVars
    BY <1>4 DEF Grants, FromGet
  <2>3. /\ sync' \in SyncState /\ sync'.page = sync.page /\ sync'.pc = "grants"
        /\ sync'.todo = sync.todo \ {v} /\ sync'.answer = sync.answer
        /\ sync'.reported = [sync.reported EXCEPT ![v] = o]
    BY <1>2, <2>1, <2>2, SyncFields DEF SyncState
  <2> QED BY <2>2, <2>3 DEF o
<1> QED BY <1>3, <1>4

LEMMA FetchedDoes ==
    ASSUME SyncTypeOK, PhaseInv, GrantsFetched
    PROVE  /\ sync.pc = "fetched" /\ sync'.pc = "grants" /\ sync' \in SyncState
           /\ sync'.page = sync.page /\ sync'.answer = sync.answer
           /\ \E v \in Vendor :
                 /\ sync.answer[v] \in Owner /\ v \in sync.vendor
                 /\ sync'.todo = sync.todo \ {v}
                 /\ sync'.reported = [sync.reported EXCEPT ![v] = sync.answer[v]]
                 /\ cache' \in {cache, [cache EXCEPT ![v] = sync.answer[v]]}
           /\ UNCHANGED <<vendorOwners, listed, target, syncs, since, recent>>
           /\ UNCHANGED <<owner, inFlight, call, requests, edits>>
<1>1. PICK v \in sync.vendor :
          /\ sync' = [sync EXCEPT !.pc = "grants", !.vendor = {},
                                  !.todo = @ \ {v}, !.reported[v] = sync.answer[v]]
          /\ cache' = IF Caching THEN [cache EXCEPT ![v] = sync.answer[v]]
                                 ELSE cache
  BY DEF GrantsFetched
<1>2. v \in Vendor /\ sync.answer[v] \in Owner /\ sync.pc = "fetched"
  BY SyncFields DEF PhaseInv, GrantsFetched, Entry
<1>3. [sync.reported EXCEPT ![v] = sync.answer[v]] \in [Vendor -> Entry]
  BY <1>2, SyncFields
<1>4. sync' = [sync EXCEPT !.pc = "grants", !.vendor = {},
                 !.todo = sync.todo \ {v},
                 !.reported = [sync.reported EXCEPT ![v] = sync.answer[v]]]
  BY <1>1, SyncFields DEF SyncState
<1>5. /\ sync'.pc = "grants" /\ sync' \in SyncState /\ sync'.page = sync.page
      /\ sync'.answer = sync.answer /\ sync'.todo = sync.todo \ {v}
      /\ sync'.reported = [sync.reported EXCEPT ![v] = sync.answer[v]]
  BY <1>3, <1>4, SyncFields DEF SyncState
<1> QED BY <1>1, <1>2, <1>5 DEF GrantsFetched

LEMMA RestartDoes ==
    ASSUME SyncTypeOK, PhaseInv, ConnectorRestart
    PROVE  /\ sync' \in SyncState /\ sync'.pc \in {"idle", "list", "grants"}
           /\ sync'.pc = "list" => sync.pc \in {"list", "reset", "fill"}
           /\ sync'.pc = "idle" => sync.pc = "idle"
           /\ sync'.pc = "grants" => sync.pc \in {"grants", "fetched"}
           /\ sync'.page = sync.page /\ sync'.answer = sync.answer
           /\ sync'.reported = sync.reported
           /\ sync'.todo = sync.todo
                \/ /\ sync'.pc = "list" /\ sync.page \in 1..Pages
                   /\ sync'.todo = sync.todo \ OnPage(sync.page)
           /\ sync.pc = "fill" => sync'.todo = sync.todo \ OnPage(sync.page)
           /\ vendorOwners' = Nothing /\ listed' = [n \in 1..Pages |-> Uncached]
           /\ target' = IdleTarget /\ cache' = [v \in Vendor |-> Uncached]
           /\ \A d \in Call : call'[d].pc # "answered"
           /\ UNCHANGED <<owner, syncs, since, recent>>
<1>1. \A d \in Call : call'[d].pc # "answered"
  <2>1. \A d \in Call : call'[d] = IF call[d].pc \in Running
                                     THEN [call[d] EXCEPT !.pc = "failed"] ELSE call[d]
    BY DEF ConnectorRestart, Restart
  <2>2. \A d \in Call : call[d].pc \notin Running => call[d].pc # "answered"
    BY DEF Running
  <2> QED BY <2>1, <2>2, SyncFields DEF CallState
<1>2. CASE sync.pc \in {"reset", "fill"}
  <2>1. sync' = PageAgain
    BY <1>2 DEF ConnectorRestart
  <2> QED BY <1>1, <1>2, <2>1, AgainDoes DEF ConnectorRestart, Restart
<1>3. CASE sync.pc = "fetched"
  <2>1. sync' = [sync EXCEPT !.pc = "grants", !.vendor = {}]
    BY <1>3 DEF ConnectorRestart
  <2> QED BY <1>1, <1>3, <2>1, SyncFields DEF SyncState, ConnectorRestart, Restart
<1>4. CASE sync.pc \in {"idle", "list", "grants"}
  <2>1. sync' = sync
    BY <1>4 DEF ConnectorRestart
  <2> QED BY <1>1, <1>4, <2>1, SyncFields DEF SyncState, ConnectorRestart, Restart
<1> QED BY <1>2, <1>3, <1>4, SyncFields DEF SyncState

-----------------------------------------------------------------------------
(* What the steps of the calls do to the answers a sync may read.          *)
LEMMA CallsDo ==
    ASSUME SyncTypeOK, CallsNext
    PROVE  /\ TypeOK'
           /\ \A v \in Vendor :
                 \/ cache'[v] \in {cache[v], Uncached}
                 \/ \E d \in Call : /\ call[d].pc = "answered"
                                    /\ call[d].vendor = v
                                    /\ call[d].answer = cache'[v]
           /\ \A d \in Call : call'[d].pc = "answered" =>
                 \/ /\ call[d].pc = "answered"
                    /\ call[d].vendor = call'[d].vendor
                    /\ call[d].answer = call'[d].answer
                 \/ call'[d].answer = VendorOwnerID(call'[d].vendor)
<1> DEFINE CacheStep ==
              \A v \in Vendor :
                 \/ cache'[v] \in {cache[v], Uncached}
                 \/ \E d \in Call : /\ call[d].pc = "answered"
                                    /\ call[d].vendor = v
                                    /\ call[d].answer = cache'[v]
           AnswerStep(d) ==
              call'[d].pc = "answered" =>
                 \/ /\ call[d].pc = "answered"
                    /\ call[d].vendor = call'[d].vendor
                    /\ call[d].answer = call'[d].answer
                 \/ call'[d].answer = VendorOwnerID(call'[d].vendor)
<1>1. TypeOK /\ TypeOK'
  BY NextTypeOK DEF Next, SyncTypeOK
<1>2. /\ call \in [Call -> CallState] /\ \A d \in Call : call[d] \in CallState
      /\ cache \in [Vendor -> Owner \cup {Uncached}]
  BY <1>1 DEF TypeOK
<1>3. cache' = cache => CacheStep
  OBVIOUS
<1>4. ASSUME NEW c \in Call, NEW op \in {"grant", "revoke"}, NEW v \in Vendor,
             NEW u \in User, Request(c, op, v, u)
      PROVE  CacheStep /\ \A d \in Call : AnswerStep(d)
  BY <1>2, <1>3, <1>4 DEF Request
<1>5. ASSUME NEW c \in Call, GetVendor(c)
      PROVE  CacheStep /\ \A d \in Call : AnswerStep(d)
  <2>1. \A d \in Call : d # c => AnswerStep(d)
    BY <1>2, <1>5 DEF GetVendor
  <2>2. AnswerStep(c)
    BY <1>2, <1>5 DEF GetVendor, CallState
  <2> QED BY <1>3, <1>5, <2>1, <2>2 DEF GetVendor
<1>6. ASSUME NEW c \in Call, GrantDecides(c) \/ RevokeDecides(c)
      PROVE  CacheStep /\ \A d \in Call : AnswerStep(d)
  <2>1. call[c].pc = "answered" /\ call[c] \in CallState
    BY <1>2, <1>6 DEF GrantDecides, RevokeDecides, Cached
  <2>2. \A d \in Call : d # c => call'[d] = call[d]
    BY <1>2, <1>6 DEF GrantDecides, RevokeDecides
  <2>3. call'[c].pc # "answered"
    BY <1>2, <1>6, <2>1 DEF GrantDecides, RevokeDecides, CallState
  <2>4. cache' \in {cache, [cache EXCEPT ![call[c].vendor] = call[c].answer]}
    BY <1>6 DEF GrantDecides, RevokeDecides, Cached
  <2>5. CacheStep
    BY <1>2, <2>1, <2>4
  <2>6. \A d \in Call : AnswerStep(d)
    BY <2>2, <2>3
  <2> QED BY <2>5, <2>6
<1>7. ASSUME NEW v \in Vendor, NEW o \in Owner, NEW calls \in [Call -> CallState],
             call' = Seen(v, o, calls), cache' = cache,
             \A e \in Call : calls[e].pc = "answered" => calls[e] = call[e]
      PROVE  CacheStep /\ \A d \in Call : AnswerStep(d)
  <2>1. ASSUME NEW d \in Call PROVE AnswerStep(d)
    <3>1. calls[d] \in CallState
      OBVIOUS
    <3>2. call'[d] = [calls[d] EXCEPT !.held =
                        IF calls[d].vendor = v /\ calls[d].pc \in Running
                          THEN @ \cup {o} ELSE @]
      BY <1>7, SeenTypes
    <3>3. /\ call'[d].pc = calls[d].pc /\ call'[d].vendor = calls[d].vendor
          /\ call'[d].answer = calls[d].answer
      BY <3>1, <3>2 DEF CallState
    <3> QED BY <1>7, <3>3
  <2> QED BY <1>3, <1>7, <2>1
<1>8. ASSUME NEW c \in Call, UpdateVendorOwner(c)
      PROVE  CacheStep /\ \A d \in Call : AnswerStep(d)
  <2> DEFINE calls == [call EXCEPT ![c].pc = "patched"]
  <2>1. call[c] \in CallState /\ call[c].pc = "patch"
    BY <1>2, <1>8 DEF UpdateVendorOwner
  <2>2. call[c].vendor \in Vendor /\ NewOwner(call[c]) \in Owner
    BY <2>1 DEF CallState, NewOwner, Owner
  <2>3. /\ calls \in [Call -> CallState]
        /\ \A e \in Call : calls[e].pc = "answered" => calls[e] = call[e]
    BY <1>2, <2>1 DEF CallState, Running
  <2>4. call' = Seen(call[c].vendor, NewOwner(call[c]), calls) /\ cache' = cache
    BY <1>8 DEF UpdateVendorOwner
  <2> HIDE DEF calls
  <2> QED BY <1>7, <2>2, <2>3, <2>4
<1>9. ASSUME NEW c \in Call, Returns(c) \/ RequestFails(c)
      PROVE  CacheStep /\ \A d \in Call : AnswerStep(d)
  <2>1. \A d \in Call : d # c => call'[d] = call[d]
    BY <1>2, <1>9 DEF Returns, RequestFails
  <2>2. call'[c].pc # "answered"
    BY <1>2, <1>9 DEF Returns, RequestFails, CallState
  <2>3. cache' = cache
    BY <1>9 DEF Returns, RequestFails
  <2>4. \A d \in Call : AnswerStep(d)
    BY <2>1, <2>2
  <2> QED BY <1>3, <2>3, <2>4
<1>10. ASSUME NEW p \in Patches, LatePatch(p)
       PROVE  CacheStep /\ \A d \in Call : AnswerStep(d)
  BY <1>2, <1>7, <1>10 DEF LatePatch, Patches
<1>11. ASSUME NEW v \in Vendor, NEW o \in Owner, Edit(v, o)
       PROVE  CacheStep /\ \A d \in Call : AnswerStep(d)
  BY <1>2, <1>7, <1>11 DEF Edit
<1>12. ASSUME NEW v \in Vendor, Expire(v)
       PROVE  CacheStep /\ \A d \in Call : AnswerStep(d)
  BY <1>2, <1>12 DEF Expire
<1>13. CacheStep /\ \A d \in Call : AnswerStep(d)
  BY <1>4, <1>5, <1>6, <1>8, <1>9, <1>10, <1>11, <1>12 DEF CallsNext, CallStep
<1> QED BY <1>1, <1>13

(* An answer GetVendor may give now is one the sources of a hole allow.    *)
LEMMA AnswerFresh ==
    ASSUME SyncTypeOK, NEW v \in Vendor, owner[v] \in since[v], FreshSources(v)
    PROVE  VendorOwnerID(v) \in since[v]
BY OwnerOf DEF FreshSources

(* The steps of a targeted sync.                                           *)
LEMMA TargetDoes ==
    ASSUME SyncTypeOK, TargetGet \/ TargetGrants
    PROVE  /\ target' \in TargetState /\ target'.vendor = target.vendor
           /\ cache' \in {cache, [cache EXCEPT ![target.vendor] = target.answer]}
           /\ cache' # cache => target.pc \in {"got", "fetched"}
           /\ target'.pc \in {"got", "fetched"} =>
                 target'.answer = VendorOwnerID(target.vendor)
           /\ target'.pc = "done" =>
                 \/ target.pc = "fetched" /\ target'.answer = target.answer
                 \/ target'.answer = GrantsOwner(target.vendor)
           /\ UNCHANGED <<vendorOwners, listed, sync, syncs, since, recent>>
           /\ UNCHANGED <<owner, inFlight, call, requests, edits>>
<1> DEFINE v == target.vendor
<1>1. /\ v \in Vendor /\ target.answer \in Owner /\ target \in TargetState
      /\ VendorOwnerID(v) \in Owner /\ GrantsOwner(v) \in Owner
  BY SyncFields, OwnerOf
<1>2. ASSUME NEW from \in {"get", "grants"}, NEW to \in {"got", "fetched", "done"},
             NEW answer \in Owner, TargetAsks(from, to, answer)
      PROVE  /\ target' \in TargetState /\ target'.vendor = v
             /\ target'.pc = to /\ target'.answer = answer
             /\ UNCHANGED <<vendorOwners, listed, sync, syncs, since, recent>>
             /\ UNCHANGED ownerVars
  BY <1>1, <1>2 DEF TargetAsks, TargetState
<1>3. ASSUME NEW from \in {"got", "fetched"}, NEW to \in {"grants", "done"},
             TargetReceives(from, to)
      PROVE  /\ target' \in TargetState /\ target'.vendor = v
             /\ target'.pc = to /\ target.pc = from
             /\ target'.answer = target.answer
             /\ cache' \in {cache, [cache EXCEPT ![v] = target.answer]}
             /\ UNCHANGED <<vendorOwners, listed, sync, syncs, since, recent>>
             /\ UNCHANGED <<owner, inFlight, call, requests, edits>>
  BY <1>1, <1>3 DEF TargetReceives, TargetState
<1>4. CASE TargetAsks("get", "got", VendorOwnerID(v))
  BY <1>1, <1>2, <1>4 DEF ownerVars
<1>5. CASE TargetReceives("got", "grants") \/ TargetReceives("fetched", "done")
  <2>1. PICK from \in {"got", "fetched"}, to \in {"grants", "done"} :
           TargetReceives(from, to) /\ (to = "done" => from = "fetched")
    BY <1>5
  <2> QED BY <1>3, <2>1
<1>6. CASE TargetAsks("grants", IF FromGet(v) THEN "fetched" ELSE "done",
                      GrantsOwner(v))
  <2>1. FromGet(v) => GrantsOwner(v) = VendorOwnerID(v)
    BY DEF FromGet, GrantsOwner
  <2>2. PICK to \in {"fetched", "done"} :
           /\ TargetAsks("grants", to, GrantsOwner(v))
           /\ to = "fetched" => FromGet(v)
    BY <1>6
  <2>3. /\ target' \in TargetState /\ target'.vendor = v
        /\ target'.pc = to /\ target'.answer = GrantsOwner(v)
        /\ UNCHANGED <<vendorOwners, listed, sync, syncs, since, recent>>
        /\ UNCHANGED ownerVars
    BY <1>1, <1>2, <2>2
  <2> QED BY <2>1, <2>2, <2>3 DEF ownerVars
<1> QED BY <1>4, <1>5, <1>6 DEF TargetGet, TargetGrants

-----------------------------------------------------------------------------
(* Types, and how far the sync is.                                         *)
LEMMA OwnerTypesKept ==
    ASSUME SyncTypeOK,
           UNCHANGED <<owner, inFlight, call, requests, edits>>,
           cache' \in [Vendor -> Owner \cup {Uncached}]
    PROVE  TypeOK'
BY DEF SyncTypeOK, TypeOK

LEMMA InitTypes == SyncInit => SyncTypeOK /\ PhaseInv
<1> SUFFICES ASSUME SyncInit PROVE SyncTypeOK /\ PhaseInv
  OBVIOUS
<1>1. TypeOK /\ owner \in [Vendor -> Owner]
  BY InitTypeOK DEF SyncInit, TypeOK
<1>2. since \in [Vendor -> SUBSET Owner] /\ recent = since
  BY <1>1 DEF SyncInit
<1>3. /\ vendorOwners \in [Vendor -> Entry] /\ syncs \in 0..MaxSyncs
      /\ listed \in [1..Pages -> [Vendor -> Entry] \cup {Uncached}]
      /\ \A n \in 1..Pages : listed[n] = Uncached
      /\ sync \in SyncState /\ sync.pc = "idle" /\ sync.page = 1
      /\ target \in TargetState
  BY IdleTypes, Constants DEF SyncInit
<1> QED BY <1>1, <1>2, <1>3, Constants DEF SyncTypeOK, PhaseInv

LEMMA NextTypes ==
    SyncTypeOK /\ PhaseInv /\ [SyncNext]_<<ownerVars, syncVars>> =>
        SyncTypeOK' /\ PhaseInv'
<1> SUFFICES ASSUME SyncTypeOK, PhaseInv, [SyncNext]_<<ownerVars, syncVars>>
             PROVE  SyncTypeOK' /\ PhaseInv'
  OBVIOUS
<1>1. /\ \A n : OnPage(n) \subseteq Vendor
      /\ 1 \in 1..Pages /\ Absent \notin Owner
  BY Constants
<1>2. ASSUME sync' \in SyncState,
             UNCHANGED <<vendorOwners, listed, target, syncs, since, recent>>,
             UNCHANGED ownerVars
      PROVE  SyncTypeOK'
  <2>1. cache' \in [Vendor -> Owner \cup {Uncached}]
    BY <1>2, SyncFields DEF ownerVars
  <2>2. TypeOK'
    BY <1>2, <2>1, OwnerTypesKept DEF ownerVars
  <2> QED BY <1>2, <2>2, SyncFields DEF SyncTypeOK
<1>3. CASE StartSync
  <2>1. /\ sync' \in SyncState /\ sync'.pc = "list" /\ sync'.page = 1
    BY <1>3, IdleTypes DEF StartSync, SyncState
  <2>2. syncs' \in 0..MaxSyncs
    <3>1. syncs \in 0..MaxSyncs /\ syncs < MaxSyncs /\ syncs' = syncs + 1
      BY <1>3, SyncFields DEF StartSync
    <3> QED BY <3>1, Counts, Constants
  <2>3. TypeOK'
    BY <1>3, SyncFields, OwnerTypesKept DEF StartSync, ownerVars
  <2> QED BY <1>1, <1>3, <2>1, <2>2, <2>3, SyncFields
          DEF StartSync, SyncTypeOK, PhaseInv
<1>4. CASE ListVendors
  <2>1. SyncTypeOK'
    BY <1>2, <1>4, ListDoes
  <2>2. \A v \in OnPage(sync.page) : sync'.answer[v] # Absent
    <3>1. sync.page \in 1..Pages /\ owner \in [Vendor -> Owner]
      BY <1>4, ListDoes, SyncFields
    <3> QED BY <1>1, <1>4, <3>1, ListDoes DEF PhaseInv
  <2> QED BY <1>4, <2>1, <2>2, ListDoes DEF PhaseInv
<1>5. CASE ListReset
  <2>1. TypeOK'
    BY <1>5, ResetDoes, SyncFields, OwnerTypesKept DEF ownerVars
  <2>2. /\ listed' \in [1..Pages -> [Vendor -> Entry] \cup {Uncached}]
        /\ vendorOwners' \in [Vendor -> Entry]
    BY <1>5, ResetDoes, SyncFields, IdleTypes
  <2>3. \A v \in OnPage(sync.page) : sync.answer[v] # Absent
    BY <1>5, ResetDoes DEF PhaseInv
  <2>4. \A n \in 1..Pages : listed'[n] # Uncached =>
           \A v \in OnPage(n) : listed'[n][v] # Absent
    BY <1>5, <2>3, ResetDoes, SyncFields DEF PhaseInv
  <2> QED BY <1>5, <2>1, <2>2, <2>3, <2>4, ResetDoes, SyncFields
          DEF SyncTypeOK, PhaseInv
<1>6. ASSUME NEW v \in Vendor, ListFill(v)
      PROVE  SyncTypeOK' /\ PhaseInv'
  <2>1. TypeOK'
    BY <1>6, FillDoes, SyncFields, OwnerTypesKept DEF ownerVars
  <2>2. vendorOwners' \in [Vendor -> Entry]
    BY <1>6, FillDoes, SyncFields
  <2>3. /\ \/ sync'.pc = "list"
           \/ sync'.pc = "fill" /\ sync'.fill \subseteq sync.fill
        /\ sync'.page = sync.page /\ sync' \in SyncState
        /\ sync'.answer = sync.answer
        /\ UNCHANGED <<listed, target, syncs, since, recent>> /\ sync.pc = "fill"
    BY <1>6, FillDoes
  <2>4. SyncTypeOK'
    BY <2>1, <2>2, <2>3, SyncFields DEF SyncTypeOK
  <2>5. PhaseInv'
    BY <2>3 DEF PhaseInv
  <2> QED BY <2>4, <2>5
<1>7. CASE ListReturns
  BY <1>2, <1>7, ReturnsDoes DEF PhaseInv
<1>8. ASSUME NEW v \in Vendor, Grants(v)
      PROVE  SyncTypeOK' /\ PhaseInv'
  <2>1. GrantsOwner(v) # Absent
    BY <1>1, OwnerOf
  <2>2. SyncTypeOK'
    BY <1>2, <1>8, GrantsDoes
  <2>3. sync'.pc \in {"grants", "fetched"} /\ listed' = listed
    BY <1>8, GrantsDoes
  <2>4. sync'.pc = "fetched" => \A w \in sync'.vendor : sync'.answer[w] # Absent
    <3>1. sync'.pc = "fetched" =>
             /\ sync'.vendor = {v}
             /\ sync'.answer = [sync.answer EXCEPT ![v] = GrantsOwner(v)]
      BY <1>8, GrantsDoes
    <3> QED BY <2>1, <3>1, SyncFields
  <2> QED BY <2>2, <2>3, <2>4 DEF PhaseInv
<1>9. CASE GrantsFetched
  <2>1. cache' \in [Vendor -> Owner \cup {Uncached}]
    BY <1>9, FetchedDoes, SyncFields
  <2>2. TypeOK'
    BY <1>9, <2>1, FetchedDoes, OwnerTypesKept
  <2>3. /\ sync'.pc = "grants" /\ sync' \in SyncState
        /\ UNCHANGED <<vendorOwners, listed, target, syncs, since, recent>>
    BY <1>9, FetchedDoes
  <2>4. SyncTypeOK'
    BY <2>2, <2>3, SyncFields DEF SyncTypeOK
  <2>5. PhaseInv'
    BY <2>3 DEF PhaseInv
  <2> QED BY <2>4, <2>5
<1>10. CASE EndSync
  <2>1. cache' \in [Vendor -> Owner \cup {Uncached}]
        /\ UNCHANGED <<owner, inFlight, call, requests, edits>>
    BY <1>10 DEF EndSync, ClearCaches
  <2>2. TypeOK'
    BY <2>1, OwnerTypesKept
  <2>3. /\ since' \in [Vendor -> SUBSET Owner]
        /\ recent' \in [Vendor -> SUBSET Owner]
        /\ listed' \in [1..Pages -> [Vendor -> Entry] \cup {Uncached}]
        /\ \A n \in 1..Pages : listed'[n] = Uncached
    BY <1>10, SyncFields DEF EndSync
  <2> QED BY <1>1, <1>10, <2>2, <2>3, IdleTypes, SyncFields
          DEF EndSync, SyncTypeOK, PhaseInv
<1>11. CASE FailSync
  <2>1. sync' \in SyncState /\ sync'.pc = "idle" /\ sync'.page = 1
    BY <1>11, IdleTypes DEF FailSync
  <2>2. SyncTypeOK'
    BY <1>2, <1>11, <2>1 DEF FailSync
  <2> QED BY <1>1, <1>11, <2>1, <2>2 DEF FailSync, PhaseInv
<1>12. ASSUME target' \in TargetState,
              UNCHANGED <<vendorOwners, listed, sync, syncs, since, recent>>,
              UNCHANGED <<owner, inFlight, call, requests, edits>>,
              cache' \in [Vendor -> Owner \cup {Uncached}]
       PROVE  SyncTypeOK' /\ PhaseInv'
  <2>1. TypeOK'
    BY <1>12, OwnerTypesKept
  <2> QED BY <1>12, <2>1, SyncFields DEF SyncTypeOK, PhaseInv
<1>13. ASSUME NEW v \in Vendor, StartTarget(v)
       PROVE  SyncTypeOK' /\ PhaseInv'
  <2>1. target' \in TargetState
    BY <1>13, SyncFields, Constants DEF StartTarget, TargetState
  <2> QED BY <1>12, <1>13, <2>1, SyncFields DEF StartTarget, ownerVars
<1>14. CASE TargetGet \/ TargetGrants
  <2>1. cache' \in [Vendor -> Owner \cup {Uncached}]
    BY <1>14, TargetDoes, SyncFields
  <2> QED BY <1>12, <1>14, <2>1, TargetDoes
<1>15. CASE EndTarget
  BY <1>12, <1>15, IdleTypes, SyncFields DEF EndTarget, ownerVars
<1>16. CASE OwnerStep
  <2>1. TypeOK' /\ owner' \in [Vendor -> Owner]
    BY <1>16, CallsDo DEF OwnerStep, TypeOK
  <2>2. /\ since' \in [Vendor -> SUBSET Owner]
        /\ recent' \in [Vendor -> SUBSET Owner]
    BY <1>16, <2>1, SyncFields DEF OwnerStep
  <2>3. target' \in TargetState
    BY <1>16, <2>1, SyncFields DEF OwnerStep, TargetState
  <2> QED BY <1>16, <2>1, <2>2, <2>3, SyncFields
          DEF OwnerStep, SyncTypeOK, PhaseInv
<1>17. CASE ConnectorRestart
  <2>1. TypeOK'
    BY <1>17, NextTypeOK DEF ConnectorRestart, Next, SyncTypeOK
  <2>2. /\ listed' \in [1..Pages -> [Vendor -> Entry] \cup {Uncached}]
        /\ \A n \in 1..Pages : listed'[n] = Uncached
        /\ vendorOwners' \in [Vendor -> Entry] /\ target' \in TargetState
    BY <1>17, RestartDoes, IdleTypes
  <2> QED BY <1>17, <2>1, <2>2, RestartDoes, SyncFields DEF SyncTypeOK, PhaseInv
<1>18. CASE UNCHANGED <<ownerVars, syncVars>>
  BY <1>12, <1>18, SyncFields DEF ownerVars, syncVars
<1> QED BY <1>3, <1>4, <1>5, <1>6, <1>7, <1>8, <1>9, <1>10, <1>11, <1>13, <1>14,
           <1>15, <1>16, <1>17, <1>18 DEF SyncNext

(* The builder's map, the cached pages, a sync under way and a targeted    *)
(* one are always well formed, whatever calls and restarts come between.   *)
THEOREM SyncTypesCorrect == SyncSpec => []SyncTypeOK
<1>1. SyncInit => SyncTypeOK /\ PhaseInv
  BY InitTypes
<1>2. SyncTypeOK /\ PhaseInv /\ [SyncNext]_<<ownerVars, syncVars>> =>
         (SyncTypeOK /\ PhaseInv)'
  BY NextTypes
<1> QED BY <1>1, <1>2, PTL DEF SyncSpec

-----------------------------------------------------------------------------
(* Owners read are recent.                                                 *)
LEMMA InitFresh == SyncInit => FreshInv
<1> SUFFICES ASSUME SyncInit PROVE FreshInv
  OBVIOUS
<1>1. /\ \A v \in Vendor : owner[v] \in since[v]
      /\ \A n \in 1..Pages : listed[n] = Uncached
      /\ \A v \in Vendor : sync.answer[v] = Absent /\ sync.reported[v] = Absent
      /\ sync.todo = {} /\ sync.page = 1 /\ sync.pc = "idle"
  BY IdleTypes DEF SyncInit
<1> QED BY <1>1 DEF FreshInv, FreshListed, FreshAnswer, FreshMap, FreshHoles,
                    NothingAhead, SyncReportsRecentOwner

LEMMA NextFresh ==
    SyncTypeOK /\ PhaseInv /\ FreshInv /\ [SyncNext]_<<ownerVars, syncVars>> =>
        FreshInv'
<1> SUFFICES ASSUME SyncTypeOK, PhaseInv, FreshInv,
                    [SyncNext]_<<ownerVars, syncVars>>
             PROVE  FreshInv'
  OBVIOUS
<1> DEFINE Owns == \A v \in Vendor : owner[v] \in since[v]
<1>1. /\ Owns /\ FreshListed /\ FreshAnswer /\ FreshMap /\ FreshHoles
      /\ NothingAhead /\ SyncReportsRecentOwner
  BY DEF FreshInv
<1>2. /\ \A n : OnPage(n) \subseteq Vendor
      /\ \A v \in Vendor : Nothing[v] = Absent
  BY Constants, IdleTypes
<1>3. ASSUME Owns', FreshListed', FreshAnswer', FreshMap', FreshHoles',
             NothingAhead', SyncReportsRecentOwner'
      PROVE  FreshInv'
  BY <1>3 DEF FreshInv
<1>4. ASSUME owner' = owner, listed' = listed, since' = since
      PROVE  Owns' /\ FreshListed'
  BY <1>1, <1>4 DEF FreshListed
<1>5. ASSUME sync'.answer = sync.answer, since' = since
      PROVE  FreshAnswer'
  BY <1>1, <1>5 DEF FreshAnswer
<1>6. ASSUME sync'.reported = sync.reported, since' = since
      PROVE  SyncReportsRecentOwner'
  BY <1>1, <1>6 DEF SyncReportsRecentOwner
<1>7. ASSUME NEW v \in Vendor, FreshSources(v), cache' = cache, call' = call,
             target' = target, since' = since
      PROVE  FreshSources(v)'
  BY <1>7 DEF FreshSources
<1>8. ASSUME sync'.todo \subseteq sync.todo, vendorOwners' = vendorOwners,
             UNCHANGED ownerVars, target' = target, since' = since
      PROVE  FreshHoles'
  BY <1>1, <1>7, <1>8, SyncFields DEF FreshHoles, ownerVars
<1>9. ASSUME sync' = IdleSync \/ sync' = [IdleSync EXCEPT !.pc = "list"]
      PROVE  FreshAnswer' /\ FreshMap' /\ FreshHoles' /\ NothingAhead'
                /\ SyncReportsRecentOwner'
  <2>1. /\ sync'.pc \in {"idle", "list"} /\ sync'.page = 1
        /\ sync'.answer = Nothing /\ sync'.reported = Nothing /\ sync'.todo = {}
    BY <1>9, IdleTypes DEF SyncState
  <2> QED BY <1>2, <2>1 DEF FreshAnswer, FreshMap, FreshHoles, NothingAhead,
                            SyncReportsRecentOwner
<1>10. CASE StartSync
  BY <1>3, <1>4, <1>9, <1>10 DEF StartSync, ownerVars
<1>11. CASE ListVendors
  <2>1. FreshAnswer'
    <3>1. CASE listed[sync.page] # Uncached /\ sync'.answer = listed[sync.page]
      BY <1>1, <1>11, <3>1, ListDoes DEF FreshListed, FreshAnswer
    <3>2. CASE \A v \in Vendor : sync'.answer[v] =
                  IF v \in OnPage(sync.page) THEN owner[v] ELSE Absent
      BY <1>1, <1>11, <3>2, ListDoes DEF FreshAnswer
    <3> QED BY <1>11, <3>1, <3>2, ListDoes
  <2>2. FreshMap' /\ NothingAhead'
    BY <1>1, <1>11, ListDoes DEF FreshMap, NothingAhead
  <2>3. Owns' /\ FreshListed' /\ FreshHoles' /\ SyncReportsRecentOwner'
    BY <1>4, <1>6, <1>8, <1>11, ListDoes DEF ownerVars
  <2> QED BY <1>3, <2>1, <2>2, <2>3
<1>12. CASE ListReset
  <2>1. Owns' /\ FreshAnswer' /\ SyncReportsRecentOwner'
    BY <1>1, <1>5, <1>6, <1>12, ResetDoes DEF ownerVars
  <2>2. FreshListed'
    <3>1. \A n \in 1..Pages : listed'[n] \in {listed[n], sync.answer}
      BY <1>12, ResetDoes, SyncFields
    <3>2. since' = since
      BY <1>12, ResetDoes
    <3> QED BY <1>1, <3>1, <3>2 DEF FreshListed, FreshAnswer
  <2>3. FreshMap' /\ NothingAhead'
    <3>1. /\ sync'.pc = "fill" /\ since' = since
          /\ sync.page = 1 => \A v \in Vendor : vendorOwners'[v] = Absent
          /\ sync.page # 1 => vendorOwners' = vendorOwners
          /\ sync.pc = "reset" /\ sync'.page = sync.page
          /\ sync'.todo = sync.todo /\ sync.page \in 1..Pages
      BY <1>2, <1>12, ResetDoes
    <3>2. \A v \in sync.todo : PageOf[v] <= sync.page
      BY <1>1, <3>1, PageOrder, SyncFields DEF NothingAhead
    <3> QED BY <1>1, <3>1, <3>2 DEF FreshMap, NothingAhead
  <2>4. FreshHoles'
    <3> SUFFICES ASSUME NEW v \in sync'.todo, vendorOwners'[v] = Absent
                 PROVE  FreshSources(v)'
      BY DEF FreshHoles
    <3>1. v \in sync.todo /\ v \in Vendor /\ vendorOwners[v] = Absent
      <4>1. /\ v \in sync.todo /\ v \in Vendor /\ sync.pc = "reset"
            /\ sync.page \in 1..Pages
            /\ sync.page # 1 => vendorOwners' = vendorOwners
        BY <1>12, ResetDoes, SyncFields
      <4>2. PageOf[v] < sync.page
        BY <1>1, <4>1 DEF NothingAhead
      <4>3. sync.page # 1
        BY <4>1, <4>2, PageOrder
      <4> QED BY <4>1, <4>3
    <3> QED BY <1>1, <1>7, <1>12, <3>1, ResetDoes DEF FreshHoles, ownerVars
  <2> QED BY <1>3, <2>1, <2>2, <2>3, <2>4
<1>13. ASSUME NEW v \in Vendor, ListFill(v)
       PROVE  FreshInv'
  <2>1. Owns' /\ FreshListed' /\ FreshAnswer' /\ SyncReportsRecentOwner'
    BY <1>4, <1>5, <1>6, <1>13, FillDoes DEF ownerVars
  <2>2. /\ sync.answer[v] \in since[v] /\ since' = since
        /\ sync.pc = "fill" /\ sync'.pc \in {"fill", "list"}
        /\ sync'.page = sync.page /\ sync.page \in 1..Pages
        /\ vendorOwners'[v] = sync.answer[v] /\ sync.answer[v] # Absent
        /\ \A w \in Vendor \ {v} : vendorOwners'[w] = vendorOwners[w]
    BY <1>1, <1>13, FillDoes, SyncFields DEF FreshAnswer
  <2>3. FreshMap' /\ NothingAhead'
    <3>1. FreshMap'
      BY <1>1, <2>2 DEF FreshMap
    <3>2. v \in OnPage(sync.page)
      BY <1>13, FillDoes DEF PhaseInv
    <3>3. \A w \in sync.todo : w \in Vendor /\ PageOf[w] <= sync.page
      <4>1. NothingAhead /\ sync.pc = "fill"
        BY <1>1, <2>2
      <4> QED BY ONLY <4>1, SyncTypeOK, SyncFields DEF NothingAhead
    <3>4. CASE sync'.pc = "fill" /\ sync'.todo = sync.todo \cup {v}
      <4>1. PageOf[v] <= sync.page
        BY <2>2, <3>2, PageOrder
      <4>2. \A w \in sync'.todo : PageOf[w] <= sync'.page
        BY ONLY <2>2, <3>4, <3>3, <4>1
      <4> QED BY <3>1, <3>4, <4>2 DEF NothingAhead
    <3>5. CASE sync'.pc = "list" /\ sync'.todo = sync.todo \ OnPage(sync.page)
      <4>1. \A w \in sync'.todo : PageOf[w] < sync'.page
        BY ONLY <2>2, <3>5, <3>3, PageOrder
      <4> QED BY <3>1, <3>5, <4>1 DEF NothingAhead
    <3> QED BY <1>13, <3>1, <3>4, <3>5, FillDoes
  <2>4. FreshHoles'
    <3> SUFFICES ASSUME NEW w \in sync'.todo, vendorOwners'[w] = Absent
                 PROVE  FreshSources(w)'
      BY DEF FreshHoles
    <3>1. w \in sync.todo /\ w \in Vendor /\ vendorOwners[w] = Absent
      BY <1>13, <2>2, FillDoes, SyncFields
    <3> QED BY <1>1, <1>7, <1>13, <3>1, FillDoes DEF FreshHoles, ownerVars
  <2> QED BY <1>3, <2>1, <2>3, <2>4
<1>14. CASE ListReturns
  <2>1. /\ Owns' /\ FreshListed' /\ FreshAnswer' /\ FreshHoles'
        /\ SyncReportsRecentOwner'
    BY <1>4, <1>5, <1>6, <1>8, <1>14, ReturnsDoes DEF ownerVars
  <2>2. FreshMap' /\ NothingAhead'
    <3>1. /\ sync.pc = "fill" /\ sync'.pc \in {"grants", "list"}
          /\ sync'.page = sync.page + 1 /\ sync'.page # 1
          /\ sync.page \in 1..Pages /\ sync'.todo = sync.todo
          /\ vendorOwners' = vendorOwners /\ since' = since
      BY <1>14, ReturnsDoes
    <3>2. \A v \in sync'.todo : PageOf[v] < sync'.page
      BY <1>1, <3>1, PageOrder, SyncFields DEF NothingAhead
    <3> QED BY <1>1, <3>1, <3>2 DEF FreshMap, NothingAhead
  <2> QED BY <1>3, <2>1, <2>2
<1>15. ASSUME NEW v \in Vendor, Grants(v)
       PROVE  FreshInv'
  <2>1. /\ Owns' /\ FreshListed' /\ FreshHoles'
    BY <1>4, <1>8, <1>15, GrantsDoes DEF ownerVars
  <2>2. FreshMap' /\ NothingAhead'
    <3>1. /\ sync.pc = "grants" /\ sync'.pc \in {"grants", "fetched"}
          /\ vendorOwners' = vendorOwners /\ since' = since
      BY <1>15, GrantsDoes
    <3> QED BY <1>1, <3>1 DEF FreshMap, NothingAhead
  <2>3. GrantsOwner(v) \in since[v]
    <3>1. CASE vendorOwners[v] = Absent
      <4>1. FreshSources(v)
        BY <1>1, <1>15, <3>1, GrantsDoes DEF FreshHoles
      <4> QED BY <1>1, <3>1, <4>1, AnswerFresh DEF GrantsOwner
    <3>2. CASE vendorOwners[v] # Absent
      BY <1>1, <1>15, <3>2, GrantsDoes DEF FreshMap, GrantsOwner
    <3> QED BY <3>1, <3>2
  <2>4. FreshAnswer' /\ SyncReportsRecentOwner'
    <3>1. /\ sync'.answer \in
                {sync.answer, [sync.answer EXCEPT ![v] = GrantsOwner(v)]}
          /\ sync'.reported \in
                {sync.reported, [sync.reported EXCEPT ![v] = GrantsOwner(v)]}
          /\ since' = since
      BY <1>15, GrantsDoes
    <3>2. \A w \in Vendor :
             /\ sync'.answer[w] # sync.answer[w] => sync'.answer[w] \in since[w]
             /\ sync'.reported[w] # sync.reported[w] =>
                   sync'.reported[w] \in since[w]
      BY <2>3, <3>1, SyncFields
    <3> QED BY <1>1, <3>1, <3>2 DEF FreshAnswer, SyncReportsRecentOwner
  <2> QED BY <1>3, <2>1, <2>2, <2>4
<1>16. CASE GrantsFetched
  <2>1. PICK v \in Vendor :
            /\ sync.answer[v] \in Owner
            /\ sync'.todo = sync.todo \ {v}
            /\ sync'.reported = [sync.reported EXCEPT ![v] = sync.answer[v]]
            /\ cache' \in {cache, [cache EXCEPT ![v] = sync.answer[v]]}
    BY <1>16, FetchedDoes
  <2>2. sync.answer[v] \in since[v]
    BY <1>1, <2>1, Constants DEF FreshAnswer
  <2>3. Owns' /\ FreshListed' /\ FreshAnswer'
    BY <1>4, <1>5, <1>16, FetchedDoes
  <2>4. SyncReportsRecentOwner'
    <3>1. \A w \in Vendor : sync'.reported[w] # sync.reported[w] =>
             sync'.reported[w] \in since[w]
      BY <2>1, <2>2, SyncFields
    <3> QED BY <1>1, <1>16, <3>1, FetchedDoes DEF SyncReportsRecentOwner
  <2>5. FreshMap' /\ NothingAhead'
    BY <1>1, <1>16, FetchedDoes DEF FreshMap, NothingAhead
  <2>6. FreshHoles'
    <3> SUFFICES ASSUME NEW w \in sync'.todo, vendorOwners'[w] = Absent
                 PROVE  FreshSources(w)'
      BY DEF FreshHoles
    <3>1. w \in sync.todo /\ w \in Vendor /\ vendorOwners[w] = Absent
      BY <1>16, <2>1, FetchedDoes, SyncFields
    <3>2. FreshSources(w)
      BY <1>1, <3>1 DEF FreshHoles
    <3>3. cache'[w] \in since[w] \cup {Uncached}
      BY <2>1, <2>2, <3>1, <3>2, SyncFields DEF FreshSources
    <3> QED BY <1>16, <3>2, <3>3, FetchedDoes DEF FreshSources
  <2> QED BY <1>3, <2>3, <2>4, <2>5, <2>6
<1>17. CASE EndSync
  <2>1. /\ sync' = IdleSync
        /\ \A v \in Vendor : owner'[v] = owner[v] /\ since'[v] = {owner[v]}
        /\ \A n \in 1..Pages : listed'[n] = Uncached
    BY <1>17 DEF EndSync, ClearCaches
  <2>2. Owns' /\ FreshListed'
    BY <2>1 DEF FreshListed
  <2> QED BY <1>3, <1>9, <2>1, <2>2
<1>18. CASE FailSync
  BY <1>3, <1>4, <1>9, <1>18 DEF FailSync, ownerVars
<1>19. ASSUME owner' = owner, listed' = listed, since' = since, sync' = sync,
              vendorOwners' = vendorOwners,
              \A v \in Vendor : FreshSources(v) => FreshSources(v)'
       PROVE  FreshInv'
  <2>1. FreshMap' /\ NothingAhead'
    BY <1>1, <1>19 DEF FreshMap, NothingAhead
  <2>2. FreshHoles'
    BY <1>1, <1>19, SyncFields DEF FreshHoles
  <2> QED BY <1>3, <1>4, <1>5, <1>6, <1>19, <2>1, <2>2
<1>20. ASSUME NEW v \in Vendor, StartTarget(v)
       PROVE  FreshInv'
  <2>1. target'.pc = "get"
    BY <1>20 DEF StartTarget
  <2>2. \A w \in Vendor : FreshSources(w) => FreshSources(w)'
    BY <1>20, <2>1 DEF StartTarget, FreshSources, ownerVars
  <2> QED BY <1>19, <1>20, <2>2 DEF StartTarget, ownerVars
<1>21. CASE TargetGet \/ TargetGrants
  <2>1. ASSUME NEW w \in Vendor, FreshSources(w)
        PROVE  FreshSources(w)'
    <3>1. cache'[w] \in since[w] \cup {Uncached}
      <4>1. cache' = cache \/ w # target.vendor => cache'[w] = cache[w]
        BY <1>21, TargetDoes, SyncFields
      <4>2. cache' # cache /\ w = target.vendor => cache'[w] = target.answer
        BY <1>21, TargetDoes, SyncFields
      <4>3. cache' # cache => target.pc \in {"got", "fetched"}
        BY <1>21, TargetDoes
      <4> QED BY <2>1, <4>1, <4>2, <4>3 DEF FreshSources
    <3>2. target'.pc \in {"got", "fetched"} /\ target'.vendor = w =>
             target'.answer \in since[w]
      BY <1>1, <1>21, <2>1, TargetDoes, AnswerFresh
    <3> QED BY <1>21, <2>1, <3>1, <3>2, TargetDoes DEF FreshSources
  <2> QED BY <1>19, <1>21, <2>1, TargetDoes
<1>22. CASE EndTarget
  <2>1. target'.pc = "idle"
    BY <1>22, IdleTypes DEF EndTarget
  <2>2. \A w \in Vendor : FreshSources(w) => FreshSources(w)'
    BY <1>22, <2>1 DEF EndTarget, FreshSources, ownerVars
  <2> QED BY <1>19, <1>22, <2>2 DEF EndTarget, ownerVars
<1>23. CASE OwnerStep
  <2>1. CallsNext /\ UNCHANGED <<vendorOwners, listed, sync, syncs>>
    BY <1>23 DEF OwnerStep
  <2>2. \A v \in Vendor : since'[v] = since[v] \cup {owner'[v]}
    BY <1>23, SyncFields DEF OwnerStep
  <2>3. /\ target'.pc = target.pc /\ target'.vendor = target.vendor
        /\ target'.answer = target.answer
    BY <1>23, SyncFields DEF OwnerStep, TargetState
  <2>4. /\ Owns' /\ FreshListed' /\ FreshAnswer' /\ FreshMap' /\ NothingAhead'
        /\ SyncReportsRecentOwner'
    BY <1>1, <2>1, <2>2 DEF FreshListed, FreshAnswer, FreshMap, NothingAhead,
                            SyncReportsRecentOwner
  <2>5. ASSUME NEW v \in Vendor, FreshSources(v)
        PROVE  FreshSources(v)'
    <3>1. cache'[v] \in since'[v] \cup {Uncached}
      BY <2>1, <2>2, <2>5, CallsDo DEF FreshSources
    <3>2. VendorOwnerID(v) \in since'[v]
      BY <1>1, <2>2, <2>5, AnswerFresh
    <3>3. \A d \in Call : call'[d].pc = "answered" /\ call'[d].vendor = v =>
             call'[d].answer \in since'[v]
      BY <2>1, <2>2, <2>5, <3>2, CallsDo DEF FreshSources
    <3> QED BY <2>2, <2>3, <2>5, <3>1, <3>3 DEF FreshSources
  <2>6. FreshHoles'
    BY <1>1, <2>1, <2>5, SyncFields DEF FreshHoles
  <2> QED BY <1>3, <2>4, <2>6
<1>24. CASE ConnectorRestart
  <2>1. /\ owner' = owner /\ since' = since /\ sync'.answer = sync.answer
        /\ sync'.reported = sync.reported
        /\ \A n \in 1..Pages : listed'[n] = Uncached
        /\ \A v \in Vendor : vendorOwners'[v] = Absent /\ cache'[v] = Uncached
        /\ \A d \in Call : call'[d].pc # "answered"
        /\ target'.pc = "idle" /\ sync' \in SyncState
    BY <1>2, <1>24, RestartDoes, IdleTypes
  <2>2. \A v \in Vendor : FreshSources(v)'
    BY <2>1 DEF FreshSources
  <2>3. FreshHoles' /\ FreshMap' /\ FreshListed' /\ Owns'
    BY <1>1, <2>1, <2>2 DEF FreshHoles, FreshMap, FreshListed, SyncState
  <2>4. NothingAhead'
    <3> SUFFICES ASSUME sync'.pc = "list" PROVE \A v \in sync'.todo : PageOf[v] < sync'.page
      BY <1>24, RestartDoes DEF NothingAhead
    <3>1. /\ sync.pc \in {"list", "reset", "fill"} /\ sync'.page = sync.page
          /\ sync'.todo = sync.todo \/ sync'.todo = sync.todo \ OnPage(sync.page)
          /\ sync.pc = "fill" => sync'.todo = sync.todo \ OnPage(sync.page)
          /\ sync.page \in 1..Pages
      BY <1>24, RestartDoes DEF PhaseInv
    <3>2. CASE sync.pc \in {"list", "reset"}
      BY <1>1, <3>1, <3>2 DEF NothingAhead
    <3>3. CASE sync.pc = "fill"
      BY <1>1, <3>1, <3>3, PageOrder, SyncFields DEF NothingAhead
    <3> QED BY <3>1, <3>2, <3>3
  <2> QED BY <1>3, <1>5, <1>6, <2>1, <2>3, <2>4
<1>25. CASE UNCHANGED <<ownerVars, syncVars>>
  BY <1>7, <1>19, <1>25 DEF ownerVars, syncVars
<1> QED BY <1>10, <1>11, <1>12, <1>13, <1>14, <1>15, <1>16, <1>17, <1>18, <1>20,
           <1>21, <1>22, <1>23, <1>24, <1>25 DEF SyncNext

(* A full sync never reports an owner the vendor last had before the full  *)
(* sync preceding it ended: neither the builder's map, nor a cached page   *)
(* or vendor, nor a response cached late carries an owner over.            *)
THEOREM RecentOwnersReported == SyncSpec => []SyncReportsRecentOwner
<1> DEFINE IInv == SyncTypeOK /\ PhaseInv /\ FreshInv
<1>1. SyncInit => IInv
  BY InitTypes, InitFresh
<1>2. IInv /\ [SyncNext]_<<ownerVars, syncVars>> => IInv'
  BY NextTypes, NextFresh
<1>3. IInv => SyncReportsRecentOwner
  BY DEF FreshInv
<1> QED BY <1>1, <1>2, <1>3, PTL DEF SyncSpec

-----------------------------------------------------------------------------
(***************************************************************************)
(* The age of everything else that is read.  What map, cache, calls and    *)
(* targeted sync hold is of recent, which only the end of a full sync that *)
(* nobody reads at shortens: it finds the map refilled (FreshMap), clears  *)
(* the cache, and no answer is on its way that could bring the past back.  *)
(***************************************************************************)
RecentSources(v) ==
    /\ cache[v] \in recent[v] \cup {Uncached}
    /\ \A d \in Call : call[d].pc = "answered" /\ call[d].vendor = v =>
         call[d].answer \in recent[v]
    /\ target.pc \in {"got", "fetched", "done"} /\ target.vendor = v =>
         target.answer \in recent[v]

RecentInv ==
    \A v \in Vendor :
        /\ owner[v] \in recent[v] /\ since[v] \subseteq recent[v]
        /\ vendorOwners[v] \in recent[v] \cup {Absent}
        /\ RecentSources(v)

LEMMA InitRecent == SyncInit => RecentInv
<1> SUFFICES ASSUME SyncInit PROVE RecentInv
  OBVIOUS
<1>1. /\ target.pc = "idle" /\ recent = since
      /\ \A v \in Vendor : /\ since[v] = {owner[v]} /\ cache[v] = Uncached
                           /\ vendorOwners[v] = Absent
      /\ \A d \in Call : call[d].pc = "idle"
  BY IdleTypes DEF SyncInit, Init
<1> QED BY <1>1 DEF RecentInv, RecentSources

LEMMA NextRecent ==
    SyncTypeOK /\ PhaseInv /\ FreshInv /\ RecentInv
        /\ [SyncNext]_<<ownerVars, syncVars>> => RecentInv'
<1> SUFFICES ASSUME SyncTypeOK, PhaseInv, FreshInv, RecentInv,
                    [SyncNext]_<<ownerVars, syncVars>>, NEW v \in Vendor
             PROVE  /\ owner'[v] \in recent'[v] /\ since'[v] \subseteq recent'[v]
                    /\ vendorOwners'[v] \in recent'[v] \cup {Absent}
                    /\ RecentSources(v)'
  BY DEF RecentInv
<1> DEFINE Recent ==
              /\ owner'[v] \in recent'[v] /\ since'[v] \subseteq recent'[v]
              /\ vendorOwners'[v] \in recent'[v] \cup {Absent}
              /\ RecentSources(v)'
<1>1. /\ owner[v] \in recent[v] /\ since[v] \subseteq recent[v]
      /\ vendorOwners[v] \in recent[v] \cup {Absent}
      /\ RecentSources(v)
  BY DEF RecentInv
<1>2. VendorOwnerID(v) \in recent[v] /\ GrantsOwner(v) \in recent[v]
  BY <1>1, OwnerOf DEF RecentSources, GrantsOwner
<1>3. ASSUME UNCHANGED ownerVars, target' = target, since' = since,
             recent' = recent,
             vendorOwners'[v] \in {vendorOwners[v], Absent} \cup since[v]
      PROVE  Recent
  BY <1>1, <1>3 DEF ownerVars, RecentSources
<1>4. CASE StartSync \/ FailSync
  BY <1>3, <1>4 DEF StartSync, FailSync
<1>5. CASE ListVendors \/ ListReturns
  BY <1>3, <1>5, ListDoes, ReturnsDoes
<1>6. CASE ListReset
  BY <1>3, <1>6, ResetDoes, IdleTypes
<1>7. ASSUME NEW w \in Vendor, ListFill(w)
      PROVE  Recent
  <2>1. vendorOwners'[v] \in {vendorOwners[v]} \cup since[v]
    BY <1>7, FillDoes, SyncFields DEF FreshInv, FreshAnswer
  <2> QED BY <1>3, <1>7, <2>1, FillDoes
<1>8. ASSUME NEW w \in Vendor, Grants(w)
      PROVE  Recent
  BY <1>3, <1>8, GrantsDoes
<1>9. CASE GrantsFetched
  <2>1. cache'[v] \in {cache[v]} \cup since[v]
    BY <1>9, FetchedDoes, SyncFields, Constants DEF FreshInv, FreshAnswer
  <2> QED BY <1>1, <1>9, <2>1, FetchedDoes DEF RecentSources
<1>10. CASE EndSync
  <2>1. /\ owner' = owner /\ call' = call /\ target' = target
        /\ vendorOwners' = vendorOwners /\ cache'[v] = Uncached
        /\ since'[v] = {owner[v]}
        /\ recent' = IF NobodyReads THEN since ELSE recent
    BY <1>10 DEF EndSync, ClearCaches
  <2>2. CASE NobodyReads
    <3>1. owner[v] \in since[v] /\ vendorOwners[v] \in since[v] \cup {Absent}
      BY <1>10 DEF EndSync, FreshInv, FreshMap
    <3> QED BY <2>1, <2>2, <3>1 DEF NobodyReads, RecentSources
  <2>3. CASE ~NobodyReads
    BY <1>1, <2>1, <2>3 DEF RecentSources
  <2> QED BY <2>2, <2>3
<1>11. ASSUME NEW w \in Vendor, StartTarget(w)
       PROVE  Recent
  <2>1. target'.pc = "get"
    BY <1>11 DEF StartTarget
  <2> QED BY <1>1, <1>11, <2>1 DEF StartTarget, RecentSources, ownerVars
<1>12. CASE TargetGet \/ TargetGrants
  <2>1. cache'[v] \in recent[v] \cup {Uncached}
    <3>1. cache' = cache \/ v # target.vendor => cache'[v] = cache[v]
      BY <1>12, TargetDoes, SyncFields
    <3>2. cache' # cache /\ v = target.vendor => cache'[v] = target.answer
      BY <1>12, TargetDoes, SyncFields
    <3>3. cache' # cache => target.pc \in {"got", "fetched"}
      BY <1>12, TargetDoes
    <3> QED BY <1>1, <3>1, <3>2, <3>3 DEF RecentSources
  <2>2. target'.pc \in {"got", "fetched", "done"} /\ target'.vendor = v =>
           target'.answer \in recent[v]
    BY <1>1, <1>2, <1>12, TargetDoes DEF RecentSources
  <2> QED BY <1>1, <1>12, <2>1, <2>2, TargetDoes DEF RecentSources
<1>13. CASE EndTarget
  <2>1. target'.pc = "idle"
    BY <1>13, IdleTypes DEF EndTarget
  <2> QED BY <1>1, <1>13, <2>1 DEF EndTarget, RecentSources, ownerVars
<1>14. CASE OwnerStep
  <2>1. CallsNext /\ vendorOwners' = vendorOwners
    BY <1>14 DEF OwnerStep
  <2>2. /\ recent'[v] = recent[v] \cup {owner'[v]}
        /\ since'[v] = since[v] \cup {owner'[v]}
    BY <1>14, SyncFields DEF OwnerStep
  <2>3. /\ target'.pc = target.pc /\ target'.vendor = target.vendor
        /\ target'.answer = target.answer
    BY <1>14, SyncFields DEF OwnerStep, TargetState
  <2>4. cache'[v] \in recent'[v] \cup {Uncached}
    BY <1>1, <2>1, <2>2, CallsDo DEF RecentSources
  <2>5. \A d \in Call : call'[d].pc = "answered" /\ call'[d].vendor = v =>
           call'[d].answer \in recent'[v]
    BY <1>1, <1>2, <2>1, <2>2, CallsDo DEF RecentSources
  <2> QED BY <1>1, <2>1, <2>2, <2>3, <2>4, <2>5 DEF RecentSources
<1>15. CASE ConnectorRestart
  <2>1. recent' = recent /\ since' = since
    BY <1>15 DEF ConnectorRestart
  <2> QED BY <1>1, <1>15, <2>1, RestartDoes, IdleTypes DEF RecentSources
<1>16. CASE UNCHANGED <<ownerVars, syncVars>>
  BY <1>3, <1>16 DEF ownerVars, syncVars
<1> QED BY <1>4, <1>5, <1>6, <1>7, <1>8, <1>9, <1>10, <1>11, <1>12, <1>13, <1>14,
           <1>15, <1>16 DEF SyncNext

(* However old the map and however often a cached vendor is stored again,  *)
(* nothing a targeted sync reports and nothing Grant or Revoke decides on  *)
(* is older than the full sync before the last one at whose end no answer  *)
(* of GetVendor was on its way.                                            *)
THEOREM ReadsAreRecent == SyncSpec => []ReadsRecentOwner
<1> DEFINE IInv == SyncTypeOK /\ PhaseInv /\ FreshInv /\ RecentInv
<1>1. SyncInit => IInv
  BY InitTypes, InitFresh, InitRecent
<1>2. IInv /\ [SyncNext]_<<ownerVars, syncVars>> => IInv'
  BY NextTypes, NextFresh, NextRecent
<1>3. IInv => ReadsRecentOwner
  BY SyncFields DEF RecentInv, RecentSources, ReadsRecentOwner, CallState
<1> QED BY <1>1, <1>2, <1>3, PTL DEF SyncSpec

-----------------------------------------------------------------------------
(***************************************************************************)
(* Full syncs implement SyncReport.  TodoInv keeps the account of vendors: *)
(* those of the pages read are still to be reported, or have been, once    *)
(* the grants are read; never both.                                        *)
(***************************************************************************)
Listing  == {"list", "reset", "fill"}
Granting == {"grants", "fetched"}

ReportedOnce ==
    \A v \in Vendor : sync.reported[v] # Absent =>
        sync.pc \in Granting /\ v \notin sync.todo

PagesBehind ==
    sync.pc \in Listing =>
        \A v \in Vendor : PageOf[v] < sync.page => v \in sync.todo

PageInHand ==
    sync.pc = "fill" => OnPage(sync.page) \subseteq sync.todo \cup sync.fill

TodoInv ==
    /\ ReportedOnce /\ PagesBehind /\ PageInHand
    /\ sync.pc \in Granting =>
         \A v \in Vendor : v \in sync.todo \/ sync.reported[v] # Absent
    /\ sync.pc = "fetched" => sync.vendor \subseteq sync.todo

LEMMA InitTodo == SyncInit => TodoInv
<1> SUFFICES ASSUME SyncInit PROVE TodoInv
  OBVIOUS
<1>1. sync.pc = "idle" /\ \A v \in Vendor : sync.reported[v] = Absent
  BY IdleTypes DEF SyncInit
<1> QED BY <1>1 DEF TodoInv, ReportedOnce, PagesBehind, PageInHand, Listing,
                    Granting

(* A sync that begins, or has ended, has an empty report.                  *)
LEMMA FreshSyncTodo ==
    ASSUME sync' = IdleSync \/ sync' = [IdleSync EXCEPT !.pc = "list"]
    PROVE  TodoInv' /\ sync'.reported = Nothing
<1>1. /\ sync'.pc \in {"idle", "list"} /\ sync'.page = 1
      /\ sync'.reported = Nothing /\ \A v \in Vendor : Nothing[v] = Absent
  BY IdleTypes DEF SyncState
<1>2. \A v \in Vendor : ~(PageOf[v] < 1)
  <2>1. \A v \in Vendor : PageOf[v] \in 1..Pages
    BY Constants
  <2> QED BY <2>1, Constants
<1> QED BY <1>1, <1>2 DEF TodoInv, ReportedOnce, PagesBehind, PageInHand,
                          Listing, Granting

LEMMA NextTodo ==
    SyncTypeOK /\ PhaseInv /\ TodoInv /\ [SyncNext]_<<ownerVars, syncVars>> =>
        TodoInv'
<1> SUFFICES ASSUME SyncTypeOK, PhaseInv, TodoInv,
                    [SyncNext]_<<ownerVars, syncVars>>
             PROVE  TodoInv'
  OBVIOUS
<1> USE DEF TodoInv, ReportedOnce, PagesBehind, PageInHand, Listing, Granting
<1>1. CASE StartSync \/ EndSync \/ FailSync
  BY <1>1, FreshSyncTodo DEF StartSync, EndSync, FailSync
<1>2. CASE ListVendors
  BY <1>2, ListDoes
<1>3. CASE ListReset
  BY <1>3, ResetDoes
<1>4. ASSUME NEW v \in Vendor, ListFill(v)
      PROVE  TodoInv'
  <2>1. CASE sync'.pc = "fill"
    BY <1>4, <2>1, FillDoes
  <2>2. CASE sync'.pc = "list"
    <3>1. /\ sync.pc = "fill" /\ sync.page \in 1..Pages /\ sync'.page = sync.page
          /\ sync'.todo = sync.todo \ OnPage(sync.page)
          /\ sync'.reported = sync.reported
      BY <1>4, <2>2, FillDoes
    <3> QED BY <2>2, <3>1, PageOrder
  <2> QED BY <1>4, <2>1, <2>2, FillDoes
<1>5. CASE ListReturns
  <2>1. /\ sync.pc = "fill" /\ sync'.page = sync.page + 1
        /\ sync.page \in 1..Pages /\ sync'.todo = sync.todo
        /\ sync'.reported = sync.reported
        /\ sync'.pc = IF sync.page = Pages THEN "grants" ELSE "list"
    BY <1>5, ReturnsDoes
  <2>2. \A v \in Vendor : PageOf[v] < sync.page + 1 => v \in sync.todo
    <3>1. OnPage(sync.page) \subseteq sync.todo
      BY <1>5, <2>1 DEF ListReturns
    <3>2. \A v \in Vendor :
             PageOf[v] < sync.page + 1 => PageOf[v] < sync.page \/ v \in OnPage(sync.page)
      <4>1. \A v \in Vendor : PageOf[v] \in 1..Pages
        BY Constants
      <4> QED BY <2>1, <4>1, Constants DEF OnPage
    <3> QED BY <2>1, <3>1, <3>2
  <2>3. sync.page = Pages => \A v \in Vendor : PageOf[v] < sync.page + 1
    <3>1. \A v \in Vendor : PageOf[v] \in 1..Pages
      BY Constants
    <3> QED BY <3>1, Constants
  <2> QED BY <2>1, <2>2, <2>3
<1>6. ASSUME NEW v \in Vendor, NEW o, o # Absent, sync.pc \in Granting,
             sync'.pc = "grants", sync'.todo = sync.todo \ {v},
             sync'.reported = [sync.reported EXCEPT ![v] = o]
      PROVE  TodoInv'
  <2>1. /\ sync'.reported[v] = o
        /\ \A w \in Vendor \ {v} : sync'.reported[w] = sync.reported[w]
    BY <1>6, SyncFields
  <2>2. \A w \in Vendor : w \in sync.todo \/ sync.reported[w] # Absent
    BY <1>6
  <2>3. \A w \in Vendor : w \in sync'.todo \/ sync'.reported[w] # Absent
    BY <1>6, <2>1, <2>2
  <2>4. \A w \in Vendor : sync'.reported[w] # Absent => w \notin sync'.todo
    BY <1>6, <2>1
  <2> QED BY <1>6, <2>3, <2>4
<1>7. ASSUME NEW v \in Vendor, Grants(v)
      PROVE  TodoInv'
  <2>1. CASE vendorOwners[v] = Absent
    BY <1>7, <2>1, GrantsDoes
  <2>2. CASE vendorOwners[v] # Absent
    <3>1. GrantsOwner(v) # Absent
      BY OwnerOf, Constants
    <3> QED BY <1>6, <1>7, <2>2, <3>1, GrantsDoes
  <2> QED BY <2>1, <2>2
<1>8. CASE GrantsFetched
  <2>1. PICK v \in Vendor :
            /\ sync.answer[v] \in Owner
            /\ sync'.todo = sync.todo \ {v}
            /\ sync'.reported = [sync.reported EXCEPT ![v] = sync.answer[v]]
    BY <1>8, FetchedDoes
  <2> QED BY <1>6, <1>8, <2>1, FetchedDoes, Constants
<1>9. CASE ConnectorRestart
  <2>1. CASE sync'.todo = sync.todo
    BY <1>9, <2>1, RestartDoes
  <2>2. CASE sync'.pc = "list" /\ sync.page \in 1..Pages
               /\ sync'.todo = sync.todo \ OnPage(sync.page)
    BY <1>9, <2>2, RestartDoes, PageOrder
  <2> QED BY <1>9, <2>1, <2>2, RestartDoes
<1>10. ASSUME sync' = sync
       PROVE  TodoInv'
  BY <1>10
<1>11. CASE TargetGet \/ TargetGrants
  BY <1>10, <1>11, TargetDoes
<1> QED BY <1>1, <1>2, <1>3, <1>4, <1>5, <1>7, <1>8, <1>9, <1>10, <1>11
        DEF SyncNext, StartTarget, EndTarget, OwnerStep, syncVars

-----------------------------------------------------------------------------
LEMMA InitReports == SyncInit => OwnerReport!Init
BY InitTypeOK, IdleTypes
   DEF SyncInit, TypeOK, Nothing, OwnerReport!Init, OwnerReport!Empty,
       OwnerReport!Now

(* Each step of the sync is a step of SyncReport, or changes nothing there. *)
LEMMA NextReports ==
    SyncTypeOK /\ PhaseInv /\ FreshInv /\ TodoInv
        /\ [SyncNext]_<<ownerVars, syncVars>> =>
            [OwnerReport!Next]_(OwnerReport!vars)
<1> SUFFICES ASSUME SyncTypeOK, PhaseInv, FreshInv, TodoInv,
                    [SyncNext]_<<ownerVars, syncVars>>
             PROVE  OwnerReport!Next \/ UNCHANGED OwnerReport!vars
  OBVIOUS
<1>1. ASSUME owner' = owner, since' = since, sync'.reported = sync.reported
      PROVE  UNCHANGED OwnerReport!vars
  BY <1>1 DEF OwnerReport!vars
<1>2. ASSUME NEW v \in Vendor, NEW o \in since[v], v \in sync.todo,
             sync.pc \in Granting, owner' = owner, since' = since,
             sync'.reported = [sync.reported EXCEPT ![v] = o]
      PROVE  OwnerReport!Next
  <2>1. sync.reported[v] = Absent
    BY <1>2 DEF TodoInv, ReportedOnce
  <2>2. o # Absent
    BY SyncFields, Constants
  <2>3. OwnerReport!Report(v)
    BY <1>2, <2>1, <2>2 DEF OwnerReport!Report
  <2> QED BY <2>3 DEF OwnerReport!Next
<1>3. CASE StartSync \/ FailSync
  <2>1. sync'.reported = Nothing /\ owner' = owner /\ since' = since
    BY <1>3, FreshSyncTodo DEF StartSync, FailSync, ownerVars
  <2> QED BY <2>1 DEF OwnerReport!Next, OwnerReport!Abandon, OwnerReport!Empty,
                      Nothing
<1>4. CASE EndSync
  <2>1. \A v \in Vendor : sync.reported[v] # Absent
    BY <1>4 DEF EndSync, TodoInv, Granting
  <2>2. /\ sync'.reported = Nothing /\ owner' = owner
        /\ since' = [v \in Vendor |-> {owner[v]}]
    BY <1>4, FreshSyncTodo DEF EndSync, ClearCaches
  <2>3. OwnerReport!Complete
    BY <2>1, <2>2 DEF OwnerReport!Complete, OwnerReport!Empty,
                      OwnerReport!Now, Nothing
  <2> QED BY <2>3 DEF OwnerReport!Next
<1>5. CASE ListVendors \/ ListReset \/ ListReturns
  BY <1>1, <1>5, ListDoes, ResetDoes, ReturnsDoes DEF ownerVars
<1>6. ASSUME NEW v \in Vendor, ListFill(v)
      PROVE  UNCHANGED OwnerReport!vars
  BY <1>1, <1>6, FillDoes DEF ownerVars
<1>7. ASSUME NEW v \in Vendor, Grants(v)
      PROVE  OwnerReport!Next \/ UNCHANGED OwnerReport!vars
  <2>1. CASE vendorOwners[v] = Absent
    BY <1>1, <1>7, <2>1, GrantsDoes DEF ownerVars
  <2>2. CASE vendorOwners[v] # Absent
    <3>1. GrantsOwner(v) \in since[v]
      BY <1>7, <2>2, GrantsDoes DEF FreshInv, FreshMap, GrantsOwner
    <3> QED BY <1>2, <1>7, <2>2, <3>1, GrantsDoes DEF Granting, ownerVars
  <2> QED BY <2>1, <2>2
<1>8. CASE GrantsFetched
  <2>1. PICK v \in Vendor :
            /\ sync.answer[v] \in Owner /\ v \in sync.vendor
            /\ sync'.reported = [sync.reported EXCEPT ![v] = sync.answer[v]]
    BY <1>8, FetchedDoes
  <2>2. sync.answer[v] \in since[v]
    BY <2>1, Constants DEF FreshInv, FreshAnswer
  <2>3. v \in sync.todo /\ sync.pc \in Granting
    BY <1>8, <2>1, FetchedDoes DEF TodoInv, Granting
  <2> QED BY <1>2, <1>8, <2>1, <2>2, <2>3, FetchedDoes
<1>9. CASE OwnerStep
  <2>1. /\ owner' \in [Vendor -> Owner] /\ sync' = sync
        /\ since' = [v \in Vendor |-> since[v] \cup {owner'[v]}]
    BY <1>9, CallsDo DEF OwnerStep, TypeOK
  <2> QED BY <2>1 DEF OwnerReport!Next, OwnerReport!Change
<1>10. CASE ConnectorRestart
  BY <1>1, <1>10, RestartDoes
<1>11. ASSUME NEW v \in Vendor, StartTarget(v)
       PROVE  UNCHANGED OwnerReport!vars
  BY <1>1, <1>11 DEF StartTarget, ownerVars
<1>12. CASE TargetGet \/ TargetGrants \/ EndTarget
  BY <1>1, <1>12, TargetDoes DEF EndTarget, ownerVars
<1>13. CASE UNCHANGED <<ownerVars, syncVars>>
  BY <1>1, <1>13 DEF ownerVars, syncVars
<1> QED BY <1>3, <1>4, <1>5, <1>6, <1>7, <1>8, <1>9, <1>10, <1>11, <1>12, <1>13
        DEF SyncNext

(* Full syncs of owners keep the promise of SyncReport: every vendor is    *)
(* reported, once, with an owner it has had since the last complete sync   *)
(* ended, whatever pages, holes in the map, restarts and failures come     *)
(* between.                                                                *)
THEOREM SyncImplementsReport == SyncSpec => ImplementsSyncReport
<1> DEFINE IInv == SyncTypeOK /\ PhaseInv /\ FreshInv /\ TodoInv
<1>1. SyncInit => IInv /\ OwnerReport!Init
  BY InitTypes, InitFresh, InitTodo, InitReports
<1>2. IInv /\ [SyncNext]_<<ownerVars, syncVars>> => IInv'
  BY NextTypes, NextFresh, NextTodo
<1>3. IInv /\ [SyncNext]_<<ownerVars, syncVars>> =>
         [OwnerReport!Next]_(OwnerReport!vars)
  BY NextReports
<1> QED BY <1>1, <1>2, <1>3, PTL DEF SyncSpec, ImplementsSyncReport,
                                     OwnerReport!Spec
=============================================================================
