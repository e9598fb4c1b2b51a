------------------------ MODULE AgreementSyncProofs ------------------------
(***************************************************************************)
(* Theorems about AgreementSync and the values it reports: types, and how  *)
(* old and how complete the reports of full and targeted syncs are, for    *)
(* any number of agreements, contents, edits, syncs, restarts and page     *)
(* boundaries.                                                             *)
(***************************************************************************)
EXTENDS AgreementSync, TLAPS

OwnersOf(contents) == {c.owners : c \in contents \ {Absent}}

(* Entries of a page that are no longer to be filled have been filled and  *)
(* built.                                                                  *)
FilledInv ==
    /\ sync.fill # {} => sync.pc \in {"reset", "fill"}
    /\ sync.pc = "reset" =>
         \A a \in Agreement : sync.answer[a] # Absent => a \in sync.fill
    /\ sync.pc = "fill" =>
         \A a \in Agreement : sync.answer[a] # Absent /\ a \notin sync.fill =>
            /\ FromList(sync.answer[a]) # Refused
            /\ agreementOwners[a] # Absent

(* What a full sync works with is of its own time: the answers, the map    *)
(* once its first page has reset it, and, should a restart have left a     *)
(* hole in the map, the cache and the answers that will enter it.          *)
FreshContent ==
    \A a \in Agreement : content[a] \in since[a] /\ since[a] \subseteq recent[a]

FreshAnswer ==
    \A a \in Agreement : sync.answer[a] # Absent => sync.answer[a] \in since[a]

FreshMap ==
    sync.cursor # FirstPage \/ sync.pc \in {"fill", "grants", "fetched"} =>
        \A a \in Agreement : agreementOwners[a] # Absent =>
            agreementOwners[a] \in OwnersOf(since[a])

FreshCache ==
    \A a \in sync.todo : agreementOwners[a] = Absent =>
        /\ cache[a] \in since[a] \cup {Uncached}
        /\ target.answer # Absent /\ target.agreement = a =>
              target.answer \in since[a]

FreshTodo ==
    sync.cursor = FirstPage /\ sync.pc \in {"idle", "list", "reset", "fill"} =>
        sync.todo = {}

FreshResources ==
    \A a \in Agreement : sync.resources[a] # Absent =>
        \E c \in since[a] \ {Absent} :
            sync.resources[a] = FromList(c) /\ FromList(c) # Refused

FreshInv ==
    /\ FreshContent /\ FreshAnswer /\ FreshMap /\ FreshCache /\ FreshTodo
    /\ FreshResources /\ ReportsOwnersOfThisSync

(* Whatever is kept or under way is recent.                                *)
RecentInv ==
    /\ \A a \in Agreement :
         /\ agreementOwners[a] # Absent => agreementOwners[a] \in OwnersOf(recent[a])
         /\ cache[a] \in recent[a] \cup {Uncached}
    /\ target.answer # Absent => target.answer \in recent[target.agreement]
    /\ target.pc = "idle" => target.answer = Absent
    /\ target.pc \in {"grants", "fetched", "done"} =>
         \E c \in recent[target.agreement] \ {Absent} :
            target.resource = FromGet(c) /\ target.resource # Absent
    /\ target.pc = "done" => target.owners \in Owners(recent[target.agreement])

(* The agreements before the cursor are covered, those of the page are in  *)
(* its answer, and what is covered gets its owners.                        *)
CoverInv ==
    /\ sync.pc \in {"list", "reset", "fill"} =>
         \A a \in Agreement : a <= sync.cursor /\ Absent \notin since[a] =>
            sync.resources[a] # Absent
    /\ sync.pc \in {"grants", "fetched"} =>
         \A a \in Agreement : Absent \notin since[a] => sync.resources[a] # Absent
    /\ sync.pc \in {"reset", "fill"} =>
         \A a \in Agreement :
            /\ sync.cursor < a
            /\ sync.next = FirstPage \/ a <= sync.next
            /\ Absent \notin since[a]
            => sync.answer[a] # Absent
    /\ \A a \in Agreement : sync.resources[a] # Absent =>
         a \in sync.todo \/ sync.owners[a] # Absent

-----------------------------------------------------------------------------
(* Constants.                                                              *)
LEMMA Constants ==
    /\ MaxEdits \in Nat /\ MaxSyncs \in Nat /\ NAgreements \in Nat \ {0}
    /\ Absent \notin Content /\ Uncached \notin Content /\ Uncached # Absent
    /\ Absent \notin Resource
    /\ \A c \in Content : Absent \notin {c.owners, GrantedTo(c.owners)}
BY AgreementAssumption, ContentAssumption

LEMMA Counts ==
    ASSUME NEW Bound \in Nat, NEW n \in 0..Bound, n < Bound
    PROVE  n + 1 \in 0..Bound
OBVIOUS

LEMMA IdleSyncType ==
    /\ IdleSync \in SyncState /\ [IdleSync EXCEPT !.pc = "list"] \in SyncState
    /\ Nothing \in [Agreement -> Content \cup {Absent}]
    /\ Nothing \in [Agreement -> Entry]
    /\ \A a \in Agreement : Nothing[a] = Absent
<1>1. /\ Nothing \in [Agreement -> Content \cup {Absent}]
      /\ Nothing \in [Agreement -> Entry]
      /\ Nothing \in [Agreement -> Resource \cup {Absent}]
      /\ Nothing \in [Agreement -> {GrantedTo(c.owners) : c \in Content} \cup {Absent}]
      /\ \A a \in Agreement : Nothing[a] = Absent
  BY DEF Nothing, Entry
<1>2. FirstPage \in Cursor
  BY Constants DEF FirstPage, Cursor
<1> QED BY <1>1, <1>2 DEF IdleSync, SyncState

LEMMA IdleTargetType ==
    IdleTarget \in TargetState /\ IdleTarget.pc = "idle" /\ IdleTarget.answer = Absent
<1>1. 1 \in Agreement
  BY Constants DEF Agreement
<1> QED BY <1>1 DEF IdleTarget, TargetState

(* The resources of contents that can be built of.                         *)
LEMMA Built ==
    ASSUME NEW c \in Content
    PROVE  /\ FromList(c) # Refused => FromList(c) \in Resource /\ FromList(c) # Absent
           /\ FromGet(c) # Refused => FromGet(c) \in Resource /\ FromGet(c) # Absent
           /\ c.owners \in Entry /\ c.owners # Absent
           /\ GrantedTo(c.owners) # Absent
BY Constants DEF Resource, Entry

(* What Grants reports of an entry.                                        *)
LEMMA EntryGranted ==
    ASSUME NEW e \in Entry, e # Absent
    PROVE  /\ GrantedTo(e) \in {GrantedTo(c.owners) : c \in Content}
           /\ GrantedTo(e) # Absent
BY Constants DEF Entry

LEMMA Answers ==
    ASSUME TypeOK, NEW a \in Agreement, NEW c \in GetVendorAgreement(a)
    PROVE  /\ c \in Content /\ c # Absent
           /\ \/ c = cache[a] /\ cache[a] # Uncached
              \/ c = content[a] /\ cache[a] = Uncached
BY Constants DEF GetVendorAgreement, TypeOK

-----------------------------------------------------------------------------
(* Types, with the entries a page has filled.                              *)
LEMMA InitTypes == Init => TypeOK /\ FilledInv
<1> SUFFICES ASSUME Init PROVE TypeOK /\ FilledInv
  OBVIOUS
<1>1. IdleSync.pc = "idle" /\ IdleSync.fill = {} /\ IdleSync.todo = {}
  BY DEF IdleSync
<1>3. 0 \in 0..MaxEdits /\ 0 \in 0..MaxSyncs
  BY Constants
<1> QED BY <1>1, <1>3, IdleSyncType, IdleTargetType DEF Init, TypeOK, FilledInv

(* The steps of a full sync that leave everything but the sync, the map    *)
(* and the cache alone.                                                    *)
LEMMA SyncStepTypes ==
    ASSUME TypeOK,
           sync' \in SyncState,
           agreementOwners' \in [Agreement -> Entry],
           cache' \in [Agreement -> Content \cup {Uncached}],
           syncs' \in 0..MaxSyncs,
           \A a \in sync'.fill : sync'.answer[a] # Absent,
           \A a \in sync'.todo : sync'.resources[a] # Absent,
           since' \in [Agreement -> SUBSET (Content \cup {Absent})],
           recent' \in [Agreement -> SUBSET (Content \cup {Absent})],
           UNCHANGED <<content, edits, target>>
    PROVE  TypeOK'
BY DEF TypeOK

LEMMA TargetStepTypes ==
    ASSUME TypeOK, FilledInv, NEW next \in TargetState, TargetBecomes(next),
           cache' \in [Agreement -> Content \cup {Uncached}],
           next.pc \in {"got", "fetched"} => next.answer # Absent
    PROVE  TypeOK' /\ FilledInv'
BY DEF TypeOK, FilledInv, TargetBecomes, historyVars

LEMMA FullSyncTypes ==
    ASSUME TypeOK, FilledInv,
           \/ StartSync
           \/ \E end \in Cursor : ListVendorAgreements(end)
           \/ ListReset \/ ListReturns \/ EndSync \/ FailSync
    PROVE  TypeOK' /\ FilledInv'
<1> USE DEF connectorVars, historyVars
<1>t. /\ sync \in SyncState /\ agreementOwners \in [Agreement -> Entry]
      /\ cache \in [Agreement -> Content \cup {Uncached}]
      /\ content \in [Agreement -> Content \cup {Absent}]
      /\ syncs \in 0..MaxSyncs
      /\ \A a \in sync.fill : sync.answer[a] # Absent
      /\ \A a \in sync.todo : sync.resources[a] # Absent
      /\ since \in [Agreement -> SUBSET (Content \cup {Absent})]
      /\ recent \in [Agreement -> SUBSET (Content \cup {Absent})]
  BY DEF TypeOK
<1>i. IdleSync.pc = "idle" /\ IdleSync.fill = {} /\ IdleSync.todo = {}
  BY DEF IdleSync
<1>1. ASSUME StartSync PROVE TypeOK' /\ FilledInv'
  <2>1. syncs' \in 0..MaxSyncs
    BY <1>1, <1>t, Constants, Counts DEF StartSync
  <2>2. sync' \in SyncState /\ sync'.fill = {} /\ sync'.todo = {} /\ sync'.pc = "list"
    BY <1>1, IdleSyncType DEF StartSync, IdleSync
  <2>3. since' \in [Agreement -> SUBSET (Content \cup {Absent})]
    BY <1>1, <1>t DEF StartSync
  <2>4. UNCHANGED <<content, edits, target, recent, agreementOwners, cache>>
    BY <1>1 DEF StartSync
  <2> QED BY <2>1, <2>2, <2>3, <2>4, <1>t, SyncStepTypes DEF FilledInv
<1>2. ASSUME NEW end \in Cursor, ListVendorAgreements(end)
      PROVE  TypeOK' /\ FilledInv'
  <2>1. /\ Page(end) \subseteq Agreement /\ NextPage(end) \in Cursor
        /\ \A a \in Page(end) : content[a] # Absent
    <3>1. FirstPage \in Cursor
      BY Constants DEF FirstPage, Cursor
    <3> QED BY <3>1 DEF Page, NextPage, Listed
  <2>2. [a \in Agreement |-> IF a \in Page(end) THEN content[a] ELSE Absent]
           \in [Agreement -> Content \cup {Absent}]
    BY <1>t
  <2>3. sync' \in SyncState /\ sync'.todo = sync.todo /\ sync'.pc = "reset"
        /\ sync'.resources = sync.resources /\ sync'.fill = Page(end)
    BY <1>2, <1>t, <2>1, <2>2 DEF ListVendorAgreements, SyncState
  <2>4. \A a \in sync'.fill : sync'.answer[a] # Absent
    BY <1>2, <1>t, <2>1, <2>3 DEF ListVendorAgreements, SyncState
  <2>5. UNCHANGED <<content, edits, target, syncs, since, recent,
                    agreementOwners, cache>>
    BY <1>2 DEF ListVendorAgreements
  <2>6. \A a \in Agreement : sync'.answer[a] # Absent => a \in sync'.fill
    BY <1>2, <1>t, <2>3 DEF ListVendorAgreements, SyncState
  <2> QED BY <2>3, <2>4, <2>5, <2>6, <1>t, SyncStepTypes DEF FilledInv
<1>3. ASSUME ListReset PROVE TypeOK' /\ FilledInv'
  <2>1. /\ sync' \in SyncState /\ sync'.todo = sync.todo /\ sync'.pc = "fill"
        /\ sync'.resources = sync.resources /\ sync'.fill = sync.fill
        /\ sync'.answer = sync.answer
    BY <1>3, <1>t DEF ListReset, SyncState
  <2>2. agreementOwners' \in [Agreement -> Entry]
    BY <1>3, <1>t, IdleSyncType DEF ListReset
  <2>3. UNCHANGED <<content, edits, target, syncs, since, recent, cache>>
    BY <1>3 DEF ListReset
  <2>4. TypeOK'
    BY <2>1, <2>2, <2>3, <1>t, SyncStepTypes
  <2>5. sync.pc = "reset"
    BY <1>3 DEF ListReset
  <2> QED BY <2>1, <2>4, <2>5 DEF FilledInv
<1>4. ASSUME ListReturns PROVE TypeOK' /\ FilledInv'
  <2> DEFINE page == {a \in Agreement : sync.answer[a] # Absent}
             resources == [a \in Agreement |->
                  IF a \in page THEN FromList(sync.answer[a]) ELSE sync.resources[a]]
  <2>1. \A a \in page : FromList(sync.answer[a]) \in Resource
                        /\ FromList(sync.answer[a]) # Absent
    <3>1. \A a \in page : sync.answer[a] \in Content
      BY <1>t DEF SyncState
    <3>2. \A a \in page : FromList(sync.answer[a]) # Refused
      BY <1>4 DEF ListReturns, FilledInv
    <3> QED BY <3>1, <3>2, Built
  <2>2. resources \in [Agreement -> Resource \cup {Absent}]
    BY <1>t, <2>1 DEF SyncState
  <2>3. sync' = [sync EXCEPT
              !.pc = IF sync.next = FirstPage THEN "grants" ELSE "list",
              !.cursor = sync.next, !.todo = sync.todo \cup page,
              !.answer = Nothing, !.resources = resources]
    BY <1>4, <1>t DEF ListReturns, SyncState
  <2> HIDE DEF resources
  <2>4. sync' \in SyncState /\ sync'.fill = {} /\ sync'.pc \in {"grants", "list"}
        /\ sync'.todo = sync.todo \cup page /\ sync'.resources = resources
    <3>1. sync.fill = {} /\ page \subseteq Agreement
      BY <1>4 DEF ListReturns
    <3> HIDE DEF page
    <3> QED BY <2>2, <2>3, <3>1, <1>t, IdleSyncType DEF SyncState
  <2>5. \A a \in sync'.todo : sync'.resources[a] # Absent
    <3>1. \A a \in page : resources[a] # Absent
      BY <2>1 DEF resources
    <3>2. \A a \in sync.todo \ page : resources[a] # Absent
      BY <1>t DEF resources, SyncState
    <3> QED BY <2>4, <3>1, <3>2
  <2>6. UNCHANGED <<content, edits, target, syncs, since, recent,
                    agreementOwners, cache>>
    BY <1>4 DEF ListReturns
  <2> QED BY <2>4, <2>5, <2>6, <1>t, SyncStepTypes DEF FilledInv
<1>5. ASSUME EndSync PROVE TypeOK' /\ FilledInv'
  <2>1. /\ cache' \in [Agreement -> Content \cup {Uncached}]
        /\ recent' \in [Agreement -> SUBSET (Content \cup {Absent})]
        /\ sync' = IdleSync
        /\ UNCHANGED <<content, edits, target, syncs, since, agreementOwners>>
    BY <1>5, <1>t DEF EndSync
  <2> QED BY <2>1, <1>t, <1>i, IdleSyncType, SyncStepTypes DEF FilledInv
<1>6. ASSUME FailSync PROVE TypeOK' /\ FilledInv'
  <2>1. /\ sync' = IdleSync
        /\ UNCHANGED <<content, edits, target, syncs, since, recent,
                       agreementOwners, cache>>
    BY <1>6 DEF FailSync
  <2> QED BY <2>1, <1>t, <1>i, IdleSyncType, SyncStepTypes DEF FilledInv
<1> QED BY <1>1, <1>2, <1>3, <1>4, <1>5, <1>6

LEMMA AgreementStepTypes ==
    ASSUME TypeOK, FilledInv, NEW a \in Agreement,
           ListFill(a) \/ GrantsFromMap(a) \/ GrantsAsk(a) \/ GrantsFetched(a)
    PROVE  TypeOK' /\ FilledInv'
<1> USE DEF connectorVars, historyVars
<1> DEFINE GrantedSet == {GrantedTo(c.owners) : c \in Content} \cup {Absent}
<1>t. /\ sync \in SyncState /\ agreementOwners \in [Agreement -> Entry]
      /\ cache \in [Agreement -> Content \cup {Uncached}]
      /\ syncs \in 0..MaxSyncs
      /\ \A b \in sync.fill : sync.answer[b] # Absent
      /\ \A b \in sync.todo : sync.resources[b] # Absent
      /\ since \in [Agreement -> SUBSET (Content \cup {Absent})]
      /\ recent \in [Agreement -> SUBSET (Content \cup {Absent})]
  BY DEF TypeOK
<1>a. /\ sync.answer \in [Agreement -> Content \cup {Absent}]
      /\ sync.owners \in [Agreement -> GrantedSet]
      /\ sync.todo \subseteq Agreement /\ sync.fill \subseteq Agreement
  BY <1>t DEF SyncState
<1>1. ASSUME ListFill(a) PROVE TypeOK' /\ FilledInv'
  <2>1. /\ a \in sync.fill /\ sync.answer[a] \in Content
        /\ sync.answer[a].owners \in Entry /\ sync.answer[a].owners # Absent
    BY <1>1, <1>t, <1>a, Built DEF ListFill
  <2>2. /\ agreementOwners' \in [Agreement -> Entry]
        /\ agreementOwners'[a] # Absent
        /\ \A b \in Agreement : agreementOwners[b] # Absent => agreementOwners'[b] # Absent
    BY <1>1, <1>t, <2>1 DEF ListFill, KeepOwners
  <2>3. UNCHANGED <<content, edits, target, syncs, since, recent, cache>>
    BY <1>1 DEF ListFill
  <2>4. CASE CannotBeBuilt(sync.answer[a])
    <3>1. /\ sync' \in SyncState /\ sync'.fill = {} /\ sync'.pc = "list"
          /\ sync'.todo = sync.todo /\ sync'.resources = sync.resources
      BY <1>1, <1>t, <2>4, IdleSyncType DEF ListFill, SyncState
    <3> QED BY <2>2, <2>3, <3>1, <1>t, SyncStepTypes DEF FilledInv
  <2>5. CASE ~CannotBeBuilt(sync.answer[a])
    <3>1. /\ sync' \in SyncState /\ sync'.fill = sync.fill \ {a}
          /\ sync'.pc = "fill" /\ sync'.answer = sync.answer
          /\ sync'.todo = sync.todo /\ sync'.resources = sync.resources
      BY <1>1, <1>t, <2>5 DEF ListFill, SyncState
    <3>2. TypeOK'
      BY <2>2, <2>3, <3>1, <1>t, SyncStepTypes
    <3>3. FromList(sync.answer[a]) # Refused /\ sync.pc = "fill"
      BY <1>1, <2>5 DEF CannotBeBuilt, ListFill
    <3> QED BY <2>2, <3>1, <3>2, <3>3 DEF FilledInv
  <2> QED BY <2>4, <2>5
<1>2. ASSUME GrantsFromMap(a) PROVE TypeOK' /\ FilledInv'
  <2>1. GrantedTo(agreementOwners[a]) \in GrantedSet
    BY <1>2, <1>t, EntryGranted DEF GrantsFromMap
  <2>2. [sync.owners EXCEPT ![a] = GrantedTo(agreementOwners[a])]
           \in [Agreement -> GrantedSet]
    BY <1>a, <2>1
  <2>3. sync' = [sync EXCEPT !.todo = sync.todo \ {a},
                   !.owners = [sync.owners EXCEPT ![a] = GrantedTo(agreementOwners[a])]]
    BY <1>2, <1>t DEF GrantsFromMap, SyncState
  <2>4. /\ sync' \in SyncState /\ sync'.fill = sync.fill
        /\ sync'.pc = "grants" /\ sync'.answer = sync.answer
        /\ sync'.todo = sync.todo \ {a} /\ sync'.resources = sync.resources
    BY <1>2, <1>t, <2>2, <2>3 DEF SyncState, GrantsFromMap
  <2>5. UNCHANGED <<content, edits, target, syncs, since, recent,
                    agreementOwners, cache>>
    BY <1>2 DEF GrantsFromMap
  <2>6. sync.fill = {}
    BY <1>2 DEF GrantsFromMap, FilledInv
  <2> QED BY <2>4, <2>5, <2>6, <1>t, SyncStepTypes DEF FilledInv
<1>3. ASSUME GrantsAsk(a) PROVE TypeOK' /\ FilledInv'
  <2>1. PICK c \in GetVendorAgreement(a) :
            sync' = [sync EXCEPT !.pc = "fetched", !.answer[a] = c]
    BY <1>3 DEF GrantsAsk
  <2>2. c \in Content /\ c # Absent
    BY Answers
  <2>3. [sync.answer EXCEPT ![a] = c] \in [Agreement -> Content \cup {Absent}]
    BY <1>a, <2>2
  <2>4. sync' = [sync EXCEPT !.pc = "fetched",
                             !.answer = [sync.answer EXCEPT ![a] = c]]
    BY <2>1, <1>t DEF SyncState
  <2>5. /\ sync' \in SyncState /\ sync'.fill = sync.fill
        /\ sync'.pc = "fetched" /\ sync'.answer = [sync.answer EXCEPT ![a] = c]
        /\ sync'.todo = sync.todo /\ sync'.resources = sync.resources
    BY <1>t, <2>3, <2>4 DEF SyncState
  <2>6. \A b \in sync'.fill : sync'.answer[b] # Absent
    BY <1>t, <1>a, <2>2, <2>5
  <2>7. UNCHANGED <<content, edits, target, syncs, since, recent,
                    agreementOwners, cache>>
    BY <1>3 DEF GrantsAsk
  <2>8. sync.fill = {}
    BY <1>3 DEF GrantsAsk, FilledInv
  <2> QED BY <2>5, <2>6, <2>7, <2>8, <1>t, SyncStepTypes DEF FilledInv
<1>4. ASSUME GrantsFetched(a) PROVE TypeOK' /\ FilledInv'
  <2>1. sync.answer[a] \in Content
    BY <1>4, <1>a DEF GrantsFetched
  <2>2. GrantedTo(sync.answer[a].owners) \in GrantedSet
    BY <2>1
  <2>3. [sync.owners EXCEPT ![a] = GrantedTo(sync.answer[a].owners)]
           \in [Agreement -> GrantedSet]
    BY <1>a, <2>2
  <2>4. sync' = [sync EXCEPT !.pc = "grants", !.todo = sync.todo \ {a},
                   !.answer = Nothing,
                   !.owners = [sync.owners EXCEPT
                                 ![a] = GrantedTo(sync.answer[a].owners)]]
    BY <1>4, <1>t DEF GrantsFetched, SyncState
  <2>5. /\ sync' \in SyncState /\ sync'.fill = sync.fill
        /\ sync'.pc = "grants" /\ sync'.answer = Nothing
        /\ sync'.todo = sync.todo \ {a} /\ sync'.resources = sync.resources
    BY <1>t, <2>3, <2>4, IdleSyncType DEF SyncState
  <2>6. sync.fill = {}
    BY <1>4 DEF GrantsFetched, FilledInv
  <2>7. UNCHANGED <<content, edits, target, syncs, since, recent, agreementOwners>>
    BY <1>4 DEF GrantsFetched
  <2>8. cache' \in [Agreement -> Content \cup {Uncached}]
    BY <1>4, <1>t, <2>1 DEF GrantsFetched
  <2> QED BY <2>5, <2>6, <2>7, <2>8, <1>t, SyncStepTypes DEF FilledInv
<1> QED BY <1>1, <1>2, <1>3, <1>4

LEMMA TargetTypes ==
    ASSUME TypeOK, FilledInv,
           \/ \E a \in Agreement : TargetGet(a)
           \/ TargetGot \/ TargetGrantsFromMap \/ TargetGrantsAsk
           \/ TargetGrantsFetched \/ EndTarget
    PROVE  TypeOK' /\ FilledInv'
<1>t. /\ target \in TargetState /\ target.agreement \in Agreement
      /\ target.answer \in Content \cup {Absent}
      /\ target.pc \in {"got", "fetched"} => target.answer \in Content
      /\ agreementOwners \in [Agreement -> Entry]
      /\ cache \in [Agreement -> Content \cup {Uncached}]
  BY DEF TypeOK, TargetState
<1>1. ASSUME NEW a \in Agreement, TargetGet(a) PROVE TypeOK' /\ FilledInv'
  <2>1. PICK c \in GetVendorAgreement(a) :
            TargetBecomes([IdleTarget EXCEPT !.pc = "got", !.agreement = a,
                                             !.answer = c])
    BY <1>1 DEF TargetGet
  <2> DEFINE next == [IdleTarget EXCEPT !.pc = "got", !.agreement = a, !.answer = c]
  <2>2. c \in Content /\ c # Absent
    BY Answers
  <2>3. next \in TargetState /\ next.answer = c
    BY <2>2, IdleTargetType DEF TargetState
  <2>4. cache' = cache
    BY <1>1 DEF TargetGet
  <2> HIDE DEF next
  <2> QED BY <2>1, <2>2, <2>3, <2>4, <1>t, TargetStepTypes DEF next
<1>2. ASSUME TargetGot PROVE TypeOK' /\ FilledInv'
  <2> DEFINE resource == FromGet(target.answer)
             next == IF resource = Refused THEN IdleTarget
                     ELSE [target EXCEPT !.pc = "grants", !.answer = Absent,
                                         !.resource = resource]
  <2>1. target.answer \in Content
    BY <1>2, <1>t DEF TargetGot
  <2>2. next \in TargetState /\ next.pc \notin {"got", "fetched"}
    <3>1. resource # Refused => resource \in Resource
      BY <2>1, Built
    <3> HIDE DEF resource
    <3> QED BY <1>t, <3>1, IdleTargetType DEF TargetState
  <2>3. TargetBecomes(next)
    BY <1>2 DEF TargetGot
  <2>4. cache' \in [Agreement -> Content \cup {Uncached}]
    BY <1>2, <1>t, <2>1 DEF TargetGot
  <2> HIDE DEF next
  <2> QED BY <2>2, <2>3, <2>4, TargetStepTypes
<1>3. ASSUME TargetGrantsFromMap PROVE TypeOK' /\ FilledInv'
  <2> DEFINE granted == GrantedTo(agreementOwners[target.agreement])
             next == [target EXCEPT !.pc = "done", !.owners = granted]
  <2>1. granted \in {GrantedTo(c.owners) : c \in Content}
    BY <1>3, <1>t, EntryGranted DEF TargetGrantsFromMap
  <2>2. next \in TargetState /\ next.pc = "done"
    <3> HIDE DEF granted
    <3> QED BY <1>t, <2>1 DEF TargetState
  <2>3. TargetBecomes(next) /\ cache' = cache
    BY <1>3 DEF TargetGrantsFromMap
  <2> HIDE DEF next
  <2> QED BY <2>2, <2>3, <1>t, TargetStepTypes
<1>4. ASSUME TargetGrantsAsk PROVE TypeOK' /\ FilledInv'
  <2>1. PICK c \in GetVendorAgreement(target.agreement) :
            TargetBecomes([target EXCEPT !.pc = "fetched", !.answer = c])
    BY <1>4 DEF TargetGrantsAsk
  <2> DEFINE next == [target EXCEPT !.pc = "fetched", !.answer = c]
  <2>2. c \in Content /\ c # Absent
    BY Answers, <1>t
  <2>3. next \in TargetState /\ next.answer = c
    BY <2>2, <1>t DEF TargetState
  <2>4. cache' = cache
    BY <1>4 DEF TargetGrantsAsk
  <2> HIDE DEF next
  <2> QED BY <2>1, <2>2, <2>3, <2>4, <1>t, TargetStepTypes DEF next
<1>5. ASSUME TargetGrantsFetched PROVE TypeOK' /\ FilledInv'
  <2> DEFINE granted == GrantedTo(target.answer.owners)
             next == [target EXCEPT !.pc = "done", !.answer = Absent,
                                    !.owners = granted]
  <2>1. target.answer \in Content
    BY <1>5, <1>t DEF TargetGrantsFetched
  <2>2. next \in TargetState /\ next.pc = "done"
    <3>1. granted \in {GrantedTo(c.owners) : c \in Content}
      BY <2>1
    <3> HIDE DEF granted
    <3> QED BY <1>t, <3>1 DEF TargetState
  <2>3. TargetBecomes(next)
    BY <1>5 DEF TargetGrantsFetched
  <2>4. cache' \in [Agreement -> Content \cup {Uncached}]
    BY <1>5, <1>t, <2>1 DEF TargetGrantsFetched
  <2> HIDE DEF next
  <2> QED BY <2>2, <2>3, <2>4, TargetStepTypes
<1>6. ASSUME EndTarget PROVE TypeOK' /\ FilledInv'
  BY <1>6, <1>t, IdleTargetType, TargetStepTypes DEF EndTarget
<1> QED BY <1>1, <1>2, <1>3, <1>4, <1>5, <1>6

LEMMA OutsideTypes ==
    ASSUME TypeOK, FilledInv,
           \/ \E a \in Agreement, c \in Content \cup {Absent} : Edit(a, c)
           \/ \E a \in Agreement : Expire(a)
           \/ ConnectorRestart
    PROVE  TypeOK' /\ FilledInv'
<1> USE DEF historyVars
<1>1. ASSUME NEW a \in Agreement, NEW c \in Content \cup {Absent}, Edit(a, c)
      PROVE  TypeOK' /\ FilledInv'
  <2>1. edits' \in 0..MaxEdits
    BY <1>1, Constants, Counts DEF Edit, TypeOK
  <2>2. /\ content' \in [Agreement -> Content \cup {Absent}]
        /\ since' \in [Agreement -> SUBSET (Content \cup {Absent})]
        /\ recent' \in [Agreement -> SUBSET (Content \cup {Absent})]
    BY <1>1 DEF Edit, TypeOK
  <2>3. UNCHANGED <<agreementOwners, cache, sync, syncs, target>>
    BY <1>1 DEF Edit
  <2> QED BY <2>1, <2>2, <2>3 DEF TypeOK, FilledInv
<1>2. ASSUME NEW a \in Agreement, Expire(a) PROVE TypeOK' /\ FilledInv'
  BY <1>2 DEF Expire, TypeOK, FilledInv
<1>3. ASSUME ConnectorRestart PROVE TypeOK' /\ FilledInv'
  <2>t. /\ sync \in SyncState /\ target \in TargetState
        /\ \A a \in sync.fill : sync.answer[a] # Absent
        /\ \A a \in sync.todo : sync.resources[a] # Absent
    BY DEF TypeOK
  <2>1. /\ agreementOwners' \in [Agreement -> Entry]
        /\ cache' \in [Agreement -> Content \cup {Uncached}]
        /\ target' \in TargetState /\ target'.pc = "idle"
        /\ UNCHANGED <<content, edits, syncs, since, recent>>
    BY <1>3, IdleSyncType, IdleTargetType DEF ConnectorRestart
  <2>2. /\ sync' \in SyncState
        /\ sync'.todo = sync.todo /\ sync'.resources = sync.resources
        /\ sync'.fill = {} /\ sync'.pc \notin {"reset", "fill"}
    <3>1. CASE sync.pc \in {"reset", "fill"}
      <4>1. sync' = [sync EXCEPT !.pc = "list", !.fill = {}, !.answer = Nothing]
        BY <1>3, <3>1 DEF ConnectorRestart
      <4> QED BY <4>1, <2>t, IdleSyncType DEF SyncState
    <3>2. CASE sync.pc = "fetched"
      <4>1. sync' = [sync EXCEPT !.pc = "grants", !.answer = Nothing]
        BY <1>3, <3>2 DEF ConnectorRestart
      <4> QED BY <4>1, <3>2, <2>t, IdleSyncType DEF SyncState, FilledInv
    <3>3. CASE sync.pc \notin {"reset", "fill", "fetched"}
      <4>1. sync' = sync
        BY <1>3, <3>3 DEF ConnectorRestart
      <4> QED BY <4>1, <3>3, <2>t DEF FilledInv
    <3> QED BY <3>1, <3>2, <3>3
  <2> QED BY <2>t, <2>1, <2>2 DEF TypeOK, FilledInv
<1> QED BY <1>1, <1>2, <1>3

LEMMA StutterTypes ==
    ASSUME TypeOK, FilledInv, UNCHANGED vars
    PROVE  TypeOK' /\ FilledInv'
BY DEF TypeOK, FilledInv, vars

LEMMA NextTypes == TypeOK /\ FilledInv /\ [Next]_vars => TypeOK' /\ FilledInv'
BY FullSyncTypes, AgreementStepTypes, TargetTypes, OutsideTypes, StutterTypes
   DEF Next

LEMMA Types == Spec => [](TypeOK /\ FilledInv)
BY InitTypes, NextTypes, PTL DEF Spec

(* Every step keeps the types: no page is returned with an agreement no    *)
(* resource could be built of (List fails as a whole), and grants are read *)
(* only for agreements whose resources the sync has.                       *)
THEOREM TypeCorrect == Spec => []TypeOK
BY Types, PTL

-----------------------------------------------------------------------------
(* The freshness of what a full sync works with and reports.               *)
LEMMA InitFresh == Init => FreshInv
<1> SUFFICES ASSUME Init PROVE FreshInv
  OBVIOUS
<1>1. /\ sync.pc = "idle" /\ sync.todo = {} /\ sync.cursor = FirstPage
      /\ sync.answer = Nothing
      /\ sync.resources = Nothing /\ sync.owners = Nothing
  BY DEF Init, IdleSync
<1>2. FreshContent
  BY DEF Init, FreshContent
<1> QED BY <1>1, <1>2, IdleSyncType
        DEF FreshInv, FreshAnswer, FreshMap, FreshCache, FreshTodo,
            FreshResources, ReportsOwnersOfThisSync

(* What was fresh stays fresh when something is added to since, and a sync *)
(* not begun or given up works with nothing.                               *)
LEMMA FreshKept ==
    ASSUME FreshInv, UNCHANGED <<sync, agreementOwners, cache, target>>,
           \A a \in Agreement :
              since[a] \subseteq since'[a] /\ content'[a] \in since'[a]
              /\ since'[a] \subseteq recent'[a],
           TypeOK
    PROVE  FreshInv'
<1>1. sync.todo \subseteq Agreement
  BY DEF TypeOK, SyncState
<1>2. \A a \in Agreement : /\ OwnersOf(since[a]) \subseteq OwnersOf(since'[a])
                           /\ Owners(since[a]) \subseteq Owners(since'[a])
  BY DEF OwnersOf, Owners
<1>3. FreshContent' /\ FreshAnswer' /\ FreshTodo'
  BY DEF FreshInv, FreshContent, FreshAnswer, FreshTodo
<1>4. FreshMap'
  BY <1>2 DEF FreshInv, FreshMap
<1>5. FreshCache'
  BY <1>1 DEF FreshInv, FreshCache
<1>6. FreshResources'
  BY DEF FreshInv, FreshResources
<1>7. ReportsOwnersOfThisSync'
  BY <1>2 DEF FreshInv, ReportsOwnersOfThisSync
<1> QED BY <1>3, <1>4, <1>5, <1>6, <1>7 DEF FreshInv

LEMMA NoSyncFresh ==
    ASSUME sync'.todo = {}, sync'.cursor = FirstPage,
           sync'.pc \in {"idle", "list"},
           sync'.answer = Nothing, sync'.resources = Nothing,
           sync'.owners = Nothing,
           \A a \in Agreement : content'[a] \in since'[a]
                                /\ since'[a] \subseteq recent'[a]
    PROVE  FreshInv'
BY IdleSyncType DEF FreshInv, FreshContent, FreshAnswer, FreshMap, FreshCache,
   FreshTodo, FreshResources, ReportsOwnersOfThisSync

-----------------------------------------------------------------------------
(* What each step of a full sync does to the fields of sync.               *)
LEMMA ListDoes ==
    ASSUME TypeOK, NEW end \in Cursor, ListVendorAgreements(end)
    PROVE  /\ sync.pc = "list" /\ sync'.pc = "reset"
           /\ sync'.cursor = sync.cursor /\ sync'.next = NextPage(end)
           /\ sync'.todo = sync.todo /\ sync'.owners = sync.owners
           /\ sync'.resources = sync.resources
           /\ \A a \in Agreement : sync'.answer[a] =
                 IF a \in Page(end) THEN content[a] ELSE Absent
           /\ UNCHANGED <<content, cache, agreementOwners, target, since, recent>>
BY DEF TypeOK, SyncState, ListVendorAgreements, connectorVars, historyVars

LEMMA ResetDoes ==
    ASSUME TypeOK, ListReset
    PROVE  /\ sync.pc = "reset" /\ sync'.pc = "fill"
           /\ agreementOwners' = IF sync.cursor = FirstPage THEN Nothing
                                                            ELSE agreementOwners
           /\ sync'.cursor = sync.cursor /\ sync'.next = sync.next
           /\ sync'.todo = sync.todo /\ sync'.owners = sync.owners
           /\ sync'.resources = sync.resources /\ sync'.answer = sync.answer
           /\ UNCHANGED <<content, cache, target, since, recent>>
BY DEF TypeOK, SyncState, ListReset, historyVars

LEMMA FillDoes ==
    ASSUME TypeOK, NEW a \in Agreement, ListFill(a)
    PROVE  /\ sync.pc = "fill" /\ sync'.pc \in {"fill", "list"}
           /\ sync.answer[a] # Absent
           /\ agreementOwners' = [agreementOwners EXCEPT ![a] = sync.answer[a].owners]
           /\ sync'.answer \in {sync.answer, Nothing}
           /\ sync'.cursor = sync.cursor /\ sync'.next = sync.next
           /\ sync'.todo = sync.todo /\ sync'.owners = sync.owners
           /\ sync'.resources = sync.resources
           /\ UNCHANGED <<content, cache, target, since, recent>>
BY DEF TypeOK, SyncState, ListFill, KeepOwners, historyVars

LEMMA ReturnsDoes ==
    ASSUME TypeOK, ListReturns
    PROVE  /\ sync.pc = "fill" /\ sync.fill = {}
           /\ sync'.pc = IF sync.next = FirstPage THEN "grants" ELSE "list"
           /\ sync'.cursor = sync.next /\ sync'.owners = sync.owners
           /\ sync'.todo = sync.todo \cup {a \in Agreement : sync.answer[a] # Absent}
           /\ sync'.answer = Nothing
           /\ \A a \in Agreement : sync'.resources[a] =
                 IF sync.answer[a] # Absent THEN FromList(sync.answer[a])
                                            ELSE sync.resources[a]
           /\ UNCHANGED <<content, cache, agreementOwners, target, since, recent>>
BY DEF TypeOK, SyncState, ListReturns, connectorVars, historyVars

LEMMA FromMapDoes ==
    ASSUME TypeOK, NEW a \in Agreement, GrantsFromMap(a)
    PROVE  /\ sync.pc = "grants" /\ sync'.pc = "grants"
           /\ a \in sync.todo /\ agreementOwners[a] # Absent
           /\ sync'.cursor = sync.cursor /\ sync'.answer = sync.answer
           /\ sync'.todo = sync.todo \ {a} /\ sync'.resources = sync.resources
           /\ sync'.owners[a] = GrantedTo(agreementOwners[a])
           /\ \A b \in Agreement \ {a} : sync'.owners[b] = sync.owners[b]
           /\ UNCHANGED <<content, cache, agreementOwners, target, since, recent>>
BY DEF TypeOK, SyncState, GrantsFromMap, connectorVars, historyVars

LEMMA AskDoes ==
    ASSUME TypeOK, NEW a \in Agreement, GrantsAsk(a)
    PROVE  /\ sync.pc = "grants" /\ sync'.pc = "fetched" /\ a \in sync.todo
           /\ agreementOwners[a] = Absent
           /\ \E c \in GetVendorAgreement(a) :
                 /\ c # Absent
                 /\ (c = cache[a] /\ cache[a] # Uncached) \/ c = content[a]
                 /\ sync'.answer = [sync.answer EXCEPT ![a] = c]
           /\ sync'.cursor = sync.cursor /\ sync'.todo = sync.todo
           /\ sync'.resources = sync.resources /\ sync'.owners = sync.owners
           /\ UNCHANGED <<content, cache, agreementOwners, target, since, recent>>
<1>1. PICK c \in GetVendorAgreement(a) :
          sync' = [sync EXCEPT !.pc = "fetched", !.answer[a] = c]
  BY DEF GrantsAsk
<1>2. c # Absent /\ ((c = cache[a] /\ cache[a] # Uncached) \/ c = content[a])
  BY Answers
<1>3. sync' = [sync EXCEPT !.pc = "fetched", !.answer = [sync.answer EXCEPT ![a] = c]]
  BY <1>1 DEF TypeOK, SyncState
<1> QED BY <1>2, <1>3 DEF TypeOK, SyncState, GrantsAsk, connectorVars, historyVars

LEMMA FetchedDoes ==
    ASSUME TypeOK, NEW a \in Agreement, GrantsFetched(a)
    PROVE  /\ sync.pc = "fetched" /\ sync'.pc = "grants"
           /\ sync.answer[a] # Absent /\ sync'.answer = Nothing
           /\ sync'.cursor = sync.cursor /\ sync'.todo = sync.todo \ {a}
           /\ sync'.resources = sync.resources
           /\ sync'.owners[a] = GrantedTo(sync.answer[a].owners)
           /\ \A b \in Agreement \ {a} : sync'.owners[b] = sync.owners[b]
           /\ cache' = [cache EXCEPT ![a] = sync.answer[a]]
           /\ UNCHANGED <<content, agreementOwners, target, since, recent>>
BY DEF TypeOK, SyncState, GrantsFetched, historyVars

LEMMA RestartDoes ==
    ASSUME TypeOK, ConnectorRestart
    PROVE  /\ sync'.pc \in {"idle", "list", "grants"}
           /\ sync'.pc = "list" <=> sync.pc \in {"list", "reset", "fill"}
           /\ sync'.pc = "idle" <=> sync.pc = "idle"
           /\ sync'.pc = "grants" => sync.pc = "grants" \/ sync'.answer = Nothing
           /\ sync'.cursor = sync.cursor /\ sync'.todo = sync.todo
           /\ sync'.resources = sync.resources /\ sync'.owners = sync.owners
           /\ sync'.answer \in {sync.answer, Nothing}
           /\ agreementOwners' = Nothing
           /\ cache' = [a \in Agreement |-> Uncached]
           /\ target'.pc = "idle" /\ target'.answer = Absent
           /\ UNCHANGED <<content, since, recent>>
<1>t. sync \in SyncState
  BY DEF TypeOK
<1>1. CASE sync.pc \in {"reset", "fill"}
  <2>1. sync' = [sync EXCEPT !.pc = "list", !.fill = {}, !.answer = Nothing]
    BY <1>1 DEF ConnectorRestart
  <2> QED BY <1>1, <1>t, <2>1, IdleTargetType DEF SyncState, ConnectorRestart, historyVars
<1>2. CASE sync.pc = "fetched"
  <2>1. sync' = [sync EXCEPT !.pc = "grants", !.answer = Nothing]
    BY <1>2 DEF ConnectorRestart
  <2> QED BY <1>2, <1>t, <2>1, IdleTargetType DEF SyncState, ConnectorRestart, historyVars
<1>3. CASE sync.pc \in {"idle", "list", "grants"}
  <2>1. sync' = sync
    BY <1>3 DEF ConnectorRestart
  <2> QED BY <1>3, <1>t, <2>1, IdleTargetType DEF SyncState, ConnectorRestart, historyVars
<1> QED BY <1>1, <1>2, <1>3, <1>t DEF SyncState

-----------------------------------------------------------------------------
LEMMA ListFresh ==
    ASSUME TypeOK, FilledInv, FreshInv,
           \/ \E end \in Cursor : ListVendorAgreements(end)
           \/ ListReset \/ ListReturns
           \/ \E a \in Agreement : ListFill(a)
    PROVE  FreshInv'
<1> USE DEF FreshInv
<1>t. sync.todo \subseteq Agreement
  BY DEF TypeOK, SyncState
<1>1. ASSUME NEW end \in Cursor, ListVendorAgreements(end) PROVE FreshInv'
  <2> USE <1>1, ListDoes
  <2>1. FreshContent' /\ FreshMap' /\ FreshTodo'
    BY DEF FreshContent, FreshMap, FreshTodo
  <2>2. FreshAnswer'
    BY DEF FreshContent, FreshAnswer
  <2>3. FreshCache' /\ FreshResources' /\ ReportsOwnersOfThisSync'
    BY DEF FreshCache, FreshResources, ReportsOwnersOfThisSync
  <2> QED BY <2>1, <2>2, <2>3
<1>2. ASSUME ListReset PROVE FreshInv'
  <2> USE <1>2, ResetDoes
  <2>1. FreshContent' /\ FreshAnswer' /\ FreshTodo'
    BY DEF FreshContent, FreshAnswer, FreshTodo
  <2>2. FreshMap'
    BY IdleSyncType DEF FreshMap
  <2>3. FreshCache'
    <3>1. CASE sync.cursor = FirstPage
      BY <3>1 DEF FreshCache, FreshTodo
    <3>2. CASE sync.cursor # FirstPage
      BY <3>2 DEF FreshCache
    <3> QED BY <3>1, <3>2
  <2>4. FreshResources' /\ ReportsOwnersOfThisSync'
    BY DEF FreshResources, ReportsOwnersOfThisSync
  <2> QED BY <2>1, <2>2, <2>3, <2>4
<1>3. ASSUME ListReturns PROVE FreshInv'
  <2> USE <1>3, ReturnsDoes
  <2>1. FreshContent' /\ FreshAnswer' /\ FreshMap' /\ FreshTodo'
    BY IdleSyncType DEF FreshContent, FreshAnswer, FreshMap, FreshTodo
  <2>2. FreshCache'
    <3>1. \A a \in Agreement : sync.answer[a] # Absent => agreementOwners[a] # Absent
      BY DEF FilledInv
    <3> QED BY <1>t, <3>1 DEF FreshCache
  <2>3. FreshResources'
    <3>1. \A a \in Agreement : sync.answer[a] # Absent =>
              FromList(sync.answer[a]) # Refused /\ sync.answer[a] \in since[a]
      BY DEF FilledInv, FreshAnswer
    <3> QED BY <3>1 DEF FreshResources
  <2>4. ReportsOwnersOfThisSync'
    BY DEF ReportsOwnersOfThisSync
  <2> QED BY <2>1, <2>2, <2>3, <2>4
<1>4. ASSUME NEW a \in Agreement, ListFill(a) PROVE FreshInv'
  <2> USE <1>4, FillDoes
  <2>1. FreshContent' /\ FreshAnswer' /\ FreshTodo'
    BY IdleSyncType DEF FreshContent, FreshAnswer, FreshTodo
  <2>2. /\ sync.answer[a].owners \in OwnersOf(since[a])
        /\ agreementOwners \in [Agreement -> Entry]
        /\ sync.answer[a].owners # Absent
    <3>1. sync.answer[a] \in Content
      BY DEF TypeOK, SyncState
    <3> QED BY <3>1, Built DEF FreshAnswer, OwnersOf, TypeOK
  <2>3. FreshMap'
    BY <2>2 DEF FreshMap
  <2>4. FreshCache'
    BY <1>t, <2>2 DEF FreshCache
  <2>5. FreshResources' /\ ReportsOwnersOfThisSync'
    BY DEF FreshResources, ReportsOwnersOfThisSync
  <2> QED BY <2>1, <2>3, <2>4, <2>5
<1> QED BY <1>1, <1>2, <1>3, <1>4

LEMMA GrantsFresh ==
    ASSUME TypeOK, FreshInv, NEW a \in Agreement,
           GrantsFromMap(a) \/ GrantsAsk(a) \/ GrantsFetched(a)
    PROVE  FreshInv'
<1> USE DEF FreshInv
<1>t. /\ sync.todo \subseteq Agreement
      /\ sync.answer \in [Agreement -> Content \cup {Absent}]
      /\ cache \in [Agreement -> Content \cup {Uncached}]
  BY DEF TypeOK, SyncState
<1>o. \A e \in OwnersOf(since[a]) : GrantedTo(e) \in Owners(since[a])
  BY DEF OwnersOf, Owners
<1>1. ASSUME GrantsFromMap(a) PROVE FreshInv'
  <2> USE <1>1, FromMapDoes
  <2>1. FreshContent' /\ FreshAnswer' /\ FreshMap' /\ FreshTodo' /\ FreshResources'
    BY DEF FreshContent, FreshAnswer, FreshMap, FreshTodo, FreshResources
  <2>2. FreshCache'
    BY DEF FreshCache
  <2>3. sync'.owners[a] \in Owners(since[a])
    BY <1>o DEF FreshMap
  <2>4. ReportsOwnersOfThisSync'
    BY <2>3 DEF ReportsOwnersOfThisSync
  <2> QED BY <2>1, <2>2, <2>4
<1>2. ASSUME GrantsAsk(a) PROVE FreshInv'
  <2> USE <1>2, AskDoes
  <2>1. FreshContent' /\ FreshMap' /\ FreshTodo' /\ FreshResources' /\ FreshCache'
    BY DEF FreshContent, FreshMap, FreshTodo, FreshResources, FreshCache
  <2>2. PICK c \in GetVendorAgreement(a) :
            /\ (c = cache[a] /\ cache[a] # Uncached) \/ c = content[a]
            /\ sync'.answer = [sync.answer EXCEPT ![a] = c]
    OBVIOUS
  <2>3. c \in since[a]
    BY <2>2 DEF FreshCache, FreshContent
  <2>4. FreshAnswer'
    BY <1>t, <2>2, <2>3 DEF FreshAnswer
  <2>5. ReportsOwnersOfThisSync'
    BY DEF ReportsOwnersOfThisSync
  <2> QED BY <2>1, <2>4, <2>5
<1>3. ASSUME GrantsFetched(a) PROVE FreshInv'
  <2> USE <1>3, FetchedDoes
  <2>1. FreshContent' /\ FreshAnswer' /\ FreshMap' /\ FreshTodo' /\ FreshResources'
    BY IdleSyncType DEF FreshContent, FreshAnswer, FreshMap, FreshTodo, FreshResources
  <2>2. FreshCache'
    BY <1>t DEF FreshCache
  <2>3. sync'.owners[a] \in Owners(since[a])
    BY DEF FreshAnswer, Owners
  <2>4. ReportsOwnersOfThisSync'
    BY <2>3 DEF ReportsOwnersOfThisSync
  <2> QED BY <2>1, <2>2, <2>4
<1> QED BY <1>1, <1>2, <1>3

LEMMA TargetFresh ==
    ASSUME TypeOK, FreshInv,
           \/ \E a \in Agreement : TargetGet(a)
           \/ TargetGot \/ TargetGrantsFromMap \/ TargetGrantsAsk
           \/ TargetGrantsFetched \/ EndTarget
    PROVE  FreshInv'
<1> USE DEF FreshInv, historyVars
<1>t. /\ sync.todo \subseteq Agreement /\ target.agreement \in Agreement
      /\ target \in TargetState
      /\ cache \in [Agreement -> Content \cup {Uncached}]
      /\ target.pc \in {"got", "fetched"} => target.answer \in Content
  BY DEF TypeOK, SyncState, TargetState
<1>s. UNCHANGED <<content, agreementOwners, sync, since, recent>>
  BY DEF TargetGet, TargetGot, TargetGrantsFromMap, TargetGrantsAsk,
         TargetGrantsFetched, EndTarget, TargetBecomes
<1>r. /\ FreshContent' /\ FreshAnswer' /\ FreshMap' /\ FreshTodo'
      /\ FreshResources' /\ ReportsOwnersOfThisSync'
  BY <1>s DEF FreshContent, FreshAnswer, FreshMap, FreshTodo, FreshResources,
              ReportsOwnersOfThisSync
<1>1. ASSUME NEW a \in Agreement, NEW c \in GetVendorAgreement(a),
             cache' = cache, target'.agreement = a, target'.answer = c
      PROVE  FreshCache'
  <2>1. a \in sync.todo /\ agreementOwners[a] = Absent => c \in since[a]
    BY Answers DEF FreshCache, FreshContent
  <2> QED BY <1>1, <1>s, <2>1 DEF FreshCache
<1>2. ASSUME NEW a \in Agreement, TargetGet(a) PROVE FreshCache'
  <2>1. PICK c \in GetVendorAgreement(a) :
            target' = [IdleTarget EXCEPT !.pc = "got", !.agreement = a, !.answer = c]
    BY <1>2 DEF TargetGet, TargetBecomes
  <2>2. target'.agreement = a /\ target'.answer = c
    BY <2>1 DEF IdleTarget
  <2> QED BY <1>1, <1>2, <2>2 DEF TargetGet
<1>3. ASSUME TargetGrantsAsk PROVE FreshCache'
  <2>1. PICK c \in GetVendorAgreement(target.agreement) :
            target' = [target EXCEPT !.pc = "fetched", !.answer = c]
    BY <1>3 DEF TargetGrantsAsk, TargetBecomes
  <2>2. target'.agreement = target.agreement /\ target'.answer = c
    BY <2>1, <1>t DEF TargetState
  <2> QED BY <1>1, <1>3, <1>t, <2>2 DEF TargetGrantsAsk
<1>4. ASSUME cache' = [cache EXCEPT ![target.agreement] = target.answer],
             target.answer \in Content,
             target'.answer = Absent
      PROVE  FreshCache'
  BY <1>4, <1>s, <1>t, Constants DEF FreshCache
<1>5. ASSUME TargetGot PROVE FreshCache'
  <2>1. target'.answer = Absent
    BY <1>5, <1>t, IdleTargetType DEF TargetGot, TargetBecomes, TargetState
  <2> QED BY <1>4, <1>5, <1>t, <2>1 DEF TargetGot
<1>6. ASSUME TargetGrantsFetched PROVE FreshCache'
  <2>1. target'.answer = Absent
    BY <1>6, <1>t DEF TargetGrantsFetched, TargetBecomes, TargetState
  <2> QED BY <1>4, <1>6, <1>t, <2>1 DEF TargetGrantsFetched
<1>7. ASSUME TargetGrantsFromMap \/ EndTarget PROVE FreshCache'
  <2>1. /\ cache' = cache
        /\ \/ target' = IdleTarget
           \/ /\ target'.answer = target.answer
              /\ target'.agreement = target.agreement
    BY <1>7, <1>t DEF TargetGrantsFromMap, EndTarget, TargetBecomes, TargetState
  <2> QED BY <1>s, <2>1, IdleTargetType DEF FreshCache
<1> QED BY <1>r, <1>2, <1>3, <1>5, <1>6, <1>7

LEMMA OtherFresh ==
    ASSUME TypeOK, FreshInv,
           \/ \E a \in Agreement, c \in Content \cup {Absent} : Edit(a, c)
           \/ StartSync \/ EndSync \/ FailSync
           \/ \E a \in Agreement : Expire(a)
           \/ ConnectorRestart \/ UNCHANGED vars
    PROVE  FreshInv'
<1> USE DEF connectorVars, historyVars
<1>c. FreshContent
  BY DEF FreshInv
<1>t. /\ content \in [Agreement -> Content \cup {Absent}]
      /\ since \in [Agreement -> SUBSET (Content \cup {Absent})]
      /\ recent \in [Agreement -> SUBSET (Content \cup {Absent})]
      /\ sync.todo \subseteq Agreement
  BY DEF TypeOK, SyncState
<1>1. ASSUME NEW a \in Agreement, NEW c \in Content \cup {Absent}, Edit(a, c)
      PROVE  FreshInv'
  <2>1. \A b \in Agreement :
           since[b] \subseteq since'[b] /\ content'[b] \in since'[b]
           /\ since'[b] \subseteq recent'[b]
    BY <1>1, <1>c, <1>t DEF FreshContent, Edit
  <2> QED BY <1>1, <2>1, FreshKept DEF Edit
<1>2. ASSUME StartSync PROVE FreshInv'
  <2>1. /\ sync'.todo = {} /\ sync'.cursor = FirstPage /\ sync'.pc = "list"
        /\ sync'.resources = Nothing /\ sync'.owners = Nothing
        /\ sync'.answer = Nothing
    BY <1>2 DEF StartSync, IdleSync
  <2>2. \A b \in Agreement : content'[b] \in since'[b] /\ since'[b] \subseteq recent'[b]
    BY <1>2, <1>c DEF FreshContent, StartSync
  <2> QED BY <2>1, <2>2, NoSyncFresh
<1>3. ASSUME EndSync \/ FailSync PROVE FreshInv'
  <2>1. /\ sync'.todo = {} /\ sync'.cursor = FirstPage /\ sync'.pc = "idle"
        /\ sync'.resources = Nothing /\ sync'.owners = Nothing
        /\ sync'.answer = Nothing
    BY <1>3 DEF EndSync, FailSync, IdleSync
  <2>2. \A b \in Agreement : content'[b] \in since'[b] /\ since'[b] \subseteq recent'[b]
    BY <1>3, <1>c DEF FreshContent, EndSync, FailSync
  <2> QED BY <2>1, <2>2, NoSyncFresh
<1>4. ASSUME NEW a \in Agreement, Expire(a) PROVE FreshInv'
  <2>1. /\ UNCHANGED <<content, agreementOwners, sync, target, since, recent>>
        /\ \A b \in Agreement : cache'[b] \in {cache[b], Uncached}
    BY <1>4 DEF Expire, TypeOK
  <2> QED BY <1>t, <2>1
          DEF FreshInv, FreshContent, FreshAnswer, FreshMap, FreshCache, FreshTodo,
              FreshResources, ReportsOwnersOfThisSync
<1>5. ASSUME ConnectorRestart PROVE FreshInv'
  <2> USE <1>5, RestartDoes
  <2>1. FreshContent' /\ FreshAnswer' /\ FreshMap' /\ FreshTodo'
    BY IdleSyncType DEF FreshInv, FreshContent, FreshAnswer, FreshMap, FreshTodo
  <2>2. FreshCache'
    BY <1>t DEF FreshCache
  <2>3. FreshResources' /\ ReportsOwnersOfThisSync'
    BY DEF FreshInv, FreshResources, ReportsOwnersOfThisSync
  <2> QED BY <2>1, <2>2, <2>3 DEF FreshInv
<1>6. ASSUME UNCHANGED vars PROVE FreshInv'
  BY <1>6, <1>c, FreshKept DEF vars, FreshContent
<1> QED BY <1>1, <1>2, <1>3, <1>4, <1>5, <1>6

LEMMA NextFresh ==
    TypeOK /\ FilledInv /\ FreshInv /\ [Next]_vars => FreshInv'
BY ListFresh, GrantsFresh, TargetFresh, OtherFresh DEF Next

(* The agreementOwners map, the HTTP cache and the answers of a targeted   *)
(* sync all outlive a full sync; what Grants reports in a full sync is     *)
(* nonetheless of that sync's time, however it interleaves with restarts,  *)
(* targeted syncs and changes.                                             *)
THEOREM OwnersOfThisSync == Spec => []ReportsOwnersOfThisSync
<1>1. Spec => []FreshInv
  BY Types, InitFresh, NextFresh, PTL DEF Spec
<1>2. FreshInv => ReportsOwnersOfThisSync
  BY DEF FreshInv
<1> QED BY <1>1, <1>2, PTL

-----------------------------------------------------------------------------
(* Nothing that was there all along is missed, wherever Ramp cuts its pages*)
LEMMA InitCover == Init => CoverInv
BY IdleSyncType DEF Init, CoverInv, IdleSync

LEMMA NoSyncCover ==
    ASSUME sync'.cursor = FirstPage, sync'.pc \in {"idle", "list"},
           sync'.resources = Nothing
    PROVE  CoverInv'
<1>1. \A a \in Agreement : ~(a <= FirstPage)
  BY Constants DEF Agreement, FirstPage
<1> QED BY <1>1, IdleSyncType DEF CoverInv

LEMMA ListCover ==
    ASSUME TypeOK, FilledInv, FreshInv, CoverInv,
           \/ \E end \in Cursor : ListVendorAgreements(end)
           \/ ListReset \/ ListReturns
           \/ \E a \in Agreement : ListFill(a)
    PROVE  CoverInv'
<1>i. /\ Agreement \subseteq Int /\ Cursor \subseteq Int
      /\ \A a \in Agreement : a # FirstPage /\ a <= NAgreements
  BY Constants DEF Agreement, Cursor, FirstPage
<1>c. sync.cursor \in Cursor /\ sync.next \in Cursor
  BY DEF TypeOK, SyncState
<1>1. ASSUME NEW end \in Cursor, ListVendorAgreements(end) PROVE CoverInv'
  <2> USE <1>1, ListDoes
  <2>1. ASSUME NEW a \in Agreement, sync.cursor < a, Absent \notin since[a],
               NextPage(end) = FirstPage \/ a <= NextPage(end)
        PROVE  a \in Page(end)
    <3>1. Listed(a)
      BY <2>1 DEF FreshInv, FreshContent, Listed
    <3>2. end # FirstPage
      <4>1. sync.cursor < end \/ end = NAgreements
        BY DEF ListVendorAgreements
      <4>2. sync.cursor \in Nat /\ NAgreements \in Nat \ {0}
        BY <1>c, Constants DEF Cursor
      <4> QED BY ONLY <4>1, <4>2 DEF FirstPage
    <3>3. NextPage(end) = FirstPage => ~(a > end)
      BY <2>1, <3>1, <3>2 DEF NextPage
    <3>4. NextPage(end) # FirstPage => NextPage(end) = end
      BY DEF NextPage
    <3>5. a \in Int /\ end \in Int
      BY <1>i
    <3>6. a <= end
      BY ONLY <2>1, <3>3, <3>4, <3>5
    <3> QED BY <2>1, <3>1, <3>6 DEF Page
  <2>2. ASSUME NEW a \in Agreement, Absent \notin since[a] PROVE content[a] # Absent
    BY <2>2 DEF FreshInv, FreshContent
  <2>3. \A a \in Agreement :
            /\ sync'.cursor < a
            /\ sync'.next = FirstPage \/ a <= sync'.next
            /\ Absent \notin since'[a]
            => sync'.answer[a] # Absent
    BY <2>1, <2>2
  <2> QED BY <2>3 DEF CoverInv
<1>2. ASSUME ListReset PROVE CoverInv'
  BY <1>2, ResetDoes DEF CoverInv
<1>3. ASSUME NEW a \in Agreement, ListFill(a) PROVE CoverInv'
  <2>1. sync'.pc = "fill" => sync'.answer = sync.answer
    BY <1>3 DEF ListFill, TypeOK, SyncState
  <2> QED BY <1>3, <2>1, FillDoes DEF CoverInv
<1>4. ASSUME ListReturns PROVE CoverInv'
  <2> USE <1>4, ReturnsDoes
  <2>1. \A a \in Agreement : sync.answer[a] # Absent => sync'.resources[a] # Absent
    <3>1. \A a \in Agreement : sync.answer[a] # Absent =>
              sync.answer[a] \in Content /\ FromList(sync.answer[a]) # Refused
      BY DEF FilledInv, TypeOK, SyncState
    <3> QED BY <3>1, Built
  <2>2. \A a \in Agreement : sync.resources[a] # Absent => sync'.resources[a] # Absent
    BY <2>1
  <2>3. ASSUME NEW a \in Agreement, Absent \notin since[a],
               sync.next = FirstPage \/ a <= sync.next
        PROVE  sync'.resources[a] # Absent
    <3>1. CASE a <= sync.cursor
      BY <2>2, <2>3, <3>1 DEF CoverInv
    <3>2. CASE sync.cursor < a
      BY <2>1, <2>3, <3>2 DEF CoverInv
    <3>3. sync.cursor \in Int /\ a \in Int
      BY <1>i, <1>c
    <3>4. a <= sync.cursor \/ sync.cursor < a
      BY ONLY <3>3
    <3> QED BY <3>1, <3>2, <3>4
  <2>4. \A a \in Agreement : sync'.resources[a] # Absent =>
            a \in sync'.todo \/ sync'.owners[a] # Absent
    BY DEF CoverInv
  <2> QED BY <2>3, <2>4 DEF CoverInv
<1> QED BY <1>1, <1>2, <1>3, <1>4

LEMMA GrantsCover ==
    ASSUME TypeOK, CoverInv, NEW a \in Agreement,
           GrantsFromMap(a) \/ GrantsAsk(a) \/ GrantsFetched(a)
    PROVE  CoverInv'
<1>1. ASSUME GrantsFromMap(a) PROVE CoverInv'
  <2>1. agreementOwners[a] \in Entry
    BY DEF TypeOK
  <2>2. sync'.owners[a] # Absent
    BY <1>1, <2>1, FromMapDoes, EntryGranted
  <2> QED BY <1>1, <2>2, FromMapDoes DEF CoverInv
<1>2. ASSUME GrantsAsk(a) PROVE CoverInv'
  BY <1>2, AskDoes DEF CoverInv
<1>3. ASSUME GrantsFetched(a) PROVE CoverInv'
  <2>1. sync.answer[a] \in Content
    BY <1>3, FetchedDoes DEF TypeOK, SyncState
  <2>2. sync'.owners[a] # Absent
    BY <1>3, <2>1, FetchedDoes, Built
  <2> QED BY <1>3, <2>2, FetchedDoes DEF CoverInv
<1> QED BY <1>1, <1>2, <1>3

LEMMA OtherCover ==
    ASSUME TypeOK, CoverInv,
           \/ \E a \in Agreement, c \in Content \cup {Absent} : Edit(a, c)
           \/ StartSync \/ EndSync \/ FailSync
           \/ \E a \in Agreement : TargetGet(a) \/ Expire(a)
           \/ TargetGot \/ TargetGrantsFromMap \/ TargetGrantsAsk
           \/ TargetGrantsFetched \/ EndTarget
           \/ ConnectorRestart \/ UNCHANGED vars
    PROVE  CoverInv'
<1>1. ASSUME NEW a \in Agreement, NEW c \in Content \cup {Absent}, Edit(a, c)
      PROVE  CoverInv'
  <2>1. sync' = sync /\ \A b \in Agreement : since[b] \subseteq since'[b]
    BY <1>1 DEF Edit, TypeOK
  <2> QED BY <2>1 DEF CoverInv
<1>2. ASSUME StartSync \/ EndSync \/ FailSync PROVE CoverInv'
  <2>1. /\ sync'.cursor = FirstPage /\ sync'.pc \in {"idle", "list"}
        /\ sync'.resources = Nothing
    BY <1>2 DEF StartSync, EndSync, FailSync, IdleSync
  <2> QED BY <2>1, NoSyncCover
<1>3. ASSUME ConnectorRestart PROVE CoverInv'
  <2>1. sync'.pc = "grants" => sync.pc \in {"grants", "fetched"}
    BY <1>3, RestartDoes DEF TypeOK, SyncState
  <2> QED BY <1>3, <2>1, RestartDoes DEF CoverInv
<1>4. ASSUME sync' = sync, since' = since PROVE CoverInv'
  BY <1>4 DEF CoverInv
<1> QED BY <1>1, <1>2, <1>3, <1>4
        DEF TargetGet, Expire, TargetGot, TargetGrantsFromMap, TargetGrantsAsk,
            TargetGrantsFetched, EndTarget, TargetBecomes, historyVars, vars

LEMMA NextCover ==
    TypeOK /\ FilledInv /\ FreshInv /\ CoverInv /\ [Next]_vars => CoverInv'
BY ListCover, GrantsCover, OtherCover DEF Next

(* However Ramp cuts its pages while agreements come and go, a full sync   *)
(* whose pages are all read has every agreement that was there all along,  *)
(* and ends with the owners of each.                                       *)
THEOREM NothingMissed == Spec => []ReportComplete
<1>1. Spec => []CoverInv
  BY Types, InitFresh, NextFresh, InitCover, NextCover, PTL DEF Spec
<1>2. CoverInv => ReportComplete
  BY DEF CoverInv, ReportComplete
<1> QED BY <1>1, <1>2, PTL

-----------------------------------------------------------------------------
(* What resources say.  Rounding half away from zero reaches the nearest   *)
(* whole number.                                                           *)
LEMMA RoundsToNearest ==
    ASSUME NEW v \in Int
    PROVE  /\ v >= 0 => IsNearest((v + 500) \div 1000, v)
           /\ v < 0  => IsNearest(-((500 - v) \div 1000), v)
<1> DEFINE up == (v + 500) \div 1000
           down == (500 - v) \div 1000
<1>1. up \in Int /\ 1000 * up <= v + 500 /\ v + 500 < 1000 * up + 1000
  OBVIOUS
<1>2. down \in Int /\ 1000 * down <= 500 - v /\ 500 - v < 1000 * down + 1000
  OBVIOUS
<1> HIDE DEF up, down
<1>h. Milli = 1000 /\ Milli \div 2 = 500
  BY DEF Milli
<1>3. ASSUME v >= 0 PROVE IsNearest(up, v)
  BY <1>1, <1>3, <1>h DEF IsNearest
<1>4. ASSUME v < 0 PROVE IsNearest(-down, v)
  BY <1>2, <1>4, <1>h DEF IsNearest
<1> QED BY <1>3, <1>4 DEF up, down

LEMMA AmountNearest ==
    ASSUME NEW m \in Money, m.currency # NoName
    PROVE  IsNearest(MinorUnits(m), m.amount * IF m.rate > 0 THEN m.rate ELSE 100)
<1> DEFINE rate == IF m.rate <= 0 THEN 100 ELSE m.rate
           v    == m.amount * rate
<1>1. v \in Int /\ rate = IF m.rate > 0 THEN m.rate ELSE 100
  BY DEF Money
<1>2. MinorUnits(m) = IF v >= 0 THEN (v + 500) \div 1000 ELSE -((500 - v) \div 1000)
  <2>1. Milli \div 2 = 500 /\ Milli = 1000
    BY DEF Milli
  <2> QED BY <2>1 DEF MinorUnits
<1> HIDE DEF rate
<1>3. v >= 0 \/ v < 0
  BY <1>1
<1>4. IsNearest(MinorUnits(m), v)
  <2> HIDE DEF v
  <2> QED BY <1>1, <1>2, <1>3, RoundsToNearest
<1> QED BY <1>1, <1>4

LEMMA DateKept ==
    ASSUME NEW w \in Written, Readable(w)
    PROVE  SameDate(Field(parseRampDate(w)), w)
BY DEF Written, Readable, parseRampDate, SameDate, Field, ZeroTime, Unreadable

(* The trait of an item with an agreement's dates, status and amount.      *)
LEMMA TraitDescribes ==
    ASSUME NEW item, NEW c \in Content,
           item.start = c.start, item.end = c.end, item.last = c.last,
           item.status = c.status, item.total = c.total,
           NEW trait, trait = buildAgreementTraitOption(item), trait # Refused
    PROVE  /\ SameDate(trait.start, c.start)
           /\ SameDate(trait.end, c.end)
           /\ SameDate(trait.last, c.last)
           /\ trait.raw = c.status
           /\ trait.status \in RenewalStatus => trait.status = c.status
           /\ c.total.currency # NoName =>
                 /\ trait.total.currency = c.total.currency
                 /\ trait.total.minor = MinorUnits(c.total)
<1>c. {c.start, c.end, c.last} \subseteq Written
  BY ContentAssumption
<1>1. /\ Readable(c.start) /\ Readable(c.end) /\ Readable(c.last)
      /\ trait.start = Field(parseRampDate(c.start))
      /\ trait.end = Field(parseRampDate(c.end))
      /\ trait.last = Field(parseRampDate(c.last))
      /\ trait.raw = c.status
      /\ trait.status = IF c.status = NoName THEN Omitted
                        ELSE mapRampRenewalStatus(c.status)
      /\ trait.total = rampMoneyToTraitMoney(c.total)
  BY DEF buildAgreementTraitOption
<1>2. trait.status \in RenewalStatus => trait.status = c.status
  <2>1. Omitted \notin RenewalStatus /\ "UNSPECIFIED" \notin RenewalStatus
    BY AgreementAssumption DEF RenewalStatus
  <2> QED BY <1>1, <2>1 DEF mapRampRenewalStatus
<1> QED BY <1>c, <1>1, <1>2, DateKept DEF rampMoneyToTraitMoney

LEMMA ListDescribes ==
    ASSUME NEW c \in Content, FromList(c) # Refused
    PROVE  Describes(FromList(c), c)
<1> DEFINE item == ListItem(c)
           r == FromList(c)
           trait == buildAgreementTraitOption(item)
<1>1. /\ item.start = c.start /\ item.end = c.end /\ item.last = c.last
      /\ item.status = c.status /\ item.total = c.total /\ item.name = c.name
      /\ item.PayeeID = c.vendor.id /\ item.PayeeName = c.payee.name
  BY DEF ListItem
<1>2. /\ trait # Refused /\ r.trait = trait /\ r.name = c.name
      /\ r.vendor = buildAgreementVendorTraitOption(item)
      /\ r.vendor # Refused
  BY <1>1 DEF FromList, buildAgreementResource
<1>3. /\ r.vendor.id = c.vendor.id
      /\ c.payee.name # NoName => r.vendor.name = c.payee.name
  BY <1>1, <1>2 DEF buildAgreementVendorTraitOption, WithVendorIdentity
<1> HIDE DEF item, r, trait
<1>4. c.total \in Money
  BY ContentAssumption
<1> QED BY <1>1, <1>2, <1>3, <1>4, TraitDescribes, AmountNearest DEF Describes, trait, r

LEMMA GetDescribes ==
    ASSUME NEW c \in Content, FromGet(c) # Refused
    PROVE  Describes(FromGet(c), c)
<1> DEFINE item == vendorAgreementListItemFromGet(c)
           r == FromGet(c)
           trait == buildAgreementTraitOption(item)
<1>1. /\ item.start = c.start /\ item.end = c.end /\ item.last = c.last
      /\ item.status = c.status /\ item.total = c.total /\ item.name = c.name
      /\ item.PayeeID = c.vendor.id
      /\ c.payee.name # NoName => item.PayeeName = c.payee.name
  BY ContentAssumption DEF vendorAgreementListItemFromGet
<1>2. /\ trait # Refused /\ r.trait = trait /\ r.name = c.name
      /\ r.vendor = buildAgreementVendorTraitOption(item)
      /\ r.vendor # Refused
  BY <1>1 DEF FromGet, buildAgreementResource
<1>3. /\ r.vendor.id = c.vendor.id
      /\ c.payee.name # NoName => r.vendor.name = c.payee.name
  BY <1>1, <1>2 DEF buildAgreementVendorTraitOption, WithVendorIdentity
<1> HIDE DEF item, r, trait
<1>4. c.total \in Money
  BY ContentAssumption
<1> QED BY <1>1, <1>2, <1>3, <1>4, TraitDescribes, AmountNearest DEF Describes, trait, r

(* A full sync reports no date, status, vendor or amount the agreement did *)
(* not have in Ramp while the sync ran, for any amount and conversion rate.*)
THEOREM ResourcesDescribe == Spec => []ResourceFaithful
<1>1. Spec => [](FreshInv /\ TypeOK)
  BY Types, InitFresh, NextFresh, PTL DEF Spec
<1>2. FreshInv /\ TypeOK => ResourceFaithful
  <2> SUFFICES ASSUME FreshInv, TypeOK, NEW a \in Agreement, sync.resources[a] # Absent
               PROVE  \E c \in since[a] \ {Absent} : Describes(sync.resources[a], c)
    BY DEF ResourceFaithful
  <2>1. PICK c \in since[a] \ {Absent} :
            sync.resources[a] = FromList(c) /\ FromList(c) # Refused
    BY DEF FreshInv, FreshResources
  <2>2. c \in Content
    BY DEF TypeOK
  <2> QED BY <2>1, <2>2, ListDescribes
<1> QED BY <1>1, <1>2, PTL

(* A vendor's legal and trade names both reach its trait, once each.       *)
THEOREM NamesKept == Spec => []VendorNamesKept
<1>1. Spec => []TypeOK
  BY Types, PTL
<1>2. TypeOK => VendorNamesKept
  <2> SUFFICES ASSUME TypeOK, NEW a \in Agreement, Listed(a),
                      NEW v, v = content[a].vendor,
                      NEW trait, trait = buildVendorTraitOption(v)
               PROVE  /\ {trait.name, trait.dba} \ {NoName} = {v.legal, v.name} \ {NoName}
                      /\ trait.name # trait.dba
    BY DEF VendorNamesKept
  <2>1. content[a] \in Content
    BY DEF TypeOK, Listed
  <2>2. v.id # NoName /\ (v.legal # NoName \/ v.name # NoName)
    BY <2>1, ContentAssumption
  <2>3. /\ trait.name = IF v.legal = NoName THEN v.name ELSE v.legal
        /\ trait.dba = IF v.legal # NoName /\ v.legal # v.name THEN v.name ELSE NoName
    BY <2>2 DEF buildVendorTraitOption, WithVendorIdentity
  <2> QED BY <2>2, <2>3
<1> QED BY <1>1, <1>2, PTL

-----------------------------------------------------------------------------
(* Whatever the map, the cache and a targeted sync hold is recent.         *)
LEMMA InitRecent == Init => RecentInv
BY IdleSyncType, IdleTargetType DEF Init, RecentInv

LEMMA RecentOwners ==
    ASSUME NEW contents, NEW e \in OwnersOf(contents)
    PROVE  GrantedTo(e) \in Owners(contents)
BY DEF OwnersOf, Owners

(* Steps of Ramp, of a full sync that keeps what is recent, of the cache.  *)
LEMMA RecentKept ==
    ASSUME RecentInv, TypeOK, target' = target,
           \A a \in Agreement :
              /\ recent[a] \subseteq recent'[a]
              /\ agreementOwners'[a] # agreementOwners[a] =>
                    agreementOwners'[a] \in OwnersOf(recent[a]) \cup {Absent}
              /\ cache'[a] # cache[a] => cache'[a] \in recent[a] \cup {Uncached}
    PROVE  RecentInv'
<1>1. \A a \in Agreement : /\ OwnersOf(recent[a]) \subseteq OwnersOf(recent'[a])
                           /\ Owners(recent[a]) \subseteq Owners(recent'[a])
  BY DEF OwnersOf, Owners
<1>2. target.agreement \in Agreement
  BY DEF TypeOK, TargetState
<1>3. \A a \in Agreement :
         /\ agreementOwners'[a] # Absent => agreementOwners'[a] \in OwnersOf(recent'[a])
         /\ cache'[a] \in recent'[a] \cup {Uncached}
  BY <1>1 DEF RecentInv
<1> QED BY <1>1, <1>2, <1>3 DEF RecentInv

LEMMA SyncRecent ==
    ASSUME TypeOK, FreshInv, RecentInv,
           \/ \E a \in Agreement, c \in Content \cup {Absent} : Edit(a, c)
           \/ StartSync
           \/ \E end \in Cursor : ListVendorAgreements(end)
           \/ ListReset \/ ListReturns
           \/ \E a \in Agreement :
                 ListFill(a) \/ GrantsFromMap(a) \/ GrantsAsk(a) \/ GrantsFetched(a)
           \/ EndSync \/ FailSync
           \/ \E a \in Agreement : Expire(a)
           \/ ConnectorRestart \/ UNCHANGED vars
    PROVE  RecentInv'
<1> USE DEF connectorVars, historyVars
<1>a. \A a \in Agreement : sync.answer[a] # Absent =>
         sync.answer[a] \in recent[a] /\ sync.answer[a] \in Content
  BY DEF FreshInv, FreshAnswer, FreshContent, TypeOK, SyncState
<1>t. /\ cache \in [Agreement -> Content \cup {Uncached}]
      /\ agreementOwners \in [Agreement -> Entry]
  BY DEF TypeOK
<1>1. ASSUME NEW a \in Agreement, NEW c \in Content \cup {Absent}, Edit(a, c)
      PROVE  RecentInv'
  <2>1. \A b \in Agreement : recent[b] \subseteq recent'[b]
    BY <1>1 DEF Edit, TypeOK
  <2> QED BY <1>1, <2>1, RecentKept DEF Edit
<1>2. ASSUME ListReset PROVE RecentInv'
  BY <1>2, ResetDoes, RecentKept, IdleSyncType
<1>3. ASSUME NEW a \in Agreement, ListFill(a) PROVE RecentInv'
  <2>1. sync.answer[a].owners \in OwnersOf(recent[a])
    BY <1>3, <1>a, FillDoes DEF OwnersOf
  <2> QED BY <1>3, <1>t, <2>1, FillDoes, RecentKept
<1>4. ASSUME NEW a \in Agreement, GrantsFetched(a) PROVE RecentInv'
  BY <1>4, <1>a, <1>t, FetchedDoes, RecentKept
<1>5. ASSUME NEW a \in Agreement, Expire(a) PROVE RecentInv'
  <2>1. \A b \in Agreement : cache'[b] \in {cache[b], Uncached}
    BY <1>5, <1>t DEF Expire
  <2> QED BY <1>5, <2>1, RecentKept DEF Expire
<1>6. ASSUME EndSync PROVE RecentInv'
  <2>1. /\ agreementOwners' = agreementOwners /\ target' = target
        /\ cache' = [a \in Agreement |-> Uncached]
        /\ recent' = IF target.pc = "idle" THEN since ELSE recent
        /\ sync.pc = "grants"
    BY <1>6 DEF EndSync
  <2>2. CASE target.pc # "idle"
    BY <2>1, <2>2, RecentKept
  <2>3. CASE target.pc = "idle"
    <3>1. \A a \in Agreement : agreementOwners[a] # Absent =>
             agreementOwners[a] \in OwnersOf(since[a])
      BY <2>1 DEF FreshInv, FreshMap
    <3> QED BY <2>1, <2>3, <3>1 DEF RecentInv
  <2> QED BY <2>2, <2>3
<1>7. ASSUME ConnectorRestart PROVE RecentInv'
  BY <1>7, RestartDoes, IdleSyncType DEF RecentInv
<1>8. ASSUME UNCHANGED <<agreementOwners, cache, target, recent>> PROVE RecentInv'
  BY <1>8, RecentKept
<1> QED BY <1>1, <1>2, <1>3, <1>4, <1>5, <1>6, <1>7, <1>8
        DEF StartSync, ListVendorAgreements, ListReturns, GrantsFromMap, GrantsAsk,
            FailSync, vars

LEMMA TargetRecent ==
    ASSUME TypeOK, FreshInv, RecentInv,
           \/ \E a \in Agreement : TargetGet(a)
           \/ TargetGot \/ TargetGrantsFromMap \/ TargetGrantsAsk
           \/ TargetGrantsFetched \/ EndTarget
    PROVE  RecentInv'
<1> USE DEF historyVars
<1>t. /\ target \in TargetState /\ target.agreement \in Agreement
      /\ cache \in [Agreement -> Content \cup {Uncached}]
      /\ target.pc \in {"got", "fetched"} => target.answer \in Content
  BY DEF TypeOK, TargetState
<1>s. UNCHANGED <<agreementOwners, recent>>
  BY DEF TargetGet, TargetGot, TargetGrantsFromMap, TargetGrantsAsk,
         TargetGrantsFetched, EndTarget, TargetBecomes
<1>a. ASSUME NEW a \in Agreement, NEW c \in GetVendorAgreement(a) PROVE c \in recent[a]
  BY Answers DEF FreshInv, FreshContent, RecentInv
<1>1. ASSUME NEW a \in Agreement, TargetGet(a) PROVE RecentInv'
  <2>1. PICK c \in GetVendorAgreement(a) :
            target' = [IdleTarget EXCEPT !.pc = "got", !.agreement = a, !.answer = c]
    BY <1>1 DEF TargetGet, TargetBecomes
  <2>2. target'.pc = "got" /\ target'.agreement = a /\ target'.answer \in recent[a]
    BY <1>a, <2>1 DEF IdleTarget
  <2> QED BY <1>1, <1>s, <2>2 DEF RecentInv, TargetGet
<1>2. ASSUME TargetGot PROVE RecentInv'
  <2>1. cache' = [cache EXCEPT ![target.agreement] = target.answer]
        /\ target.answer \in recent[target.agreement] /\ target.answer \in Content
    BY <1>2, <1>t, Constants DEF TargetGot, RecentInv
  <2>2. CASE FromGet(target.answer) = Refused
    <3>1. target' = IdleTarget
      BY <1>2, <2>2 DEF TargetGot, TargetBecomes
    <3> QED BY <1>s, <1>t, <2>1, <3>1, IdleTargetType DEF RecentInv
  <2>3. CASE FromGet(target.answer) # Refused
    <3>1. /\ target'.pc = "grants" /\ target'.agreement = target.agreement
          /\ target'.answer = Absent /\ target'.resource = FromGet(target.answer)
      BY <1>2, <1>t, <2>3 DEF TargetGot, TargetBecomes, TargetState
    <3>2. target.answer # Absent /\ FromGet(target.answer) # Absent
      BY <2>1, <2>3, Built, Constants
    <3> QED BY <1>s, <1>t, <2>1, <3>1, <3>2 DEF RecentInv
  <2> QED BY <2>2, <2>3
<1>3. ASSUME TargetGrantsFromMap PROVE RecentInv'
  <2>1. /\ target'.pc = "done" /\ target'.agreement = target.agreement
        /\ target'.answer = target.answer /\ target'.resource = target.resource
        /\ target'.owners = GrantedTo(agreementOwners[target.agreement])
        /\ cache' = cache /\ target.pc = "grants"
    BY <1>3, <1>t DEF TargetGrantsFromMap, TargetBecomes, TargetState
  <2>2. target'.owners \in Owners(recent[target.agreement])
    BY <1>3, <1>t, <2>1, RecentOwners DEF TargetGrantsFromMap, RecentInv
  <2> QED BY <1>s, <2>1, <2>2 DEF RecentInv
<1>4. ASSUME TargetGrantsAsk PROVE RecentInv'
  <2>1. PICK c \in GetVendorAgreement(target.agreement) :
            target' = [target EXCEPT !.pc = "fetched", !.answer = c]
    BY <1>4 DEF TargetGrantsAsk, TargetBecomes
  <2>2. /\ target'.pc = "fetched" /\ target'.agreement = target.agreement
        /\ target'.resource = target.resource /\ target.pc = "grants"
        /\ target'.answer \in recent[target.agreement] /\ cache' = cache
    BY <1>4, <1>t, <1>a, <2>1 DEF TargetGrantsAsk, TargetState
  <2> QED BY <1>s, <2>2 DEF RecentInv
<1>5. ASSUME TargetGrantsFetched PROVE RecentInv'
  <2>1. /\ target'.pc = "done" /\ target'.agreement = target.agreement
        /\ target'.answer = Absent /\ target'.resource = target.resource
        /\ target'.owners = GrantedTo(target.answer.owners)
        /\ cache' = [cache EXCEPT ![target.agreement] = target.answer]
        /\ target.pc = "fetched"
    BY <1>5, <1>t DEF TargetGrantsFetched, TargetBecomes, TargetState
  <2>2. target.answer \in recent[target.agreement] \ {Absent}
    BY <1>t, <2>1, Constants DEF RecentInv
  <2>3. target'.owners \in Owners(recent[target.agreement])
    BY <2>1, <2>2 DEF Owners
  <2> QED BY <1>s, <1>t, <2>1, <2>2, <2>3 DEF RecentInv
<1>6. ASSUME EndTarget PROVE RecentInv'
  BY <1>6, <1>s, IdleTargetType DEF RecentInv, EndTarget, TargetBecomes
<1> QED BY <1>1, <1>2, <1>3, <1>4, <1>5, <1>6

LEMMA NextRecent == TypeOK /\ FreshInv /\ RecentInv /\ [Next]_vars => RecentInv'
BY SyncRecent, TargetRecent DEF Next

(* Nothing empties the agreementOwners map but the next sync's first page  *)
(* or a restart, and an answer cached while a sync runs can be put there   *)
(* by a targeted sync; a targeted sync still reports nothing older than    *)
(* the last complete full sync it did not overlap the end of.              *)
THEOREM TargetsRecent == Spec => []TargetReportsRecent
<1>1. Spec => [](TypeOK /\ RecentInv)
  BY Types, InitFresh, NextFresh, InitRecent, NextRecent, PTL DEF Spec
<1>2. TypeOK /\ RecentInv => TargetReportsRecent
  <2> SUFFICES ASSUME TypeOK, RecentInv, target.pc = "done"
               PROVE  /\ target.owners \in Owners(recent[target.agreement])
                      /\ \E c \in recent[target.agreement] \ {Absent} :
                            Describes(target.resource, c)
    BY DEF TargetReportsRecent
  <2>1. PICK c \in recent[target.agreement] \ {Absent} :
            target.resource = FromGet(c) /\ target.resource # Absent
    BY DEF RecentInv
  <2>2. c \in Content /\ target.resource # Refused
    BY <2>1 DEF TypeOK, TargetState, Resource
  <2> QED BY <2>1, <2>2, GetDescribes DEF RecentInv
<1> QED BY <1>1, <1>2, PTL

-----------------------------------------------------------------------------
(***************************************************************************)
(* Full syncs implement SyncReport: an agreement's owners are reported     *)
(* once, when its grants leave the list of those still to be read.         *)
(***************************************************************************)
Granting == {"grants", "fetched"}

OnceInv ==
    /\ \A a \in Agreement : sync.owners[a] # Absent =>
         sync.pc \in Granting /\ a \notin sync.todo
    /\ sync.pc = "grants" => \A a \in Agreement : sync.answer[a] = Absent
    /\ sync.pc = "fetched" =>
         \A a \in Agreement : sync.answer[a] # Absent => a \in sync.todo

LEMMA NoSyncOnce ==
    ASSUME sync' = IdleSync \/ sync' = [IdleSync EXCEPT !.pc = "list"]
    PROVE  OnceInv' /\ sync'.owners = Nothing
<1>1. sync'.pc \in {"idle", "list"} /\ sync'.owners = Nothing
  BY DEF IdleSync
<1> QED BY <1>1, IdleSyncType DEF OnceInv

LEMMA InitOnce == Init => OnceInv
BY IdleSyncType DEF Init, OnceInv, IdleSync

LEMMA NextOnce == TypeOK /\ OnceInv /\ [Next]_vars => OnceInv'
<1> SUFFICES ASSUME TypeOK, OnceInv, [Next]_vars PROVE OnceInv'
  OBVIOUS
<1> USE DEF OnceInv, Granting
<1>1. CASE StartSync \/ EndSync \/ FailSync
  BY <1>1, NoSyncOnce DEF StartSync, EndSync, FailSync
<1>2. ASSUME NEW end \in Cursor, ListVendorAgreements(end)
      PROVE  OnceInv'
  BY <1>2, ListDoes
<1>3. CASE ListReset
  BY <1>3, ResetDoes
<1>4. ASSUME NEW a \in Agreement, ListFill(a)
      PROVE  OnceInv'
  BY <1>4, FillDoes
<1>5. CASE ListReturns
  BY <1>5, ReturnsDoes, IdleSyncType
<1>6. ASSUME NEW a \in Agreement, GrantsFromMap(a)
      PROVE  OnceInv'
  BY <1>6, FromMapDoes
<1>7. ASSUME NEW a \in Agreement, GrantsAsk(a)
      PROVE  OnceInv'
  <2>1. sync.pc = "grants" /\ a \in sync.todo
    BY <1>7 DEF GrantsAsk
  <2>2. PICK c : sync'.answer = [sync.answer EXCEPT ![a] = c]
    BY <1>7, AskDoes
  <2>3. \A b \in Agreement : sync'.answer[b] # Absent => b = a
    BY <2>1, <2>2 DEF TypeOK, SyncState
  <2> QED BY <1>7, <2>1, <2>3, AskDoes
<1>8. ASSUME NEW a \in Agreement, GrantsFetched(a)
      PROVE  OnceInv'
  BY <1>8, FetchedDoes, IdleSyncType
<1>9. CASE ConnectorRestart
  <2>1. sync'.pc = "grants" => sync.pc \in Granting
    BY <1>9, RestartDoes DEF TypeOK, SyncState
  <2> QED BY <1>9, <2>1, RestartDoes, IdleSyncType DEF TypeOK, SyncState
<1>10. ASSUME sync' = sync
       PROVE  OnceInv'
  BY <1>10
<1> QED BY <1>1, <1>2, <1>3, <1>4, <1>5, <1>6, <1>7, <1>8, <1>9, <1>10
        DEF Next, Edit, TargetGet, Expire, TargetGot, TargetGrantsFromMap,
            TargetGrantsAsk, TargetGrantsFetched, EndTarget, TargetBecomes, vars

LEMMA InitReports == Init => OwnerReport!Init
<1> SUFFICES ASSUME Init PROVE OwnerReport!Init
  OBVIOUS
<1>1. \A a \in Agreement : content[a] \in Content \cup {Absent}
  BY DEF Init
<1>2. \A a \in Agreement : OwnersNow(content[a]) \in
         {GrantedTo(c.owners) : c \in Content} \cup {Absent}
  BY <1>1 DEF OwnersNow
<1>3. \A a \in Agreement : {OwnersNow(c) : c \in since[a]} = {OwnersNow(content[a])}
  BY DEF Init
<1> QED BY <1>2, <1>3 DEF Init, IdleSync, Nothing, OwnerReport!Init,
                          OwnerReport!Now, OwnerReport!Empty

(* Each step of the sync is a step of SyncReport, or changes nothing there. *)
LEMMA NextReports ==
    TypeOK /\ FreshInv /\ CoverInv /\ OnceInv /\ [Next]_vars =>
        [OwnerReport!Next]_(OwnerReport!vars)
<1> SUFFICES ASSUME TypeOK, FreshInv, CoverInv, OnceInv, [Next]_vars
             PROVE  OwnerReport!Next \/ UNCHANGED OwnerReport!vars
  OBVIOUS
<1>1. ASSUME content' = content, since' = since, sync'.owners = sync.owners
      PROVE  UNCHANGED OwnerReport!vars
  BY <1>1 DEF OwnerReport!vars
<1>2. ASSUME NEW a \in Agreement, NEW c \in since[a], c # Absent,
             a \in sync.todo, content' = content, since' = since,
             sync'.owners = [sync.owners EXCEPT ![a] = GrantedTo(c.owners)]
      PROVE  OwnerReport!Next
  <2>1. sync.owners[a] = Absent
    BY <1>2 DEF OnceInv
  <2>2. OwnersNow(c) = GrantedTo(c.owners) /\ OwnersNow(c) # Absent
    <3>1. c \in Content
      BY <1>2 DEF TypeOK
    <3> QED BY <1>2, <3>1, Built DEF OwnersNow
  <2>3. OwnerReport!Report(a)
    BY <1>2, <2>1, <2>2 DEF OwnerReport!Report
  <2> QED BY <2>3 DEF OwnerReport!Next
<1>3. CASE StartSync
  <2>1. sync.owners = Nothing
    <3>1. \A a \in Agreement : sync.owners[a] = Absent
      BY <1>3 DEF StartSync, OnceInv, Granting
    <3> QED BY <3>1 DEF TypeOK, SyncState, Nothing
  <2>2. /\ sync'.owners = Nothing /\ content' = content
        /\ since' = [a \in Agreement |-> {content[a]}]
    BY <1>3, NoSyncOnce DEF StartSync
  <2>3. OwnerReport!Renew
    <3>1. \A a \in Agreement :
             {OwnersNow(c) : c \in since'[a]} = {OwnersNow(content[a])}
      BY <2>2
    <3> QED BY <2>1, <2>2, <3>1
            DEF OwnerReport!Renew, OwnerReport!Now, OwnerReport!Empty, Nothing
  <2> QED BY <2>3 DEF OwnerReport!Next
<1>4. CASE EndSync
  <2>1. /\ sync'.owners = Nothing /\ content' = content /\ since' = since
    BY <1>4, NoSyncOnce DEF EndSync
  <2>2. ASSUME NEW a \in Agreement, Absent \notin {OwnersNow(c) : c \in since[a]}
        PROVE  sync.owners[a] # Absent
    <3>1. Absent \notin since[a]
      BY <2>2 DEF OwnersNow
    <3> QED BY <1>4, <3>1 DEF EndSync, CoverInv
  <2>3. OwnerReport!Complete
    BY <2>1, <2>2 DEF OwnerReport!Complete, OwnerReport!Empty, Nothing
  <2> QED BY <2>3 DEF OwnerReport!Next
<1>5. CASE FailSync
  <2>1. sync'.owners = Nothing /\ content' = content /\ since' = since
    BY <1>5, NoSyncOnce DEF FailSync, historyVars
  <2> QED BY <2>1 DEF OwnerReport!Next, OwnerReport!Abandon, OwnerReport!Empty,
                      Nothing
<1>6. ASSUME NEW end \in Cursor, ListVendorAgreements(end)
      PROVE  UNCHANGED OwnerReport!vars
  BY <1>1, <1>6, ListDoes
<1>7. CASE ListReset \/ ListReturns
  BY <1>1, <1>7, ResetDoes, ReturnsDoes
<1>8. ASSUME NEW a \in Agreement, ListFill(a)
      PROVE  UNCHANGED OwnerReport!vars
  BY <1>1, <1>8, FillDoes
<1>9. ASSUME NEW a \in Agreement, GrantsFromMap(a)
      PROVE  OwnerReport!Next
  <2>1. PICK c \in since[a] \ {Absent} : agreementOwners[a] = c.owners
    BY <1>9, FromMapDoes DEF FreshInv, FreshMap, OwnersOf
  <2>2. sync'.owners = [sync.owners EXCEPT ![a] = GrantedTo(c.owners)]
    BY <1>9, <2>1 DEF GrantsFromMap, TypeOK, SyncState
  <2> QED BY <1>2, <1>9, <2>1, <2>2, FromMapDoes
<1>10. ASSUME NEW a \in Agreement, GrantsAsk(a)
       PROVE  UNCHANGED OwnerReport!vars
  BY <1>1, <1>10, AskDoes
<1>11. ASSUME NEW a \in Agreement, GrantsFetched(a)
       PROVE  OwnerReport!Next
  <2>1. sync.answer[a] \in since[a] /\ sync.answer[a] # Absent /\ a \in sync.todo
    BY <1>11, FetchedDoes DEF FreshInv, FreshAnswer, OnceInv
  <2>2. sync'.owners = [sync.owners EXCEPT ![a] = GrantedTo(sync.answer[a].owners)]
    BY <1>11 DEF GrantsFetched, TypeOK, SyncState
  <2> QED BY <1>2, <1>11, <2>1, <2>2, FetchedDoes
<1>12. ASSUME NEW a \in Agreement, NEW c \in Content \cup {Absent}, Edit(a, c)
       PROVE  OwnerReport!Next
  <2>1. /\ content' = [content EXCEPT ![a] = c] /\ sync' = sync
        /\ since' = [since EXCEPT ![a] = since[a] \cup {c}]
    BY <1>12 DEF Edit
  <2>2. ASSUME NEW b \in Agreement
        PROVE  /\ OwnersNow(content'[b]) \in
                      {GrantedTo(d.owners) : d \in Content} \cup {Absent}
               /\ {OwnersNow(d) : d \in since'[b]} =
                      {OwnersNow(d) : d \in since[b]} \cup {OwnersNow(content'[b])}
    <3>1. content'[b] \in Content \cup {Absent}
      BY <2>1 DEF TypeOK
    <3>2. content[b] \in since[b]
      BY DEF FreshInv, FreshContent
    <3>3. since'[b] = since[b] \cup {content'[b]}
      BY <2>1, <3>2 DEF TypeOK
    <3> QED BY <3>1, <3>3 DEF OwnersNow
  <2>3. OwnerReport!Change
    BY <2>1, <2>2 DEF OwnerReport!Change
  <2> QED BY <2>3 DEF OwnerReport!Next
<1>13. CASE ConnectorRestart
  BY <1>1, <1>13, RestartDoes
<1>14. ASSUME sync' = sync, content' = content, UNCHANGED historyVars
       PROVE  UNCHANGED OwnerReport!vars
  BY <1>1, <1>14 DEF historyVars
<1> QED BY <1>3, <1>4, <1>5, <1>6, <1>7, <1>8, <1>9, <1>10, <1>11, <1>12, <1>13,
           <1>14
        DEF Next, TargetGet, Expire, TargetGot, TargetGrantsFromMap,
            TargetGrantsAsk, TargetGrantsFetched, EndTarget, TargetBecomes, vars,
            historyVars

(* The owners a full sync reports keep the promise of SyncReport: those of *)
(* every agreement that is there throughout, once, as they have been since *)
(* the sync began, through edits, refused pages, restarts and failures.    *)
THEOREM SyncImplementsReport == Spec => ImplementsSyncReport
<1> DEFINE IInv == TypeOK /\ FilledInv /\ FreshInv /\ CoverInv /\ OnceInv
<1>1. Init => IInv /\ OwnerReport!Init
  BY InitTypes, InitFresh, InitCover, InitOnce, InitReports
<1>2. IInv /\ [Next]_vars => IInv'
  BY NextTypes, NextFresh, NextCover, NextOnce
<1>3. IInv /\ [Next]_vars => [OwnerReport!Next]_(OwnerReport!vars)
  BY NextReports
<1> QED BY <1>1, <1>2, <1>3, PTL DEF Spec, ImplementsSyncReport, OwnerReport!Spec
=============================================================================
