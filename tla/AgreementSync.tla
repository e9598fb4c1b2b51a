--------------------------- MODULE AgreementSync ---------------------------
(***************************************************************************)
(* Syncing vendor agreements: vendorAgreementBuilder.List, Get and Grants  *)
(* (pkg/connector/vendor_agreements.go) run by a full sync and by the      *)
(* targeted syncs the event feed asks for, while agreements change in Ramp.*)
(* List keeps each agreement's owners in the builder's agreementOwners     *)
(* map; Grants reads the map first, and Ramp through the cached GET else.  *)
(*                                                                         *)
(* Agreements are numbered in the order Ramp lists them.                   *)
(***************************************************************************)
EXTENDS RampValues

CONSTANTS
    NAgreements,  \* how many agreements there may be
    Content,      \* what an agreement may say in Ramp
    NoOwner,      \* a contract owner without an ID
    Absent,       \* no agreement, no entry, nothing reported
    Uncached,     \* no cached answer
    MaxEdits,     \* bound: changes made in Ramp
    MaxSyncs      \* bound: full syncs

Agreement == 1..NAgreements
FirstPage == 0
Cursor    == 0..NAgreements

ASSUME AgreementAssumption ==
    /\ NAgreements \in Nat \ {0}
    /\ Absent \notin Content /\ Uncached \notin Content \cup {Absent}
    /\ Omitted \notin RenewalStatus
    /\ MaxEdits \in Nat /\ MaxSyncs \in Nat

VARIABLES
    content,          \* Ramp: each agreement
    edits,            \* Ramp: changes so far
    agreementOwners,  \* connector: the builder's map; a nil map has no entry
    cache,            \* connector: the cached GET of each agreement
    sync,             \* platform and connector: the full sync under way
    syncs,            \* full syncs so far
    target,           \* platform and connector: the targeted sync under way
    since,            \* history: each agreement since that full sync began
    recent            \* history: since the last full sync TargetReportsRecent
                      \* counts began

connectorVars == <<agreementOwners, cache>>
historyVars   == <<since, recent>>
vars == <<content, edits, agreementOwners, cache, sync, syncs, target,
          since, recent>>

Listed(a) == content[a] # Absent
Nothing   == [a \in Agreement |-> Absent]
Entry     == {c.owners : c \in Content} \cup {Absent}

(* What Grants reports of an agreement's owners, and what List and Get     *)
(* report of the rest of it.                                               *)
GrantedTo(owners) == owners \ {NoOwner}

(* Ramp lists an agreement with its vendor's ID and its payee's name; the  *)
(* GET gives the payee, and the vendor's ID as its business vendor or UUID.*)
ListItem(c) ==
    [name |-> c.name, start |-> c.start, end |-> c.end, last |-> c.last,
     status |-> c.status, total |-> c.total, owners |-> c.owners,
     PayeeID |-> c.vendor.id, PayeeName |-> c.payee.name]

FromList(c) == buildAgreementResource(ListItem(c))
FromGet(c)  == buildAgreementResource(vendorAgreementListItemFromGet(c))

Resource ==
    ({FromList(c) : c \in Content} \cup {FromGet(c) : c \in Content}) \ {Refused}

(* Ramp's vendors have an ID and a name, and the list and the GET agree on *)
(* an agreement's vendor.                                                  *)
ASSUME ContentAssumption ==
    /\ \A c \in Content :
          /\ {c.start, c.end, c.last} \subseteq Written
          /\ c.total \in Money
          /\ c.vendor.id # NoName
          /\ c.vendor.legal # NoName \/ c.vendor.name # NoName
          /\ c.vendor.id = IF c.payee.businessVendor # NoName
                             THEN c.payee.businessVendor ELSE c.payee.uuid
          /\ Absent \notin {c.owners, GrantedTo(c.owners)}
    /\ Absent \notin Resource

(* cursor is where the page to list begins, answer what Ramp said last,    *)
(* fill its agreements not yet in the map, next where the page after it    *)
(* begins; todo are the agreements whose grants are still to be read.      *)
SyncState ==
    [pc : {"idle", "list", "reset", "fill", "grants", "fetched"},
     cursor : Cursor, answer : [Agreement -> Content \cup {Absent}],
     fill : SUBSET Agreement, next : Cursor, todo : SUBSET Agreement,
     resources : [Agreement -> Resource \cup {Absent}],
     owners : [Agreement -> {GrantedTo(c.owners) : c \in Content} \cup {Absent}]]

TargetState ==
    [pc : {"idle", "got", "grants", "fetched", "done"}, agreement : Agreement,
     answer : Content \cup {Absent}, resource : Resource \cup {Absent},
     owners : {GrantedTo(c.owners) : c \in Content} \cup {Absent}]

IdleSync ==
    [pc |-> "idle", cursor |-> FirstPage, answer |-> Nothing, fill |-> {},
     next |-> FirstPage, todo |-> {}, resources |-> Nothing, owners |-> Nothing]

IdleTarget ==
    [pc |-> "idle", agreement |-> 1, answer |-> Absent,
     resource |-> Absent, owners |-> Absent]

Init ==
    /\ content \in [Agreement -> Content \cup {Absent}]
    /\ edits = 0
    /\ agreementOwners = Nothing
    /\ cache = [a \in Agreement |-> Uncached]
    /\ sync = IdleSync
    /\ syncs = 0
    /\ target = IdleTarget
    /\ since = [a \in Agreement |-> {content[a]}]
    /\ recent = since

-----------------------------------------------------------------------------
(* Someone adds, changes or removes an agreement in Ramp.                  *)
Edit(a, c) ==
    /\ edits < MaxEdits
    /\ c # content[a]
    /\ content' = [content EXCEPT ![a] = c]
    /\ edits' = edits + 1
    /\ since' = [since EXCEPT ![a] = @ \cup {c}]
    /\ recent' = [recent EXCEPT ![a] = @ \cup {c}]
    /\ UNCHANGED <<agreementOwners, cache, sync, syncs, target>>

(* What Ramp, or the cache before it, says of one agreement; Ramp answers  *)
(* 404 when there is none, and the call fails.                             *)
GetVendorAgreement(a) ==
    {c \in {IF cache[a] # Uncached THEN cache[a] ELSE content[a]} : c # Absent}

-----------------------------------------------------------------------------
(***************************************************************************)
(* The full sync: List, page by page, then Grants for each agreement.      *)
(***************************************************************************)
StartSync ==
    /\ sync.pc = "idle"
    /\ syncs < MaxSyncs
    /\ sync' = [IdleSync EXCEPT !.pc = "list"]
    /\ syncs' = syncs + 1
    /\ since' = [a \in Agreement |-> {content[a]}]
    /\ UNCHANGED <<content, edits, target, recent>>
    /\ UNCHANGED connectorVars

(* Ramp's answer to the uncached POST: the agreements up to where it likes *)
(* to cut the page, or the whole rest of the list as a bare array; and     *)
(* where the page after it begins.                                         *)
Page(end) == {a \in Agreement : sync.cursor < a /\ a <= end /\ Listed(a)}

PageEndsList(end) == FirstPage

NextPage(end) ==
    IF \E a \in Agreement : a > end /\ Listed(a) THEN end ELSE FirstPage

ListVendorAgreements(end) ==
    /\ sync.pc = "list"
    /\ sync.cursor < end \/ end = NAgreements
    /\ sync' = [sync EXCEPT
          !.pc = "reset",
          !.fill = Page(end),
          !.next = NextPage(end),
          !.answer = [a \in Agreement |-> IF a \in Page(end)
                                            THEN content[a] ELSE Absent]]
    /\ UNCHANGED <<content, edits, syncs, target>>
    /\ UNCHANGED connectorVars
    /\ UNCHANGED historyVars

EveryPageResets ==
    /\ sync.pc = "reset"
    /\ agreementOwners' = Nothing
    /\ sync' = [sync EXCEPT !.pc = "fill"]
    /\ UNCHANGED <<content, edits, cache, syncs, target>>
    /\ UNCHANGED historyVars

(* The page arrives; the first page starts a new map.                      *)
ListReset ==
    /\ sync.pc = "reset"
    /\ agreementOwners' = IF sync.cursor = FirstPage THEN Nothing
                                                     ELSE agreementOwners
    /\ sync' = [sync EXCEPT !.pc = "fill"]
    /\ UNCHANGED <<content, edits, cache, syncs, target>>
    /\ UNCHANGED historyVars

EmptyNotKept(a, owners) ==
    IF owners = {} THEN agreementOwners
    ELSE [agreementOwners EXCEPT ![a] = owners]

KeepOwners(a, owners) == [agreementOwners EXCEPT ![a] = owners]

ErrorIgnored(c)  == FALSE
CannotBeBuilt(c) == FromList(c) = Refused

(* Each entry is written under its own lock, in the order of the page, and *)
(* its resource built: one that cannot be fails the page, to be asked for  *)
(* again.                                                                  *)
ListFill(a) ==
    /\ sync.pc = "fill"
    /\ a \in sync.fill
    /\ \A b \in sync.fill : a <= b
    /\ agreementOwners' = KeepOwners(a, sync.answer[a].owners)
    /\ sync' = IF CannotBeBuilt(sync.answer[a])
                 THEN [sync EXCEPT !.pc = "list", !.fill = {}, !.answer = Nothing]
                 ELSE [sync EXCEPT !.fill = @ \ {a}]
    /\ UNCHANGED <<content, edits, cache, syncs, target>>
    /\ UNCHANGED historyVars

ListReturns ==
    /\ sync.pc = "fill"
    /\ sync.fill = {}
    /\ LET page == {a \in Agreement : sync.answer[a] # Absent}
       IN  sync' = [sync EXCEPT
              !.pc = IF sync.next = FirstPage THEN "grants" ELSE "list",
              !.cursor = sync.next,
              !.todo = @ \cup page,
              !.answer = Nothing,
              !.resources = [a \in Agreement |->
                  IF a \in page THEN FromList(sync.answer[a]) ELSE @[a]]]
    /\ UNCHANGED <<content, edits, syncs, target>>
    /\ UNCHANGED connectorVars
    /\ UNCHANGED historyVars

(* Grants finds the agreement in the map, or asks for it.                  *)
GrantsFromMap(a) ==
    /\ sync.pc = "grants"
    /\ a \in sync.todo
    /\ agreementOwners[a] # Absent
    /\ sync' = [sync EXCEPT !.todo = @ \ {a},
                            !.owners[a] = GrantedTo(agreementOwners[a])]
    /\ UNCHANGED <<content, edits, syncs, target>>
    /\ UNCHANGED connectorVars
    /\ UNCHANGED historyVars

GrantsAsk(a) ==
    /\ sync.pc = "grants"
    /\ a \in sync.todo
    /\ agreementOwners[a] = Absent
    /\ \E c \in GetVendorAgreement(a) :
          sync' = [sync EXCEPT !.pc = "fetched", !.answer[a] = c]
    /\ UNCHANGED <<content, edits, syncs, target>>
    /\ UNCHANGED connectorVars
    /\ UNCHANGED historyVars

GrantsFetched(a) ==
    /\ sync.pc = "fetched"
    /\ sync.answer[a] # Absent
    /\ cache' = [cache EXCEPT ![a] = sync.answer[a]]
    /\ sync' = [sync EXCEPT !.pc = "grants", !.todo = @ \ {a},
                            !.answer = Nothing,
                            !.owners[a] = GrantedTo(sync.answer[a].owners)]
    /\ UNCHANGED <<content, edits, agreementOwners, syncs, target>>
    /\ UNCHANGED historyVars

CachesKept ==
    /\ sync.pc = "grants"
    /\ sync.todo = {}
    /\ sync' = IdleSync
    /\ recent' = IF target.pc = "idle" THEN since ELSE recent
    /\ UNCHANGED <<content, edits, syncs, target, since>>
    /\ UNCHANGED connectorVars

(* The sync is complete: its report is published and the HTTP cache, but   *)
(* not the map, cleared.                                                   *)
EndSync ==
    /\ sync.pc = "grants"
    /\ sync.todo = {}
    /\ sync' = IdleSync
    /\ cache' = [a \in Agreement |-> Uncached]
    /\ recent' = IF target.pc = "idle" THEN since ELSE recent
    /\ UNCHANGED <<content, edits, agreementOwners, syncs, target, since>>

(* The sync is given up: its report is discarded, nothing is cleared.      *)
FailSync ==
    /\ sync.pc # "idle"
    /\ sync' = IdleSync
    /\ UNCHANGED <<content, edits, syncs, target>>
    /\ UNCHANGED connectorVars
    /\ UNCHANGED historyVars

-----------------------------------------------------------------------------
(***************************************************************************)
(* A targeted sync of one agreement: Get, then Grants.                     *)
(***************************************************************************)
TargetBecomes(next) ==
    /\ target' = next
    /\ UNCHANGED <<content, edits, agreementOwners, sync, syncs>>
    /\ UNCHANGED historyVars

TargetGet(a) ==
    /\ target.pc = "idle"
    /\ \E c \in GetVendorAgreement(a) :
          TargetBecomes([IdleTarget EXCEPT !.pc = "got", !.agreement = a,
                                          !.answer = c])
    /\ UNCHANGED cache

(* The answer is cached before it is used; Get fails when no resource can  *)
(* be built of it.                                                         *)
TargetGot ==
    /\ target.pc = "got"
    /\ cache' = [cache EXCEPT ![target.agreement] = target.answer]
    /\ LET resource == FromGet(target.answer)
       IN  TargetBecomes(IF resource = Refused THEN IdleTarget
                         ELSE [target EXCEPT !.pc = "grants",
                                             !.answer = Absent,
                                             !.resource = resource])

TargetGrantsFromMap ==
    /\ target.pc = "grants"
    /\ agreementOwners[target.agreement] # Absent
    /\ TargetBecomes([target EXCEPT
          !.pc = "done",
          !.owners = GrantedTo(agreementOwners[target.agreement])])
    /\ UNCHANGED cache

TargetGrantsAsk ==
    /\ target.pc = "grants"
    /\ agreementOwners[target.agreement] = Absent
    /\ \E c \in GetVendorAgreement(target.agreement) :
          TargetBecomes([target EXCEPT !.pc = "fetched", !.answer = c])
    /\ UNCHANGED cache

TargetGrantsFetched ==
    /\ target.pc = "fetched"
    /\ cache' = [cache EXCEPT ![target.agreement] = target.answer]
    /\ TargetBecomes([target EXCEPT !.pc = "done", !.answer = Absent,
                                    !.owners = GrantedTo(target.answer.owners)])

(* The report is taken in, or the targeted sync fails.                     *)
EndTarget ==
    /\ target.pc # "idle"
    /\ TargetBecomes(IdleTarget)
    /\ UNCHANGED cache

-----------------------------------------------------------------------------
(* A cached answer reaches its TTL.                                        *)
Expire(a) ==
    /\ cache[a] # Uncached
    /\ cache' = [cache EXCEPT ![a] = Uncached]
    /\ UNCHANGED <<content, edits, agreementOwners, sync, syncs, target>>
    /\ UNCHANGED historyVars

(* The connector process restarts: map and cache are gone; the platform    *)
(* repeats the sync's pending request and drops the targeted one.          *)
ConnectorRestart ==
    /\ agreementOwners' = Nothing
    /\ cache' = [a \in Agreement |-> Uncached]
    /\ sync' = CASE sync.pc \in {"reset", "fill"} ->
                      [sync EXCEPT !.pc = "list", !.fill = {}, !.answer = Nothing]
                 [] sync.pc = "fetched" ->
                      [sync EXCEPT !.pc = "grants", !.answer = Nothing]
                 [] OTHER -> sync
    /\ target' = IdleTarget
    /\ UNCHANGED <<content, edits, syncs>>
    /\ UNCHANGED historyVars

Next ==
    \/ \E a \in Agreement, c \in Content \cup {Absent} : Edit(a, c)
    \/ StartSync
    \/ \E end \in Cursor : ListVendorAgreements(end)
    \/ ListReset \/ ListReturns
    \/ \E a \in Agreement :
          ListFill(a) \/ GrantsFromMap(a) \/ GrantsAsk(a) \/ GrantsFetched(a)
    \/ EndSync \/ FailSync
    \/ \E a \in Agreement : TargetGet(a)
    \/ TargetGot
    \/ TargetGrantsFromMap \/ TargetGrantsAsk \/ TargetGrantsFetched
    \/ EndTarget
    \/ \E a \in Agreement : Expire(a)
    \/ ConnectorRestart

Spec == Init /\ [][Next]_vars

-----------------------------------------------------------------------------
(* The connector's state has its types: no agreement no resource could be  *)
(* built of is ever reported, and a full sync reads grants only of those   *)
(* whose resources it has.                                                 *)
TypeOK ==
    /\ content \in [Agreement -> Content \cup {Absent}]
    /\ edits \in 0..MaxEdits
    /\ agreementOwners \in [Agreement -> Entry]
    /\ cache \in [Agreement -> Content \cup {Uncached}]
    /\ sync \in SyncState
    /\ syncs \in 0..MaxSyncs
    /\ \A a \in sync.fill : sync.answer[a] # Absent
    /\ \A a \in sync.todo : sync.resources[a] # Absent
    /\ target \in TargetState
    /\ target.pc \in {"got", "fetched"} => target.answer # Absent
    /\ since \in [Agreement -> SUBSET (Content \cup {Absent})]
    /\ recent \in [Agreement -> SUBSET (Content \cup {Absent})]

Owners(contents) == {GrantedTo(c.owners) : c \in contents \ {Absent}}

(* A full sync reports owners the agreement had while that sync ran.  The  *)
(* vendors' owners can be older: their list is read through the cache.     *)
ReportsOwnersOfThisSync ==
    \A a \in Agreement :
        sync.owners[a] # Absent => sync.owners[a] \in Owners(since[a])

(* When a full sync has listed its last page it has the resource of every  *)
(* agreement that was there all along, and at its end the owners.          *)
ReportComplete ==
    sync.pc = "grants" =>
        \A a \in Agreement : Absent \notin since[a] =>
            /\ sync.resources[a] # Absent
            /\ a \notin sync.todo => sync.owners[a] # Absent

(* A date the trait carries is the instant Ramp wrote; Go's zero time is   *)
(* no date.                                                                *)
SameDate(field, w) ==
    field = IF w.form = "empty" \/ w.at = ZeroTime THEN Omitted ELSE w.at

(* A resource says what the agreement says in Ramp: its vendor, so that it *)
(* joins the vendor's resource, its dates, its status, known or not, and   *)
(* the nearest amount in minor units.                                      *)
Describes(r, c) ==
    /\ r.name = c.name
    /\ r.vendor.id = c.vendor.id
    /\ c.payee.name # NoName => r.vendor.name = c.payee.name
    /\ SameDate(r.trait.start, c.start)
    /\ SameDate(r.trait.end, c.end)
    /\ SameDate(r.trait.last, c.last)
    /\ r.trait.raw = c.status
    /\ r.trait.status \in RenewalStatus => r.trait.status = c.status
    /\ c.total.currency # NoName =>
          /\ r.trait.total.currency = c.total.currency
          /\ IsNearest(r.trait.total.minor,
                       c.total.amount *
                         IF c.total.rate > 0 THEN c.total.rate ELSE 100)

(* What List reports of an agreement describes it as it was at some time   *)
(* since the sync began.                                                   *)
ResourceFaithful ==
    \A a \in Agreement : sync.resources[a] # Absent =>
        \E c \in since[a] \ {Absent} : Describes(sync.resources[a], c)

(* An agreement's vendor, a resource of its own, loses neither of its names*)
(* in Ramp and is named once when they agree: vendor_name is the legal     *)
(* name, vendor_dba_name the trade name "when distinct".                   *)
VendorNamesKept ==
    \A a \in Agreement : Listed(a) =>
        LET v     == content[a].vendor
            trait == buildVendorTraitOption(v)
        IN  /\ {trait.name, trait.dba} \ {NoName} = {v.legal, v.name} \ {NoName}
            /\ trait.name # trait.dba

(* However long the map and the cache keep an answer, a targeted sync      *)
(* reports nothing older than the start of the last complete full sync     *)
(* that no targeted sync was under way at the end of.                      *)
TargetReportsRecent ==
    target.pc = "done" =>
        /\ target.owners \in Owners(recent[target.agreement])
        /\ \E c \in recent[target.agreement] \ {Absent} :
              Describes(target.resource, c)

(* The owners a full sync reports keep the promise of SyncReport: those of *)
(* every agreement that is there throughout, once, as they have been since *)
(* the sync began, through edits, refused pages, restarts and failures.    *)
OwnersNow(c) == IF c = Absent THEN Absent ELSE GrantedTo(c.owners)

OwnerReport == INSTANCE SyncReport WITH
    Item   <- Agreement,
    Value  <- {GrantedTo(c.owners) : c \in Content},
    None   <- Absent,
    truth  <- [a \in Agreement |-> OwnersNow(content[a])],
    window <- [a \in Agreement |-> {OwnersNow(c) : c \in since[a]}],
    report <- sync.owners

ImplementsSyncReport == OwnerReport!Spec
=============================================================================
