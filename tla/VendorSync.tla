----------------------------- MODULE VendorSync -----------------------------
(***************************************************************************)
(* Syncing vendor owners: vendorBuilder.List, Get and Grants               *)
(* (pkg/connector/vendors.go) run by a full sync and by the targeted syncs *)
(* the event feed asks for, in the process that also grants and revokes    *)
(* (VendorOwner).  List keeps each vendor's owner in the builder's         *)
(* vendorOwners map; Grants reads the map first.                           *)
(***************************************************************************)
EXTENDS VendorOwner

CONSTANTS
    Pages,       \* pages of the vendor list
    PageOf,      \* the page each vendor is on
    Absent,      \* no entry in vendorOwners, nothing reported
    MaxSyncs     \* bound: full syncs

ASSUME SyncAssumption ==
    /\ Pages \in Nat \ {0}
    /\ PageOf \in [Vendor -> 1..Pages]
    /\ Absent \notin Owner
    /\ MaxSyncs \in Nat

VARIABLES
    vendorOwners,   \* connector: the builder's map; a nil map has no entry
    listed,         \* connector: the cached pages of the vendor list
    sync,           \* platform and connector: the full sync under way
    target,         \* platform and connector: the targeted sync under way
    syncs,          \* full syncs started so far
    since,          \* history: each vendor's owners since the last full sync
    recent          \* history: since the one before the last undisturbed one

ownerVars == <<owner, inFlight, cache, call, requests, edits>>
syncVars  == <<vendorOwners, listed, sync, target, syncs, since, recent>>

Entry    == Owner \cup {Absent}
OnPage(n) == {v \in Vendor : PageOf[v] = n}

(* page is the next to list, answer the page in hand, fill its vendors not *)
(* yet in the map, todo the vendors whose grants are still to be read, and *)
(* reported the owners read so far.                                        *)
SyncState ==
    [pc : {"idle", "list", "reset", "fill", "grants", "fetched"},
     page : 1..(Pages + 1), answer : [Vendor -> Entry], fill : SUBSET Vendor,
     vendor : SUBSET Vendor, todo : SUBSET Vendor,
     reported : [Vendor -> Entry]]

TargetState ==
    [pc : {"idle", "get", "got", "grants", "fetched", "done"},
     vendor : Vendor, answer : Owner, held : SUBSET Owner]

Nothing == [v \in Vendor |-> Absent]
IdleSync ==
    [pc |-> "idle", page |-> 1, answer |-> Nothing, fill |-> {},
     vendor |-> {}, todo |-> {}, reported |-> Nothing]

IdleTarget ==
    [pc |-> "idle", vendor |-> CHOOSE v \in Vendor : TRUE,
     answer |-> Nobody, held |-> {}]

SyncInit ==
    /\ Init
    /\ vendorOwners = Nothing
    /\ listed = [n \in 1..Pages |-> Uncached]
    /\ sync = IdleSync
    /\ target = IdleTarget
    /\ syncs = 0
    /\ since = [v \in Vendor |-> {owner[v]}]
    /\ recent = since

-----------------------------------------------------------------------------
(***************************************************************************)
(* The full sync: List, page by page, then Grants for each vendor listed.  *)
(***************************************************************************)
StartSync ==
    /\ sync.pc = "idle"
    /\ syncs < MaxSyncs
    /\ sync' = [IdleSync EXCEPT !.pc = "list"]
    /\ syncs' = syncs + 1
    /\ UNCHANGED <<vendorOwners, listed, target, since, recent>>
    /\ UNCHANGED ownerVars

(* ListVendors' answer: the cached page, else what Ramp says now.          *)
ListVendors ==
    /\ sync.pc = "list"
    /\ sync' = [sync EXCEPT
          !.pc = "reset",
          !.answer = IF Caching /\ listed[sync.page] # Uncached
                       THEN listed[sync.page]
                       ELSE [v \in Vendor |-> IF v \in OnPage(sync.page)
                                                THEN owner[v] ELSE Absent]]
    /\ UNCHANGED <<vendorOwners, listed, target, syncs, since, recent>>
    /\ UNCHANGED ownerVars

(* The page reaches the client, which caches it; the first page starts a   *)
(* new map.                                                                *)
ListReset ==
    /\ sync.pc = "reset"
    /\ listed' = IF Caching THEN [listed EXCEPT ![sync.page] = sync.answer]
                            ELSE listed
    /\ vendorOwners' = IF sync.page = 1 THEN Nothing ELSE vendorOwners
    /\ sync' = [sync EXCEPT !.pc = "fill", !.fill = OnPage(sync.page)]
    /\ UNCHANGED <<target, syncs, since, recent>>
    /\ UNCHANGED ownerVars

EmptyOwnerNotKept(v) ==
    IF sync.answer[v] = Nobody THEN vendorOwners
    ELSE [vendorOwners EXCEPT ![v] = sync.answer[v]]

KeepOwner(v) == [vendorOwners EXCEPT ![v] = sync.answer[v]]

(* The page is to be asked for again: it has brought the platform nothing. *)
PageAgain ==
    [sync EXCEPT !.pc = "list", !.fill = {}, !.todo = @ \ OnPage(sync.page)]

(* Each vendor's entry is written under its own lock, and its resource     *)
(* built: one that cannot be, for want of a name, fails the page, whose    *)
(* entries so far stay in the map.  Any vendor may lack one at any time.   *)
ListFill(v) ==
    /\ sync.pc = "fill"
    /\ v \in sync.fill
    /\ vendorOwners' = KeepOwner(v)
    /\ \/ sync' = [sync EXCEPT !.fill = @ \ {v}, !.todo = @ \cup {v}]
       \/ sync' = PageAgain
    /\ UNCHANGED <<listed, target, syncs, since, recent>>
    /\ UNCHANGED ownerVars

LastPageLeftOut ==
    /\ sync.pc = "fill"
    /\ sync.fill = {}
    /\ sync' = [sync EXCEPT !.page = @ + 1,
                            !.pc = IF sync.page + 1 >= Pages THEN "grants"
                                   ELSE "list"]
    /\ UNCHANGED <<vendorOwners, listed, target, syncs, since, recent>>
    /\ UNCHANGED ownerVars

ListReturns ==
    /\ sync.pc = "fill"
    /\ sync.fill = {}
    /\ sync' = [sync EXCEPT !.page = @ + 1,
                            !.pc = IF sync.page = Pages THEN "grants" ELSE "list"]
    /\ UNCHANGED <<vendorOwners, listed, target, syncs, since, recent>>
    /\ UNCHANGED ownerVars

MissIgnored(v) == vendorOwners[v]

(* What Grants reads for v: the entry of the map, else GetVendor's answer. *)
GrantsOwner(v) ==
    IF vendorOwners[v] # Absent THEN vendorOwners[v] ELSE VendorOwnerID(v)

(* Only GetVendor's answer passes through the cache.                       *)
FromGet(v) == vendorOwners[v] = Absent

Grants(v) ==
    /\ sync.pc = "grants"
    /\ v \in sync.todo
    /\ sync' = IF FromGet(v)
                 THEN [sync EXCEPT !.pc = "fetched", !.vendor = {v},
                                   !.answer[v] = GrantsOwner(v)]
                 ELSE [sync EXCEPT !.todo = @ \ {v},
                                   !.reported[v] = GrantsOwner(v)]
    /\ UNCHANGED <<vendorOwners, listed, target, syncs, since, recent>>
    /\ UNCHANGED ownerVars

GrantsFetched ==
    /\ sync.pc = "fetched"
    /\ \E v \in sync.vendor :
          /\ sync' = [sync EXCEPT !.pc = "grants", !.vendor = {},
                                  !.todo = @ \ {v},
                                  !.reported[v] = sync.answer[v]]
          /\ cache' = IF Caching THEN [cache EXCEPT ![v] = sync.answer[v]]
                                 ELSE cache
    /\ UNCHANGED <<vendorOwners, listed, target, syncs, since, recent>>
    /\ UNCHANGED <<owner, inFlight, call, requests, edits>>

(* No answer of GetVendor is on its way, to a call or to a targeted sync.  *)
NobodyReads == target.pc = "idle" /\ \A c \in Call : call[c].pc # "answered"

(* The sync is complete: its report is published, the caches cleared.      *)
EndSync ==
    /\ sync.pc = "grants"
    /\ sync.todo = {}
    /\ ClearCaches
    /\ listed' = [n \in 1..Pages |-> Uncached]
    /\ since' = [v \in Vendor |-> {owner[v]}]
    /\ recent' = IF NobodyReads THEN since ELSE recent
    /\ sync' = IdleSync
    /\ UNCHANGED <<vendorOwners, target, syncs>>

(* The sync fails and its report is discarded; no cache is cleared.        *)
FailSync ==
    /\ sync.pc # "idle"
    /\ sync' = IdleSync
    /\ UNCHANGED <<vendorOwners, listed, target, syncs, since, recent>>
    /\ UNCHANGED ownerVars

-----------------------------------------------------------------------------
(***************************************************************************)
(* A targeted sync of one vendor: Get, then Grants.                        *)
(***************************************************************************)
StartTarget(v) ==
    /\ target.pc = "idle"
    /\ target' = [pc |-> "get", vendor |-> v, answer |-> Nobody, held |-> {owner[v]}]
    /\ UNCHANGED <<vendorOwners, listed, sync, syncs, since, recent>>
    /\ UNCHANGED ownerVars

TargetAsks(from, to, answer) ==
    /\ target.pc = from
    /\ target' = [target EXCEPT !.pc = to, !.answer = answer]
    /\ UNCHANGED <<vendorOwners, listed, sync, syncs, since, recent>>
    /\ UNCHANGED ownerVars

TargetReceives(from, to) ==
    /\ target.pc = from
    /\ target' = [target EXCEPT !.pc = to]
    /\ cache' = IF Caching THEN [cache EXCEPT ![target.vendor] = target.answer]
                           ELSE cache
    /\ UNCHANGED <<vendorOwners, listed, sync, syncs, since, recent>>
    /\ UNCHANGED <<owner, inFlight, call, requests, edits>>

TargetGet == \/ TargetAsks("get", "got", VendorOwnerID(target.vendor))
             \/ TargetReceives("got", "grants")

TargetGrants ==
    \/ TargetAsks("grants",
                  IF FromGet(target.vendor) THEN "fetched" ELSE "done",
                  GrantsOwner(target.vendor))
    \/ TargetReceives("fetched", "done")

(* The report is taken in, or the targeted sync fails.                     *)
EndTarget ==
    /\ target.pc # "idle"
    /\ target' = IdleTarget
    /\ UNCHANGED <<vendorOwners, listed, sync, syncs, since, recent>>
    /\ UNCHANGED ownerVars

-----------------------------------------------------------------------------
(* A step of VendorOwner; the histories follow the owners.                 *)
OwnerStep ==
    /\ CallsNext
    /\ since' = [v \in Vendor |-> since[v] \cup {owner'[v]}]
    /\ recent' = [v \in Vendor |-> recent[v] \cup {owner'[v]}]
    /\ target' = IF target.pc = "idle" THEN target
                 ELSE [target EXCEPT !.held = @ \cup {owner'[target.vendor]}]
    /\ UNCHANGED <<vendorOwners, listed, sync, syncs>>

(* The connector process restarts: its maps and caches are gone; the       *)
(* platform repeats the sync's pending request and drops the targeted one. *)
ConnectorRestart ==
    /\ Restart
    /\ vendorOwners' = Nothing
    /\ listed' = [n \in 1..Pages |-> Uncached]
    /\ sync' = CASE sync.pc \in {"reset", "fill"} -> PageAgain
                 [] sync.pc = "fetched" ->
                      [sync EXCEPT !.pc = "grants", !.vendor = {}]
                 [] OTHER -> sync
    /\ target' = IdleTarget
    /\ UNCHANGED <<syncs, since, recent>>

SyncNext ==
    \/ StartSync \/ ListVendors \/ ListReset \/ ListReturns
    \/ \E v \in Vendor : ListFill(v) \/ Grants(v) \/ StartTarget(v)
    \/ GrantsFetched \/ EndSync \/ FailSync
    \/ TargetGet \/ TargetGrants \/ EndTarget
    \/ OwnerStep \/ ConnectorRestart

SyncSpec == SyncInit /\ [][SyncNext]_<<ownerVars, syncVars>>

-----------------------------------------------------------------------------
SyncTypeOK ==
    /\ TypeOK
    /\ vendorOwners \in [Vendor -> Entry]
    /\ listed \in [1..Pages -> [Vendor -> Entry] \cup {Uncached}]
    /\ sync \in SyncState
    /\ target \in TargetState
    /\ syncs \in 0..MaxSyncs
    /\ since \in [Vendor -> SUBSET Owner]
    /\ recent \in [Vendor -> SUBSET Owner]

(* A full sync never reports an owner the vendor last had before the full  *)
(* sync preceding it ended: neither the map, nor a cached page or vendor,  *)
(* nor a response cached late carries an owner over.                       *)
SyncReportsRecentOwner ==
    \A v \in Vendor : sync.reported[v] # Absent => sync.reported[v] \in since[v]

(* However old the map and however often a cached vendor is stored again,  *)
(* nothing a targeted sync reports and nothing Grant or Revoke decides on  *)
(* is older than the full sync before the last one at whose end no answer  *)
(* of GetVendor was on its way.                                            *)
ReadsRecentOwner ==
    /\ target.pc = "done" => target.answer \in recent[target.vendor]
    /\ \A c \in Call : call[c].pc = "answered" =>
          call[c].answer \in recent[call[c].vendor]

(* Full syncs of owners keep the promise of SyncReport: every vendor is    *)
(* reported, once, with an owner it has had since the last complete sync   *)
(* ended, whatever pages, holes in the map, restarts and failures come     *)
(* between.                                                                *)
OwnerReport == INSTANCE SyncReport WITH
    Item   <- Vendor,
    Value  <- Owner,
    None   <- Absent,
    truth  <- owner,
    window <- since,
    report <- sync.reported

ImplementsSyncReport == OwnerReport!Spec

(* A targeted sync reports an owner the vendor had since it was asked for. *)
TargetReportsCurrentOwner ==
    target.pc = "done" => target.answer \in target.held
=============================================================================
