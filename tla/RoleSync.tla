------------------------------ MODULE RoleSync ------------------------------
(***************************************************************************)
(* Syncing users and their roles: userBuilder.List (pkg/connector/users.go)*)
(* and roleBuilder.List and Grants (pkg/connector/roles.go) over the       *)
(* client's listUsers, cached GETs of pages of users, filtered by role     *)
(* where Ramp's filter knows the role (pkg/client/users.go).  People join, *)
(* leave and change role in Ramp between the pages.                        *)
(*                                                                         *)
(* A user is its position in Ramp's listing, and a page token the last     *)
(* user of the page before.  Ramp's role filter is taken to disregard the  *)
(* spelling of a role, as normalizeRampRole does.                          *)
(***************************************************************************)
EXTENDS Integers, FiniteSets

CONSTANTS
    Users,         \* number of users Ramp may have
    Role,          \* all roles, in capitals and trimmed
    Spelling,      \* the ways Ramp may write them
    Normalized,    \* the role a spelling stands for
    KnownRole,     \* the static list of roles
    FilterRole,    \* the roles Ramp can filter users by
    Gone,          \* no such user
    AnyRole,       \* no role filter
    Uncached,      \* no cached page
    PageSize,      \* most users on one page
    MaxSyncs,      \* bound: full syncs
    MaxEdits       \* bound: changes made in Ramp

User == 1..Users
FirstPage == 0
NoMore    == 0
Token == 0..Users
Query == FilterRole \cup {AnyRole}
Written == Spelling \cup {Gone}
Page  == [role : [User -> Written], next : Token]

ASSUME RoleAssumption ==
    /\ Users \in Nat
    /\ KnownRole \subseteq Role /\ FilterRole \subseteq KnownRole
    /\ Role \subseteq Spelling /\ Normalized \in [Spelling -> Role]
    /\ \A r \in Role : Normalized[r] = r
    /\ Gone \notin Spelling /\ AnyRole \notin Role
    /\ Uncached \notin Page
    /\ PageSize \in Nat \ {0}
    /\ MaxSyncs \in Nat /\ MaxEdits \in Nat

VARIABLES
    role,     \* Ramp: the role of each user, as written
    cache,    \* connector: the cached pages, per filter and token
    sync,     \* platform: the full sync under way
    syncs,    \* full syncs started so far
    edits,    \* changes made in Ramp so far
    since     \* history: each user's roles since the last full sync ended

vars == <<role, cache, sync, syncs, edits, since>>

(* todo are the roles whose grants are still to be read, doing the one in  *)
(* hand; listed and granted are what the sync has so far.                  *)
SyncState ==
    [pc : {"idle", "validated", "users", "grants", "done"}, token : Token,
     todo : SUBSET Role, doing : SUBSET Role,
     listed : SUBSET User, granted : SUBSET (User \X Role)]

IdleSync == [pc |-> "idle", token |-> FirstPage, todo |-> {}, doing |-> {},
             listed |-> {}, granted |-> {}]

Empty == [q \in Query |-> [t \in Token |-> Uncached]]

normalizeRampRole(s) == Normalized[s]

(* The role a user has, or none.                                           *)
Has(s) == IF s = Gone THEN Gone ELSE Normalized[s]

Init ==
    /\ role \in [User -> Written]
    /\ cache = Empty
    /\ sync = IdleSync
    /\ syncs = 0
    /\ edits = 0
    /\ since = [u \in User |-> {Has(role[u])}]

-----------------------------------------------------------------------------
(* Ramp's page of the users that pass filter q after token t.              *)
Listing(q, t) ==
    {u \in User : u > t /\ role[u] # Gone /\ (q = AnyRole \/ Has(role[u]) = q)}

On(p) == {u \in User : p.role[u] # Gone}

IsPage(p, q, t) ==
    /\ \A u \in On(p) : u \in Listing(q, t) /\ p.role[u] = role[u]
    /\ Cardinality(On(p)) <= PageSize
    /\ On(p) = {} => Listing(q, t) = {}
    /\ \A u \in On(p), v \in Listing(q, t) : v < u => v \in On(p)
    /\ IF On(p) = Listing(q, t)
         THEN p.next = NoMore
         ELSE p.next \in On(p) /\ \A u \in On(p) : u <= p.next

(* listUsers: the cached page, else what Ramp says now.                    *)
ListUsers(q, t) ==
    IF cache[q][t] # Uncached THEN {cache[q][t]}
    ELSE {p \in {[role |-> [u \in User |-> IF u \in S THEN role[u] ELSE Gone],
                  next |-> n] : S \in SUBSET Listing(q, t), n \in Token} :
            IsPage(p, q, t)}

Fetch(q, t, p) == cache' = [cache EXCEPT ![q][t] = p]

(* Validate, before each sync: the first page of users, not looked at.     *)
Validate(p) ==
    /\ sync.pc = "idle"
    /\ syncs < MaxSyncs
    /\ p \in ListUsers(AnyRole, FirstPage)
    /\ Fetch(AnyRole, FirstPage, p)
    /\ sync' = [sync EXCEPT !.pc = "validated"]
    /\ syncs' = syncs + 1
    /\ UNCHANGED <<role, edits, since>>

(* roleBuilder.List: the static list of roles.                             *)
ListRoles ==
    /\ sync.pc = "validated"
    /\ sync' = [sync EXCEPT !.pc = "users", !.todo = KnownRole]
    /\ UNCHANGED <<role, cache, syncs, edits, since>>

(* userBuilder.List: one page; after the last one come the grants of each  *)
(* role roleBuilder.List returned.                                         *)
ListUsersPage(p) ==
    /\ sync.pc = "users"
    /\ p \in ListUsers(AnyRole, sync.token)
    /\ Fetch(AnyRole, sync.token, p)
    /\ sync' = [sync EXCEPT !.listed = @ \cup On(p), !.token = p.next,
                            !.pc = IF p.next = NoMore THEN "grants" ELSE "users"]
    /\ UNCHANGED <<role, syncs, edits, since>>

(* The platform turns to the next role.                                    *)
NextRole(r) ==
    /\ sync.pc = "grants"
    /\ sync.doing = {}
    /\ r \in sync.todo
    /\ sync' = [sync EXCEPT !.doing = {r}, !.todo = @ \ {r}]
    /\ UNCHANGED <<role, cache, syncs, edits, since>>

canFilterUsersByRole(r) == r \in FilterRole

FilterFor(r) == IF canFilterUsersByRole(r) THEN r ELSE AnyRole

UncheckedGrants(r, p) == {<<u, r>> : u \in On(p)}

RoleAsWritten(r, p) == {<<u, p.role[u]>> : u \in On(p)}

(* One grant for each user of the page whose own role is the one asked for.*)
GrantsOn(r, p) == {<<u, r>> : u \in {v \in On(p) : normalizeRampRole(p.role[v]) = r}}

OnePageOnly(p) == NoMore

NextPage(p) == p.next

(* roleBuilder.Grants: one page.                                           *)
Grants(r, p) ==
    /\ sync.doing = {r}
    /\ p \in ListUsers(FilterFor(r), sync.token)
    /\ Fetch(FilterFor(r), sync.token, p)
    /\ sync' = [sync EXCEPT !.granted = @ \cup GrantsOn(r, p),
                            !.token = NextPage(p),
                            !.doing = IF NextPage(p) = NoMore THEN {} ELSE @]
    /\ UNCHANGED <<role, syncs, edits, since>>

GrantsDone ==
    /\ sync.pc = "grants" /\ sync.todo = {} /\ sync.doing = {}
    /\ sync' = [sync EXCEPT !.pc = "done"]
    /\ UNCHANGED <<role, cache, syncs, edits, since>>

(* The sync is complete and the cache cleared.                             *)
EndSync ==
    /\ sync.pc = "done"
    /\ sync' = IdleSync
    /\ cache' = Empty
    /\ since' = [u \in User |-> {Has(role[u])}]
    /\ UNCHANGED <<role, syncs, edits>>

(* The sync fails, its report is discarded; the cache is not cleared.      *)
FailSync ==
    /\ sync.pc # "idle"
    /\ sync' = IdleSync
    /\ UNCHANGED <<role, cache, syncs, edits, since>>

-----------------------------------------------------------------------------
(* Somebody joins, leaves or changes role.                                 *)
Edit(u, r) ==
    /\ edits < MaxEdits
    /\ edits' = edits + 1
    /\ role' = [role EXCEPT ![u] = r]
    /\ since' = [since EXCEPT ![u] = @ \cup {Has(r)}]
    /\ UNCHANGED <<cache, sync, syncs>>

(* A cached page reaches its TTL.                                          *)
Expire(q, t) ==
    /\ cache[q][t] # Uncached
    /\ cache' = [cache EXCEPT ![q][t] = Uncached]
    /\ UNCHANGED <<role, sync, syncs, edits, since>>

(* The connector restarts; the platform goes on with the sync at the page  *)
(* it was about to ask for.                                                *)
Restart ==
    /\ cache' = Empty
    /\ UNCHANGED <<role, sync, syncs, edits, since>>

Next ==
    \/ \E p \in ListUsers(AnyRole, FirstPage) : Validate(p)
    \/ ListRoles
    \/ \E p \in ListUsers(AnyRole, sync.token) : ListUsersPage(p)
    \/ \E r \in KnownRole : NextRole(r)
    \/ \E r \in sync.doing : \E p \in ListUsers(FilterFor(r), sync.token) : Grants(r, p)
    \/ GrantsDone
    \/ EndSync
    \/ FailSync
    \/ \E u \in User, r \in Written : Edit(u, r)
    \/ \E q \in Query, t \in Token : Expire(q, t)
    \/ Restart

Spec == Init /\ [][Next]_vars

-----------------------------------------------------------------------------
TypeOK ==
    /\ role \in [User -> Written]
    /\ cache \in [Query -> [Token -> Page \cup {Uncached}]]
    /\ sync \in SyncState
    /\ syncs \in 0..MaxSyncs
    /\ edits \in 0..MaxEdits
    /\ since \in [User -> SUBSET (Role \cup {Gone})]

(* A user who kept one role since the last full sync ended is listed, and  *)
(* granted that role and no other, whoever else joins, leaves or changes   *)
(* role between the pages, and whichever pages come from the cache.        *)
KeptRoleReported ==
    sync.pc = "done" =>
        \A u \in User, r \in Role : since[u] = {r} =>
            /\ u \in sync.listed
            /\ {x \in Role : <<u, x>> \in sync.granted} = {r} \cap KnownRole

(* Every grant is of a role its user had since the last full sync ended.   *)
GrantedRoleWasHeld == \A g \in sync.granted : g[2] \in since[g[1]]
=============================================================================
