--------------------------- MODULE RoleSyncProofs ---------------------------
(***************************************************************************)
(* Theorems about RoleSync: types, that nobody is granted a role they did  *)
(* not have, and that nobody who keeps a role is missed, for any number of *)
(* users, roles, spellings, page sizes, syncs and changes.                 *)
(***************************************************************************)
EXTENDS RoleSync, TLAPS

(* Users show up in since with the role they have, in cached pages with    *)
(* roles they had.                                                         *)
Held(p) == \A u \in On(p) : Has(p.role[u]) \in since[u]

HeldInv ==
    /\ \A u \in User : Has(role[u]) \in since[u]
    /\ \A q \in Query, t \in Token : cache[q][t] # Uncached => Held(cache[q][t])
    /\ GrantedRoleWasHeld

(* A page behind token t of the users with filter q passes over nobody who *)
(* kept a role the filter lets through.                                    *)
Kept(u, r) == since[u] = {r}

PassesOverNone(p, q, t) ==
    \A u \in User, r \in Role :
        Kept(u, r) /\ q \in {AnyRole, r} /\ t < u =>
            u \in On(p) \/ (p.next # NoMore /\ p.next < u)

(* How far the platform is in its sync: what it has in hand and is still   *)
(* to ask for.                                                             *)
PhaseInv ==
    /\ sync.todo \subseteq KnownRole /\ sync.doing \subseteq KnownRole
    /\ sync.granted \subseteq User \X KnownRole
    /\ sync.pc \in {"idle", "validated"} => sync = [IdleSync EXCEPT !.pc = sync.pc]
    /\ sync.pc = "users" => sync.todo = KnownRole /\ sync.granted = {}
    /\ sync.doing # {} => sync.pc = "grants"
    /\ sync.doing \cap sync.todo = {}
    /\ sync.pc = "grants" /\ sync.doing = {} => sync.token = FirstPage
    /\ sync.pc = "done" => sync.todo = {}

(* Those who kept their role and are behind the page token have been seen, *)
(* and all of them once the listing, or the role, is done with.            *)
SeenInv ==
    \A u \in User, r \in Role : Kept(u, r) =>
        /\ sync.pc = "users" /\ u <= sync.token => u \in sync.listed
        /\ sync.pc \in {"grants", "done"} => u \in sync.listed
        /\ sync.pc \in {"grants", "done"} /\ r \in KnownRole \ sync.todo =>
             (r \notin sync.doing \/ u <= sync.token => <<u, r>> \in sync.granted)

CachedPass ==
    \A q \in Query, t \in Token :
        cache[q][t] # Uncached => PassesOverNone(cache[q][t], q, t)

KeptInv == CachedPass /\ PhaseInv /\ SeenInv

-----------------------------------------------------------------------------
(* Constants.                                                              *)
LEMMA Constants ==
    /\ KnownRole \subseteq Role /\ FilterRole \subseteq KnownRole
    /\ Role \subseteq Spelling /\ Normalized \in [Spelling -> Role]
    /\ Gone \notin Spelling /\ AnyRole \notin Role /\ Uncached \notin Page
    /\ MaxSyncs \in Nat /\ MaxEdits \in Nat /\ Users \in Nat
    /\ User \subseteq Int /\ Token \subseteq Int
    /\ FirstPage \in Token /\ FirstPage \notin User /\ \A u \in User : u > FirstPage
BY RoleAssumption DEF User, Token, FirstPage

LEMMA Counts ==
    ASSUME NEW Bound \in Nat, NEW n \in 0..Bound, n < Bound
    PROVE  n + 1 \in 0..Bound
OBVIOUS

LEMMA HasType ==
    ASSUME NEW s \in Written
    PROVE  /\ Has(s) \in Role \cup {Gone}
           /\ Has(s) = Gone <=> s = Gone
           /\ s # Gone => Has(s) = normalizeRampRole(s)
BY Constants DEF Written, Has, normalizeRampRole

LEMMA FilterType ==
    ASSUME NEW r \in Role
    PROVE  FilterFor(r) \in Query /\ FilterFor(r) \in {AnyRole, r}
BY DEF FilterFor, canFilterUsersByRole, Query

LEMMA IdleSyncType ==
    /\ IdleSync \in SyncState /\ IdleSync.pc = "idle"
    /\ IdleSync.token = FirstPage /\ IdleSync.todo = {} /\ IdleSync.doing = {}
    /\ IdleSync.listed = {} /\ IdleSync.granted = {}
BY Constants DEF IdleSync, SyncState

(* The pages listUsers may answer: a cached one, or one of Ramp's.         *)
LEMMA Pages ==
    ASSUME TypeOK, NEW q \in Query, NEW t \in Token, NEW p \in ListUsers(q, t)
    PROVE  /\ p \in Page
           /\ \/ cache[q][t] # Uncached /\ p = cache[q][t]
              \/ IsPage(p, q, t)
<1>1. CASE cache[q][t] # Uncached
  BY <1>1 DEF ListUsers, TypeOK
<1>2. CASE cache[q][t] = Uncached
  <2>1. PICK S \in SUBSET Listing(q, t), n \in Token :
           /\ p = [role |-> [u \in User |-> IF u \in S THEN role[u] ELSE Gone],
                   next |-> n]
           /\ IsPage(p, q, t)
    BY <1>2 DEF ListUsers
  <2>2. [u \in User |-> IF u \in S THEN role[u] ELSE Gone] \in [User -> Written]
    BY DEF TypeOK, Written
  <2> QED BY <2>1, <2>2 DEF Page
<1> QED BY <1>1, <1>2

-----------------------------------------------------------------------------
(* Types.                                                                  *)
LEMMA EmptyType == Empty \in [Query -> [Token -> Page \cup {Uncached}]]
BY DEF Empty

LEMMA InitTypes == Init => TypeOK
<1> SUFFICES ASSUME Init PROVE TypeOK
  OBVIOUS
<1>1. since \in [User -> SUBSET (Role \cup {Gone})]
  <2>1. \A u \in User : Has(role[u]) \in Role \cup {Gone}
    BY HasType DEF Init
  <2> QED BY <2>1 DEF Init
<1>2. 0 \in 0..MaxSyncs /\ 0 \in 0..MaxEdits
  BY Constants
<1> QED BY <1>1, <1>2, EmptyType, IdleSyncType DEF Init, TypeOK

LEMMA NextTypes == TypeOK /\ [Next]_vars => TypeOK'
<1> SUFFICES ASSUME TypeOK, [Next]_vars PROVE TypeOK'
  OBVIOUS
<1>t. /\ sync \in SyncState /\ sync.token \in Token
      /\ sync.doing \subseteq Role
      /\ cache \in [Query -> [Token -> Page \cup {Uncached}]]
      /\ AnyRole \in Query /\ FirstPage \in Token
  BY Constants DEF TypeOK, SyncState, Query
<1>f. ASSUME NEW q \in Query, NEW t \in Token, NEW p \in Page, Fetch(q, t, p)
      PROVE  cache' \in [Query -> [Token -> Page \cup {Uncached}]]
  <2>1. [cache[q] EXCEPT ![t] = p] \in [Token -> Page \cup {Uncached}]
    BY <1>t
  <2> QED BY <1>f, <1>t, <2>1 DEF Fetch
<1>1. ASSUME NEW p \in ListUsers(AnyRole, FirstPage), Validate(p) PROVE TypeOK'
  <2>1. p \in Page
    BY <1>t, Pages
  <2>2. syncs' \in 0..MaxSyncs
    BY <1>1, Constants, Counts DEF Validate, TypeOK
  <2>3. sync' \in SyncState
    BY <1>1, <1>t DEF Validate, SyncState
  <2> QED BY <1>1, <1>f, <1>t, <2>1, <2>2, <2>3 DEF Validate, TypeOK
<1>2. ASSUME ListRoles PROVE TypeOK'
  <2>1. sync' \in SyncState
    BY <1>2, <1>t, Constants DEF ListRoles, SyncState
  <2> QED BY <1>2, <2>1 DEF ListRoles, TypeOK
<1>3. ASSUME NEW p \in ListUsers(AnyRole, sync.token), ListUsersPage(p) PROVE TypeOK'
  <2>1. p \in Page /\ On(p) \subseteq User
    BY <1>t, Pages DEF On
  <2>2. sync' \in SyncState
    BY <1>3, <1>t, <2>1 DEF ListUsersPage, SyncState, Page
  <2> QED BY <1>3, <1>f, <1>t, <2>1, <2>2 DEF ListUsersPage, TypeOK
<1>4. ASSUME NEW r \in KnownRole, NextRole(r) PROVE TypeOK'
  <2>1. sync' \in SyncState
    BY <1>4, <1>t, Constants DEF NextRole, SyncState
  <2> QED BY <1>4, <2>1 DEF NextRole, TypeOK
<1>5. ASSUME NEW r \in sync.doing, NEW p \in ListUsers(FilterFor(r), sync.token),
             Grants(r, p)
      PROVE  TypeOK'
  <2>1. r \in Role /\ FilterFor(r) \in Query
    BY <1>t, FilterType
  <2>2. p \in Page /\ GrantsOn(r, p) \subseteq User \X Role
    BY <1>t, <2>1, Pages DEF GrantsOn, On
  <2>3. NextPage(p) \in Token
    BY <2>2 DEF NextPage, Page
  <2>4. sync' \in SyncState
    BY <1>5, <1>t, <2>2, <2>3 DEF Grants, SyncState
  <2> QED BY <1>5, <1>f, <1>t, <2>1, <2>2, <2>4 DEF Grants, TypeOK
<1>6. ASSUME GrantsDone PROVE TypeOK'
  <2>1. sync' \in SyncState
    BY <1>6, <1>t DEF GrantsDone, SyncState
  <2> QED BY <1>6, <2>1 DEF GrantsDone, TypeOK
<1>7. ASSUME EndSync PROVE TypeOK'
  <2>1. \A u \in User : Has(role[u]) \in Role \cup {Gone}
    BY HasType DEF TypeOK
  <2> QED BY <1>7, <2>1, EmptyType, IdleSyncType DEF EndSync, TypeOK
<1>8. ASSUME FailSync PROVE TypeOK'
  BY <1>8, IdleSyncType DEF FailSync, TypeOK
<1>9. ASSUME NEW u \in User, NEW r \in Written, Edit(u, r) PROVE TypeOK'
  <2>1. edits' \in 0..MaxEdits
    BY <1>9, Constants, Counts DEF Edit, TypeOK
  <2> QED BY <1>9, <2>1, HasType DEF Edit, TypeOK
<1>10. ASSUME NEW q \in Query, NEW t \in Token, Expire(q, t) PROVE TypeOK'
  <2>1. [cache[q] EXCEPT ![t] = Uncached] \in [Token -> Page \cup {Uncached}]
    BY <1>t
  <2> QED BY <1>10, <1>t, <2>1 DEF Expire, TypeOK
<1>11. ASSUME Restart PROVE TypeOK'
  BY <1>11, EmptyType DEF Restart, TypeOK
<1>12. CASE UNCHANGED vars
  BY <1>12 DEF TypeOK, vars
<1> QED BY <1>1, <1>2, <1>3, <1>4, <1>5, <1>6, <1>7, <1>8, <1>9, <1>10, <1>11, <1>12
        DEF Next

(* The sync, the cached pages and the histories are well typed, whatever   *)
(* pages Ramp cuts.                                                        *)
THEOREM TypeCorrect == Spec => []TypeOK
BY InitTypes, NextTypes, PTL DEF Spec

-----------------------------------------------------------------------------
(* Nobody is granted a role they did not have.                             *)
LEMMA ThisPageHeld ==
    ASSUME TypeOK, HeldInv, NEW q \in Query, NEW t \in Token, NEW p \in ListUsers(q, t)
    PROVE  Held(p)
<1>1. CASE cache[q][t] # Uncached /\ p = cache[q][t]
  BY <1>1 DEF HeldInv
<1>2. CASE IsPage(p, q, t)
  <2>1. \A u \in On(p) : u \in User /\ p.role[u] = role[u]
    BY <1>2 DEF IsPage, On
  <2> QED BY <2>1 DEF Held, HeldInv
<1> QED BY <1>1, <1>2, Pages

LEMMA FetchHeld ==
    ASSUME TypeOK, HeldInv, NEW q \in Query, NEW t \in Token,
           NEW p \in ListUsers(q, t), Fetch(q, t, p),
           UNCHANGED <<role, since>>, GrantedRoleWasHeld'
    PROVE  HeldInv'
<1>1. \A x \in Query, y \in Token : cache'[x][y] \in {cache[x][y], p}
  <2>1. cache \in [Query -> [Token -> Page \cup {Uncached}]]
    BY DEF TypeOK
  <2>2. cache' = [cache EXCEPT ![q] = [cache[q] EXCEPT ![t] = p]]
    BY <2>1 DEF Fetch
  <2> QED BY <2>1, <2>2
<1>2. Held(p)
  BY ThisPageHeld
<1>3. \A x \in Query, y \in Token : cache'[x][y] # Uncached => Held(cache'[x][y])
  BY <1>1, <1>2 DEF HeldInv
<1>4. \A x \in Query, y \in Token : cache'[x][y] # Uncached =>
         \A u \in On(cache'[x][y]) : Has(cache'[x][y].role[u]) \in since'[u]
  BY <1>3 DEF Held
<1> QED BY <1>4 DEF HeldInv, Held

LEMMA InitHeld == Init => HeldInv
BY IdleSyncType DEF Init, HeldInv, GrantedRoleWasHeld, Empty

LEMMA NextHeld == TypeOK /\ HeldInv /\ [Next]_vars => HeldInv'
<1> SUFFICES ASSUME TypeOK, HeldInv, [Next]_vars PROVE HeldInv'
  OBVIOUS
<1>t. /\ sync \in SyncState /\ sync.token \in Token /\ sync.doing \subseteq Role
      /\ sync.granted \subseteq User \X Role
      /\ cache \in [Query -> [Token -> Page \cup {Uncached}]]
      /\ AnyRole \in Query /\ FirstPage \in Token
  BY Constants DEF TypeOK, SyncState, Query
<1>g. GrantedRoleWasHeld
  BY DEF HeldInv
<1>k. ASSUME UNCHANGED <<role, since>>, sync'.granted \in {{}, sync.granted},
             \A q \in Query, t \in Token : cache'[q][t] \in {cache[q][t], Uncached}
      PROVE  HeldInv'
  BY <1>k DEF HeldInv, Held, GrantedRoleWasHeld
<1>e. \A q \in Query, t \in Token : Empty[q][t] = Uncached
  BY DEF Empty
<1>1. ASSUME NEW p \in ListUsers(AnyRole, FirstPage), Validate(p) PROVE HeldInv'
  <2>1. sync'.granted = sync.granted
    BY <1>1, <1>t DEF Validate, SyncState
  <2>2. GrantedRoleWasHeld'
    BY <1>1, <1>g, <2>1 DEF GrantedRoleWasHeld, Validate
  <2> QED BY <1>1, <1>t, <2>2, FetchHeld DEF Validate
<1>2. ASSUME NEW p \in ListUsers(AnyRole, sync.token), ListUsersPage(p) PROVE HeldInv'
  <2>1. sync'.granted = sync.granted
    BY <1>2, <1>t DEF ListUsersPage, SyncState
  <2>2. GrantedRoleWasHeld'
    BY <1>2, <1>g, <2>1 DEF GrantedRoleWasHeld, ListUsersPage
  <2> QED BY <1>2, <1>t, <2>2, FetchHeld DEF ListUsersPage
<1>3. ASSUME NEW r \in sync.doing, NEW p \in ListUsers(FilterFor(r), sync.token),
             Grants(r, p)
      PROVE  HeldInv'
  <2>1. r \in Role /\ FilterFor(r) \in Query
    BY <1>t, FilterType
  <2>2. p \in Page /\ Held(p)
    BY <1>t, <2>1, Pages, ThisPageHeld
  <2>3. \A g \in GrantsOn(r, p) : g[2] \in since[g[1]]
    <3>1. ASSUME NEW u \in On(p), normalizeRampRole(p.role[u]) = r
          PROVE  r \in since[u]
      <4>1. p.role[u] \in Written /\ p.role[u] # Gone
        BY <2>2 DEF On, Page
      <4> QED BY <2>2, <3>1, <4>1, HasType DEF Held
    <3> QED BY <3>1 DEF GrantsOn
  <2>4. sync'.granted = sync.granted \cup GrantsOn(r, p) /\ since' = since
    BY <1>3, <1>t DEF Grants, SyncState
  <2>5. GrantedRoleWasHeld'
    BY <1>g, <2>3, <2>4 DEF GrantedRoleWasHeld
  <2> QED BY <1>3, <1>t, <2>1, <2>5, FetchHeld DEF Grants
<1>4. ASSUME ListRoles \/ (\E r \in KnownRole : NextRole(r)) \/ GrantsDone PROVE HeldInv'
  <2>1. sync'.granted = sync.granted
    BY <1>4, <1>t DEF ListRoles, NextRole, GrantsDone, SyncState
  <2> QED BY <1>4, <1>k, <2>1 DEF ListRoles, NextRole, GrantsDone
<1>5. ASSUME EndSync PROVE HeldInv'
  BY <1>5, <1>e, IdleSyncType DEF EndSync, HeldInv, GrantedRoleWasHeld
<1>6. ASSUME FailSync PROVE HeldInv'
  BY <1>6, <1>k, IdleSyncType DEF FailSync
<1>7. ASSUME NEW u \in User, NEW r \in Written, Edit(u, r) PROVE HeldInv'
  <2>1. /\ \A v \in User : since[v] \subseteq since'[v] /\ Has(role'[v]) \in since'[v]
        /\ cache' = cache /\ sync' = sync
    BY <1>7 DEF Edit, TypeOK, HeldInv
  <2>2. \A g \in sync.granted : g[1] \in User
    BY <1>t
  <2> QED BY <2>1, <2>2 DEF HeldInv, Held, GrantedRoleWasHeld, On
<1>8. ASSUME NEW q \in Query, NEW t \in Token, Expire(q, t) PROVE HeldInv'
  <2>1. cache' = [cache EXCEPT ![q] = [cache[q] EXCEPT ![t] = Uncached]]
    BY <1>8, <1>t DEF Expire
  <2>2. \A x \in Query, y \in Token : cache'[x][y] \in {cache[x][y], Uncached}
    BY <1>t, <2>1
  <2> QED BY <1>8, <1>k, <2>2 DEF Expire
<1>9. ASSUME Restart PROVE HeldInv'
  BY <1>9, <1>e, <1>k DEF Restart
<1>10. CASE UNCHANGED vars
  BY <1>10, <1>k DEF vars
<1> QED BY <1>1, <1>2, <1>3, <1>4, <1>5, <1>6, <1>7, <1>8, <1>9, <1>10 DEF Next

(* A failed sync leaves its pages cached and the next one mixes them with  *)
(* fresh ones; a user is still granted only roles of since the last full   *)
(* sync that ended.                                                        *)
THEOREM GrantsWereHeld == Spec => []GrantedRoleWasHeld
<1>1. Spec => []HeldInv
  BY InitTypes, NextTypes, InitHeld, NextHeld, PTL DEF Spec
<1>2. HeldInv => GrantedRoleWasHeld
  BY DEF HeldInv
<1> QED BY <1>1, <1>2, PTL

-----------------------------------------------------------------------------
(* Nobody who keeps a role is missed.                                      *)
LEMMA KeptBefore ==
    ASSUME HeldInv, NEW u \in User, NEW r \in Role,
           since[u] \subseteq since'[u], Kept(u, r)'
    PROVE  Kept(u, r)
BY DEF HeldInv, Kept

LEMMA ThisPagePasses ==
    ASSUME TypeOK, HeldInv, KeptInv,
           NEW q \in Query, NEW t \in Token, NEW p \in ListUsers(q, t)
    PROVE  PassesOverNone(p, q, t)
<1>1. CASE cache[q][t] # Uncached /\ p = cache[q][t]
  BY <1>1 DEF KeptInv, CachedPass
<1>2. CASE IsPage(p, q, t)
  <2> SUFFICES ASSUME NEW u \in User, NEW r \in Role, Kept(u, r), q \in {AnyRole, r},
                      t < u, u \notin On(p)
               PROVE  p.next # NoMore /\ p.next < u
    BY DEF PassesOverNone
  <2>1. u \in Listing(q, t)
    <3>1. Has(role[u]) = r /\ r # Gone
      BY Constants DEF HeldInv, Kept
    <3>2. role[u] # Gone
      BY <3>1 DEF Has
    <3> QED BY <3>1, <3>2 DEF Listing
  <2>2. p.next \in On(p)
    BY <1>2, <2>1 DEF IsPage
  <2>3. ~(u < p.next) /\ p.next # u
    BY <1>2, <2>1, <2>2 DEF IsPage
  <2>4. u \in Int /\ p.next \in Int /\ p.next # FirstPage
    BY <2>2, Constants DEF On
  <2> QED BY <2>3, <2>4 DEF NoMore, FirstPage
<1> QED BY <1>1, <1>2, Pages

(* What a fetched page adds: the cached pages still pass over nobody.      *)
LEMMA FetchPasses ==
    ASSUME TypeOK, HeldInv, KeptInv, NEW q \in Query, NEW t \in Token,
           NEW p \in ListUsers(q, t), Fetch(q, t, p), since' = since
    PROVE  CachedPass'
<1>1. cache \in [Query -> [Token -> Page \cup {Uncached}]]
  BY DEF TypeOK
<1>2. cache' = [cache EXCEPT ![q] = [cache[q] EXCEPT ![t] = p]]
  BY <1>1 DEF Fetch
<1>3. \A x \in Query, y \in Token :
         cache'[x][y] = IF x = q /\ y = t THEN p ELSE cache[x][y]
  BY <1>1, <1>2
<1>4. \A x \in Query, y \in Token :
         cache'[x][y] # Uncached => PassesOverNone(cache'[x][y], x, y)
  BY <1>3, ThisPagePasses DEF KeptInv, CachedPass
<1> QED BY <1>4 DEF CachedPass, PassesOverNone, Kept

(* Behind the next page's token nobody is left out.                        *)
LEMMA PageSeen ==
    ASSUME TypeOK, NEW q \in Query, NEW p \in Page, PassesOverNone(p, q, sync.token),
           NEW u \in User, NEW r \in Role, Kept(u, r), q \in {AnyRole, r},
           p.next = NoMore \/ u <= p.next
    PROVE  u <= sync.token \/ u \in On(p)
<1>1. sync.token \in Int /\ u \in Int /\ p.next \in Int
  BY Constants DEF TypeOK, SyncState, Page
<1>2. ~(sync.token < u) => u <= sync.token
  BY ONLY <1>1
<1>3. sync.token < u => u \in On(p)
  <2>1. ASSUME sync.token < u, u \notin On(p) PROVE FALSE
    <3>1. p.next # NoMore /\ p.next < u
      BY <2>1 DEF PassesOverNone
    <3> QED BY <1>1, <3>1
  <2> QED BY <2>1
<1> QED BY <1>2, <1>3

LEMMA InitKept == Init => KeptInv
<1> SUFFICES ASSUME Init PROVE KeptInv
  OBVIOUS
<1>1. \A q \in Query, t \in Token : cache[q][t] = Uncached
  BY DEF Init, Empty
<1>2. [IdleSync EXCEPT !.pc = "idle"] = IdleSync
  BY DEF IdleSync
<1> QED BY <1>1, <1>2, IdleSyncType DEF Init, KeptInv, CachedPass, PhaseInv, SeenInv

(* A sync that has not begun has seen nothing and needs to have seen nobody*)
LEMMA IdleKept ==
    ASSUME sync' = IdleSync
    PROVE  PhaseInv' /\ SeenInv'
<1>1. [IdleSync EXCEPT !.pc = "idle"] = IdleSync
  BY DEF IdleSync
<1> QED BY <1>1, IdleSyncType DEF PhaseInv, SeenInv

LEMMA ListingKept ==
    ASSUME TypeOK, HeldInv, KeptInv,
           \/ \E p \in ListUsers(AnyRole, FirstPage) : Validate(p)
           \/ ListRoles
           \/ \E p \in ListUsers(AnyRole, sync.token) : ListUsersPage(p)
    PROVE  PhaseInv' /\ SeenInv' /\ since' = since
<1>t. sync \in SyncState /\ sync.token \in Token /\ AnyRole \in Query
  BY DEF TypeOK, SyncState, Query
<1>i. PhaseInv /\ SeenInv
  BY DEF KeptInv
<1>1. ASSUME NEW p \in ListUsers(AnyRole, FirstPage), Validate(p)
      PROVE  PhaseInv' /\ SeenInv' /\ since' = since
  <2>1. sync = IdleSync
    <3>1. sync = [IdleSync EXCEPT !.pc = sync.pc] /\ sync.pc = "idle"
      BY <1>1, <1>i DEF Validate, PhaseInv
    <3> QED BY <3>1 DEF IdleSync
  <2>2. sync' = [IdleSync EXCEPT !.pc = "validated"]
    BY <1>1, <2>1 DEF Validate
  <2>3. /\ sync'.pc = "validated" /\ sync'.todo = {} /\ sync'.doing = {}
        /\ sync'.granted = {}
    BY <2>2 DEF IdleSync
  <2> QED BY <1>1, <2>2, <2>3 DEF Validate, PhaseInv, SeenInv
<1>2. ASSUME ListRoles PROVE PhaseInv' /\ SeenInv' /\ since' = since
  <2>1. sync = [IdleSync EXCEPT !.pc = sync.pc]
    BY <1>2, <1>i DEF ListRoles, PhaseInv
  <2>2. /\ sync'.pc = "users" /\ sync'.todo = KnownRole /\ sync'.doing = {}
        /\ sync'.granted = {} /\ sync'.token = FirstPage
    BY <1>2, <2>1 DEF ListRoles, IdleSync
  <2>3. \A u \in User : ~(u <= FirstPage)
    BY Constants DEF FirstPage
  <2> QED BY <1>2, <2>2, <2>3 DEF ListRoles, PhaseInv, SeenInv
<1>3. ASSUME NEW p \in ListUsers(AnyRole, sync.token), ListUsersPage(p)
      PROVE  PhaseInv' /\ SeenInv' /\ since' = since
  <2>1. /\ sync.pc = "users" /\ sync'.listed = sync.listed \cup On(p)
        /\ sync'.token = p.next
        /\ sync'.pc = IF p.next = NoMore THEN "grants" ELSE "users"
        /\ sync'.todo = sync.todo /\ sync'.doing = sync.doing
        /\ sync'.granted = sync.granted /\ since' = since
    BY <1>3, <1>t DEF ListUsersPage, SyncState
  <2>2. PhaseInv'
    BY <1>i, <2>1 DEF PhaseInv, NoMore, FirstPage
  <2>3. ASSUME NEW u \in User, NEW r \in Role, Kept(u, r),
               p.next = NoMore \/ u <= p.next
        PROVE  u \in sync'.listed
    <3>1. p \in Page /\ PassesOverNone(p, AnyRole, sync.token)
      BY <1>t, Pages, ThisPagePasses
    <3>2. u <= sync.token \/ u \in On(p)
      BY <1>t, <2>3, <3>1, PageSeen
    <3> QED BY <1>i, <2>1, <2>3, <3>2 DEF SeenInv
  <2>4. SeenInv'
    <3> SUFFICES ASSUME NEW u \in User, NEW r \in Role, Kept(u, r)'
                 PROVE  /\ sync'.pc = "users" /\ u <= sync'.token => u \in sync'.listed
                        /\ sync'.pc \in {"grants", "done"} => u \in sync'.listed
                        /\ sync'.pc \in {"grants", "done"} => r \notin KnownRole \ sync'.todo
      BY DEF SeenInv
    <3>1. Kept(u, r)
      BY <2>1 DEF Kept
    <3> QED BY <1>i, <2>1, <2>3, <3>1 DEF PhaseInv
  <2> QED BY <2>1, <2>2, <2>4
<1> QED BY <1>1, <1>2, <1>3

LEMMA GrantsKept ==
    ASSUME TypeOK, HeldInv, KeptInv,
           \/ \E r \in KnownRole : NextRole(r)
           \/ \E r \in sync.doing :
                 \E p \in ListUsers(FilterFor(r), sync.token) : Grants(r, p)
           \/ GrantsDone
    PROVE  PhaseInv' /\ SeenInv' /\ since' = since
<1>t. sync \in SyncState /\ sync.token \in Token
  BY DEF TypeOK, SyncState
<1>i. PhaseInv /\ SeenInv
  BY DEF KeptInv
<1>1. ASSUME NEW x \in KnownRole, NextRole(x)
      PROVE  PhaseInv' /\ SeenInv' /\ since' = since
  <2>1. /\ sync.pc = "grants" /\ sync.doing = {} /\ x \in sync.todo
        /\ sync'.pc = "grants" /\ sync'.doing = {x} /\ sync'.todo = sync.todo \ {x}
        /\ sync'.token = sync.token /\ sync'.listed = sync.listed
        /\ sync'.granted = sync.granted /\ since' = since
    BY <1>1, <1>t DEF NextRole, SyncState
  <2>2. \A u \in User : ~(u <= sync.token)
    BY <1>i, <2>1, Constants DEF PhaseInv, FirstPage
  <2>3. PhaseInv'
    BY <1>i, <2>1 DEF PhaseInv
  <2>4. SeenInv'
    BY <1>i, <2>1, <2>2 DEF SeenInv, Kept
  <2> QED BY <2>1, <2>3, <2>4
<1>2. ASSUME NEW x \in sync.doing, NEW p \in ListUsers(FilterFor(x), sync.token),
             Grants(x, p)
      PROVE  PhaseInv' /\ SeenInv' /\ since' = since
  <2>1. x \in KnownRole /\ x \in Role /\ sync.pc = "grants"
    BY <1>i, Constants DEF PhaseInv
  <2>2. FilterFor(x) \in Query /\ FilterFor(x) \in {AnyRole, x}
    BY <2>1, FilterType
  <2>3. p \in Page /\ PassesOverNone(p, FilterFor(x), sync.token) /\ Held(p)
    BY <1>t, <2>2, Pages, ThisPagePasses, ThisPageHeld
  <2>4. /\ sync.doing = {x} /\ sync'.pc = "grants" /\ sync'.todo = sync.todo
        /\ sync'.doing = IF p.next = NoMore THEN {} ELSE {x}
        /\ sync'.token = p.next /\ sync'.listed = sync.listed
        /\ sync'.granted = sync.granted \cup GrantsOn(x, p) /\ since' = since
    BY <1>2, <1>t, <2>1 DEF Grants, SyncState, NextPage
  <2>5. GrantsOn(x, p) \subseteq User \X KnownRole
    BY <2>1 DEF GrantsOn, On
  <2>6. PhaseInv'
    BY <1>i, <2>1, <2>4, <2>5 DEF PhaseInv, NoMore, FirstPage
  <2>7. ASSUME NEW u \in User, Kept(u, x), u \in On(p)
        PROVE  <<u, x>> \in GrantsOn(x, p)
    <3>1. p.role[u] \in Written /\ p.role[u] # Gone
      BY <2>3, <2>7 DEF On, Page
    <3>2. normalizeRampRole(p.role[u]) = x
      BY <2>3, <2>7, <3>1, HasType DEF Held, Kept
    <3> QED BY <2>7, <3>2 DEF GrantsOn
  <2>8. ASSUME NEW u \in User, Kept(u, x), p.next = NoMore \/ u <= p.next
        PROVE  <<u, x>> \in sync'.granted
    <3>1. u <= sync.token \/ u \in On(p)
      BY <2>1, <2>2, <2>3, <2>8, PageSeen
    <3>2. u <= sync.token => <<u, x>> \in sync.granted
      BY <1>i, <2>1, <2>4, <2>8 DEF SeenInv, PhaseInv
    <3> QED BY <2>4, <2>7, <2>8, <3>1, <3>2
  <2>9. SeenInv'
    <3> SUFFICES ASSUME NEW u \in User, NEW r \in Role, Kept(u, r)'
                 PROVE  /\ u \in sync'.listed
                        /\ r \in KnownRole \ sync'.todo =>
                             (r \notin sync'.doing \/ u <= sync'.token =>
                                <<u, r>> \in sync'.granted)
      BY <2>4 DEF SeenInv
    <3>1. Kept(u, r)
      BY <2>4 DEF Kept
    <3>2. u \in sync'.listed
      BY <1>i, <2>1, <2>4, <3>1 DEF SeenInv
    <3>3. CASE r = x
      BY <2>4, <2>8, <3>1, <3>2, <3>3
    <3>4. CASE r # x
      BY <1>i, <2>1, <2>4, <3>1, <3>2, <3>4 DEF SeenInv
    <3> QED BY <3>3, <3>4
  <2> QED BY <2>4, <2>6, <2>9
<1>3. ASSUME GrantsDone PROVE PhaseInv' /\ SeenInv' /\ since' = since
  <2>1. /\ sync.pc = "grants" /\ sync.doing = {} /\ sync.todo = {}
        /\ sync'.pc = "done" /\ sync'.doing = {} /\ sync'.todo = {}
        /\ sync'.token = sync.token /\ sync'.listed = sync.listed
        /\ sync'.granted = sync.granted /\ since' = since
    BY <1>3, <1>t DEF GrantsDone, SyncState
  <2>2. PhaseInv'
    BY <1>i, <2>1 DEF PhaseInv
  <2>3. SeenInv'
    BY <1>i, <2>1 DEF SeenInv, Kept
  <2> QED BY <2>1, <2>2, <2>3
<1> QED BY <1>1, <1>2, <1>3

LEMMA NextKept == TypeOK /\ HeldInv /\ KeptInv /\ [Next]_vars => KeptInv'
<1> SUFFICES ASSUME TypeOK, HeldInv, KeptInv, [Next]_vars PROVE KeptInv'
  OBVIOUS
<1>t. /\ sync.token \in Token /\ sync.doing \subseteq Role
      /\ cache \in [Query -> [Token -> Page \cup {Uncached}]]
      /\ AnyRole \in Query /\ FirstPage \in Token
  BY Constants DEF TypeOK, SyncState, Query
<1>i. CachedPass /\ PhaseInv /\ SeenInv
  BY DEF KeptInv
(* Steps that forget cached pages, or add to the histories.                *)
<1>c. ASSUME \A q \in Query, t \in Token : cache'[q][t] \in {cache[q][t], Uncached},
             \A u \in User : since[u] \subseteq since'[u]
      PROVE  CachedPass'
  <2>1. ASSUME NEW q \in Query, NEW t \in Token, cache'[q][t] # Uncached,
               NEW u \in User, NEW r \in Role, Kept(u, r)'
        PROVE  /\ cache'[q][t] = cache[q][t] /\ cache[q][t] # Uncached
               /\ PassesOverNone(cache[q][t], q, t) /\ Kept(u, r)
    <3>1. Kept(u, r)
      BY <1>c, <2>1, KeptBefore
    <3> QED BY <1>c, <1>i, <2>1, <3>1 DEF CachedPass
  <2> QED BY <2>1 DEF CachedPass, PassesOverNone
<1>e. \A q \in Query, t \in Token : Empty[q][t] = Uncached
  BY DEF Empty
<1>s. ASSUME sync' = sync, \A u \in User : since[u] \subseteq since'[u]
      PROVE  PhaseInv' /\ SeenInv'
  <2>1. PhaseInv'
    BY <1>i, <1>s DEF PhaseInv
  <2>2. \A u \in User, r \in Role : Kept(u, r)' => Kept(u, r)
    BY <1>s, KeptBefore
  <2> QED BY <1>i, <1>s, <2>1, <2>2 DEF SeenInv
<1>1. ASSUME NEW p \in ListUsers(AnyRole, FirstPage), Validate(p) PROVE KeptInv'
  <2>1. CachedPass'
    BY <1>1, <1>t, FetchPasses DEF Validate
  <2> QED BY <1>1, <2>1, ListingKept DEF KeptInv
<1>2. ASSUME ListRoles PROVE KeptInv'
  <2>1. CachedPass'
    BY <1>2, <1>c DEF ListRoles
  <2> QED BY <1>2, <2>1, ListingKept DEF KeptInv
<1>3. ASSUME NEW p \in ListUsers(AnyRole, sync.token), ListUsersPage(p) PROVE KeptInv'
  <2>1. CachedPass'
    BY <1>3, <1>t, FetchPasses DEF ListUsersPage
  <2> QED BY <1>3, <2>1, ListingKept DEF KeptInv
<1>4. ASSUME (\E r \in KnownRole : NextRole(r)) \/ GrantsDone PROVE KeptInv'
  <2>1. CachedPass'
    BY <1>4, <1>c DEF NextRole, GrantsDone
  <2> QED BY <1>4, <2>1, GrantsKept DEF KeptInv
<1>5. ASSUME NEW r \in sync.doing, NEW p \in ListUsers(FilterFor(r), sync.token),
             Grants(r, p)
      PROVE  KeptInv'
  <2>1. FilterFor(r) \in Query
    BY <1>t, FilterType
  <2>2. CachedPass'
    BY <1>5, <1>t, <2>1, FetchPasses DEF Grants
  <2> QED BY <1>5, <2>2, GrantsKept DEF KeptInv
<1>6. ASSUME EndSync PROVE KeptInv'
  <2>1. \A q \in Query, t \in Token : cache'[q][t] = Uncached
    BY <1>6, <1>e DEF EndSync
  <2>2. CachedPass'
    BY <2>1 DEF CachedPass
  <2> QED BY <1>6, <2>2, IdleKept DEF EndSync, KeptInv
<1>7. ASSUME FailSync PROVE KeptInv'
  <2>1. CachedPass'
    BY <1>7, <1>c DEF FailSync
  <2> QED BY <1>7, <2>1, IdleKept DEF FailSync, KeptInv
<1>8. ASSUME NEW u \in User, NEW r \in Written, Edit(u, r) PROVE KeptInv'
  <2>1. /\ \A v \in User : since[v] \subseteq since'[v]
        /\ cache' = cache /\ sync' = sync
    BY <1>8 DEF Edit, TypeOK
  <2> QED BY <1>c, <1>s, <2>1 DEF KeptInv
<1>9. ASSUME NEW q \in Query, NEW t \in Token, Expire(q, t) PROVE KeptInv'
  <2>1. cache' = [cache EXCEPT ![q] = [cache[q] EXCEPT ![t] = Uncached]]
    BY <1>9, <1>t DEF Expire
  <2>2. \A x \in Query, y \in Token : cache'[x][y] \in {cache[x][y], Uncached}
    BY <1>t, <2>1
  <2> QED BY <1>9, <1>c, <1>s, <2>2 DEF Expire, KeptInv
<1>10. ASSUME Restart PROVE KeptInv'
  BY <1>10, <1>c, <1>e, <1>s DEF Restart, KeptInv
<1>11. CASE UNCHANGED vars
  BY <1>11, <1>c, <1>s DEF vars, KeptInv
<1> QED BY <1>1, <1>2, <1>3, <1>4, <1>5, <1>6, <1>7, <1>8, <1>9, <1>10, <1>11 DEF Next

(* However Ramp cuts its pages while others join, leave and change role,   *)
(* whichever pages the cache answers, and whether Ramp filters by the role *)
(* or the connector compares: a user who keeps a role is reported with it, *)
(* and with no other.                                                      *)
THEOREM KeptRolesReported == Spec => []KeptRoleReported
<1>1. Spec => [](TypeOK /\ HeldInv /\ KeptInv)
  BY InitTypes, NextTypes, InitHeld, NextHeld, InitKept, NextKept, PTL DEF Spec
<1>2. TypeOK /\ HeldInv /\ KeptInv => KeptRoleReported
  <2> SUFFICES ASSUME TypeOK, HeldInv, KeptInv, sync.pc = "done",
                      NEW u \in User, NEW r \in Role, since[u] = {r}
               PROVE  /\ u \in sync.listed
                      /\ {x \in Role : <<u, x>> \in sync.granted} = {r} \cap KnownRole
    BY DEF KeptRoleReported
  <2>1. u \in sync.listed /\ (r \in KnownRole => <<u, r>> \in sync.granted)
    BY DEF KeptInv, SeenInv, PhaseInv, Kept
  <2>2. ASSUME NEW x \in Role, <<u, x>> \in sync.granted PROVE x = r /\ x \in KnownRole
    <3>1. x \in since[u]
      BY <2>2 DEF HeldInv, GrantedRoleWasHeld
    <3>2. x \in KnownRole
      BY <2>2 DEF KeptInv, PhaseInv
    <3> QED BY <3>1, <3>2
  <2> QED BY <2>1, <2>2
<1> QED BY <1>1, <1>2, PTL
=============================================================================
