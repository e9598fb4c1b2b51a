# baton-ramp: TLA+ models, model checking and proofs

baton-ramp is a connector between ConductorOne and Ramp's Developer API. It
syncs users, roles, vendors and vendor agreements, grants and revokes vendor
ownership, creates and (de)activates users, and turns Ramp's audit log into
change events. This directory holds TLA+ modules for the parts of it where
ordering, caching and failure matter, the TLC configurations that check them
and the TLAPS proofs. Paths below are relative to the repository root.

Run things from this directory:

    tlc -workers 2 -config FeedSafety.cfg MCAuditEventFeed.tla
    tlapm AuditEventFeedLossProofs.tla

`PROJECT.json` lists the runs, the properties each checks, mutants that break
each property, the source lines behind each definition, the hazards of the code
and the theorems.

## 1. Inventory

Three parties act on the same data: the *platform* (baton-sdk's syncer and task
runner, driven by ConductorOne), the *connector process* (this repository, on
top of baton-sdk's `connectorbuilder` and `uhttp`), and *Ramp*. The connector
calls Ramp over HTTP; the platform calls the connector's builders, several calls
at a time; people change Ramp at any moment. The connector persists nothing:
what it remembers between calls is in memory (builder maps, the HTTP cache) or
in the opaque cursor the platform stores for it.

| Component | State | Operations | What must be right |
|---|---|---|---|
| Audit event feed (`pkg/connector/audit_event_feed.go`, `pkg/client/audit_log.go`) | none of its own; the cursor (`eventPageToken`) kept by the platform; cached audit-log pages | `ListEvents`, `ListAuditLogEvents`, mapping an audit entry to a resource | no change is passed over unreported, none is reported twice, the early stop loses nothing, every change is reported in the end |
| Vendor ownership (`pkg/connector/vendors.go`, `pkg/client/vendors.go`) | owner of each vendor in Ramp; cached `GetVendor` responses | `Grant`, `Revoke` = GET, decide, PATCH; the SDK retries | what a call reports is true; a revoke clears only what its user was found to own |
| Vendor sync (same files) | the builder's `vendorOwners` map under a lock; cached list pages | `List`, `Get`, `Grants`, for full and targeted syncs | owners reported are no older than the sync that reports them warrants |
| Vendor agreement sync (`vendor_agreements.go`, `agreements.go`) | the `agreementOwners` map; cached `GetVendorAgreement` answers | `List` (uncached POST), `Get`, `Grants` | a full sync reports every agreement as it was while it ran, owners included; a targeted one nothing from before the last full sync |
| Role sync (`roles.go`, `client/users.go`) | cached user pages | `List` (static), `Grants` page by page, filtered by role or not | a user who keeps a role is reported with it and no other |
| Users and account creation (`users.go`, `client/users.go`) | users and invitations in Ramp | `List`, `CreateAccount` = look up by e-mail, then invite | one person gets one account |
| User lifecycle actions (`actions.go`) | user status in Ramp | `disable_user`, `enable_user`, one PATCH each | the reported success is Ramp's |
| OAuth scope classes (`token_scope.go`, `client.go`) | one token source per class, with the token it holds | choose a token per request, classify failures | a missing write scope fails only what needs it, no request carries a write scope it does not need, no refusal sticks |
| Startup and configuration (`main.go`, `connector.go`, `config/`) | flags | which auth method, syncers, feeds and scopes are on | the credentials used are those configured |
| Money, dates, traits (`models.go`, `vendor_agreements.go`, `vendors.go`) | none | pure functions | amounts are rounded to the nearest minor unit, a date is the instant Ramp wrote, no name is lost |
| HTTP client (`helpers.go` over `uhttp`) | response cache, in memory | a GET's 200 is cached, `query` reads the cache, `queryUncached` passes over it (and leaves its answer there), PATCH and POST never invalidate | see the users of the cache |
| Generated configuration (`conf.gen.go`) | none | none | generated code, not modelled |

Hard behaviours, which decide what is modelled first:

* **Pagination against a growing log.** `ListEvents` reads a newest-first log
  through page tokens over several polls. The first page's newest event becomes
  the mark of the cursor while the older pages are still to be read, and new
  events keep arriving, at the mark's own second too.
* **A read-through cache nobody invalidates.** Every GET with status 200 is
  cached for a TTL (an hour by default). A hit is written back, which starts
  the TTL anew; writes do not invalidate. The cache is cleared by `Cleanup` at
  the end of a *successful* full sync, by a restart, and by nothing else.
* **Read, decide, write** with other writers in between, a lost response, the
  SDK's retry of the whole call, and a PATCH that reaches Ramp after it was
  given up on.
* **A map filled by one call and read by another.** `vendorOwners` outlives the
  sync that filled it, is reset and refilled entry by entry, and is lost in a
  restart that a sync survives. So is `agreementOwners`, whose list is not
  cached but whose page fails as a whole when one agreement cannot be built.
* **Tokens that outlive what they were issued for.** A source keeps its token
  until it expires; the app's scopes and credentials change under it.

## 2. Modules

| Module | Contents |
|---|---|
| `AuditEventTarget` | pure: which resource an audit entry reports (`shouldSkipAuditEvent`, `toResourceChangeEvent`, URL parsing) |
| `ChangeFeed` | abstract: what any event feed promises the platform |
| `AuditEventFeed` | `ListEvents`, its cursor, Ramp's paged log, the cache, the platform's polls and full syncs; extends `AuditEventTarget`, implements `ChangeFeed` |
| `AuditEventFeedProofs`, `AuditEventFeedLossProofs` | theorems about the feed |
| `VendorOwner` | `Grant` and `Revoke` |
| `VendorOwnerProofs` | theorems about them |
| `SyncReport` | abstract: what a full sync promises the platform about things that change while it runs |
| `VendorSync` | `List`, `Get`, `Grants`; extends and composes with `VendorOwner`, implements `SyncReport` |
| `VendorSyncProofs` | theorems about it; extends `VendorOwnerProofs`, whose lemmas about the calls it uses |
| `RampValues` | pure: dates, money, renewal status, names and the traits built of them |
| `AgreementSync` | `List`, `Get`, `Grants` of vendor agreements; extends `RampValues`, implements `SyncReport` |
| `AgreementSyncProofs` | theorems about it |
| `UserAccounts` | `CreateAccount`, `disable_user`, `enable_user` |
| `UserAccountsProofs` | theorems about them |
| `RoleSync` | `List` of users, `List` and `Grants` of roles, over cached pages of users |
| `RoleSyncProofs` | theorems about them |
| `ScopedClient` | the start of the process, the token of each request, the cache before it |
| `ScopedClientProofs` | theorems about them |
| `MCAuditEventFeed`, `MCVendorSync`, `MCAgreementSync`, `MCUserAccounts`, `MCRoleSync`, `MCScopedClient` | constants for TLC |

### AuditEventTarget

A URL is its sequence of `/`-separated segments, each a name with a flag for a
`?` or `#` after it; that is all `strings.Index(url, "/contracts/")`,
`strings.IndexAny` and `url.PathUnescape` can tell apart. No property depends on
how a URL is read; the feed's depend on which entries report nothing at all.
Event types are classes: in the table, one of the two deletions left out of it, or other.

### AuditEventFeed

| Variable | In the code |
|---|---|
| `log`, `clock` | Ramp's audit log, in arrival order, and the time |
| `startAt` | the `earliestEvent` argument: the time of the last full sync |
| `cursor` | `eventPageToken`, field by field, as last checkpointed by the platform |
| `cache` | the `uhttp` cache, per page token of the audit-log URL |
| `undecodable` | the page tokens whose cached answer is not a page of events |
| `syncedTo`, `delivered`, `redelivered`, `cutOff` | history, read by properties only |

An event is its position in the log. Its audit ID, if it has one, is unique, so
the position stands for it. Times are seconds, 0 is Go's zero time. A page is
any run of at most `PageSize` events behind its token: Ramp may cut pages where
it likes. `Poll(p)` is the whole of `ListEvents` for page `p`: floor selection,
filtering, the new mark and its IDs, the early stop, the next cursor. `Floor`,
`FloorIDs`, `BehindFloor`, `MaxEventTime`, `MaxEventIDs`, `PageDescending`,
`PageAllAtOrBeforeFloor` carry the code's names. `PollLost` is the same call
whose response is not checkpointed; `Expire` a cached page that ages out or a
restart; `FullSync` a successful sync, which moves `startAt` and clears the
cache. `PollFails` is a 200 whose body does not decode
(`flattenAuditEvents`), or that holds the null entry `ListEvents` dereferences,
which the SDK's server turns into a failed call: the cursor stays, but the
answer is cached as any page is, and every retry reads it there until it
expires. Any other error leaves cursor and cache as they were and is no step.

`InOrder` says no event reaches the log with a time in the past; `Listing` how
Ramp orders its list. The code assumes, and cannot enforce, `newest_first`
and `InOrder`; runs and theorems say where they rest on them.

### VendorOwner

`call[c]` is a `Grant` or `Revoke` under way: `get` (GetVendor not yet
answered), `answered` (Ramp or the cache has answered, the response is on its
way), `patch`, `patched` (Ramp has carried out the PATCH, its response is on its
way), or an outcome. `RequestFails` is any failed request, before or after Ramp
handled it: the SDK runs the call again from its start at most `MaxRetries`
times. `LateRequests` lets a PATCH given up on take effect later. `held` is
history: the owners the vendor has had during the call and, with the cache on,
those in responses the connector had when it began (`Known`).

### VendorSync

A full sync lists page by page (`ListVendors` asks, `ListReset` caches and
resets the map on the first page, `ListFill` writes one entry under its lock and
builds the resource, which fails the page for a vendor without a name: it is
asked for again, `PageAgain`, while the map keeps what was written), then reads `Grants` vendor by vendor: the map's entry, else `GetVendor`. A
targeted sync is `Get`, then `Grants`. `ConnectorRestart` empties maps and
caches; the platform repeats the pending request of the full sync. `FailSync`
clears nothing. `since[v]` is history: the owners of `v` since the last full
sync ended. `recent[v]` is what `since[v]` was at the end of the last full sync
that nobody read a vendor across (`NobodyReads`), and every owner since.

### SyncReport

What the platform may rely on in a full sync, without pages, maps or caches:
each thing is reported at most once (`Report`), with a value it has had since a
known `window` began; the sync is complete (`Complete`) only when everything
that was there throughout has been reported; a failed sync leaves nothing
(`Abandon`). `VendorSync` implements it for the owners of vendors, its window
beginning when the last full sync ended; `AgreementSync` for the owners of
agreements, which come and go, its window beginning with the sync itself
(`Renew`).

### RampValues and AgreementSync

`RampValues` has one operator per conversion, under the code's names: what
`parseRampDate`, `MinorUnits`, `mapRampRenewalStatus`,
`buildAgreementTraitOption`, `vendorAgreementListItemFromGet` and
`buildVendorTraitOption` return, errors (`Refused`) and left-out fields
(`Omitted`) included. A written date is its form and its instant; an amount is a
whole number of thousandths, so that ties and signs are there and only the error
of binary floating point is left out.

`AgreementSync` has the shape of `VendorSync`, with what is different here.
`ListVendorAgreements` is an uncached POST whose pages Ramp cuts where it likes
(or sends whole, as a bare array); `ListFill` writes one owners entry under its
lock and then builds the resource, and a resource that cannot be built fails the
page, which the platform asks for again (`sync.pc` back to `list`) while the map
keeps what was written. `Grants` reads the map (`GrantsFromMap`) or the cached
GET (`GrantsAsk`, `GrantsFetched`). `TargetGet` is a 404 when the agreement is
gone. Agreements are numbered in Ramp's listing order, and `Edit` adds, changes
or removes one at any time. `since[a]` is history: what `a` was since the full
sync under way began; `recent[a]`, since the last complete full sync began that
no targeted sync was under way at the end of.

### ScopedClient

`Start` is `getConnector`: `AutoSelectAuthMethod`, then the validation of the
method's fields, then `TokenSources`. A call (`call[c]`) is answered from the
cache (`AnswerFromCache`) before any token is asked for, or takes its class's
token (`AskToken`): the one held, a new one with `RequestedScopes`, or a refusal
`classifyTokenError` names. `RampAnswers` accepts the token as it then stands.
A client built from an access token has one source (`forClass`). `Stop` is a
restart, with other settings perhaps; `ChangeScope` and `ChangeCredentials` are
an administrator in Ramp. `lacked` is history: the scopes the app has been
without at some time of the call.

### UserAccounts

A call is a slot of `Call`; `begun` numbers the calls, and a creation's number
is its idempotency key. `CreateAccount` checks its arguments (`wellFormed`
stands for names and role), `FindUserByEmail` is the look-up, never answered from the cache, and the
case-insensitive comparison, `CreateUser` the deferred POST, accepted by Ramp as
a task that `CarryOut` turns into an account later or refuses. `PatchUser` is
the deactivation or reactivation. `Returns` brings a response, `RequestFails`
any failure before or after Ramp handled the request: none of these calls is
retried by the SDK, but a creation may still be carried out and a PATCH applied
(`LatePatch`). `SignUp` and `Edit` are people at work in Ramp. Ramp's e-mail
filter is assumed to return every account with the address on its first page,
and perhaps others; `NotFound`, which `CreateAccount` takes for "no such user",
is an empty answer. `key`, `born` and `held` are history.

### RoleSync

A full sync as the platform runs it: `Validate`, which caches the first page of
users, `ListRoles`, `ListUsersPage` to the last page, then `Grants` of each role
page by page (`NextRole` in any order). `FilterFor` chooses the role's filter or
none. A page, once fetched, is answered from `cache` per filter and token.
`EndSync` clears the cache, `FailSync` does not, `Restart` clears it in the
middle of a sync, which goes on. `since[u]` is history: the roles of `u` since
the last full sync ended. Assumed of Ramp: a page token is a position in a
listing whose order does not change, so that joining and leaving does not shift
other users between pages, and the role filter disregards the spelling of a
role. The role of a user is kept as written, and `normalizeRampRole` applied
where the code does.

## 3. Runs

| Run | Question | Result |
|---|---|---|
| `feed_safety` | Is a change ever passed over (`NoLostEvent`), reported twice (`NoRedelivery`), cut off by the early stop (`EarlyStopSound`), when polls are repeated, answers lost or undecodable, and some events have no ID or no readable time? Does the feed implement `ChangeFeed`? | holds, for a newest-first log in time order |
| `feed_liveness` | Is every change reported in the end (`EventuallyKnown`)? | yes, cached failures included, if polls are further apart than the cache's TTL |
| `feed_stale` | And if they are closer together? | violated: each poll renews the cached first page |
| `vendor_outcome` | Was what `Grant` and `Revoke` report true (`OutcomeWasTrue`), and did the user a revoke clears own the vendor (`RevokeOnlyOwned`), at some moment of the call or of a response the connector had when it began, with concurrent calls, edits, retries, late PATCHes? | holds, with the cache on |
| `vendor_quiet` | Does what a call reports stay true until the next call (`OutcomeHolds`), when one call runs at a time? | holds with the cache off |
| `vendor_stale_read` | And with the cache on? | violated: the second call decides on the vendor as the first read it, before its PATCH |
| `vendor_sync` | Is an owner reported by a full sync ever older than the end of the full sync before it (`SyncReportsRecentOwner`)? How old is what calls and targeted syncs read at most (`ReadsRecentOwner`)? Do full syncs implement `SyncReport`? | no, with cache, restarts, failed and targeted syncs; no older than the sync before the last that ended with no read under way; yes |
| `vendor_targeted` | Does a targeted sync report an owner the vendor had since it was asked for? | violated: the map of the last `List` answers |
| `user_accounts` | Can an address get two accounts (`SecondAccountOverlaps`)? Is what a call reports true (`ReportsTrue`)? | a second account comes only of a call that began before the first account was there; reports are true |
| `role_sync` | Is a user who keeps a role listed and granted it, and no other (`KeptRoleReported`)? Is any grant of a role its user did not have (`GrantedRoleWasHeld`)? | holds, relative to the end of the last full sync |
| `agreement_sync` | Does a full sync report every agreement that was there all along (`ReportComplete`), as it was during that sync (`ResourceFaithful`), with owners of that time (`ReportsOwnersOfThisSync`)? Can a targeted sync report anything older than the last complete full sync (`TargetReportsRecent`)? Does a vendor keep its names (`VendorNamesKept`)? Do full syncs implement `SyncReport`? | holds, through edits, refused agreements, restarts and failures |
| `token_scopes` | Are the credentials those configured (`RunsAsConfigured`)? Does any request fail for a scope it does not need (`ScopesIndependent`), or carry a write scope it does not need (`LeastPrivilege`)? Does an operation work again once the app is entitled to it (`WorksAgain`)? | holds |

Bounds, and why they are enough:

* Feed: 3 events, 2 seconds, pages of at most 2. Three events make a stream of
  two pages or three, a page boundary inside a second, a new event at the mark
  while older pages are unread, and an event behind the early stop; two seconds
  make both "older" and "same second" occur, on either side of a full sync. The
  mutants listed in `PROJECT.json`, each a plausible slip in `ListEvents`, are
  found within these bounds. The theorems drop the bounds.
* `MixedRecords` has a reported change, a deletion the feed leaves out and an
  entry with neither a timestamp that parses nor an ID; `ChangeRecords` only
  reported changes. `MaxFailed` counts answers that do not decode and are cached
  at the same time: one or two are enough to stick on the first page, on a later
  one, or on both. That nothing is reported twice with late arrivals, other
  listing orders and changes without an ID rests on `NeverRedelivered`. The
  instance of `feed_safety` satisfies `NewestFirst`, the hypothesis of the other
  theorems about the feed.
* VendorOwner: one vendor, two users, two overlapping calls, one retry, one
  edit (`vendor_outcome`); two vendors and four calls in a row
  (`vendor_quiet`). Two calls suffice for every interleaving of one read,
  decide, write sequence with another writer.
* VendorSync: two vendors on two pages, two full syncs, one grant or revoke,
  one retry, any number of targeted syncs, restarts and failures. Two syncs are
  what it takes for anything to be carried over from one into the next, and a
  call that outlives a sync for an old owner to be cached after its end.
* AgreementSync: two agreements, any cut into pages, two full syncs, one edit,
  any number of targeted syncs, restarts, expiries and failures. The three
  contents are an ordinary one, one with everything Ramp may leave out or write
  differently (no owner, no payee name, an unknown status, a negative amount
  that is a tie, no conversion rate), and one that no resource can be built of.
  The theorems drop the bounds.
* ScopedClient: one thread, an operation of each class and one read that is
  never answered from the cache, five settings, an app with every scope or none to write, two
  changes, one failure. One thread is enough because calls share only tokens and
  cache, which change between the steps of a call anyway; the theorems are for
  any number.
* UserAccounts: two overlapping calls, two accounts, two spellings of one
  address and another person's, one edit. Two accounts are what a second account
  takes, and the theorems drop the bounds. The call slots are symmetric.
* RoleSync: two users on two pages, two syncs (the first may fail and leave its
  pages behind), two changes, a role with a filter and two spellings, one
  without, one not on the list. One user who keeps a role and one who moves
  around them make every mix of pages from before and after a change.

All runs use `Deadlock` checking: `FullSync` or a restart is always possible.

**Fairness.** `Polled` is strongly fair: the platform polls for ever
(`pkg/connector/audit_event_feed.go:42-45`), and while a cached answer that does
not decode disables `Polled`, the answers behind it are assumed to decode again
and again. Weak fairness of `Expire` is
assumed only when `SlowPolls`: `uhttp`'s client stores a response again when it
was a cache hit, and its cache renews the TTL on a write, so a page polled more
often than once per TTL never expires. No fairness is assumed of full syncs,
restarts, Ramp or the clock. Responses are lost any number of times, but
`Polled`, the poll that is checkpointed, happens again and again.

`ScopedClient` assumes that a process that can start is started (`Start`), that
requests are answered and calls end (`RampAnswers`, `Returns`: HTTP requests
have a timeout), that tokens and cached answers expire (`TokenExpires`,
`Expire`), and that the platform asks for every operation again and again
(strong fairness of `Calls(op)`, as a thread busy with another operation
disables it now and then). Nothing is assumed of the app, of the credentials or
of restarts. As in the feed, that cached answers do expire needs requests further
apart than the TTL, or full syncs that succeed.

## 4. Findings

* `feed_stale`: the first page of the audit log is read through the cache
  (`pkg/client/audit_log.go:55`), so polling more often than the TTL reports
  nothing new until a full sync. `FindUserByEmail` shows the alternative,
  `queryUncached`.
* `vendor_stale_read`: a call caches the vendor it read before its own PATCH. TLC
  revokes a vendor's owner and grants the vendor to the same user again: the
  `Grant`, within the TTL, answers `GrantAlreadyExists` while nobody owns the
  vendor. A `Revoke` after a `Grant` is the mirror image: it answers
  `GrantAlreadyRevoked` and leaves the owner. Both traces are of the same length,
  and TLC may print either.
* `vendor_targeted`: `Grants` prefers the map over Ramp whoever asks, so the
  targeted syncs the event feed triggers re-read the owner of the last full
  sync. `ReadsRecentOwner` bounds how old that owner can be.

Some limits are worth knowing, though no run counts them as violations.

* *Feed.* Events behind the floor are dropped as seen, whether they were or not:
  if Ramp's log can take an event late, it is lost until a full sync (set
  `InOrder` to `FALSE` in `FeedSafety.cfg`). An event without an audit ID at the
  floor's second counts as seen, so a page of such events ends a poll early with
  unread ones of that second behind it, and a change without an ID may be passed
  over. `EarlyStopSound` also fails if Ramp lists events of one second oldest
  first over several pages (set `Listing` to `"ties_oldest_first"` and
  `PageSize` to 1). The early stop takes a page of equal times for a descending
  one.
* *Vendor owners.* `Revoke` compares, then clears unconditionally: with calls
  that overlap, or an owner changed in Ramp between its read and its PATCH, it
  clears an owner it was not asked to revoke. `RevokeOnlyOwned` is what remains
  true. A PATCH given up on may undo a later call, and makes `OutcomeHolds` fail
  (set `LateRequests` to `TRUE` in `VendorQuiet.cfg`).
* *Accounts.* `SecondAccountOverlaps` is all the code gives: two overlapping
  creations for one address do make two accounts unless Ramp refuses the second,
  since each carries a key of its own. So does a creation asked for again while
  the first is still deferred, which the property counts as an overlap.
* *Roles.* A user who changes role between a failed sync and the next may be
  reported with both roles, because the failed sync's pages are still cached;
  nobody who stays put is affected.
* *Agreements.* One agreement with a date that does not parse, with a term that
  ends before it starts or before its last termination date, or one whose vendor
  has no ID or no name, fails the whole page and with it every full sync, though
  `docs/api-support-matrix.md:176-178` has each date left out unless
  "parseable". A last termination date written as a timestamp on the day a
  date-only term ends is after that term's end and refused: a day is midnight
  UTC, and what the comment at `pkg/connector/vendor_agreements.go:263-266` says
  of both forms, "round-trip to a midnight-UTC time.Time", holds of days only.
* *Scopes.* With `audit-log-events` on, every class asks for the audit log's
  scope, so an app without it gets no token for anything. A refused scope on a
  write is reported as the write scope's even when a read scope is missing.
  `Validate` may be answered from the cache, so revoked credentials validate
  until the page expires. A token revoked before its expiry is reused, and each
  request refused, until then.

## 5. Proofs

All theorems hold for every value of the constants their module's `ASSUME`
allows: any records, log length, clock, page size, number of calls, users,
vendors, retries.

| Theorem | Statement | Argument |
|---|---|---|
| `AuditEventFeedProofs!TypeCorrect` | `Spec => []TypeOK` | inductive as stated |
| `AuditEventFeedProofs!NeverRedelivered` | `Spec => []NoRedelivery` | `RedeliveryInv` |
| `AuditEventFeedLossProofs!NothingLost` | `NewestFirst` implies `Spec => []NoLostEvent` | `LossInv` |
| `AuditEventFeedLossProofs!EarlyStopCorrect` | `NewestFirst` implies `Spec => []EarlyStopSound` | `LossInv` |
| `AuditEventFeedLossProofs!FeedImplements` | `NewestFirst` implies `Spec => ImplementsChangeFeed` | step by step, from `LossInv` |
| `VendorOwnerProofs!TypeCorrect` | `Spec => []TypeOK` | inductive as stated |
| `VendorOwnerProofs!OutcomesTrue` | `Spec => []OutcomeWasTrue` | `OutcomeInv` |
| `VendorOwnerProofs!RevokesOnlyOwned` | `Spec => []RevokeOnlyOwned` | `OutcomeInv` |
| `VendorOwnerProofs!OutcomesHold` | `Quiet` implies `Spec => []OutcomeHolds` | `QuietInv` |
| `VendorSyncProofs!SyncTypesCorrect` | `SyncSpec => []SyncTypeOK` | `PhaseInv` |
| `VendorSyncProofs!RecentOwnersReported` | `SyncSpec => []SyncReportsRecentOwner` | `FreshInv` |
| `VendorSyncProofs!ReadsAreRecent` | `SyncSpec => []ReadsRecentOwner` | `RecentInv` |
| `VendorSyncProofs!SyncImplementsReport` | `SyncSpec => ImplementsSyncReport` | step by step, from `FreshInv` and `TodoInv` |
| `AgreementSyncProofs!TypeCorrect` | `Spec => []TypeOK` | `FilledInv` |
| `AgreementSyncProofs!OwnersOfThisSync` | `Spec => []ReportsOwnersOfThisSync` | `FreshInv` |
| `AgreementSyncProofs!NothingMissed` | `Spec => []ReportComplete` | `FilledInv`, `CoverInv` |
| `AgreementSyncProofs!ResourcesDescribe` | `Spec => []ResourceFaithful` | `FreshInv`, lemmas on `RampValues` |
| `AgreementSyncProofs!NamesKept` | `Spec => []VendorNamesKept` | the types, a lemma on `buildVendorTraitOption` |
| `AgreementSyncProofs!TargetsRecent` | `Spec => []TargetReportsRecent` | `RecentInv` |
| `AgreementSyncProofs!SyncImplementsReport` | `Spec => ImplementsSyncReport` | step by step, from `FreshInv`, `CoverInv` and `OnceInv` |
| `RoleSyncProofs!TypeCorrect` | `Spec => []TypeOK` | inductive as stated |
| `RoleSyncProofs!GrantsWereHeld` | `Spec => []GrantedRoleWasHeld` | `HeldInv` |
| `RoleSyncProofs!KeptRolesReported` | `Spec => []KeptRoleReported` | `KeptInv` |
| `ScopedClientProofs!TypeCorrect` | `Spec => []TypeOK` | inductive as stated |
| `ScopedClientProofs!CredentialsAsConfigured` | `Spec => []RunsAsConfigured` | `RunInv` |
| `ScopedClientProofs!RequestsLeastPrivileged` | `Spec => []LeastPrivilege` | `RunInv`, `TokenInv` |
| `ScopedClientProofs!RefusalsDocumented` | `Spec => []ScopesIndependent` | inductive with `TypeOK` |
| `UserAccountsProofs!TypeCorrect` | `Spec => []TypeOK` | `TypeInv` |
| `UserAccountsProofs!SecondAccountsOverlap` | `Spec => []SecondAccountOverlaps` | `SecondInv` |
| `UserAccountsProofs!ReportsAreTrue` | `Spec => []ReportsTrue` | `ReportInv` |

*No redelivery.* That nothing was reported twice says nothing about the next
poll. `RedeliveryInv` adds what a poll relies on: every delivered event is
behind the floor or on the part of the stream already read (`DeliveredNotAhead`),
delivered events at the mark are among its IDs (`DeliveredAtMark`), and cached
pages lie behind their tokens (`CachedPages`). It needs no assumption about the
listing order nor about late events.

*No loss.* `NewestFirst` says Ramp lists newest first, nothing is logged late,
and every event whose timestamp parses has an ID. `LossInv` then has to say what "read so far" means in
the middle of a stream: everything below the floor, or no newer than an ID kept
with it, is settled (`FloorSettled`); so is everything from an ID at the mark
down to the page token (`ReadSettled`); and IDs at a mark leave no gap
(`MarkClosed`, `FloorClosed`), which is what makes it safe to skip events at the
floor's second by ID. `CachedRuns` says a page, however old, is a gapless run of
the log. Each action has a lemma; `Poll` has one per conjunct.
`FeedImplements` maps an arrival to a publication (an event left out to a
stutter), a full sync to the abstract absorption, a poll to a report of what it
delivered; that the poll is allowed to pass what it passes is `NoLostEvent`, and
that nothing it passed comes back into view is `PollKeepsBehind`: the next floor
is no lower, and at the same second the IDs kept with it only grow.

*Outcomes.* `OutcomeInv` ties each step of a call to its history: an answer was
held, a decision taken on an answer is true of it. That alone is not inductive,
because another call may put an answer of its own into the cache before this one
reads it. `ReadsHeld` closes the gap: while a call runs, everything a
`GetVendor` could be answered, by Ramp, from the cache or from a response about
to be cached, is already in its `held`. The same invariant gives
`RevokeOnlyOwned`, as a revoke comes to its PATCH only by an answer naming its
user. With `Caching` off the theorem says the
report was true during the call itself.

*Outcomes that stay true.* `Quiet` is one call at a time, no cache, no PATCH
applied late, nobody else changing owners: each condition is needed, as the
runs and the limits in section 4 show. `QuietInv` follows the vendor's owner
through the call, the state in which Ramp has carried out the PATCH and the
response is still on its way included, which is where a failure sends the call
back to its start to find its own work done.

*Accounts.* `TypeOK` is not inductive: that an invitation carries a key needs
`CallsComplete`, that a call which is about to create has one. `SecondInv` says
why a second account is always an overlap: a call that has decided to create,
and an invitation Ramp has yet to carry out, are no younger than any account
their address has (`CallsOlder`, `TasksOlder`). The look-up establishes it, by
finding no account at all; a new account keeps it for everybody else because
nobody's key exceeds the number of calls begun (`KeysBegun`), which is the new
account's birth. `ReportInv` adds to `ReportsTrue` that a PATCH that was carried
out has been seen by its call.

*Vendor owners in a sync.* `SyncReportsRecentOwner` needs every place an owner
can wait in to be recent: the listed pages (`FreshListed`), the answer in hand
(`FreshAnswer`), and the map, but only once the first page of this sync has
reset it (`FreshMap`); before that it may hold owners of any age, and nobody in
the full sync reads it. The hard part is the cache. When a sync ends, a
`GetVendor` of a call may be on its way and put an old owner into the cache just
after it was cleared, so the cache as a whole is *not* recent. `Grants` reads it
only through a hole in the map, though, and a hole of a vendor listed in this
sync is the work of a restart, which clears the cache and ends the calls and the
targeted sync along with it: `FreshHoles` says that for such a vendor cache,
calls and targeted sync hold recent owners, and `NothingAhead` that while a
page is asked for, again after a restart or a failed page perhaps, no vendor of
it or of a later page counts as listed, so that the reset of a first page makes
no such holes. `CallsDo` is all the proof
needs to know of `VendorOwner`'s steps.

*Age of what is read.* `RecentInv` has no exceptions for the cache because
`recent` is shortened only when no read is under way: then the map was refilled
during the sync (`FreshMap`), the cache is cleared, and nothing is left that
could bring an older owner back. It bounds the age of what `Grant`, `Revoke` and
targeted syncs see, renewed cache entries notwithstanding, by full syncs and not
by the TTL.

*Full syncs as one report.* `SyncImplementsReport` forgets pages, map and cache.
`FreshInv` makes each `Grants` a `Report` of a value in the window. That nothing
is reported twice, and nothing left out at the end, is `TodoInv`: in the grants
phase a vendor is reported exactly when it has left the list of those to do, and
before it, what is on the pages listed so far is on that list. A page repeated
after a restart or a failure adds nothing to it. For agreements, `OnceInv` and `CoverInv` say the same
of a list whose pages Ramp cuts at will and whose members come and go.

*Agreements.* `FilledInv` says what a half-filled page has left behind: entries
no longer to be filled are in the map and could be built. With it `CoverInv`
follows the cursor: agreements before it that were there all along have their
resources, those of the page are in its answer. `FreshInv` is the argument of
`VendorSync` with a shorter memory, the start of *this* sync, which the uncached
list allows; the cache enters only through holes again. `RecentInv` needs no
such exceptions: `recent` is shortened only at the end of a complete full sync,
which has refilled the map, clears the cache, and counts only if no targeted
sync is under way, so whatever is kept is recent.

*Roles.* `HeldInv`: cached pages show users with roles they had. `KeptInv`:
a page, however old, passes over nobody who kept a role its filter lets through
(`CachedPass`), so everybody who did and is behind the page token has been seen
(`SeenInv`), where `PhaseInv` says what has been asked for.

*Scopes.* `RunInv` says a process runs on what its settings select; `TokenInv`
that each source holds, and each request carries, exactly its class's scopes,
which is what an expiry, a refusal or another class's token must not upset.

## 6. Only model-checked

`EventuallyKnown` and `WorksAgain`: liveness is outside the prover's reach. Every
other property of the passing runs is a theorem. The three violations are runs
of TLC.

## 7. Plan

In this order:

1. `OutcomeWasTrue` in the composition with syncs, where the cached vendors a
   call decides on are also read by full and targeted syncs, as a theorem of
   `VendorSync`. With histories for the answers syncs have in hand its smallest
   interesting instance has several million states.
2. Role syncs as an implementation of `SyncReport`, with memberships for items
   and a whole page for a report.
3. The shape of an audit-log body (`flattenAuditEvents`: nested batches, nulls)
   as a pure function against a reference definition.
4. Which syncers `sync-resource-types` leaves, against what the other syncers
   and the feed refer to.

## 8. Not modelled

Logging, wording and layout; the JSON shapes of Ramp's responses beyond the
fields decisions depend on; the binary floating-point error of an amount; the
`sync-resource-types` filter; rate-limit annotations, which the SDK consumes
(the client's `rateLimit` field is written without a lock and never read);
generated configuration; vendored code other than the cache, retry and cleanup
behaviour named above, which is modelled from how this code meets it and marked
external in `PROJECT.json`.
