--------------------------- MODULE AuditEventFeed ---------------------------
(***************************************************************************)
(* The vendor audit event feed: auditEventFeed.ListEvents                  *)
(* (pkg/connector/audit_event_feed.go) polled by the platform, against     *)
(* Ramp's paginated audit log read through the client's cached GETs.       *)
(*                                                                         *)
(* An event is its position in the log, which is its arrival number; its   *)
(* audit ID, when it has one, is unique and stands for the position.  Time *)
(* 0 is Go's zero time, page token 0 the empty token.  A page token names  *)
(* the last event of the page before.                                      *)
(***************************************************************************)
EXTENDS AuditEventTarget, FiniteSets, FiniteSetsExt

CONSTANTS
    Record,       \* the audit records Ramp may log
    Listing,      \* the order in which Ramp lists the log
    InOrder,      \* TRUE iff no event reaches the log late
    PageSize,     \* most events on one page
    MaxEvents,    \* bound: length of the log
    MaxTime,      \* bound: the clock
    MaxFailed,    \* bound: undecodable answers in the cache at once
    Uncached,     \* no cached page
    SlowPolls     \* TRUE iff polls are further apart than the cache's TTL

Positions == 1..MaxEvents
FirstPage == 0
NoMore    == 0
Tokens    == 0..MaxEvents
ZeroTime  == 0
Times     == 0..MaxTime
Page      == [items : SUBSET Positions, next : Tokens]

ASSUME FeedAssumption ==
    /\ Record \subseteq [hasID : BOOLEAN, parses : BOOLEAN, entry : AuditEntry]
    /\ Listing \in {"newest_first", "ties_oldest_first", "oldest_first"}
    /\ InOrder \in BOOLEAN
    /\ PageSize \in Nat \ {0}
    /\ MaxEvents \in Nat
    /\ MaxTime \in Nat \ {0}
    /\ MaxFailed \in Nat
    /\ Uncached \notin Page
    /\ SlowPolls \in BOOLEAN

VARIABLES
    clock,        \* the time now
    log,          \* Ramp's audit log, in arrival order
    startAt,      \* earliestEvent: the time of the last full sync, or ZeroTime
    syncedTo,     \* history: length of the log at that full sync
    cursor,       \* the platform's checkpoint, an eventPageToken
    cache,        \* the HTTP cache, per page token of the audit-log URL
    undecodable,  \* page tokens whose cached answer does not decode
    delivered,    \* history: events reported by responses that were checkpointed
    redelivered,  \* history: events reported again after that
    cutOff        \* history: reportable events an early stop left unread

vars == <<clock, log, startAt, syncedTo, cursor, cache, undecodable,
          delivered, redelivered, cutOff>>

Event == [time : 1..MaxTime, record : Record]

EventPageToken ==
    [NextPageToken  : Tokens,
     LastEventTime  : Times,
     LastEventIDs   : SUBSET Positions,
     FloorEventTime : Times,
     FloorEventIDs  : SUBSET Positions]

EmptyToken ==
    [NextPageToken  |-> FirstPage,
     LastEventTime  |-> ZeroTime,
     LastEventIDs   |-> {},
     FloorEventTime |-> ZeroTime,
     FloorEventIDs  |-> {}]

TimeOf(i)   == log[i].time
HasID(i)    == log[i].record.hasID
Parses(i)   == log[i].record.parses
Reported(i) == ReportedChange(log[i].record.entry) # NoResource

-----------------------------------------------------------------------------
(***************************************************************************)
(* Ramp's listing.  A page is a non-empty run of at most PageSize events   *)
(* after its token (empty only when nothing follows), with the token of    *)
(* the page after it, if there is one.                                     *)
(***************************************************************************)
ListedBefore(i, j) ==
    CASE Listing = "newest_first" ->
            TimeOf(i) > TimeOf(j) \/ (TimeOf(i) = TimeOf(j) /\ i > j)
      [] Listing = "ties_oldest_first" ->
            TimeOf(i) > TimeOf(j) \/ (TimeOf(i) = TimeOf(j) /\ i < j)
      [] Listing = "oldest_first" ->
            TimeOf(i) < TimeOf(j) \/ (TimeOf(i) = TimeOf(j) /\ i < j)

ListedAfter(token) ==
    {i \in DOMAIN log : token = FirstPage \/ ListedBefore(token, i)}

IsPage(p, token) ==
    /\ p.items \subseteq ListedAfter(token)
    /\ Cardinality(p.items) <= PageSize
    /\ p.items = {} => ListedAfter(token) = {}
    /\ \A i \in p.items, j \in ListedAfter(token) :
          ListedBefore(j, i) => j \in p.items
    /\ IF p.items = ListedAfter(token)
         THEN p.next = NoMore
         ELSE /\ p.next \in p.items
              /\ \A i \in p.items : i = p.next \/ ListedBefore(i, p.next)

(* ListAuditLogEvents goes through the cached query: an answer stays what  *)
(* it was when it was first fetched until the cache drops it.              *)
Fetched(token) ==
    {p \in IF cache[token] # Uncached THEN {cache[token]}
           ELSE [items : SUBSET ListedAfter(token),
                 next  : {NoMore} \cup DOMAIN log] :
        /\ token \notin undecodable
        /\ cache[token] = Uncached => IsPage(p, token)}

-----------------------------------------------------------------------------
(***************************************************************************)
(* ListEvents, for a cursor c, an earliestEvent e and a page p.            *)
(***************************************************************************)
MidStream(c) == c.NextPageToken # FirstPage /\ c.FloorEventTime # ZeroTime
CatchingUp(c, e) == c.NextPageToken = FirstPage /\ c.LastEventTime > e

(* Mutants are named for the mistake they make; each precedes the          *)
(* definition it could stand for.                                          *)
FloorMovesMidStream(c, e) == IF c.LastEventTime > e THEN c.LastEventTime ELSE e

Floor(c, e) ==
    IF MidStream(c) THEN c.FloorEventTime
    ELSE IF CatchingUp(c, e) THEN c.LastEventTime
    ELSE e

FloorIDsMoveMidStream(c) == c.LastEventIDs

FloorIDs(c) == IF MidStream(c) THEN c.FloorEventIDs ELSE c.LastEventIDs

(* The loop's two `continue` tests against the floor: older than it, or    *)
(* at it and either without an ID or already seen.                         *)
BehindFloor(i, c, e) ==
    /\ Floor(c, e) # ZeroTime
    /\ \/ TimeOf(i) < Floor(c, e)
       \/ /\ TimeOf(i) = Floor(c, e)
          /\ HasID(i) => i \in FloorIDs(c)

Parsed(p) == {i \in p.items : Parses(i)}

EmittedEvents(c, e, p) ==
    {i \in Parsed(p) : ~BehindFloor(i, c, e) /\ Reported(i)}

MaxEventTime(c, p) == Max({c.LastEventTime} \cup {TimeOf(i) : i \in Parsed(p)})

EarlierIDsForgotten(c, p) ==
    {i \in Parsed(p) : TimeOf(i) = MaxEventTime(c, p) /\ HasID(i)}

UnparsedIDsAdded(c, p) ==
    {i \in p.items : TimeOf(i) = MaxEventTime(c, p)} \cup c.LastEventIDs

(* A later maximum starts a new set of IDs; empty IDs are never added.     *)
MaxEventIDs(c, p) ==
    LET top == MaxEventTime(c, p)
    IN  {i \in Parsed(p) : TimeOf(i) = top /\ HasID(i)}
          \cup (IF top = c.LastEventTime THEN c.LastEventIDs ELSE {})

PageDescending(p) ==
    \A i, j \in Parsed(p) : ListedBefore(i, j) => TimeOf(i) >= TimeOf(j)

UnseenAtFloorIgnored(c, e, p) ==
    /\ Floor(c, e) # ZeroTime
    /\ \A i \in p.items : Parses(i) /\ TimeOf(i) <= Floor(c, e)

PageAllAtOrBeforeFloor(c, e, p) ==
    /\ Floor(c, e) # ZeroTime
    /\ \A i \in p.items : Parses(i) /\ BehindFloor(i, c, e)

StopsEarly(c, e, p) ==
    /\ p.next # NoMore
    /\ Parsed(p) # {}
    /\ PageDescending(p)
    /\ PageAllAtOrBeforeFloor(c, e, p)

LastPageRepeats(c, e, p) ==
    IF p.next = NoMore THEN c.NextPageToken ELSE p.next

EffectiveNextPageToken(c, e, p) ==
    IF StopsEarly(c, e, p) THEN NoMore ELSE p.next

NextCursor(c, e, p) ==
    LET next == EffectiveNextPageToken(c, e, p)
        more == next # NoMore
    IN  [NextPageToken  |-> next,
         LastEventTime  |-> MaxEventTime(c, p),
         LastEventIDs   |-> MaxEventIDs(c, p),
         FloorEventTime |-> IF more THEN Floor(c, e) ELSE ZeroTime,
         FloorEventIDs  |-> IF more THEN FloorIDs(c) ELSE {}]

(* What the pages after p still hold, and ListEvents would have reported.  *)
UnreadReportable(c, e, p) ==
    {i \in ListedAfter(c.NextPageToken) \ p.items :
        /\ \A j \in p.items : ListedBefore(j, i)
        /\ Parses(i) /\ ~BehindFloor(i, c, e) /\ Reported(i)}

-----------------------------------------------------------------------------
Init ==
    /\ clock = 1
    /\ log = <<>>
    /\ startAt = ZeroTime
    /\ syncedTo = 0
    /\ cursor = EmptyToken
    /\ cache = [t \in Tokens |-> Uncached]
    /\ undecodable = {}
    /\ delivered = {}
    /\ redelivered = {}
    /\ cutOff = {}

(* Time passes.                                                            *)
Tick ==
    /\ clock < MaxTime
    /\ clock' = clock + 1
    /\ UNCHANGED <<log, startAt, syncedTo, cursor, cache, undecodable,
                   delivered, redelivered, cutOff>>

(* Something happens in Ramp and the log records it, at its time or late.  *)
Arrive(r, t) ==
    /\ Len(log) < MaxEvents
    /\ t <= clock
    /\ InOrder => t = clock
    /\ log' = Append(log, [time |-> t, record |-> r])
    /\ UNCHANGED <<clock, startAt, syncedTo, cursor, cache, undecodable,
                   delivered, redelivered, cutOff>>

(* The platform completes a full sync: later polls pass its time as        *)
(* earliestEvent, and the end of a sync clears the connector's HTTP cache. *)
FullSync ==
    /\ startAt' = clock
    /\ syncedTo' = Len(log)
    /\ cache' = [t \in Tokens |-> Uncached]
    /\ undecodable' = {}
    /\ UNCHANGED <<clock, log, cursor, delivered, redelivered, cutOff>>

(* The platform calls ListEvents with its cursor and checkpoints the one   *)
(* in the response.                                                        *)
Poll(p) ==
    /\ cursor' = NextCursor(cursor, startAt, p)
    /\ cache' = [cache EXCEPT ![cursor.NextPageToken] = p]
    /\ delivered' = delivered \cup EmittedEvents(cursor, startAt, p)
    /\ redelivered' =
          redelivered \cup (EmittedEvents(cursor, startAt, p) \cap delivered)
    /\ cutOff' = IF StopsEarly(cursor, startAt, p)
                   THEN cutOff \cup UnreadReportable(cursor, startAt, p)
                   ELSE cutOff
    /\ UNCHANGED <<clock, log, startAt, syncedTo, undecodable>>

(* The same call, but the response is lost or its checkpoint fails: the    *)
(* platform keeps its cursor and will ask again.                           *)
PollLost(p) ==
    /\ cache' = [cache EXCEPT ![cursor.NextPageToken] = p]
    /\ UNCHANGED <<clock, log, startAt, syncedTo, cursor, undecodable,
                   delivered, redelivered, cutOff>>

(* Ramp's answer is not a page of events: a 200 whose body does not decode *)
(* (ListAuditLogEvents, flattenAuditEvents), or holds the null event that  *)
(* ListEvents dereferences.  The call fails and the cursor stays, but the  *)
(* answer is cached like any page, and every retry reads it there.         *)
PollFails ==
    /\ cache[cursor.NextPageToken] = Uncached
    /\ cursor.NextPageToken \notin undecodable
    /\ Cardinality(undecodable) < MaxFailed
    /\ undecodable' = undecodable \cup {cursor.NextPageToken}
    /\ UNCHANGED <<clock, log, startAt, syncedTo, cursor, cache,
                   delivered, redelivered, cutOff>>

FailureNeverExpires(t) ==
    /\ cache[t] # Uncached
    /\ cache' = [cache EXCEPT ![t] = Uncached]
    /\ UNCHANGED <<clock, log, startAt, syncedTo, cursor, undecodable,
                   delivered, redelivered, cutOff>>

(* A cached answer reaches its TTL, or the connector process restarts.     *)
Expire(t) ==
    /\ cache[t] # Uncached \/ t \in undecodable
    /\ cache' = [cache EXCEPT ![t] = Uncached]
    /\ undecodable' = undecodable \ {t}
    /\ UNCHANGED <<clock, log, startAt, syncedTo, cursor,
                   delivered, redelivered, cutOff>>

Polled == \E p \in Fetched(cursor.NextPageToken) : Poll(p)

Next ==
    \/ Tick
    \/ \E r \in Record, t \in 1..MaxTime : Arrive(r, t)
    \/ FullSync
    \/ Polled
    \/ \E p \in Fetched(cursor.NextPageToken) : PollLost(p)
    \/ PollFails
    \/ \E t \in Tokens : Expire(t)

Spec == Init /\ [][Next]_vars

(* The platform polls for ever, and an answer of Ramp's decodes again and  *)
(* again (hence SF).  The HTTP client writes an answer back to the cache   *)
(* each time it reads it there, which starts its TTL anew: it is bound to  *)
(* expire only when the polls are further apart than the TTL.              *)
Fairness ==
    /\ SF_vars(Polled)
    /\ SlowPolls => \A t \in Tokens : WF_vars(Expire(t))

FairSpec == Spec /\ Fairness

-----------------------------------------------------------------------------
(* Types, and that IDs in the cursor are those of logged events with one.  *)
TypeOK ==
    /\ clock \in 1..MaxTime
    /\ log \in Seq(Event)
    /\ Len(log) <= MaxEvents
    /\ startAt \in 0..clock
    /\ syncedTo \in 0..Len(log)
    /\ cursor \in EventPageToken
    /\ cursor.NextPageToken \in {FirstPage} \cup DOMAIN log
    /\ cursor.LastEventIDs \subseteq {i \in DOMAIN log : HasID(i)}
    /\ undecodable \subseteq Tokens
    /\ \A t \in undecodable : cache[t] = Uncached
    /\ cache \in [Tokens -> Page \cup {Uncached}]
    /\ \A t \in Tokens : cache[t] # Uncached =>
          /\ cache[t].items \subseteq DOMAIN log
          /\ cache[t].next \in {NoMore} \cup DOMAIN log
    /\ delivered \subseteq DOMAIN log
    /\ redelivered \subseteq delivered
    /\ cutOff \subseteq DOMAIN log

(* Events no future poll reports, because the cursor has passed them.      *)
Passed == {i \in DOMAIN log : BehindFloor(i, cursor, startAt)}

(* Events the platform knows: reported to it, or covered by a full sync,   *)
(* or nothing ListEvents could report.                                     *)
Known == {i \in DOMAIN log :
            Parses(i) /\ Reported(i) => i \in delivered \/ i <= syncedTo}

(* No lost change.  When the cursor moves past an event -- whatever pages  *)
(* it was on, and whatever arrived, was lost or was cached in between --   *)
(* the event has been reported or a full sync has covered it.              *)
NoLostEvent == Passed \subseteq Known

(* An event in a checkpointed response is never reported again, though new *)
(* events keep arriving at the very time the cursor stands at.             *)
NoRedelivery == redelivered = {}

(* What the comment on the early stop says: the pages after a descending   *)
(* page at or before the floor hold nothing this poll would report.        *)
EarlyStopSound == cutOff = {}

(* Every change is reported in the end, or covered by a full sync, though  *)
(* responses are lost, pages go stale and answers fail to decode.          *)
EventuallyKnown ==
    \A i \in Positions : i \in DOMAIN log ~> i \in Known

-----------------------------------------------------------------------------
(***************************************************************************)
(* The feed implements ChangeFeed: its passed changes are those behind the *)
(* floor the next ListEvents call will use.                                *)
(***************************************************************************)
Reportable == {i \in DOMAIN log : Parses(i) /\ Reported(i)}

Feed == INSTANCE ChangeFeed WITH
    Change    <- Positions,
    published <- Reportable,
    reported  <- delivered,
    absorbed  <- Reportable \cap 1..syncedTo,
    passed    <- Passed \cap Reportable

(* Every step of the connector, the platform and Ramp is a step the        *)
(* promise allows: in particular the set of passed changes never shrinks,  *)
(* so no retry, new page or full sync takes the feed back.                 *)
ImplementsChangeFeed == Feed!Spec
=============================================================================
