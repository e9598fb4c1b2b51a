---------------------- MODULE AuditEventFeedLossProofs ----------------------
(***************************************************************************)
(* No change is lost: theorems about the feed when Ramp lists its log      *)
(* newest first, no event reaches the log late, and every event with a     *)
(* timestamp that parses has an ID.  Pages may be of any size up to        *)
(* PageSize, cached for any time, lost or retried; events of one timestamp *)
(* may spread over any number of pages.                                    *)
(***************************************************************************)
EXTENDS AuditEventFeedProofs

NewestFirst ==
    /\ Listing = "newest_first"
    /\ InOrder
    /\ \A r \in Record : r.parses => r.hasID

-----------------------------------------------------------------------------
(***************************************************************************)
(* The inductive invariant.                                                *)
(***************************************************************************)
Settled(i) == Parses(i) /\ Reported(i) => i \in delivered \/ i <= syncedTo

(* Arrival order is time order; what a full sync missed is not older.      *)
LogSorted ==
    /\ \A i, j \in DOMAIN log : i < j => TimeOf(i) <= TimeOf(j)
    /\ \A i \in DOMAIN log :
          /\ Parses(i) => HasID(i)
          /\ TimeOf(i) <= clock
          /\ i > syncedTo => TimeOf(i) >= startAt

(* The cursor's mark is the time of the events whose IDs it keeps.         *)
MarkSound ==
    /\ cursor.LastEventTime <= clock
    /\ cursor.LastEventTime # ZeroTime => cursor.LastEventIDs # {}
    /\ \A j \in cursor.LastEventIDs : TimeOf(j) = cursor.LastEventTime

(* The floor of the stream under way against the mark.                     *)
FloorSound ==
    /\ cursor.FloorEventTime <= clock
    /\ \/ cursor.FloorEventTime <= startAt
       \/ cursor.FloorEventTime <= cursor.LastEventTime
    /\ cursor.FloorEventIDs \subseteq DOMAIN log
    /\ \A j \in cursor.FloorEventIDs :
          /\ TimeOf(j) <= cursor.LastEventTime
          /\ TimeOf(j) = cursor.LastEventTime => j \in cursor.LastEventIDs
    /\ MidStream(cursor) \/ cursor.NextPageToken = FirstPage
          \/ \A j \in cursor.LastEventIDs : j >= cursor.NextPageToken

(* Everything below the floor, or no newer than an ID kept with it, is     *)
(* settled: this is what makes ignoring it safe.                           *)
FloorSettled ==
    Floor(cursor, startAt) # ZeroTime =>
        \A i \in DOMAIN log :
            \/ TimeOf(i) < Floor(cursor, startAt)
            \/ \E j \in FloorIDs(cursor) : i <= j
            => Settled(i)

(* So is everything the stream has read, down from any ID at the mark.     *)
ReadSettled ==
    \A j \in cursor.LastEventIDs, i \in DOMAIN log :
        i <= j /\ (cursor.NextPageToken # FirstPage => cursor.NextPageToken <= i)
            => Settled(i)

(* IDs at a mark a poll may start from leave no gap among the events read. *)
MarkClosed ==
    cursor.LastEventTime >= startAt =>
        \A j \in cursor.LastEventIDs, k \in DOMAIN log :
            /\ k < j /\ Parses(k) /\ TimeOf(k) = cursor.LastEventTime
            /\ cursor.NextPageToken # FirstPage => cursor.NextPageToken <= k
            => k \in cursor.LastEventIDs

FloorClosed ==
    Floor(cursor, startAt) # ZeroTime =>
        \A j \in FloorIDs(cursor), k \in DOMAIN log :
            /\ k < j /\ Parses(k)
            /\ TimeOf(k) = Floor(cursor, startAt)
            /\ TimeOf(j) = Floor(cursor, startAt)
            /\ cursor.NextPageToken # FirstPage => j < cursor.NextPageToken
            => k \in FloorIDs(cursor)

(* A page is a run of the log: an event between one of its events and its  *)
(* token, or between two of its events, is on it.  A last page goes down   *)
(* to the oldest event.                                                    *)
Below(l, p, t) == IF t = FirstPage THEN \E j \in p.items : l < j ELSE l < t

RunPage(p, t) ==
    \A l \in DOMAIN log :
        /\ Below(l, p, t)
        /\ p.next = NoMore \/ \E i \in p.items : i < l
        => l \in p.items

CachedRuns ==
    \A t \in Tokens : cache[t] # Uncached => RunPage(cache[t], t)

LossInv ==
    /\ TypeOK
    /\ CachedPages
    /\ CachedRuns
    /\ LogSorted
    /\ MarkSound
    /\ FloorSound
    /\ FloorSettled
    /\ ReadSettled
    /\ MarkClosed
    /\ FloorClosed
    /\ EarlyStopSound

-----------------------------------------------------------------------------
(***************************************************************************)
(* Facts about one state.                                                  *)
(***************************************************************************)
LEMMA NewestOrder ==
    ASSUME NewestFirst, TypeOK, LogSorted
    PROVE  /\ \A i, j \in DOMAIN log : ListedBefore(i, j) <=> i > j
           /\ \A t \in DOMAIN log :
                 t # FirstPage /\ ListedAfter(t) = {i \in DOMAIN log : i < t}
           /\ ListedAfter(FirstPage) = DOMAIN log
<1>1. ASSUME NEW i \in DOMAIN log, NEW j \in DOMAIN log
      PROVE  ListedBefore(i, j) <=> i > j
  <2>1. ListedBefore(i, j) <=>
          TimeOf(i) > TimeOf(j) \/ (TimeOf(i) = TimeOf(j) /\ i > j)
    BY DEF ListedBefore, NewestFirst
  <2>2. i \in Nat /\ j \in Nat /\ TimeOf(i) \in Nat /\ TimeOf(j) \in Nat
    BY LogTypes, FeedAssumption
  <2>3. (i < j => TimeOf(i) <= TimeOf(j)) /\ (j < i => TimeOf(j) <= TimeOf(i))
    BY DEF LogSorted
  <2> HIDE DEF TimeOf, ListedBefore
  <2> QED BY <2>1, <2>2, <2>3
<1>2. \A t \in DOMAIN log : t # FirstPage /\ t \in Nat
  BY LogTypes, FeedAssumption DEF FirstPage
<1>3. \A i \in DOMAIN log : i \in Nat
  BY <1>2
<1> QED BY <1>1, <1>2, <1>3 DEF ListedAfter

LEMMA FetchedRun ==
    ASSUME NewestFirst, LossInv, NEW p \in Fetched(cursor.NextPageToken)
    PROVE  RunPage(p, cursor.NextPageToken)
<1> DEFINE t == cursor.NextPageToken
<1> USE DEF LossInv
<1>1. t \in Tokens /\ t \in {FirstPage} \cup DOMAIN log
  BY DEF TypeOK, EventPageToken
<1>2. CASE cache[t] # Uncached
  BY <1>1, <1>2 DEF CachedRuns, Fetched
<1>3. CASE cache[t] = Uncached
  <2>1. IsPage(p, t)
    BY <1>3 DEF Fetched
  <2> SUFFICES ASSUME NEW l \in DOMAIN log, Below(l, p, t),
                      p.next = NoMore \/ \E i \in p.items : i < l
               PROVE  l \in p.items
    BY DEF RunPage
  <2>2. p.items \subseteq DOMAIN log
    BY FetchedTypes
  <2>3. l \in ListedAfter(t)
    BY <1>1, NewestOrder DEF Below
  <2>4. CASE p.next = NoMore
    <3>1. p.items = ListedAfter(t)
      BY <1>1, <2>1, <2>4, LogTypes, FeedAssumption, <2>2 DEF IsPage, NoMore
    <3> QED BY <2>3, <3>1
  <2>5. ASSUME NEW i \in p.items, i < l PROVE l \in p.items
    <3>1. ListedBefore(l, i)
      BY <2>2, <2>5, NewestOrder, LogTypes
    <3> QED BY <2>1, <2>3, <3>1 DEF IsPage
  <2> QED BY <2>4, <2>5
<1> QED BY <1>2, <1>3

(* The floor lies in the past, and its IDs are at or below the mark.       *)
LEMMA FloorBounds ==
    ASSUME TypeOK, MarkSound, FloorSound
    PROVE  /\ Floor(cursor, startAt) \in Nat
           /\ clock \in Nat /\ startAt \in Nat /\ cursor.LastEventTime \in Nat
           /\ cursor.FloorEventTime \in Nat
           /\ Floor(cursor, startAt) <= clock
           /\ \/ Floor(cursor, startAt) <= startAt
              \/ Floor(cursor, startAt) <= cursor.LastEventTime
           /\ FloorIDs(cursor) \subseteq DOMAIN log
           /\ \A j \in FloorIDs(cursor) :
                 /\ TimeOf(j) <= cursor.LastEventTime
                 /\ TimeOf(j) = cursor.LastEventTime =>
                       j \in cursor.LastEventIDs
<1>1. /\ clock \in Nat /\ startAt \in Nat /\ startAt <= clock
      /\ cursor.LastEventTime \in Nat /\ cursor.FloorEventTime \in Nat
  BY FeedAssumption DEF TypeOK, EventPageToken, Times
<1>2. cursor.LastEventIDs \subseteq DOMAIN log
  BY DEF TypeOK
<1>3. CASE MidStream(cursor)
  BY <1>1, <1>3 DEF FloorSound, Floor, FloorIDs
<1>4. CASE ~MidStream(cursor)
  BY <1>1, <1>2, <1>4 DEF MarkSound, Floor, FloorIDs, CatchingUp
<1> QED BY <1>3, <1>4

(* When no stream is under way, what makes ignoring events sound follows   *)
(* from what has been read.                                                *)
LEMMA IdleFloor ==
    /\ TypeOK /\ LogSorted /\ MarkSound /\ FloorSound /\ ReadSettled /\ MarkClosed
    /\ cursor.NextPageToken = FirstPage
    => FloorSettled /\ FloorClosed
<1> SUFFICES ASSUME TypeOK, LogSorted, MarkSound, FloorSound, ReadSettled,
                    MarkClosed, cursor.NextPageToken = FirstPage
             PROVE  FloorSettled /\ FloorClosed
  OBVIOUS
<1> DEFINE F == Floor(cursor, startAt)
           last == cursor.LastEventTime
<1>1. /\ F \in Nat /\ startAt \in Nat /\ last \in Nat
      /\ F >= startAt /\ F >= last /\ (F = startAt \/ F = last)
      /\ FloorIDs(cursor) = cursor.LastEventIDs
  BY FloorFacts
<1>2. \A i \in DOMAIN log : i \in Nat /\ TimeOf(i) \in Nat
  BY LogTypes, FeedAssumption
<1>3. cursor.LastEventIDs \subseteq DOMAIN log
  BY DEF TypeOK
<1> HIDE DEF F, last
<1>4. FloorSettled
  <2>1. ASSUME NEW i \in DOMAIN log, NEW j \in cursor.LastEventIDs, i <= j
        PROVE  Settled(i)
    BY <2>1 DEF ReadSettled
  <2>2. ASSUME NEW i \in DOMAIN log, TimeOf(i) < F
        PROVE  Settled(i)
    <3>1. CASE F = startAt
      <4>1. i <= syncedTo
        BY <1>1, <1>2, <2>2, <3>1 DEF LogSorted, TypeOK
      <4> QED BY <4>1 DEF Settled
    <3>2. CASE F = last
      <4>1. PICK j \in cursor.LastEventIDs : TimeOf(j) = last
        BY <1>1, <1>2, <2>2, <3>2 DEF MarkSound, ZeroTime, last
      <4>2. i <= j
        BY <1>1, <1>2, <1>3, <2>2, <3>2, <4>1 DEF LogSorted
      <4> QED BY <2>1, <4>2
    <3> QED BY <1>1, <3>1, <3>2
  <2> QED BY <1>1, <2>1, <2>2 DEF FloorSettled, F
<1>5. FloorClosed
  <2> SUFFICES ASSUME NEW j \in cursor.LastEventIDs, NEW k \in DOMAIN log,
                      k < j, Parses(k), TimeOf(k) = F, TimeOf(j) = F
               PROVE  k \in cursor.LastEventIDs
    BY <1>1 DEF FloorClosed, F
  <2>1. F = last /\ last >= startAt
    BY <1>1 DEF MarkSound, last
  <2> QED BY <2>1 DEF MarkClosed, last
<1> QED BY <1>4, <1>5

-----------------------------------------------------------------------------
(***************************************************************************)
(* One response: page p, fetched for the cursor.                           *)
(***************************************************************************)
(* An event no newer than one on the page or in the mark, and no older     *)
(* than the page's last, is on the page unless it was read before.         *)
LEMMA ReadBelow ==
    ASSUME NewestFirst, LossInv, NEW p \in Fetched(cursor.NextPageToken),
           NEW j \in p.items \cup cursor.LastEventIDs, NEW k \in DOMAIN log,
           k <= j, p.next # NoMore => p.next <= k
    PROVE  \/ k \in p.items
           \/ /\ j \in cursor.LastEventIDs
              /\ cursor.NextPageToken # FirstPage => cursor.NextPageToken <= k
<1> DEFINE t == cursor.NextPageToken
<1> USE DEF LossInv
<1>1. RunPage(p, t) /\ PageAfter(p, t)
  BY FetchedRun, FetchedPageAfter
<1>2. /\ p.items \subseteq DOMAIN log /\ cursor.LastEventIDs \subseteq DOMAIN log
      /\ p.next \in {NoMore} \cup DOMAIN log /\ t \in {FirstPage} \cup DOMAIN log
  BY FetchedTypes DEF TypeOK
<1>3. \A i \in DOMAIN log : i \in Nat
  BY LogTypes, FeedAssumption
<1>4. ASSUME Below(k, p, t) PROVE k \in p.items
  <2>1. CASE p.next = NoMore
    BY <1>1, <1>4, <2>1 DEF RunPage
  <2>2. CASE p.next # NoMore /\ k = p.next
    BY <1>1, <2>2 DEF PageAfter
  <2>3. CASE p.next # NoMore /\ k # p.next
    <3>1. p.next \in p.items /\ p.next < k
      BY <1>1, <1>2, <1>3, <2>3 DEF PageAfter
    <3> QED BY <1>1, <1>4, <3>1 DEF RunPage
  <2> QED BY <2>1, <2>2, <2>3
<1>5. CASE j \in p.items
  <2>1. CASE k = j
    BY <1>5, <2>1
  <2>2. CASE k # j
    <3>1. k < j
      BY <1>2, <1>3, <2>2
    <3>2. t # FirstPage => j < t
      BY <1>1, <1>2, <1>5, NewestOrder DEF PageAfter
    <3>3. Below(k, p, t)
      BY <1>2, <1>3, <1>5, <3>1, <3>2 DEF Below
    <3> QED BY <1>4, <3>3
  <2> QED BY <2>1, <2>2
<1>6. CASE j \in cursor.LastEventIDs
  <2>1. CASE t = FirstPage \/ t <= k
    BY <1>6, <2>1
  <2>2. CASE t # FirstPage /\ ~(t <= k)
    <3>1. k < t
      BY <1>2, <1>3, <2>2
    <3>2. Below(k, p, t)
      BY <2>2, <3>1 DEF Below
    <3> QED BY <1>4, <3>2
  <2> QED BY <2>1, <2>2
<1> QED BY <1>5, <1>6

(* An early stop: the page's last event q is parsed and behind the floor,  *)
(* so everything older is at or before the floor; an event at the floor    *)
(* has q's kept ID above it.                                               *)
LEMMA EarlyStopFacts ==
    ASSUME NewestFirst, LossInv, NEW p \in Fetched(cursor.NextPageToken),
           StopsEarly(cursor, startAt, p)
    PROVE  /\ p.next \in p.items /\ p.next \in DOMAIN log /\ p.next # NoMore
           /\ Parses(p.next)
           /\ Floor(cursor, startAt) # ZeroTime
           /\ cursor.NextPageToken # FirstPage => p.next < cursor.NextPageToken
           /\ TimeOf(p.next) <= Floor(cursor, startAt)
           /\ \A k \in DOMAIN log : k <= p.next =>
                 /\ TimeOf(k) <= TimeOf(p.next)
                 /\ TimeOf(k) = Floor(cursor, startAt) =>
                       /\ TimeOf(p.next) = Floor(cursor, startAt)
                       /\ p.next \in FloorIDs(cursor)
<1> DEFINE q == p.next
           F == Floor(cursor, startAt)
<1> USE DEF LossInv
<1>1. PageAfter(p, cursor.NextPageToken)
  BY FetchedPageAfter
<1>2. q \in p.items /\ q \in DOMAIN log /\ q # NoMore
  BY <1>1, FetchedTypes DEF StopsEarly, PageAfter
<1>3. cursor.NextPageToken # FirstPage => q < cursor.NextPageToken
  BY <1>1, <1>2, NewestOrder DEF PageAfter
<1>4. Parses(q) /\ BehindFloor(q, cursor, startAt)
  BY <1>2 DEF StopsEarly, PageAllAtOrBeforeFloor
<1>5. F \in Nat /\ \A i \in DOMAIN log : i \in Nat /\ TimeOf(i) \in Nat
  BY FloorFacts, LogTypes, FeedAssumption
<1>6. F # ZeroTime /\ TimeOf(q) <= F /\ (TimeOf(q) = F => q \in FloorIDs(cursor))
  BY <1>2, <1>4, <1>5 DEF BehindFloor, LogSorted
<1>7. ASSUME NEW k \in DOMAIN log, k <= q
      PROVE  TimeOf(k) <= TimeOf(q)
  BY <1>2, <1>5, <1>7 DEF LogSorted
<1> HIDE DEF q, F
<1>8. \A k \in DOMAIN log : k <= q =>
          TimeOf(k) <= TimeOf(q) /\ (TimeOf(k) = F => TimeOf(q) = F)
  BY <1>2, <1>5, <1>6, <1>7
<1> QED BY <1>2, <1>3, <1>4, <1>6, <1>8 DEF q, F

(* An early stop cuts nothing off.                                         *)
LEMMA EarlyStopCutsNothing ==
    ASSUME NewestFirst, LossInv, NEW p \in Fetched(cursor.NextPageToken),
           StopsEarly(cursor, startAt, p)
    PROVE  UnreadReportable(cursor, startAt, p) = {}
<1> USE DEF LossInv
<1> SUFFICES ASSUME NEW k \in UnreadReportable(cursor, startAt, p)
             PROVE  FALSE
  OBVIOUS
<1>1. k \in DOMAIN log /\ Parses(k) /\ ~BehindFloor(k, cursor, startAt)
      /\ \A j \in p.items : ListedBefore(j, k)
  BY DEF UnreadReportable, ListedAfter
<1>2. /\ p.next \in p.items /\ p.next \in DOMAIN log
      /\ Floor(cursor, startAt) # ZeroTime
      /\ cursor.NextPageToken # FirstPage => p.next < cursor.NextPageToken
  BY EarlyStopFacts
<1>3. k < p.next
  BY <1>1, <1>2, NewestOrder, LogTypes, FeedAssumption
<1>4. Floor(cursor, startAt) \in Nat /\ TimeOf(k) \in Nat
      /\ TimeOf(p.next) \in Nat
  BY <1>1, <1>2, FloorFacts, LogTypes, FeedAssumption
<1>5. TimeOf(k) <= Floor(cursor, startAt)
      /\ (TimeOf(k) = Floor(cursor, startAt) =>
            /\ TimeOf(p.next) = Floor(cursor, startAt)
            /\ p.next \in FloorIDs(cursor))
  <2>1. k <= p.next
    BY <1>1, <1>2, <1>3, LogTypes
  <2> QED BY <1>1, <1>4, <2>1, EarlyStopFacts
<1>6. TimeOf(k) = Floor(cursor, startAt) => k \in FloorIDs(cursor)
  BY <1>1, <1>2, <1>3, <1>5 DEF FloorClosed
<1> QED BY <1>1, <1>2, <1>4, <1>5, <1>6 DEF BehindFloor

(* What a response does to the state, and what is settled by it.           *)
LEMMA PollState ==
    ASSUME LossInv, NEW p \in Fetched(cursor.NextPageToken), Poll(p)
    PROVE  /\ UNCHANGED <<clock, log, startAt, syncedTo>>
           /\ cursor' = NextCursor(cursor, startAt, p)
           /\ TypeOK' /\ CachedPages'
           /\ \A i : /\ TimeOf(i)' = TimeOf(i)
                     /\ HasID(i)' = HasID(i)
                     /\ Parses(i)' = Parses(i)
                     /\ Reported(i)' = Reported(i)
           /\ \A i : Settled(i) => Settled(i)'
<1>1. UNCHANGED <<clock, log, startAt, syncedTo>>
      /\ cursor' = NextCursor(cursor, startAt, p)
      /\ delivered \subseteq delivered'
  BY DEF Poll
<1>2. TypeOK' /\ CachedPages'
  BY NextTypeOK, PollKeepsPages DEF LossInv, Next, Polled, Poll
<1>3. \A i : /\ TimeOf(i)' = TimeOf(i)
             /\ HasID(i)' = HasID(i)
             /\ Parses(i)' = Parses(i)
             /\ Reported(i)' = Reported(i)
  BY <1>1 DEF TimeOf, HasID, Parses, Reported
<1>4. \A i : Settled(i) => Settled(i)'
  BY <1>1, <1>3 DEF Settled
<1> QED BY <1>1, <1>2, <1>3, <1>4

LEMMA PollSettlesPage ==
    ASSUME NewestFirst, LossInv, NEW p \in Fetched(cursor.NextPageToken),
           Poll(p), NEW i \in p.items
    PROVE  Settled(i)'
<1> USE DEF LossInv
<1>1. i \in DOMAIN log
  BY FetchedTypes
<1>2. CASE ~(Parses(i) /\ Reported(i))
  BY <1>2, PollState DEF Settled
<1>3. CASE Parses(i) /\ Reported(i) /\ ~BehindFloor(i, cursor, startAt)
  <2>1. i \in delivered'
    BY <1>3 DEF Poll, EmittedEvents, Parsed
  <2> QED BY <2>1 DEF Settled
<1>4. CASE Parses(i) /\ BehindFloor(i, cursor, startAt)
  <2>1. i <= i
    BY <1>1, LogTypes
  <2>2. Settled(i)
    BY <1>1, <1>4, <2>1 DEF BehindFloor, FloorSettled, LogSorted
  <2> QED BY <2>2, PollState
<1> QED BY <1>2, <1>3, <1>4

-----------------------------------------------------------------------------
(***************************************************************************)
(* Poll preserves the invariant, one lemma per conjunct it can disturb.    *)
(***************************************************************************)
LEMMA PollKeepsRuns ==
    ASSUME NewestFirst, LossInv, NEW p \in Fetched(cursor.NextPageToken),
           log' = log, cache' = [cache EXCEPT ![cursor.NextPageToken] = p]
    PROVE  CachedRuns'
<1> USE DEF LossInv
<1>1. RunPage(p, cursor.NextPageToken)
  BY FetchedRun
<1>2. cache \in [Tokens -> Page \cup {Uncached}]
  BY DEF TypeOK
<1>3. ASSUME NEW k \in Tokens, cache'[k] # Uncached
      PROVE  RunPage(cache[k], k)'
  <2>1. RunPage(cache'[k], k)
    BY <1>1, <1>2, <1>3 DEF CachedRuns
  <2> QED BY <2>1 DEF RunPage, Below
<1> QED BY <1>3 DEF CachedRuns

(* The new mark in terms of the page and the old one.                      *)
LEMMA NextMark ==
    ASSUME LossInv, NEW p \in Fetched(cursor.NextPageToken), Poll(p)
    PROVE  /\ cursor'.LastEventTime \in Nat
           /\ cursor'.LastEventTime >= cursor.LastEventTime
           /\ \A i \in Parsed(p) :
                 /\ TimeOf(i) <= cursor'.LastEventTime
                 /\ TimeOf(i) = cursor'.LastEventTime /\ HasID(i) =>
                       i \in cursor'.LastEventIDs
           /\ \/ cursor'.LastEventTime = cursor.LastEventTime
              \/ \E i \in Parsed(p) : cursor'.LastEventTime = TimeOf(i)
           /\ cursor'.LastEventTime = cursor.LastEventTime =>
                 cursor.LastEventIDs \subseteq cursor'.LastEventIDs
           /\ \A j \in cursor'.LastEventIDs :
                 \/ j \in Parsed(p) /\ TimeOf(j) = cursor'.LastEventTime
                 \/ /\ j \in cursor.LastEventIDs
                    /\ cursor'.LastEventTime = cursor.LastEventTime
<1> USE DEF LossInv
<1>1. cursor'.LastEventTime = MaxEventTime(cursor, p)
      /\ cursor'.LastEventIDs = MaxEventIDs(cursor, p)
  BY MarkFacts DEF Poll
<1>2. MaxEventTime(cursor, p) \in Nat
  BY MaxEventTimeIsMax, FeedAssumption DEF Times
<1>3. \A i \in Parsed(p) : TimeOf(i) \in Nat
  BY FetchedTypes, LogTypes, FeedAssumption DEF Parsed
<1>4. \A j \in MaxEventIDs(cursor, p) :
         \/ j \in Parsed(p) /\ TimeOf(j) = MaxEventTime(cursor, p)
         \/ /\ j \in cursor.LastEventIDs
            /\ MaxEventTime(cursor, p) = cursor.LastEventTime
  BY DEF MaxEventIDs
<1> QED BY <1>1, <1>2, <1>3, <1>4, MaxEventTimeIsMax, MarkFacts

LEMMA PollKeepsMark ==
    ASSUME NewestFirst, LossInv, NEW p \in Fetched(cursor.NextPageToken), Poll(p)
    PROVE  MarkSound'
<1> USE DEF LossInv
<1>1. Parsed(p) \subseteq DOMAIN log
  BY FetchedTypes DEF Parsed
<1>2. cursor'.LastEventTime <= clock'
  BY <1>1, NextMark, PollState DEF MarkSound, LogSorted
<1>3. cursor'.LastEventTime # ZeroTime => cursor'.LastEventIDs # {}
  <2>1. CASE cursor'.LastEventTime = cursor.LastEventTime
    BY <2>1, NextMark DEF MarkSound
  <2>2. ASSUME NEW i \in Parsed(p), cursor'.LastEventTime = TimeOf(i)
        PROVE  cursor'.LastEventIDs # {}
    BY <1>1, <2>2, NextMark DEF LogSorted, Parsed
  <2> QED BY <2>1, <2>2, NextMark
<1>4. \A j \in cursor'.LastEventIDs : TimeOf(j) = cursor'.LastEventTime
  BY NextMark DEF MarkSound
<1> QED BY <1>2, <1>3, <1>4, PollState DEF MarkSound

LEMMA PollKeepsFloor ==
    ASSUME NewestFirst, LossInv, NEW p \in Fetched(cursor.NextPageToken), Poll(p)
    PROVE  FloorSound'
<1> USE DEF LossInv
<1>1. CASE cursor'.NextPageToken = FirstPage
  <2>1. cursor'.FloorEventTime = ZeroTime /\ cursor'.FloorEventIDs = {}
    BY <1>1, PollState DEF NextCursor, NoMore, FirstPage
  <2>2. clock' \in Nat /\ startAt' \in Nat
    BY PollState, FloorBounds
  <2> QED BY <1>1, <2>1, <2>2 DEF FloorSound, ZeroTime
<1>2. CASE cursor'.NextPageToken # FirstPage
  <2>1. cursor'.FloorEventTime = Floor(cursor, startAt)
        /\ cursor'.FloorEventIDs = FloorIDs(cursor)
        /\ cursor'.NextPageToken = p.next /\ p.next # NoMore
    BY <1>2, PollState
       DEF NextCursor, EffectiveNextPageToken, NoMore, FirstPage
  <2>2. Floor(cursor, startAt) <= clock'
        /\ (\/ Floor(cursor, startAt) <= startAt'
            \/ Floor(cursor, startAt) <= cursor'.LastEventTime)
    BY FloorBounds, NextMark, PollState
  <2>3. FloorIDs(cursor) \subseteq DOMAIN log'
        /\ \A j \in FloorIDs(cursor) :
              /\ TimeOf(j) <= cursor'.LastEventTime
              /\ TimeOf(j) = cursor'.LastEventTime => j \in cursor'.LastEventIDs
    <3>1. FloorIDs(cursor) \subseteq DOMAIN log
          /\ \A j \in DOMAIN log : TimeOf(j) \in Nat
      BY FloorBounds, LogTypes, FeedAssumption
    <3>2. cursor.LastEventTime \in Nat
      BY FloorBounds
    <3> HIDE DEF TimeOf
    <3>3. ASSUME NEW j \in FloorIDs(cursor)
          PROVE  /\ TimeOf(j) <= cursor'.LastEventTime
                 /\ TimeOf(j) = cursor'.LastEventTime =>
                       j \in cursor'.LastEventIDs
      BY <3>1, <3>2, <3>3, FloorBounds, NextMark
    <3> QED BY <3>1, <3>3, PollState
  <2>4. MidStream(cursor')
          \/ \A j \in cursor'.LastEventIDs : j >= cursor'.NextPageToken
    <3>1. CASE Floor(cursor, startAt) # ZeroTime
      BY <1>2, <2>1, <3>1 DEF MidStream
    <3>2. CASE Floor(cursor, startAt) = ZeroTime
      <4>1. ~MidStream(cursor)
        BY <3>2 DEF Floor, MidStream
      <4>2. \A i \in DOMAIN log : i \in Nat /\ TimeOf(i) \in Nat /\ TimeOf(i) >= 1
        BY LogTypes, FeedAssumption
      <4>3. PageAfter(p, cursor.NextPageToken) /\ p.items \subseteq DOMAIN log
        BY FetchedPageAfter, FetchedTypes
      <4>4. \A i \in p.items : i >= p.next
        BY <2>1, <4>2, <4>3, NewestOrder DEF PageAfter
      <4>5. \A j \in cursor.LastEventIDs : j >= p.next
        <5>1. CASE cursor.NextPageToken = FirstPage
          <6>1. cursor.LastEventTime = 0
            BY <3>2, <5>1, FloorFacts DEF ZeroTime
          <6> QED BY <4>2, <6>1 DEF MarkSound, TypeOK
        <5>2. CASE cursor.NextPageToken # FirstPage
          <6>1. p.next < cursor.NextPageToken
            BY <2>1, <4>3, <5>2, NewestOrder DEF PageAfter, TypeOK
          <6>2. \A j \in cursor.LastEventIDs : j >= cursor.NextPageToken
            BY <4>1, <5>2 DEF FloorSound
          <6> QED BY <2>1, <4>2, <4>3, <5>2, <6>1, <6>2 DEF PageAfter, TypeOK
        <5> QED BY <5>1, <5>2
      <4> QED BY <2>1, <4>4, <4>5, NextMark DEF Parsed
    <3> QED BY <3>1, <3>2
  <2>5. (MidStream(cursor) \/ cursor.NextPageToken = FirstPage
          \/ \A j \in cursor.LastEventIDs : j >= cursor.NextPageToken)'
    BY <2>4 DEF MidStream
  <2> QED BY <2>1, <2>2, <2>3, <2>5, PollState DEF FloorSound
<1> QED BY <1>1, <1>2

LEMMA PollKeepsRead ==
    ASSUME NewestFirst, LossInv, NEW p \in Fetched(cursor.NextPageToken), Poll(p)
    PROVE  ReadSettled'
<1> USE DEF LossInv
<1> SUFFICES ASSUME NEW j \in cursor'.LastEventIDs, NEW i \in DOMAIN log, i <= j,
                    cursor'.NextPageToken # FirstPage =>
                        cursor'.NextPageToken <= i
             PROVE  Settled(i)'
  BY PollState DEF ReadSettled
<1>1. j \in p.items \cup cursor.LastEventIDs
  BY NextMark DEF Parsed
<1>2. i \in Nat /\ TimeOf(i) \in Nat /\ Floor(cursor, startAt) \in Nat
  BY LogTypes, FloorFacts, FeedAssumption
<1>3. CASE p.next # NoMore => p.next <= i
  <2>1. CASE i \in p.items
    BY <2>1, PollSettlesPage
  <2>2. CASE /\ j \in cursor.LastEventIDs
             /\ cursor.NextPageToken # FirstPage => cursor.NextPageToken <= i
    BY <2>2, PollState DEF ReadSettled
  <2> QED BY <1>1, <1>3, <2>1, <2>2, ReadBelow
<1>4. CASE p.next # NoMore /\ ~(p.next <= i)
  <2>1. StopsEarly(cursor, startAt, p)
    BY <1>4, PollState
       DEF NextCursor, EffectiveNextPageToken, NoMore, FirstPage
  <2>2. p.next \in DOMAIN log /\ p.next \in Nat /\ TimeOf(p.next) \in Nat
    BY <2>1, EarlyStopFacts, LogTypes, FeedAssumption
  <2>3. i <= p.next
    BY <1>2, <1>4, <2>2
  <2>4. /\ TimeOf(i) <= Floor(cursor, startAt)
        /\ Floor(cursor, startAt) # ZeroTime
        /\ TimeOf(i) = Floor(cursor, startAt) => p.next \in FloorIDs(cursor)
    BY <1>2, <2>1, <2>2, <2>3, EarlyStopFacts
  <2>5. Settled(i)
    BY <1>2, <2>3, <2>4 DEF FloorSettled
  <2> QED BY <2>5, PollState
<1> QED BY <1>3, <1>4

LEMMA PollKeepsMarkClosed ==
    ASSUME NewestFirst, LossInv, NEW p \in Fetched(cursor.NextPageToken), Poll(p)
    PROVE  MarkClosed'
<1> USE DEF LossInv
<1> DEFINE last == cursor'.LastEventTime
           F == Floor(cursor, startAt)
<1> SUFFICES ASSUME NEW j \in cursor'.LastEventIDs, NEW k \in DOMAIN log,
                    last >= startAt, k < j, Parses(k), TimeOf(k) = last,
                    cursor'.NextPageToken # FirstPage =>
                        cursor'.NextPageToken <= k
             PROVE  k \in cursor'.LastEventIDs
  BY PollState DEF MarkClosed
<1>1. j \in p.items \cup cursor.LastEventIDs /\ j \in DOMAIN log
  BY NextMark, FetchedTypes DEF Parsed, TypeOK
<1>2. /\ \A i \in DOMAIN log : i \in Nat /\ TimeOf(i) \in Nat
      /\ F \in Nat /\ startAt \in Nat /\ cursor.LastEventTime \in Nat
      /\ last \in Nat
  BY LogTypes, FloorBounds, NextMark, FeedAssumption
<1>3. HasID(k)
  BY DEF LogSorted
<1>4. CASE k \in p.items
  BY <1>3, <1>4, NextMark DEF Parsed
<1>5. ASSUME j \in cursor.LastEventIDs,
             cursor.NextPageToken # FirstPage => cursor.NextPageToken <= k
      PROVE  k \in cursor'.LastEventIDs
  <2>1. cursor.LastEventTime = last
    <3>1. TimeOf(j) = cursor.LastEventTime
      BY <1>5 DEF MarkSound
    <3>2. TimeOf(j) = last
      BY <3>1, NextMark
    <3> QED BY <3>1, <3>2
  <2>2. k \in cursor.LastEventIDs
    BY <1>5, <2>1 DEF MarkClosed
  <2> QED BY <2>1, <2>2, NextMark
<1>6. CASE p.next # NoMore => p.next <= k
  <2>1. k <= j
    BY <1>1, <1>2
  <2> QED BY <1>1, <1>4, <1>5, <1>6, <2>1, ReadBelow
<1>7. CASE p.next # NoMore /\ ~(p.next <= k)
  <2> DEFINE q == p.next
  <2>1. StopsEarly(cursor, startAt, p)
    BY <1>7, PollState
       DEF NextCursor, EffectiveNextPageToken, NoMore, FirstPage
  <2>2. q \in DOMAIN log /\ q \in p.items /\ Parses(q) /\ q \in Nat
        /\ TimeOf(q) \in Nat
    BY <1>2, <2>1, EarlyStopFacts
  <2>3. k < q /\ k <= q
    BY <1>2, <1>7, <2>2
  <2>4. TimeOf(q) = last
    <3>1. TimeOf(k) <= TimeOf(q)
      BY <2>1, <2>3, EarlyStopFacts
    <3>2. TimeOf(q) <= last
      BY <2>2, NextMark DEF Parsed
    <3> QED BY <1>2, <2>2, <3>1, <3>2
  <2>5. last <= F /\ F # ZeroTime
    BY <2>1, <2>4, EarlyStopFacts
  <2>6. F <= last
    <3>1. last >= cursor.LastEventTime
      BY NextMark
    <3>2. F <= startAt \/ F <= cursor.LastEventTime
      BY FloorBounds
    <3> HIDE DEF F, last
    <3> QED BY <1>2, <3>1, <3>2
  <2>7. F = last
    BY <1>2, <2>5, <2>6
  <2>8. q \in FloorIDs(cursor)
    BY <2>1, <2>3, <2>7, EarlyStopFacts
  <2>9. cursor.LastEventTime = last
    <3>1. TimeOf(q) <= cursor.LastEventTime
      BY <2>8, FloorBounds
    <3>2. last >= cursor.LastEventTime
      BY NextMark
    <3> QED BY <1>2, <2>4, <3>1, <3>2
  <2>10. k \in FloorIDs(cursor)
    <3>1. cursor.NextPageToken # FirstPage => q < cursor.NextPageToken
      BY <2>1, EarlyStopFacts
    <3> QED BY <2>3, <2>4, <2>5, <2>7, <2>8, <3>1 DEF FloorClosed
  <2>11. k \in cursor.LastEventIDs
    BY <2>9, <2>10, FloorBounds
  <2> QED BY <2>9, <2>11, NextMark
<1> QED BY <1>6, <1>7

LEMMA PollKeepsLossInv ==
    ASSUME NewestFirst, LossInv, NEW p \in Fetched(cursor.NextPageToken), Poll(p)
    PROVE  LossInv'
<1> USE DEF LossInv
<1>1. TypeOK' /\ CachedPages' /\ CachedRuns'
  BY PollState, PollKeepsRuns DEF Poll
<1>2. LogSorted'
  BY PollState DEF LogSorted
<1>3. MarkSound' /\ FloorSound' /\ ReadSettled' /\ MarkClosed'
  BY PollKeepsMark, PollKeepsFloor, PollKeepsRead, PollKeepsMarkClosed
<1>4. EarlyStopSound'
  BY EarlyStopCutsNothing DEF EarlyStopSound, Poll
<1>5. CASE cursor'.NextPageToken = FirstPage
  <2>1. (TypeOK /\ LogSorted /\ MarkSound /\ FloorSound /\ ReadSettled
            /\ MarkClosed /\ cursor.NextPageToken = FirstPage
           => FloorSettled /\ FloorClosed)'
    BY IdleFloor, PTL
  <2> QED BY <1>1, <1>2, <1>3, <1>4, <1>5, <2>1 DEF FirstPage
<1>6. CASE cursor'.NextPageToken # FirstPage
  <2>1. /\ Floor(cursor, startAt)' = Floor(cursor, startAt)
        /\ Floor(cursor, startAt) # ZeroTime =>
              FloorIDs(cursor)' = FloorIDs(cursor)
    <3>1. Floor(cursor, startAt)' = Floor(cursor', startAt')
          /\ FloorIDs(cursor)' = FloorIDs(cursor')
      BY DEF Floor, FloorIDs, MidStream, CatchingUp
    <3> QED BY <1>6, <3>1, FloorStable, PollState
  <2>2. FloorSettled'
    BY <2>1, PollState DEF FloorSettled
  <2>3. ASSUME NEW j \in DOMAIN log, j < cursor'.NextPageToken,
               cursor.NextPageToken # FirstPage
        PROVE  j < cursor.NextPageToken
    <3>1. cursor'.NextPageToken = p.next /\ p.next # NoMore
      BY <1>6, PollState
         DEF NextCursor, EffectiveNextPageToken, NoMore, FirstPage
    <3>2. p.next \in ListedAfter(cursor.NextPageToken)
      BY <3>1, FetchedPageAfter DEF PageAfter
    <3>3. p.next < cursor.NextPageToken /\ p.next \in DOMAIN log
          /\ cursor.NextPageToken \in DOMAIN log
      BY <2>3, <3>2, NewestOrder DEF TypeOK
    <3> QED BY <2>3, <3>1, <3>3, LogTypes, FeedAssumption
  <2>4. FloorClosed'
    <3> SUFFICES ASSUME Floor(cursor, startAt) # ZeroTime,
                        NEW j \in FloorIDs(cursor), NEW k \in DOMAIN log,
                        k < j, Parses(k), TimeOf(k) = Floor(cursor, startAt),
                        TimeOf(j) = Floor(cursor, startAt),
                        j < cursor'.NextPageToken
                 PROVE  k \in FloorIDs(cursor)
      BY <1>6, <2>1, PollState DEF FloorClosed
    <3> QED BY <2>3, FloorBounds DEF FloorClosed
  <2> QED BY <1>1, <1>2, <1>3, <1>4, <2>2, <2>4
<1> QED BY <1>5, <1>6

-----------------------------------------------------------------------------
(***************************************************************************)
(* The other steps.                                                        *)
(***************************************************************************)
(* A new event, n, is the last one of the log and the newest.              *)
LEMMA ArriveFacts ==
    ASSUME NewestFirst, LossInv,
           NEW r \in Record, NEW t \in 1..MaxTime, Arrive(r, t),
           NEW n \in Nat, n = Len(log) + 1
    PROVE  /\ UNCHANGED <<clock, startAt, syncedTo, cursor, cache,
                          delivered, cutOff>>
           /\ DOMAIN log' = DOMAIN log \cup {n}
           /\ \A i \in DOMAIN log : i \in Nat /\ i < n
           /\ n > syncedTo
           /\ TimeOf(n)' = clock /\ (Parses(n) => HasID(n))'
<1> USE DEF LossInv
<1>1. /\ UNCHANGED <<clock, startAt, syncedTo, cursor, cache, delivered, cutOff>>
      /\ t = clock /\ (r.parses => r.hasID)
  BY DEF Arrive, NewestFirst
<1>2. DOMAIN log' = DOMAIN log \cup {n} /\ log'[n] = [time |-> t, record |-> r]
  BY ArriveLog
<1>3. TimeOf(n)' = clock /\ (Parses(n) => HasID(n))'
  BY <1>1, <1>2 DEF TimeOf, HasID, Parses
<1>4. DOMAIN log = 1..Len(log) /\ Len(log) \in Nat /\ syncedTo \in 0..Len(log)
  BY LogTypes, FeedAssumption DEF TypeOK
<1>5. n > syncedTo /\ \A i \in DOMAIN log : i \in Nat /\ i < n
  BY <1>4
<1> QED BY <1>1, <1>2, <1>3, <1>5

LEMMA ArriveKeepsLossInv ==
    ASSUME NewestFirst, LossInv,
           NEW r \in Record, NEW t \in 1..MaxTime, Arrive(r, t)
    PROVE  LossInv'
<1> USE DEF LossInv
<1>1. TypeOK' /\ CachedPages'
  BY NextTypeOK, ArriveKeepsPages DEF Next
<1> PICK n \in Nat : n = Len(log) + 1
  BY LogTypes, FeedAssumption
<1>2. /\ UNCHANGED <<clock, startAt, syncedTo, cursor, cache, delivered, cutOff>>
      /\ DOMAIN log' = DOMAIN log \cup {n}
      /\ \A i \in DOMAIN log : i \in Nat /\ i < n
      /\ n > syncedTo
  BY ArriveFacts
<1>3. ASSUME NEW i \in DOMAIN log
      PROVE  /\ TimeOf(i)' = TimeOf(i)
             /\ HasID(i)' = HasID(i)
             /\ Parses(i)' = Parses(i)
             /\ Settled(i) => Settled(i)'
  BY <1>2, ArriveKeepsOrder DEF Settled
<1>4. TimeOf(n)' = clock /\ (Parses(n) => HasID(n))'
  BY ArriveFacts
<1>5. /\ Floor(cursor, startAt)' = Floor(cursor, startAt)
      /\ FloorIDs(cursor)' = FloorIDs(cursor)
      /\ MidStream(cursor)' <=> MidStream(cursor)
  BY <1>2 DEF Floor, FloorIDs, MidStream, CatchingUp
<1>6. cursor.LastEventIDs \subseteq DOMAIN log /\ FloorIDs(cursor) \subseteq DOMAIN log
  BY FloorBounds DEF TypeOK
<1>7. /\ \A i \in DOMAIN log : TimeOf(i) \in Nat
      /\ clock \in Nat /\ startAt \in Nat /\ startAt <= clock
      /\ Floor(cursor, startAt) <= clock
      /\ Floor(cursor, startAt) \in Nat
  BY LogTypes, FloorBounds, FeedAssumption DEF TypeOK
<1>8. LogSorted'
  <2>1. ASSUME NEW i \in DOMAIN log', NEW j \in DOMAIN log', i < j
        PROVE  TimeOf(i)' <= TimeOf(j)'
    <3>1. i \in DOMAIN log
      BY <1>2, <2>1
    <3>2. CASE j \in DOMAIN log
      BY <1>3, <2>1, <3>1, <3>2 DEF LogSorted
    <3>3. CASE j = n
      BY <1>3, <1>4, <3>1, <3>3 DEF LogSorted
    <3> QED BY <1>2, <3>2, <3>3
  <2>2. ASSUME NEW i \in DOMAIN log'
        PROVE  ((Parses(i) => HasID(i)) /\ TimeOf(i) <= clock
                  /\ (i > syncedTo => TimeOf(i) >= startAt))'
    <3>1. CASE i \in DOMAIN log
      BY <1>2, <1>3, <3>1 DEF LogSorted
    <3>2. CASE i = n
      BY <1>2, <1>4, <1>7, <3>2
    <3> QED BY <1>2, <3>1, <3>2
  <2> QED BY <2>1, <2>2 DEF LogSorted
<1>9. MarkSound'
  BY <1>2, <1>3, <1>6 DEF MarkSound
<1>10. FloorSound'
  <2>1. \A j \in cursor.FloorEventIDs : TimeOf(j)' = TimeOf(j)
    BY <1>3 DEF FloorSound
  <2> QED BY <1>2, <1>5, <2>1 DEF FloorSound
<1>11. FloorSettled'
  <2> SUFFICES ASSUME Floor(cursor, startAt) # ZeroTime, NEW i \in DOMAIN log',
                      \/ TimeOf(i)' < Floor(cursor, startAt)
                      \/ \E j \in FloorIDs(cursor) : i <= j
               PROVE  Settled(i)'
    BY <1>5 DEF FloorSettled
  <2>1. i # n
    BY <1>2, <1>4, <1>6, <1>7
  <2> QED BY <1>2, <1>3, <2>1 DEF FloorSettled
<1>12. ReadSettled'
  <2> SUFFICES ASSUME NEW j \in cursor.LastEventIDs, NEW i \in DOMAIN log', i <= j,
                      cursor.NextPageToken # FirstPage =>
                          cursor.NextPageToken <= i
               PROVE  Settled(i)'
    BY <1>2 DEF ReadSettled
  <2>1. i # n
    BY <1>2, <1>6
  <2> QED BY <1>2, <1>3, <2>1 DEF ReadSettled
<1>13. MarkClosed' /\ FloorClosed'
  <2>1. \A j \in DOMAIN log, k \in DOMAIN log' : k < j => k \in DOMAIN log
    BY <1>2
  <2>2. MarkClosed'
    BY <1>2, <1>3, <1>6, <2>1 DEF MarkClosed
  <2>3. FloorClosed'
    BY <1>2, <1>3, <1>5, <1>6, <2>1 DEF FloorClosed
  <2> QED BY <2>2, <2>3
<1>14. CachedRuns'
  <2> SUFFICES ASSUME NEW k \in Tokens, cache[k] # Uncached,
                      NEW l \in DOMAIN log', Below(l, cache[k], k),
                      \/ cache[k].next = NoMore
                      \/ \E i \in cache[k].items : i < l
               PROVE  l \in cache[k].items
    BY <1>2 DEF CachedRuns, RunPage, Below
  <2>1. k \in {FirstPage} \cup DOMAIN log /\ cache[k].items \subseteq DOMAIN log
    BY DEF CachedPages, PageAfter, TypeOK
  <2>2. l # n
    BY <1>2, <2>1 DEF Below
  <2> QED BY <1>2, <2>2 DEF CachedRuns, RunPage
<1>15. EarlyStopSound'
  BY <1>2 DEF EarlyStopSound
<1> QED BY <1>1, <1>8, <1>9, <1>10, <1>11, <1>12, <1>13, <1>14, <1>15

(* A full sync settles every event there is.                               *)
LEMMA FullSyncKeepsLossInv ==
    ASSUME NewestFirst, LossInv, FullSync
    PROVE  LossInv'
<1> USE DEF LossInv
<1>1. TypeOK'
  BY NextTypeOK DEF Next
<1>2. /\ UNCHANGED <<clock, log, cursor, delivered, cutOff>>
      /\ startAt' = clock /\ syncedTo' = Len(log)
      /\ cache' = [k \in Tokens |-> Uncached]
  BY DEF FullSync
<1>3. \A i : /\ TimeOf(i)' = TimeOf(i)
             /\ HasID(i)' = HasID(i)
             /\ Parses(i)' = Parses(i)
  BY <1>2 DEF TimeOf, HasID, Parses
<1>4. \A i \in DOMAIN log : i \in Nat /\ i <= syncedTo'
  BY <1>2, LogTypes, FeedAssumption
<1>5. \A i \in DOMAIN log : Settled(i)'
  BY <1>4 DEF Settled
<1>6. CachedPages' /\ CachedRuns' /\ EarlyStopSound'
  BY <1>2 DEF CachedPages, CachedRuns, EarlyStopSound
<1>7. /\ clock \in Nat /\ startAt \in Nat /\ startAt <= clock
      /\ cursor.LastEventTime \in Nat /\ cursor.FloorEventTime \in Nat
  BY FloorBounds DEF TypeOK
<1>8. LogSorted'
  <2>1. \A i \in DOMAIN log' : ~(i > syncedTo')
    BY <1>2, <1>4, <1>1 DEF TypeOK
  <2> QED BY <1>2, <1>3, <2>1 DEF LogSorted
<1>9. MarkSound'
  BY <1>2, <1>3 DEF MarkSound
<1>10. FloorSound'
  BY <1>2, <1>3, <1>7 DEF FloorSound, MidStream
<1>11. FloorSettled' /\ ReadSettled'
  BY <1>2, <1>5 DEF FloorSettled, ReadSettled
<1>12. MarkClosed'
  BY <1>2, <1>3, <1>7 DEF MarkClosed
<1>13. FloorClosed'
  <2>1. CASE cursor.NextPageToken = FirstPage
    <3>1. (TypeOK /\ LogSorted /\ MarkSound /\ FloorSound /\ ReadSettled
              /\ MarkClosed /\ cursor.NextPageToken = FirstPage
             => FloorSettled /\ FloorClosed)'
      BY IdleFloor, PTL
    <3> QED BY <1>1, <1>2, <1>8, <1>9, <1>10, <1>11, <1>12, <2>1, <3>1
            DEF FirstPage
  <2>2. CASE MidStream(cursor)
    <3>1. Floor(cursor, startAt)' = Floor(cursor, startAt)
          /\ FloorIDs(cursor)' = FloorIDs(cursor)
      BY <1>2, <2>2 DEF Floor, FloorIDs, MidStream
    <3> QED BY <1>2, <1>3, <3>1 DEF FloorClosed
  <2>3. CASE cursor.NextPageToken # FirstPage /\ ~MidStream(cursor)
    <3>1. FloorIDs(cursor)' = cursor.LastEventIDs
      BY <1>2, <2>3 DEF FloorIDs, MidStream
    <3>2. \A j \in cursor.LastEventIDs : ~(j < cursor.NextPageToken)
      BY <2>3, LogTypes DEF FloorSound, TypeOK
    <3> QED BY <1>2, <2>3, <3>1, <3>2 DEF FloorClosed
  <2> QED BY <2>1, <2>2, <2>3
<1> QED BY <1>1, <1>6, <1>8, <1>9, <1>10, <1>11, <1>12, <1>13

(* A step that leaves everything but the clock and the cache alone.        *)
LEMMA QuietStepKeepsLossInv ==
    ASSUME NewestFirst, LossInv, TypeOK', CachedPages', CachedRuns',
           clock' >= clock,
           UNCHANGED <<log, startAt, syncedTo, cursor, delivered, cutOff>>
    PROVE  LossInv'
<1> USE DEF LossInv
<1>1. \A i : /\ TimeOf(i)' = TimeOf(i)
             /\ HasID(i)' = HasID(i)
             /\ Parses(i)' = Parses(i)
             /\ Settled(i)' <=> Settled(i)
  BY DEF TimeOf, HasID, Parses, Reported, Settled
<1>2. /\ Floor(cursor, startAt)' = Floor(cursor, startAt)
      /\ FloorIDs(cursor)' = FloorIDs(cursor)
      /\ MidStream(cursor)' <=> MidStream(cursor)
  BY DEF Floor, FloorIDs, MidStream, CatchingUp
<1>3. /\ clock \in Nat /\ clock' \in Nat
      /\ cursor.LastEventTime \in Nat /\ cursor.FloorEventTime \in Nat
  BY FloorBounds, FeedAssumption DEF TypeOK
<1>4. LogSorted'
  <2>1. \A i \in DOMAIN log : TimeOf(i) \in Nat
    BY LogTypes, FeedAssumption
  <2> QED BY <1>1, <1>3, <2>1 DEF LogSorted
<1>5. MarkSound'
  BY <1>1, <1>3 DEF MarkSound
<1>6. FloorSound'
  BY <1>1, <1>2, <1>3 DEF FloorSound
<1>7. FloorSettled' /\ ReadSettled'
  BY <1>1, <1>2 DEF FloorSettled, ReadSettled
<1>8. MarkClosed' /\ FloorClosed'
  BY <1>1, <1>2 DEF MarkClosed, FloorClosed
<1>9. EarlyStopSound'
  BY DEF EarlyStopSound
<1> QED BY <1>4, <1>5, <1>6, <1>7, <1>8, <1>9

LEMMA NextLossInv == NewestFirst /\ LossInv /\ [Next]_vars => LossInv'
<1> SUFFICES ASSUME NewestFirst, LossInv, [Next]_vars PROVE LossInv'
  OBVIOUS
<1>1. TypeOK /\ CachedPages /\ CachedRuns /\ TypeOK'
  BY NextTypeOK DEF LossInv
<1>2. clock \in Nat
  BY <1>1, FeedAssumption DEF TypeOK
<1>3. ASSUME cache' = cache, log' = log PROVE CachedPages' /\ CachedRuns'
  BY <1>1, <1>3, SameLogSameOrder
     DEF CachedPages, PageAfter, CachedRuns, RunPage, Below
<1>4. CASE Tick
  BY <1>1, <1>2, <1>3, <1>4, QuietStepKeepsLossInv DEF Tick
<1>5. ASSUME NEW r \in Record, NEW t \in 1..MaxTime, Arrive(r, t)
      PROVE  LossInv'
  BY <1>5, ArriveKeepsLossInv
<1>6. CASE FullSync
  BY <1>6, FullSyncKeepsLossInv
<1>7. ASSUME NEW p \in Fetched(cursor.NextPageToken), Poll(p)
      PROVE  LossInv'
  BY <1>7, PollKeepsLossInv
<1>8. ASSUME NEW p \in Fetched(cursor.NextPageToken), PollLost(p)
      PROVE  LossInv'
  <2>1. CachedPages' /\ CachedRuns'
    BY <1>1, <1>8, PollKeepsPages, PollKeepsRuns DEF PollLost
  <2> QED BY <1>1, <1>2, <1>8, <2>1, QuietStepKeepsLossInv DEF PollLost
<1>9. ASSUME NEW t \in Tokens, Expire(t)
      PROVE  LossInv'
  <2>1. log' = log /\ \A k \in Tokens : cache'[k] # Uncached => cache'[k] = cache[k]
    BY <1>1, <1>9 DEF Expire, TypeOK
  <2>2. CachedPages' /\ CachedRuns'
    BY <1>1, <2>1, SameLogSameOrder
       DEF CachedPages, PageAfter, CachedRuns, RunPage, Below
  <2> QED BY <1>1, <1>2, <1>9, <2>2, QuietStepKeepsLossInv DEF Expire
<1>10. CASE PollFails
  BY <1>1, <1>2, <1>3, <1>10, QuietStepKeepsLossInv DEF PollFails
<1>11. CASE UNCHANGED vars
  BY <1>1, <1>2, <1>3, <1>11, QuietStepKeepsLossInv DEF vars
<1> QED BY <1>4, <1>5, <1>6, <1>7, <1>8, <1>9, <1>10, <1>11 DEF Next, Polled

LEMMA InitLossInv == Init => LossInv
<1> SUFFICES ASSUME Init PROVE LossInv
  OBVIOUS
<1>1. TypeOK /\ CachedPages /\ CachedRuns /\ EarlyStopSound
  BY InitTypeOK DEF Init, CachedPages, CachedRuns, EarlyStopSound
<1>2. log = <<>> /\ DOMAIN log = {} /\ cursor = EmptyToken
  BY DEF Init
<1>3. LogSorted
  BY <1>2 DEF LogSorted
<1>4. MarkSound /\ FloorSound
  BY <1>2 DEF Init, EmptyToken, MarkSound, FloorSound, ZeroTime
<1>5. FloorSettled /\ ReadSettled /\ MarkClosed /\ FloorClosed
  BY <1>2 DEF FloorSettled, ReadSettled, MarkClosed, FloorClosed
<1> QED BY <1>1, <1>3, <1>4, <1>5 DEF LossInv

LEMMA LossInvNoLostEvent == NewestFirst /\ LossInv => NoLostEvent
<1> SUFFICES ASSUME NewestFirst, LossInv, NEW i \in Passed PROVE i \in Known
  BY DEF NoLostEvent
<1> USE DEF LossInv
<1>1. i \in DOMAIN log /\ BehindFloor(i, cursor, startAt) /\ i \in Nat
  BY LogTypes, FeedAssumption DEF Passed
<1>2. Parses(i) => Settled(i)
  BY <1>1 DEF BehindFloor, LogSorted, FloorSettled
<1> QED BY <1>1, <1>2 DEF Settled, Known

(* No change is lost: once the cursor has passed an event, whatever pages  *)
(* it was on and whatever arrived, was lost or was cached in between, the  *)
(* event has been reported or a full sync has covered it.                  *)
THEOREM NothingLost == ASSUME NewestFirst PROVE Spec => []NoLostEvent
<1>1. Init => LossInv
  BY InitLossInv
<1>2. LossInv /\ [Next]_vars => LossInv'
  BY NextLossInv
<1>3. LossInv => NoLostEvent
  BY LossInvNoLostEvent
<1> QED BY <1>1, <1>2, <1>3, PTL DEF Spec

(* The comment on the early stop holds: the pages it leaves unread hold    *)
(* nothing the poll would report.                                          *)
THEOREM EarlyStopCorrect == ASSUME NewestFirst PROVE Spec => []EarlyStopSound
<1>1. Init => LossInv
  BY InitLossInv
<1>2. LossInv /\ [Next]_vars => LossInv'
  BY NextLossInv
<1>3. LossInv => EarlyStopSound
  BY DEF LossInv
<1> QED BY <1>1, <1>2, <1>3, PTL DEF Spec

-----------------------------------------------------------------------------
(***************************************************************************)
(* The feed implements ChangeFeed.                                         *)
(***************************************************************************)
(* What the platform knows of the changes the cursor has passed.           *)
LEMMA PassedChangesKnown ==
    NewestFirst /\ LossInv =>
        Passed \cap Reportable \subseteq
            Reportable \cap (delivered \cup (Reportable \cap 1..syncedTo))
<1> SUFFICES ASSUME NewestFirst, LossInv, NEW i \in Passed \cap Reportable
             PROVE  i \in delivered \/ i \in 1..syncedTo
  BY DEF Reportable
<1>1. i \in DOMAIN log /\ i \in Nat /\ i >= 1 /\ syncedTo \in Nat
  BY LogTypes, FeedAssumption DEF Passed, LossInv, TypeOK
<1>2. i \in Known /\ Parses(i) /\ Reported(i)
  BY LossInvNoLostEvent DEF NoLostEvent, Reportable
<1> QED BY <1>1, <1>2 DEF Known

LEMMA NextPassedChangesKnown ==
    NewestFirst /\ LossInv' =>
        (Passed \cap Reportable \subseteq
            Reportable \cap (delivered \cup (Reportable \cap 1..syncedTo)))'
<1>1. (NewestFirst /\ LossInv =>
          Passed \cap Reportable \subseteq
            Reportable \cap (delivered \cup (Reportable \cap 1..syncedTo)))'
  BY PassedChangesKnown, PTL
<1>2. NewestFirst => NewestFirst'
  BY DEF NewestFirst
<1> QED BY <1>1, <1>2

(* A step that touches neither log, cursor, earliestEvent nor what was     *)
(* reported stutters.                                                      *)
LEMMA QuietStepStutters ==
    ASSUME UNCHANGED <<log, startAt, syncedTo, cursor, delivered>>
    PROVE  UNCHANGED Feed!vars
<1>1. \A i : /\ BehindFloor(i, cursor, startAt)' <=> BehindFloor(i, cursor, startAt)
             /\ Parses(i)' <=> Parses(i)
             /\ Reported(i)' <=> Reported(i)
  BY DEF BehindFloor, TimeOf, HasID, Parses, Reported, Floor, FloorIDs,
         MidStream, CatchingUp
<1>2. Reportable' = Reportable /\ Passed' = Passed
  BY <1>1 DEF Reportable, Passed
<1> QED BY <1>2 DEF Feed!vars

(* The next poll's floor is no lower, and an event at a floor that stays   *)
(* has its ID among those at the mark, which the page only adds to.        *)
LEMMA PollKeepsBehind ==
    ASSUME NewestFirst, LossInv, NEW p \in Fetched(cursor.NextPageToken),
           Poll(p), NEW i \in DOMAIN log, BehindFloor(i, cursor, startAt)
    PROVE  BehindFloor(i, cursor, startAt)'
<1> DEFINE n == NextCursor(cursor, startAt, p)
           F == Floor(cursor, startAt)
           G == Floor(n, startAt)
<1> USE DEF LossInv
<1>1. /\ startAt' = startAt /\ cursor' = n /\ TypeOK'
      /\ TimeOf(i)' = TimeOf(i) /\ HasID(i)' = HasID(i)
  BY PollState
<1> SUFFICES BehindFloor(i, n, startAt)
  BY <1>1 DEF BehindFloor, Floor, FloorIDs, MidStream, CatchingUp
<1>2. CASE n.NextPageToken # FirstPage
  BY <1>2, FloorStable DEF BehindFloor
<1>3. CASE n.NextPageToken = FirstPage
  <2>1. /\ G \in Nat /\ G >= startAt /\ G >= n.LastEventTime
        /\ FloorIDs(n) = n.LastEventIDs
    <3>1. (TypeOK /\ cursor.NextPageToken = FirstPage =>
              /\ Floor(cursor, startAt) \in Nat
              /\ Floor(cursor, startAt) >= startAt
              /\ Floor(cursor, startAt) >= cursor.LastEventTime
              /\ FloorIDs(cursor) = cursor.LastEventIDs)'
      BY FloorFacts, PTL
    <3>2. Floor(cursor, startAt)' = G /\ FloorIDs(cursor)' = FloorIDs(n)
      BY <1>1 DEF Floor, FloorIDs, MidStream, CatchingUp
    <3> HIDE DEF n, G
    <3> QED BY <1>1, <1>3, <3>1, <3>2 DEF FirstPage
  <2>2. /\ n.LastEventTime \in Nat /\ n.LastEventTime >= cursor.LastEventTime
        /\ n.LastEventTime = cursor.LastEventTime =>
              cursor.LastEventIDs \subseteq n.LastEventIDs
    BY <1>1, NextMark
  <2>3. /\ F \in Nat /\ startAt \in Nat /\ cursor.LastEventTime \in Nat
        /\ F <= startAt \/ F <= cursor.LastEventTime
        /\ i \in FloorIDs(cursor) =>
              /\ TimeOf(i) <= cursor.LastEventTime
              /\ TimeOf(i) = cursor.LastEventTime => i \in cursor.LastEventIDs
    BY FloorBounds
  <2>4. TimeOf(i) \in Nat /\ F # ZeroTime
        /\ (TimeOf(i) < F \/ (TimeOf(i) = F /\ (HasID(i) => i \in FloorIDs(cursor))))
    BY LogTypes, FeedAssumption DEF BehindFloor
  <2> HIDE DEF n, F, G
  <2>5. F <= G
    BY <2>1, <2>2, <2>3
  <2>6. TimeOf(i) = G /\ HasID(i) => i \in n.LastEventIDs
    <3> SUFFICES ASSUME TimeOf(i) = G, HasID(i) PROVE i \in n.LastEventIDs
      OBVIOUS
    <3>1. TimeOf(i) = F /\ i \in FloorIDs(cursor)
      BY <2>1, <2>3, <2>4, <2>5
    <3>2. n.LastEventTime = cursor.LastEventTime /\ TimeOf(i) = cursor.LastEventTime
      BY <2>1, <2>2, <2>3, <2>4, <3>1
    <3> QED BY <2>2, <2>3, <3>1, <3>2
  <2>7. G # ZeroTime /\ TimeOf(i) <= G
    BY <2>1, <2>3, <2>4, <2>5 DEF ZeroTime
  <2> QED BY <2>1, <2>4, <2>6, <2>7 DEF BehindFloor, G
<1> QED BY <1>2, <1>3

(* A poll reports, and passes only what is known by then.                  *)
LEMMA PollReports ==
    ASSUME NewestFirst, LossInv, LossInv',
           NEW p \in Fetched(cursor.NextPageToken), Poll(p)
    PROVE  Feed!Report
<1> DEFINE S == EmittedEvents(cursor, startAt, p)
<1>1. /\ log' = log /\ syncedTo' = syncedTo
      /\ \A i : Parses(i)' = Parses(i) /\ Reported(i)' = Reported(i)
  BY PollState
<1>2. Reportable' = Reportable
  BY <1>1 DEF Reportable
<1>3. S \in SUBSET Reportable /\ delivered' = delivered \cup S
  <2>1. Parsed(p) \subseteq DOMAIN log
    BY FetchedTypes DEF Parsed, LossInv
  <2> QED BY <2>1 DEF EmittedEvents, Parsed, Reportable, Poll
<1>4. Passed \cap Reportable \subseteq Passed' \cap Reportable'
  BY <1>1, <1>2, PollKeepsBehind DEF Passed
<1>5. (Passed \cap Reportable)' \subseteq
        (Reportable \cap (delivered \cup (Reportable \cap 1..syncedTo)))'
  BY NextPassedChangesKnown
<1> HIDE DEF S
<1> QED BY <1>1, <1>2, <1>3, <1>4, <1>5 DEF Feed!Report, Feed!Advance

(* A full sync absorbs every change there is.                              *)
LEMMA FullSyncAbsorbs ==
    ASSUME NewestFirst, LossInv, LossInv', FullSync
    PROVE  Feed!Absorb
<1>1. /\ log' = log /\ delivered' = delivered /\ syncedTo' = Len(log)
  BY DEF FullSync
<1>2. Reportable' = Reportable
  BY <1>1 DEF Reportable, Parses, Reported
<1>3. (Reportable \cap 1..syncedTo)' = Reportable
  <2>1. DOMAIN log = 1..syncedTo'
    BY <1>1, LogTypes DEF LossInv
  <2> QED BY <1>2, <2>1 DEF Reportable
<1>4. Passed \cap Reportable \subseteq Passed' \cap Reportable'
  BY <1>1, <1>2, FullSyncKeepsBehind DEF Passed, LossInv
<1>5. (Passed \cap Reportable)' \subseteq
        (Reportable \cap (delivered \cup (Reportable \cap 1..syncedTo)))'
  BY NextPassedChangesKnown
<1> QED BY <1>1, <1>2, <1>3, <1>4, <1>5 DEF Feed!Absorb, Feed!Advance

(* A new event is published if it is a change, and is not behind the       *)
(* floor: it is no older than it, and its ID is not yet known.             *)
LEMMA ArrivePublishes ==
    ASSUME NewestFirst, LossInv, NEW r \in Record, NEW t \in 1..MaxTime,
           Arrive(r, t)
    PROVE  Feed!Publish \/ UNCHANGED Feed!vars
<1> USE DEF LossInv
<1> PICK n \in Nat : n = Len(log) + 1
  BY LogTypes, FeedAssumption
<1>1. /\ UNCHANGED <<startAt, syncedTo, cursor, delivered>>
      /\ DOMAIN log' = DOMAIN log \cup {n}
      /\ \A i \in DOMAIN log : i \in Nat /\ i < n
      /\ n > syncedTo /\ TimeOf(n)' = clock /\ (Parses(n) => HasID(n))'
  BY ArriveFacts
<1>2. ASSUME NEW i \in DOMAIN log
      PROVE  /\ TimeOf(i)' = TimeOf(i) /\ HasID(i)' = HasID(i)
             /\ Parses(i)' = Parses(i) /\ Reported(i)' = Reported(i)
  BY ArriveKeepsOrder
<1>3. Floor(cursor, startAt)' = Floor(cursor, startAt)
      /\ FloorIDs(cursor)' = FloorIDs(cursor)
  BY <1>1 DEF Floor, FloorIDs, MidStream, CatchingUp
<1>4. n \in Positions /\ n \notin DOMAIN log /\ syncedTo \in Nat
  BY <1>1, LogTypes, FeedAssumption DEF Positions, Arrive, TypeOK
<1>5. \A i \in DOMAIN log :
         BehindFloor(i, cursor, startAt)' <=> BehindFloor(i, cursor, startAt)
  BY <1>2, <1>3 DEF BehindFloor
<1>6. ~(Parses(n) /\ BehindFloor(n, cursor, startAt))'
  <2>1. clock \in Nat /\ Floor(cursor, startAt) \in Nat
        /\ Floor(cursor, startAt) <= clock
        /\ n \notin FloorIDs(cursor)
    BY <1>4, FloorBounds
  <2> QED BY <1>1, <1>3, <2>1 DEF BehindFloor
<1>7. Reportable' = Reportable \cup {i \in {n} : (Parses(i) /\ Reported(i))'}
  BY <1>1, <1>2 DEF Reportable
<1>8. Passed' \cap Reportable' = Passed \cap Reportable
  BY <1>1, <1>4, <1>5, <1>6, <1>7 DEF Passed, Reportable
<1>9. (Reportable \cap 1..syncedTo)' = Reportable \cap 1..syncedTo
  BY <1>1, <1>4, <1>7
<1>10. CASE (Parses(n) /\ Reported(n))'
  <2>1. n \in Positions \ Reportable /\ Reportable' = Reportable \cup {n}
    BY <1>4, <1>7, <1>10 DEF Reportable
  <2> QED BY <1>1, <1>8, <1>9, <2>1 DEF Feed!Publish
<1>11. CASE ~(Parses(n) /\ Reported(n))'
  BY <1>1, <1>7, <1>8, <1>9, <1>11 DEF Feed!vars
<1> QED BY <1>10, <1>11

(* Every step of the feed is a step ChangeFeed allows, or none: what the   *)
(* cursor passes is known, and neither a retried or repeated poll, a new   *)
(* event, a full sync, an expiry nor a restart takes the cursor back.      *)
THEOREM FeedImplements == ASSUME NewestFirst PROVE Spec => ImplementsChangeFeed
<1>1. Init => LossInv /\ Feed!Init
  <2>1. Init => DOMAIN log = {} /\ delivered = {}
    BY DEF Init
  <2> QED BY <2>1, InitLossInv DEF Feed!Init, Reportable, Passed
<1>2. LossInv /\ [Next]_vars => LossInv'
  BY NextLossInv
<1>3. LossInv /\ LossInv' /\ [Next]_vars => [Feed!Next]_(Feed!vars)
  <2> SUFFICES ASSUME LossInv, LossInv', [Next]_vars
               PROVE  Feed!Next \/ UNCHANGED Feed!vars
    OBVIOUS
  <2>1. ASSUME NEW r \in Record, NEW t \in 1..MaxTime, Arrive(r, t)
        PROVE  Feed!Next \/ UNCHANGED Feed!vars
    BY <2>1, ArrivePublishes DEF Feed!Next
  <2>2. CASE FullSync
    BY <2>2, FullSyncAbsorbs DEF Feed!Next
  <2>3. ASSUME NEW p \in Fetched(cursor.NextPageToken), Poll(p)
        PROVE  Feed!Next
    BY <2>3, PollReports DEF Feed!Next
  <2>4. ASSUME UNCHANGED <<log, startAt, syncedTo, cursor, delivered>>
        PROVE  UNCHANGED Feed!vars
    BY <2>4, QuietStepStutters
  <2> QED BY <2>1, <2>2, <2>3, <2>4
          DEF Next, Polled, Tick, PollLost, PollFails, Expire, vars
<1> QED BY <1>1, <1>2, <1>3, PTL DEF Spec, ImplementsChangeFeed, Feed!Spec
=============================================================================
