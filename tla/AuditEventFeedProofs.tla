------------------------ MODULE AuditEventFeedProofs ------------------------
(***************************************************************************)
(* Theorems about the vendor audit event feed, for every log, page size,   *)
(* clock and interleaving.                                                 *)
(***************************************************************************)
EXTENDS AuditEventFeed, FiniteSetTheorems, WellFoundedInduction, TLAPS

-----------------------------------------------------------------------------
(* A non-empty finite set of naturals has a maximum, and Max is it.  The   *)
(* element with the fewest elements above it has none above it.            *)
LEMMA MaxIsMax ==
    ASSUME NEW T \in SUBSET Nat, IsFiniteSet(T), T # {}
    PROVE  Max(T) \in T /\ \A y \in T : Max(T) >= y
<1> DEFINE Above(x) == {y \in T : y > x}
           W == {Above(x) : x \in T}
<1>1. W \subseteq FiniteSubsetsOf(T)
  BY FS_Subset DEF FiniteSubsetsOf
<1>2. W # {}
  OBVIOUS
<1>3. PICK w \in W : \A v \in W : ~(<<v, w>> \in StrictSubsetOrdering(T))
  <2> HIDE DEF W
  <2> QED BY <1>1, <1>2, FS_StrictSubsetOrderingWellFounded, WFMin
<1>4. PICK x \in T : w = Above(x)
  BY <1>3
<1>5. \A y \in T : x >= y
  <2> SUFFICES ASSUME NEW y \in T, ~(x >= y) PROVE FALSE
    OBVIOUS
  <2>0. x \in Nat /\ y \in Nat /\ y > x
    OBVIOUS
  <2>1. Above(y) \in W /\ Above(y) \subseteq Above(x) /\ y \in Above(x)
    <3>1. Above(y) \in W
      OBVIOUS
    <3>2. y \in Above(x)
      BY <2>0
    <3>3. Above(y) \subseteq Above(x)
      <4> SUFFICES ASSUME NEW z \in T, z > y PROVE z > x
        OBVIOUS
      <4> QED BY <2>0
    <3> QED BY <3>1, <3>2, <3>3
  <2>2. y \notin Above(y)
    OBVIOUS
  <2>3. <<Above(y), w>> \in StrictSubsetOrdering(T)
    BY <1>4, <2>1, <2>2 DEF StrictSubsetOrdering
  <2> QED BY <1>3, <2>1, <2>3
<1> QED BY <1>5 DEF Max

-----------------------------------------------------------------------------
(***************************************************************************)
(* Type correctness.                                                       *)
(***************************************************************************)
LEMMA LogTypes ==
    ASSUME TypeOK
    PROVE  /\ Len(log) \in 0..MaxEvents
           /\ DOMAIN log = 1..Len(log)
           /\ DOMAIN log \subseteq Positions
           /\ \A i \in DOMAIN log :
                 /\ log[i] \in Event
                 /\ TimeOf(i) \in 1..MaxTime
                 /\ HasID(i) \in BOOLEAN
                 /\ Parses(i) \in BOOLEAN
<1>1. Len(log) \in 0..MaxEvents /\ DOMAIN log = 1..Len(log)
  BY FeedAssumption DEF TypeOK
<1>2. \A i \in DOMAIN log : log[i] \in Event
  BY <1>1 DEF TypeOK
<1>3. \A e \in Event : /\ e.time \in 1..MaxTime
                      /\ e.record.hasID \in BOOLEAN
                      /\ e.record.parses \in BOOLEAN
  BY FeedAssumption DEF Event
<1> QED BY <1>1, <1>2, <1>3, FeedAssumption
        DEF Positions, TimeOf, HasID, Parses

LEMMA FetchedTypes ==
    ASSUME TypeOK, NEW p \in Fetched(cursor.NextPageToken)
    PROVE  /\ p \in Page
           /\ p.items \subseteq DOMAIN log
           /\ p.next \in {NoMore} \cup DOMAIN log
<1> DEFINE token == cursor.NextPageToken
<1>1. token \in Tokens
  BY DEF TypeOK, EventPageToken
<1>2. CASE cache[token] # Uncached
  BY <1>1, <1>2 DEF TypeOK, Fetched
<1>3. CASE cache[token] = Uncached
  <2>1. ListedAfter(token) \subseteq DOMAIN log
    BY DEF ListedAfter
  <2>2. p \in [items : SUBSET ListedAfter(token), next : {NoMore} \cup DOMAIN log]
    BY <1>3 DEF Fetched
  <2> QED BY <2>1, <2>2, LogTypes, FeedAssumption
          DEF Page, Positions, Tokens, NoMore
<1> QED BY <1>2, <1>3

(* The new high-water mark: a time, no smaller than any time on the page   *)
(* or the old mark, and one of them.                                       *)
LEMMA MaxEventTimeIsMax ==
    ASSUME TypeOK, NEW p \in Fetched(cursor.NextPageToken)
    PROVE  /\ MaxEventTime(cursor, p) \in Times
           /\ MaxEventTime(cursor, p) >= cursor.LastEventTime
           /\ \A i \in Parsed(p) : MaxEventTime(cursor, p) >= TimeOf(i)
           /\ \/ MaxEventTime(cursor, p) = cursor.LastEventTime
              \/ \E i \in Parsed(p) : MaxEventTime(cursor, p) = TimeOf(i)
<1> DEFINE T == {cursor.LastEventTime} \cup {TimeOf(i) : i \in Parsed(p)}
<1>1. T \subseteq Times
  <2>1. Parsed(p) \subseteq DOMAIN log
    BY FetchedTypes DEF Parsed
  <2> QED BY <2>1, LogTypes, FeedAssumption DEF TypeOK, EventPageToken, Times
<1>2. Times \subseteq Nat /\ \A t \in Times : t <= MaxTime
  BY FeedAssumption DEF Times
<1>3. IsFiniteSet(T)
  BY <1>1, <1>2, FeedAssumption, FS_BoundedSetOfNaturals
<1>4. T # {}
  OBVIOUS
<1>5. Max(T) \in T /\ \A y \in T : Max(T) >= y
  <2> HIDE DEF T
  <2> QED BY <1>1, <1>2, <1>3, <1>4, MaxIsMax
<1>6. MaxEventTime(cursor, p) = Max(T)
  BY DEF MaxEventTime
<1> HIDE DEF Parsed
<1> QED BY <1>1, <1>5, <1>6

LEMMA NextCursorTypes ==
    ASSUME TypeOK, NEW p \in Fetched(cursor.NextPageToken)
    PROVE  /\ NextCursor(cursor, startAt, p) \in EventPageToken
           /\ NextCursor(cursor, startAt, p).NextPageToken
                \in {FirstPage} \cup DOMAIN log
           /\ NextCursor(cursor, startAt, p).LastEventIDs
                \subseteq {i \in DOMAIN log : HasID(i)}
<1>1. EffectiveNextPageToken(cursor, startAt, p) \in {FirstPage} \cup DOMAIN log
  BY FetchedTypes DEF EffectiveNextPageToken, NoMore, FirstPage
<1>2. EffectiveNextPageToken(cursor, startAt, p) \in Tokens
  BY <1>1, LogTypes, FeedAssumption DEF Tokens, FirstPage, Positions
<1>3. MaxEventTime(cursor, p) \in Times
  BY MaxEventTimeIsMax
<1>4. MaxEventIDs(cursor, p) \subseteq {i \in DOMAIN log : HasID(i)}
  BY FetchedTypes DEF MaxEventIDs, Parsed, TypeOK
<1>5. MaxEventIDs(cursor, p) \in SUBSET Positions
  BY <1>4, LogTypes
<1>6. Floor(cursor, startAt) \in Times
  BY FeedAssumption DEF Floor, TypeOK, EventPageToken, Times
<1>7. FloorIDs(cursor) \in SUBSET Positions
  BY DEF FloorIDs, TypeOK, EventPageToken
<1>8. ZeroTime \in Times
  BY FeedAssumption DEF ZeroTime, Times
<1> QED BY <1>1, <1>2, <1>3, <1>4, <1>5, <1>6, <1>7, <1>8
        DEF NextCursor, EventPageToken

(* What one more event does to the log.                                    *)
LEMMA ArriveLog ==
    ASSUME TypeOK, NEW r \in Record, NEW t \in 1..MaxTime, Arrive(r, t)
    PROVE  /\ log' \in Seq(Event)
           /\ Len(log') = Len(log) + 1
           /\ DOMAIN log' = DOMAIN log \cup {Len(log) + 1}
           /\ \A i \in DOMAIN log : log'[i] = log[i]
           /\ log'[Len(log) + 1] = [time |-> t, record |-> r]
<1>1. [time |-> t, record |-> r] \in Event
  BY DEF Event
<1> QED BY <1>1 DEF Arrive, TypeOK

LEMMA InitTypeOK == Init => TypeOK
<1> SUFFICES ASSUME Init PROVE TypeOK
  OBVIOUS
<1>1. EmptyToken \in EventPageToken
  BY FeedAssumption
     DEF EmptyToken, EventPageToken, Tokens, Times, FirstPage, ZeroTime
<1>2. \A t \in Tokens : cache[t] = Uncached
  BY DEF Init
<1>3. cache \in [Tokens -> Page \cup {Uncached}]
  BY DEF Init
<1>4. log \in Seq(Event) /\ Len(log) = 0 /\ DOMAIN log = {}
  BY DEF Init
<1>5. cursor.LastEventIDs = {} /\ cursor.NextPageToken = FirstPage
  BY DEF Init, EmptyToken
<1> QED BY <1>1, <1>2, <1>3, <1>4, <1>5, FeedAssumption
        DEF Init, TypeOK, ZeroTime

LEMMA NextTypeOK == TypeOK /\ [Next]_vars => TypeOK'
<1> SUFFICES ASSUME TypeOK, [Next]_vars PROVE TypeOK'
  OBVIOUS
<1> USE FeedAssumption
<1>1. CASE Tick
  BY <1>1 DEF Tick, TypeOK, HasID
<1>2. ASSUME NEW r \in Record, NEW t \in 1..MaxTime, Arrive(r, t)
      PROVE  TypeOK'
  <2>1. Len(log') \in 0..MaxEvents /\ DOMAIN log \subseteq DOMAIN log'
        /\ Len(log) <= Len(log')
    BY <1>2, ArriveLog, LogTypes DEF Arrive
  <2>2. \A i \in DOMAIN log : HasID(i)' = HasID(i)
    BY <1>2, ArriveLog DEF HasID
  <2>3. (cursor.LastEventIDs \subseteq {i \in DOMAIN log : HasID(i)})'
    BY <1>2, <2>1, <2>2 DEF TypeOK, Arrive
  <2> QED BY <1>2, <2>1, <2>3, ArriveLog DEF TypeOK, Arrive
<1>3. CASE FullSync
  <2>1. cache' \in [Tokens -> Page \cup {Uncached}]
        /\ \A t \in Tokens : cache'[t] = Uncached
    BY <1>3 DEF FullSync
  <2> QED BY <1>3, <2>1, LogTypes DEF FullSync, TypeOK, HasID
<1>4. ASSUME NEW p \in Fetched(cursor.NextPageToken),
             cache' = [cache EXCEPT ![cursor.NextPageToken] = p]
      PROVE  /\ cache' \in [Tokens -> Page \cup {Uncached}]
             /\ \A t \in Tokens : cache'[t] # Uncached =>
                   /\ cache'[t].items \subseteq DOMAIN log
                   /\ cache'[t].next \in {NoMore} \cup DOMAIN log
             /\ \A t \in undecodable : cache'[t] = Uncached
  <2>1. cursor.NextPageToken \notin undecodable
    BY DEF Fetched
  <2> QED BY <1>4, <2>1, FetchedTypes DEF TypeOK
<1>5. ASSUME NEW p \in Fetched(cursor.NextPageToken), Poll(p)
      PROVE  TypeOK'
  <2>1. EmittedEvents(cursor, startAt, p) \subseteq DOMAIN log
    BY FetchedTypes DEF EmittedEvents, Parsed
  <2>2. UnreadReportable(cursor, startAt, p) \subseteq DOMAIN log
    BY DEF UnreadReportable, ListedAfter
  <2>3. delivered' \subseteq DOMAIN log /\ redelivered' \subseteq delivered'
        /\ cutOff' \subseteq DOMAIN log
    BY <1>5, <2>1, <2>2 DEF Poll, TypeOK
  <2> QED BY <1>4, <1>5, <2>3, NextCursorTypes DEF Poll, TypeOK, HasID
<1>6. ASSUME NEW p \in Fetched(cursor.NextPageToken), PollLost(p)
      PROVE  TypeOK'
  BY <1>4, <1>6 DEF PollLost, TypeOK, HasID
<1>7. ASSUME NEW t \in Tokens, Expire(t)
      PROVE  TypeOK'
  <2>1. /\ undecodable' \subseteq Tokens
        /\ \A k \in undecodable' : cache'[k] = Uncached
    BY <1>7 DEF Expire, TypeOK
  <2>2. cache' \in [Tokens -> Page \cup {Uncached}]
        /\ \A k \in Tokens : cache'[k] # Uncached => cache'[k] = cache[k]
    BY <1>7 DEF Expire, TypeOK
  <2> QED BY <1>7, <2>1, <2>2 DEF Expire, TypeOK, HasID
<1>8. CASE PollFails
  BY <1>8 DEF PollFails, TypeOK, EventPageToken, HasID
<1>9. CASE UNCHANGED vars
  BY <1>9 DEF vars, TypeOK, HasID
<1> QED BY <1>1, <1>2, <1>3, <1>5, <1>6, <1>7, <1>8, <1>9 DEF Next, Polled

(* The feed's state always has its types, and the cursor only ever holds   *)
(* IDs of logged events that have one.                                     *)
THEOREM TypeCorrect == Spec => []TypeOK
<1>1. Init => TypeOK
  BY InitTypeOK
<1>2. TypeOK /\ [Next]_vars => TypeOK'
  BY NextTypeOK
<1> QED BY <1>1, <1>2, PTL DEF Spec

-----------------------------------------------------------------------------
(***************************************************************************)
(* Ramp's listing order and its pages, whatever the order is.              *)
(***************************************************************************)
LEMMA ListingIsOrder ==
    ASSUME TypeOK, NEW i \in DOMAIN log, NEW j \in DOMAIN log,
           NEW k \in DOMAIN log
    PROVE  /\ ~ListedBefore(i, i)
           /\ ListedBefore(i, j) => ~ListedBefore(j, i)
           /\ ListedBefore(i, j) /\ ListedBefore(j, k) => ListedBefore(i, k)
           /\ i # j => ListedBefore(i, j) \/ ListedBefore(j, i)
<1>1. /\ i \in Nat /\ j \in Nat /\ k \in Nat
      /\ TimeOf(i) \in Nat /\ TimeOf(j) \in Nat /\ TimeOf(k) \in Nat
  BY LogTypes, FeedAssumption
<1>2. CASE Listing = "newest_first"
  <2>1. \A a, b : ListedBefore(a, b) <=>
           TimeOf(a) > TimeOf(b) \/ (TimeOf(a) = TimeOf(b) /\ a > b)
    BY <1>2 DEF ListedBefore
  <2> QED BY <1>1, <2>1
<1>3. CASE Listing = "ties_oldest_first"
  <2>1. \A a, b : ListedBefore(a, b) <=>
           TimeOf(a) > TimeOf(b) \/ (TimeOf(a) = TimeOf(b) /\ a < b)
    BY <1>3 DEF ListedBefore
  <2> QED BY <1>1, <2>1
<1>4. CASE Listing = "oldest_first"
  <2>1. \A a, b : ListedBefore(a, b) <=>
           TimeOf(a) < TimeOf(b) \/ (TimeOf(a) = TimeOf(b) /\ a < b)
    BY <1>4 DEF ListedBefore
  <2> QED BY <1>1, <2>1
<1> QED BY <1>2, <1>3, <1>4, FeedAssumption

LEMMA SameLogSameOrder ==
    ASSUME log' = log
    PROVE  /\ \A i, j : ListedBefore(i, j)' <=> ListedBefore(i, j)
           /\ \A t : ListedAfter(t)' = ListedAfter(t)
<1>1. \A i : TimeOf(i)' = TimeOf(i)
  BY DEF TimeOf
<1>2. \A i, j : ListedBefore(i, j)' <=> ListedBefore(i, j)
  BY <1>1, Zenon DEF ListedBefore
<1> QED BY <1>2 DEF ListedAfter

(* A page, as long as it may sit in the cache: it follows its token, and   *)
(* the token of the next page is its last event.                           *)
PageAfter(p, t) ==
    /\ t \in {FirstPage} \cup DOMAIN log
    /\ p.items \subseteq ListedAfter(t)
    /\ p.next # NoMore =>
          /\ p.next \in p.items
          /\ \A i \in p.items : i = p.next \/ ListedBefore(i, p.next)

CachedPages ==
    \A t \in Tokens : cache[t] # Uncached => PageAfter(cache[t], t)

LEMMA FetchedPageAfter ==
    ASSUME TypeOK, CachedPages, NEW p \in Fetched(cursor.NextPageToken)
    PROVE  PageAfter(p, cursor.NextPageToken)
<1> DEFINE token == cursor.NextPageToken
<1>1. token \in Tokens /\ token \in {FirstPage} \cup DOMAIN log
  BY DEF TypeOK, EventPageToken
<1>2. CASE cache[token] # Uncached
  BY <1>1, <1>2 DEF CachedPages, Fetched
<1>3. CASE cache[token] = Uncached
  BY <1>1, <1>3 DEF Fetched, IsPage, PageAfter
<1> QED BY <1>2, <1>3

(* An arrival changes neither the events already there nor their order.    *)
LEMMA ArriveKeepsOrder ==
    ASSUME TypeOK, NEW r \in Record, NEW t \in 1..MaxTime, Arrive(r, t),
           NEW i \in DOMAIN log, NEW j \in DOMAIN log
    PROVE  /\ TimeOf(i)' = TimeOf(i)
           /\ HasID(i)' = HasID(i)
           /\ Parses(i)' = Parses(i)
           /\ Reported(i)' = Reported(i)
           /\ ListedBefore(i, j)' <=> ListedBefore(i, j)
<1>1. log'[i] = log[i] /\ log'[j] = log[j]
  BY ArriveLog
<1>2. TimeOf(i)' = TimeOf(i) /\ TimeOf(j)' = TimeOf(j)
  BY <1>1 DEF TimeOf
<1> QED BY <1>1, <1>2 DEF HasID, Parses, Reported, ListedBefore

LEMMA ArriveKeepsPages ==
    ASSUME TypeOK, CachedPages,
           NEW r \in Record, NEW t \in 1..MaxTime, Arrive(r, t)
    PROVE  CachedPages'
<1> SUFFICES ASSUME NEW k \in Tokens, cache[k] # Uncached
             PROVE  PageAfter(cache[k], k)'
  BY DEF CachedPages, Arrive
<1> DEFINE p == cache[k]
<1>1. PageAfter(p, k)
  BY DEF CachedPages
<1>2. DOMAIN log \subseteq DOMAIN log'
  BY ArriveLog
<1>3. p.items \subseteq DOMAIN log
  BY DEF TypeOK
<1>4. \A i \in p.items : i \in ListedAfter(k) => i \in ListedAfter(k)'
  BY <1>1, <1>2, <1>3, ArriveKeepsOrder DEF ListedAfter, PageAfter, FirstPage
<1>5. cache' = cache
  BY DEF Arrive
<1> QED BY <1>1, <1>2, <1>3, <1>4, <1>5, ArriveKeepsOrder DEF PageAfter

LEMMA PollKeepsPages ==
    ASSUME TypeOK, CachedPages, NEW p \in Fetched(cursor.NextPageToken),
           log' = log, cache' = [cache EXCEPT ![cursor.NextPageToken] = p]
    PROVE  CachedPages'
<1>1. PageAfter(p, cursor.NextPageToken)
  BY FetchedPageAfter
<1>2. cache \in [Tokens -> Page \cup {Uncached}]
  BY DEF TypeOK
<1>4. ASSUME NEW k \in Tokens, cache'[k] # Uncached
      PROVE  PageAfter(cache'[k], k)
  BY <1>1, <1>2, <1>4 DEF CachedPages
<1>5. ASSUME NEW k \in Tokens, cache'[k] # Uncached
      PROVE  PageAfter(cache[k], k)'
  BY <1>4, <1>5, SameLogSameOrder DEF PageAfter
<1> QED BY <1>5 DEF CachedPages

-----------------------------------------------------------------------------
(***************************************************************************)
(* No redelivery, for every listing order, late arrivals, events without   *)
(* IDs and stale pages included.                                           *)
(*                                                                         *)
(* NoRedelivery alone is not inductive: a step needs to know that what was *)
(* delivered is at or below the mark the next poll starts from, and, in    *)
(* the middle of a stream, behind its floor or on the pages already read.  *)
(***************************************************************************)
DeliveredAtMark ==
    \A i \in delivered :
        /\ TimeOf(i) <= cursor.LastEventTime
        /\ TimeOf(i) = cursor.LastEventTime /\ HasID(i) =>
              i \in cursor.LastEventIDs

DeliveredNotAhead ==
    \A i \in delivered :
        \/ BehindFloor(i, cursor, startAt)
        \/ i \notin ListedAfter(cursor.NextPageToken)

RedeliveryInv ==
    /\ TypeOK
    /\ CachedPages
    /\ DeliveredAtMark
    /\ DeliveredNotAhead
    /\ NoRedelivery

(* The floor is a natural, and is the zero time only when earliestEvent is *)
LEMMA FloorFacts ==
    ASSUME TypeOK
    PROVE  /\ Floor(cursor, startAt) \in Nat
           /\ startAt \in Nat /\ cursor.LastEventTime \in Nat
           /\ Floor(cursor, startAt) = ZeroTime => startAt = ZeroTime
           /\ cursor.NextPageToken = FirstPage =>
                 /\ Floor(cursor, startAt) >= startAt
                 /\ Floor(cursor, startAt) >= cursor.LastEventTime
                 /\ \/ Floor(cursor, startAt) = startAt
                    \/ Floor(cursor, startAt) = cursor.LastEventTime
                 /\ FloorIDs(cursor) = cursor.LastEventIDs
<1>1. startAt \in Nat /\ cursor.LastEventTime \in Nat
      /\ cursor.FloorEventTime \in Nat
  BY FeedAssumption DEF TypeOK, EventPageToken, Times
<1> QED BY <1>1 DEF Floor, FloorIDs, MidStream, CatchingUp, ZeroTime, FirstPage

(* Between the pages of one stream the floor stays where it is.            *)
LEMMA FloorStable ==
    ASSUME TypeOK, NEW p \in Fetched(cursor.NextPageToken),
           NextCursor(cursor, startAt, p).NextPageToken # FirstPage
    PROVE  /\ Floor(NextCursor(cursor, startAt, p), startAt)
                = Floor(cursor, startAt)
           /\ Floor(cursor, startAt) # ZeroTime =>
                FloorIDs(NextCursor(cursor, startAt, p)) = FloorIDs(cursor)
<1> DEFINE n == NextCursor(cursor, startAt, p)
<1>1. n.FloorEventTime = Floor(cursor, startAt)
      /\ n.FloorEventIDs = FloorIDs(cursor)
  BY DEF NextCursor, NoMore, FirstPage
<1>2. MidStream(n) <=> Floor(cursor, startAt) # ZeroTime
  BY <1>1 DEF MidStream
<1>3. ~CatchingUp(n, startAt)
  BY DEF CatchingUp
<1> HIDE DEF n
<1>4. Floor(n, startAt) =
        IF MidStream(n) THEN n.FloorEventTime ELSE startAt
  BY <1>3 DEF Floor
<1>5. MidStream(n) => FloorIDs(n) = n.FloorEventIDs
  BY DEF FloorIDs
<1> QED BY <1>1, <1>2, <1>4, <1>5, FloorFacts DEF n

(* What page p adds to the high-water mark.                                *)
LEMMA MarkFacts ==
    ASSUME TypeOK, NEW p \in Fetched(cursor.NextPageToken)
    PROVE  /\ NextCursor(cursor, startAt, p).LastEventTime
                = MaxEventTime(cursor, p)
           /\ NextCursor(cursor, startAt, p).LastEventIDs
                = MaxEventIDs(cursor, p)
           /\ \A i \in Parsed(p) : TimeOf(i) = MaxEventTime(cursor, p)
                 /\ HasID(i) => i \in MaxEventIDs(cursor, p)
           /\ MaxEventTime(cursor, p) = cursor.LastEventTime =>
                 cursor.LastEventIDs \subseteq MaxEventIDs(cursor, p)
  BY DEF NextCursor, MaxEventIDs

LEMMA PollKeepsDelivered ==
    ASSUME RedeliveryInv, NEW p \in Fetched(cursor.NextPageToken), Poll(p)
    PROVE  RedeliveryInv'
<1> DEFINE n == NextCursor(cursor, startAt, p)
           E == EmittedEvents(cursor, startAt, p)
<1> USE DEF RedeliveryInv
<1>1. TypeOK' /\ CachedPages'
  BY NextTypeOK, PollKeepsPages DEF Next, Polled, Poll
<1>2. /\ log' = log /\ startAt' = startAt
      /\ cursor' = n /\ delivered' = delivered \cup E
  BY DEF Poll
<1>3. E \subseteq Parsed(p) /\ Parsed(p) \subseteq p.items
      /\ p.items \subseteq DOMAIN log
      /\ \A i \in E : ~BehindFloor(i, cursor, startAt)
  BY FetchedTypes DEF EmittedEvents, Parsed
<1>4. delivered \subseteq DOMAIN log
  BY DEF TypeOK
<1>5. PageAfter(p, cursor.NextPageToken)
  BY FetchedPageAfter
<1>6. NoRedelivery'
  <2>1. ASSUME NEW i \in E \cap delivered PROVE FALSE
    BY <1>3, <1>5 DEF DeliveredNotAhead, PageAfter
  <2> QED BY <2>1 DEF Poll, NoRedelivery
<1>7. DeliveredAtMark'
  <2> SUFFICES ASSUME NEW i \in delivered'
               PROVE  /\ TimeOf(i) <= n.LastEventTime
                      /\ TimeOf(i) = n.LastEventTime /\ HasID(i) =>
                            i \in n.LastEventIDs
    BY <1>2 DEF DeliveredAtMark, TimeOf, HasID
  <2>1. TimeOf(i) \in Nat /\ cursor.LastEventTime \in Nat
        /\ MaxEventTime(cursor, p) \in Nat
    BY <1>2, <1>3, <1>4, LogTypes, FloorFacts, MaxEventTimeIsMax, FeedAssumption
       DEF Times
  <2>2. CASE i \in E
    BY <1>3, <2>1, <2>2, MarkFacts, MaxEventTimeIsMax
  <2>3. CASE i \in delivered
    <3>1. TimeOf(i) <= cursor.LastEventTime
          /\ (TimeOf(i) = cursor.LastEventTime /\ HasID(i) =>
                i \in cursor.LastEventIDs)
      BY <2>3 DEF DeliveredAtMark
    <3>2. MaxEventTime(cursor, p) >= cursor.LastEventTime
      BY MaxEventTimeIsMax
    <3> QED BY <2>1, <3>1, <3>2, MarkFacts
  <2> QED BY <1>2, <2>2, <2>3
<1>8. DeliveredNotAhead'
  <2> SUFFICES ASSUME NEW i \in delivered'
               PROVE  \/ BehindFloor(i, n, startAt)
                      \/ i \notin ListedAfter(n.NextPageToken)
    <3>1. \A k : BehindFloor(k, cursor, startAt)' <=> BehindFloor(k, n, startAt)
      BY <1>2 DEF BehindFloor, TimeOf, HasID, Floor, FloorIDs,
                   MidStream, CatchingUp
    <3> QED BY <1>2, <3>1, SameLogSameOrder DEF DeliveredNotAhead
  <2>1. i \in DOMAIN log /\ TimeOf(i) \in Nat /\ TimeOf(i) >= 1
    BY <1>2, <1>3, <1>4, LogTypes, FeedAssumption
  <2>2. CASE n.NextPageToken = FirstPage
    <3>1. cursor' \in EventPageToken /\ startAt \in Nat
      BY <1>1, FloorFacts DEF TypeOK
    <3>2. Floor(n, startAt) \in Nat /\ n.LastEventTime \in Nat
          /\ Floor(n, startAt) >= n.LastEventTime
          /\ (Floor(n, startAt) = startAt \/ Floor(n, startAt) = n.LastEventTime)
          /\ FloorIDs(n) = n.LastEventIDs
      BY <1>2, <2>2, <3>1, FeedAssumption
         DEF Floor, FloorIDs, MidStream, CatchingUp, EventPageToken, Times
    <3>3. TimeOf(i) <= n.LastEventTime
          /\ (TimeOf(i) = n.LastEventTime /\ HasID(i) => i \in n.LastEventIDs)
      BY <1>2, <1>7 DEF DeliveredAtMark, TimeOf, HasID
    <3> QED BY <2>1, <3>2, <3>3 DEF BehindFloor, ZeroTime
  <2>3. CASE n.NextPageToken # FirstPage
    <3>1. n.NextPageToken = p.next /\ p.next # NoMore
      BY <2>3 DEF NextCursor, EffectiveNextPageToken, NoMore, FirstPage
    <3>2. /\ p.next \in p.items /\ p.next \in DOMAIN log
          /\ p.next \in ListedAfter(cursor.NextPageToken)
          /\ \A k \in p.items : k = p.next \/ ListedBefore(k, p.next)
      BY <1>3, <1>5, <3>1 DEF PageAfter
    <3>3. p.next # FirstPage
      BY <3>1 DEF NoMore, FirstPage
    <3>4. CASE i \in E
      <4>1. ~ListedBefore(p.next, i)
        BY <1>3, <2>1, <3>2, <3>4, ListingIsOrder
      <4> QED BY <3>1, <3>3, <4>1 DEF ListedAfter
    <3>5. CASE i \in delivered /\ BehindFloor(i, cursor, startAt)
      BY <2>3, <3>5, FloorStable DEF BehindFloor
    <3>6. CASE i \in delivered /\ i \notin ListedAfter(cursor.NextPageToken)
      <4>1. cursor.NextPageToken # FirstPage
            /\ cursor.NextPageToken \in DOMAIN log
            /\ ~ListedBefore(cursor.NextPageToken, i)
        BY <2>1, <3>6 DEF ListedAfter, TypeOK
      <4>2. ListedBefore(cursor.NextPageToken, p.next)
        BY <3>2, <4>1 DEF ListedAfter
      <4>3. ~ListedBefore(p.next, i)
        BY <2>1, <3>2, <4>1, <4>2, ListingIsOrder
      <4> QED BY <3>1, <3>3, <4>3 DEF ListedAfter
    <3> QED BY <1>2, <3>4, <3>5, <3>6 DEF DeliveredNotAhead
  <2> QED BY <2>2, <2>3
<1> QED BY <1>1, <1>6, <1>7, <1>8

LEMMA ArriveKeepsDelivered ==
    ASSUME RedeliveryInv, NEW r \in Record, NEW t \in 1..MaxTime, Arrive(r, t)
    PROVE  RedeliveryInv'
<1> USE DEF RedeliveryInv
<1>1. TypeOK' /\ CachedPages'
  BY NextTypeOK, ArriveKeepsPages DEF Next
<1>2. /\ delivered' = delivered /\ redelivered' = redelivered
      /\ cursor' = cursor /\ startAt' = startAt
  BY DEF Arrive
<1>3. delivered \subseteq DOMAIN log /\ DOMAIN log \subseteq DOMAIN log'
  BY ArriveLog DEF TypeOK
<1>4. \A i \in delivered : TimeOf(i)' = TimeOf(i) /\ HasID(i)' = HasID(i)
  BY <1>3, ArriveKeepsOrder
<1>5. DeliveredAtMark'
  BY <1>2, <1>4 DEF DeliveredAtMark
<1>6. DeliveredNotAhead'
  <2> SUFFICES ASSUME NEW i \in delivered
               PROVE  (\/ BehindFloor(i, cursor, startAt)
                       \/ i \notin ListedAfter(cursor.NextPageToken))'
    BY <1>2 DEF DeliveredNotAhead
  <2>1. CASE BehindFloor(i, cursor, startAt)
    BY <1>2, <1>4, <2>1
       DEF BehindFloor, Floor, FloorIDs, MidStream, CatchingUp
  <2>2. CASE i \notin ListedAfter(cursor.NextPageToken)
    <3>1. cursor.NextPageToken \in DOMAIN log
          /\ cursor.NextPageToken # FirstPage
          /\ ~ListedBefore(cursor.NextPageToken, i)
      BY <1>3, <2>2 DEF ListedAfter, TypeOK
    <3>2. ~ListedBefore(cursor.NextPageToken, i)'
      BY <1>2, <1>3, <3>1, ArriveKeepsOrder
    <3> QED BY <1>2, <3>1, <3>2 DEF ListedAfter
  <2> QED BY <2>1, <2>2 DEF DeliveredNotAhead
<1> QED BY <1>1, <1>2, <1>5, <1>6 DEF NoRedelivery

(* A full sync can only raise the floor of the stream under way.           *)
LEMMA FullSyncKeepsBehind ==
    ASSUME TypeOK, FullSync,
           NEW i \in DOMAIN log, BehindFloor(i, cursor, startAt)
    PROVE  BehindFloor(i, cursor, startAt)'
<1>1. log' = log /\ cursor' = cursor /\ startAt' = clock /\ startAt <= clock
      /\ clock \in Nat /\ startAt \in Nat /\ cursor.LastEventTime \in Nat
  BY FloorFacts, FeedAssumption DEF FullSync, TypeOK
<1>2. TimeOf(i)' = TimeOf(i) /\ HasID(i)' = HasID(i) /\ TimeOf(i) \in Nat
      /\ TimeOf(i) >= 1
  BY <1>1, LogTypes, FeedAssumption DEF TimeOf, HasID, TypeOK
<1>3. FloorIDs(cursor)' = FloorIDs(cursor)
  BY <1>1 DEF FloorIDs, MidStream
<1>4. Floor(cursor, startAt)' = Floor(cursor, clock)
  BY <1>1 DEF Floor, MidStream, CatchingUp
<1>5. Floor(cursor, clock) >= Floor(cursor, startAt)
      /\ Floor(cursor, clock) \in Nat /\ Floor(cursor, startAt) \in Nat
  BY <1>1, FloorFacts, FeedAssumption
     DEF Floor, MidStream, CatchingUp, TypeOK, EventPageToken, Times
<1> QED BY <1>2, <1>3, <1>4, <1>5 DEF BehindFloor, ZeroTime

LEMMA FullSyncKeepsDelivered ==
    ASSUME RedeliveryInv, FullSync
    PROVE  RedeliveryInv'
<1> USE DEF RedeliveryInv
<1>1. TypeOK'
  BY NextTypeOK DEF Next
<1>2. /\ delivered' = delivered /\ redelivered' = redelivered
      /\ cursor' = cursor /\ log' = log
      /\ cache' = [t \in Tokens |-> Uncached]
  BY DEF FullSync
<1>3. CachedPages' /\ DeliveredAtMark' /\ NoRedelivery'
  BY <1>2 DEF CachedPages, DeliveredAtMark, NoRedelivery, TimeOf, HasID
<1>4. DeliveredNotAhead'
  <2>1. delivered \subseteq DOMAIN log
    BY DEF TypeOK
  <2> QED BY <1>2, <2>1, FullSyncKeepsBehind, SameLogSameOrder
          DEF DeliveredNotAhead
<1> QED BY <1>1, <1>3, <1>4

(* A step that leaves log, cursor, earliestEvent and history alone.        *)
LEMMA CacheStepKeepsDelivered ==
    ASSUME RedeliveryInv, TypeOK', CachedPages',
           UNCHANGED <<log, startAt, cursor, delivered, redelivered>>
    PROVE  RedeliveryInv'
<1> USE DEF RedeliveryInv
<1>1. \A i : BehindFloor(i, cursor, startAt)' <=> BehindFloor(i, cursor, startAt)
  BY DEF BehindFloor, TimeOf, HasID, Floor, FloorIDs, MidStream, CatchingUp
<1>2. DeliveredNotAhead'
  BY <1>1, SameLogSameOrder DEF DeliveredNotAhead
<1>3. DeliveredAtMark' /\ NoRedelivery'
  BY DEF DeliveredAtMark, NoRedelivery, TimeOf, HasID
<1> QED BY <1>2, <1>3

LEMMA NextRedeliveryInv == RedeliveryInv /\ [Next]_vars => RedeliveryInv'
<1> SUFFICES ASSUME RedeliveryInv, [Next]_vars PROVE RedeliveryInv'
  OBVIOUS
<1>1. TypeOK /\ CachedPages /\ TypeOK'
  BY NextTypeOK DEF RedeliveryInv
<1>2. CASE Tick
  <2>1. CachedPages'
    BY <1>1, <1>2, SameLogSameOrder DEF Tick, CachedPages, PageAfter
  <2> QED BY <1>1, <1>2, <2>1, CacheStepKeepsDelivered DEF Tick
<1>3. ASSUME NEW r \in Record, NEW t \in 1..MaxTime, Arrive(r, t)
      PROVE  RedeliveryInv'
  BY <1>3, ArriveKeepsDelivered
<1>4. CASE FullSync
  BY <1>4, FullSyncKeepsDelivered
<1>5. ASSUME NEW p \in Fetched(cursor.NextPageToken), Poll(p)
      PROVE  RedeliveryInv'
  BY <1>5, PollKeepsDelivered
<1>6. ASSUME NEW p \in Fetched(cursor.NextPageToken), PollLost(p)
      PROVE  RedeliveryInv'
  BY <1>1, <1>6, PollKeepsPages, CacheStepKeepsDelivered DEF PollLost
<1>7. ASSUME NEW t \in Tokens, Expire(t)
      PROVE  RedeliveryInv'
  <2>1. CachedPages'
    BY <1>1, <1>7, SameLogSameOrder DEF Expire, CachedPages, PageAfter, TypeOK
  <2> QED BY <1>1, <1>7, <2>1, CacheStepKeepsDelivered DEF Expire
<1>8. CASE PollFails
  <2>1. CachedPages'
    BY <1>1, <1>8, SameLogSameOrder DEF PollFails, CachedPages, PageAfter
  <2> QED BY <1>1, <1>8, <2>1, CacheStepKeepsDelivered DEF PollFails
<1>9. CASE UNCHANGED vars
  <2>1. CachedPages'
    BY <1>1, <1>9, SameLogSameOrder DEF vars, CachedPages, PageAfter
  <2> QED BY <1>1, <1>9, <2>1, CacheStepKeepsDelivered DEF vars
<1> QED BY <1>2, <1>3, <1>4, <1>5, <1>6, <1>7, <1>8, <1>9 DEF Next, Polled

(* An event in a checkpointed response is never reported by a later one,   *)
(* in whatever order Ramp lists its log and however late events reach it.  *)
THEOREM NeverRedelivered == Spec => []NoRedelivery
<1>1. Init => RedeliveryInv
  <2>1. Init => CachedPages /\ DeliveredAtMark /\ DeliveredNotAhead /\ NoRedelivery
    BY DEF Init, CachedPages, DeliveredAtMark, DeliveredNotAhead, NoRedelivery
  <2> QED BY <2>1, InitTypeOK DEF RedeliveryInv
<1>2. RedeliveryInv /\ [Next]_vars => RedeliveryInv'
  BY NextRedeliveryInv
<1>3. RedeliveryInv => NoRedelivery
  BY DEF RedeliveryInv
<1> QED BY <1>1, <1>2, <1>3, PTL DEF Spec
=============================================================================
