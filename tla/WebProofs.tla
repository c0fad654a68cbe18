----------------------------- MODULE WebProofs -----------------------------
(***************************************************************************)
(* The event log and the web UI over it, for every capacity, retention     *)
(* period, page size and set of requests.                                  *)
(*                                                                         *)
(* The log keeps its bounds, loses nothing silently and stays in order.    *)
(* Its four invariants are inductive together: the capacity needs the      *)
(* count of what expired, the count needs the numbering, and expiry from   *)
(* the front needs the order.  The web UI only reads the log, so its pages *)
(* inherit them: the fleet view and the events page are what the log says. *)
(* And a request is answered alike wherever it is cut up into reads.       *)
(***************************************************************************)
EXTENDS Web, OrderFacts, SequenceTheorems, FiniteSetTheorems

LogInv == TypeOK /\ NothingLost /\ Contiguous /\ InOrder

\* What expire drops: a prefix, all of it out of the window, up to the first
\* event that is in it.
LEMMA AgedIsPrefix ==
    ASSUME NEW es \in Seq(LoggedEvent), NEW at \in Nat
    PROVE  /\ Aged(es, at) \in 0..Len(es)
           /\ \A i \in 1..Aged(es, at) : ~InWindow(es[i], at)
           /\ Aged(es, at) < Len(es) => InWindow(es[Aged(es, at) + 1], at)
<1> DEFINE S == {i \in 1..Len(es) : InWindow(es[i], at)} \cup {Len(es) + 1}
<1>1. S \in SUBSET Nat /\ S # {} /\ Len(es) + 1 \in S
  BY LenProperties
<1>2. Min(S) \in S /\ \A j \in S : Min(S) =< j
  BY <1>1, MinIsLeast
<1>3. Aged(es, at) = Min(S) - 1
  BY DEF Aged
<1>4. Min(S) \in 1..(Len(es) + 1)
  BY <1>2, LenProperties
<1>5. \A i \in 1..Len(es) : InWindow(es[i], at) => i \in S
  OBVIOUS
<1>6. \A i \in 1..(Min(S) - 1) : ~InWindow(es[i], at)
  BY <1>2, <1>4, <1>5, LenProperties
<1>7. Min(S) # Len(es) + 1 => InWindow(es[Min(S)], at)
  BY <1>2
<1> QED
  BY <1>3, <1>4, <1>6, <1>7, LenProperties

\* What is kept, position by position.
LEMMA KeptIsSuffix ==
    ASSUME NEW es \in Seq(LoggedEvent), NEW at \in Nat
    PROVE  /\ Kept(es, at) \in Seq(LoggedEvent)
           /\ Len(Kept(es, at)) = Len(es) - Aged(es, at)
           /\ \A i \in 1..Len(Kept(es, at)) : Kept(es, at)[i] = es[i + Aged(es, at)]
<1> DEFINE n == Aged(es, at)
<1>1. n \in 0..Len(es) /\ Len(es) \in Nat
  BY AgedIsPrefix, LenProperties
<1>2. \A i \in (n + 1)..Len(es) : es[i] \in LoggedEvent
  BY <1>1, ElementOfSeq
<1>3. /\ SubSeq(es, n + 1, Len(es)) \in Seq(LoggedEvent)
      /\ Len(SubSeq(es, n + 1, Len(es))) = IF n + 1 =< Len(es) THEN Len(es) - (n + 1) + 1 ELSE 0
      /\ \A i \in 1..(Len(es) - (n + 1) + 1) : SubSeq(es, n + 1, Len(es))[i] = es[(n + 1) + i - 1]
  <2> HIDE DEF n
  <2> QED
    BY <1>1, <1>2, SubSeqProperties
<1>4. Kept(es, at) = SubSeq(es, n + 1, Len(es))
  BY DEF Kept
<1> HIDE DEF n
<1>5. Len(Kept(es, at)) = Len(es) - n
  BY <1>1, <1>3, <1>4
<1>6. \A i \in 1..Len(Kept(es, at)) : Kept(es, at)[i] = es[i + n]
  BY <1>1, <1>3, <1>4, <1>5
<1> QED
  BY <1>3, <1>4, <1>5, <1>6 DEF n

\* Making room drops at most the first event, and only from a full log.
LEMMA RoomIsMade ==
    ASSUME NEW es \in Seq(LoggedEvent), Len(es) =< Capacity
    PROVE  LET k == IF Len(es) >= Capacity THEN 1 ELSE 0
           IN  /\ WithRoom(es) \in Seq(LoggedEvent)
               /\ Len(WithRoom(es)) = Len(es) - k
               /\ Len(WithRoom(es)) < Capacity
               /\ \A i \in 1..Len(WithRoom(es)) : WithRoom(es)[i] = es[i + k]
<1>1. Len(es) \in Nat /\ Capacity \in Nat \ {0}
  BY LenProperties, LogAssumption
<1>2. CASE Len(es) >= Capacity
  <2>1. \A i \in 2..Len(es) : es[i] \in LoggedEvent
    BY <1>1, ElementOfSeq
  <2>2. /\ SubSeq(es, 2, Len(es)) \in Seq(LoggedEvent)
        /\ Len(SubSeq(es, 2, Len(es))) = IF 2 =< Len(es) THEN Len(es) - 2 + 1 ELSE 0
        /\ \A i \in 1..(Len(es) - 2 + 1) : SubSeq(es, 2, Len(es))[i] = es[2 + i - 1]
    BY <1>1, <2>1, SubSeqProperties
  <2>3. WithRoom(es) = SubSeq(es, 2, Len(es))
    BY <1>2 DEF WithRoom
  <2>4. Len(WithRoom(es)) = Len(es) - 1
    <3>1. \A n, c \in Nat : c # 0 /\ n >= c => (IF 2 =< n THEN n - 2 + 1 ELSE 0) = n - 1
      OBVIOUS
    <3>2. (IF 2 =< Len(es) THEN Len(es) - 2 + 1 ELSE 0) = Len(es) - 1
      BY <1>1, <1>2, <3>1
    <3> QED
      BY <2>2, <2>3, <3>2
  <2>5. \A i \in 1..Len(WithRoom(es)) : WithRoom(es)[i] = es[i + 1]
    BY <1>1, <2>2, <2>3, <2>4
  <2> QED
    BY <1>1, <1>2, <2>2, <2>3, <2>4, <2>5
<1>3. CASE ~(Len(es) >= Capacity)
  <2>1. WithRoom(es) = es
    BY <1>3 DEF WithRoom
  <2> QED
    BY <1>1, <1>3, <2>1
<1> QED
  BY <1>2, <1>3

\* record as a whole: it drops `d' events from the front, counts each of them,
\* and appends the new one with the next number and the current time.
LEMMA RecordShape ==
    ASSUME LogInv, NEW r \in Requests, Record(r)
    PROVE  \E d \in 0..Len(events) :
              /\ events' \in Seq(LoggedEvent)
              /\ Len(events') = Len(events) - d + 1
              /\ Len(events') =< Capacity
              /\ \A i \in 1..(Len(events) - d) : events'[i] = events[i + d]
              /\ events'[Len(events) - d + 1] = Event(next_sequence, now, r)
              /\ d >= Aged(events, now)
              /\ by_retention' \in Nat /\ by_capacity' \in Nat
              /\ by_retention' + by_capacity' = by_retention + by_capacity + d
<1> DEFINE a == Aged(events, now)
           kept == Kept(events, now)
           k == IF Len(kept) >= Capacity THEN 1 ELSE 0
           room == WithRoom(kept)
           new == Event(next_sequence, now, r)
<1>1. /\ events \in Seq(LoggedEvent) /\ Len(events) =< Capacity
      /\ next_sequence \in Nat /\ by_capacity \in Nat /\ by_retention \in Nat /\ now \in Nat
      /\ Len(events) \in Nat /\ Capacity \in Nat \ {0}
  BY LenProperties, LogAssumption DEF LogInv, TypeOK
<1>2. a \in 0..Len(events)
  BY <1>1, AgedIsPrefix
<1>3. /\ kept \in Seq(LoggedEvent)
      /\ Len(kept) = Len(events) - a
      /\ \A i \in 1..Len(kept) : kept[i] = events[i + a]
  BY <1>1, KeptIsSuffix
<1>4. /\ room \in Seq(LoggedEvent)
      /\ Len(room) = Len(kept) - k
      /\ Len(room) < Capacity
      /\ \A i \in 1..Len(room) : room[i] = kept[i + k]
  <2>1. Len(kept) =< Capacity
    BY <1>1, <1>2, <1>3
  <2> QED
    BY <1>3, <2>1, RoomIsMade
<1>5. new \in LoggedEvent
  BY <1>1 DEF LoggedEvent, Event
<1>6. /\ events' = Append(room, new)
      /\ by_retention' = by_retention + a
      /\ by_capacity' = by_capacity + k
  BY DEF Record
<1> HIDE DEF a, kept, room, new
<1>7. k \in {0, 1} /\ Len(kept) \in Nat /\ (k = 1 => Len(kept) >= 1)
  BY <1>1, <1>3, LenProperties
<1> DEFINE d == a + k
<1>8. d \in 0..Len(events) /\ Len(room) = Len(events) - d /\ Len(room) \in Nat
  BY <1>1, <1>2, <1>3, <1>4, <1>7
<1>9. /\ events' \in Seq(LoggedEvent)
      /\ Len(events') = Len(room) + 1
      /\ \A i \in 1..Len(room) : events'[i] = room[i]
      /\ events'[Len(room) + 1] = new
  BY <1>4, <1>5, <1>6, AppendProperties
<1>10. \A i \in 1..(Len(events) - d) : events'[i] = events[i + d]
  <2> SUFFICES ASSUME NEW i \in 1..(Len(events) - d) PROVE events'[i] = events[i + d]
    OBVIOUS
  <2>1. i \in 1..Len(room) /\ i + k \in 1..Len(kept)
    BY <1>1, <1>2, <1>4, <1>7, <1>8
  <2>2. events'[i] = kept[i + k]
    BY <1>4, <1>9, <2>1
  <2>3. kept[i + k] = events[(i + k) + a]
    BY <1>3, <2>1
  <2>4. (i + k) + a = i + d
    BY <1>2, <1>7
  <2> QED
    BY <2>2, <2>3, <2>4
<1>11. /\ Len(events') = Len(events) - d + 1
       /\ Len(events') =< Capacity
       /\ events'[Len(events) - d + 1] = new
  BY <1>1, <1>4, <1>8, <1>9
<1>12. /\ d >= a
       /\ by_retention' \in Nat /\ by_capacity' \in Nat
       /\ by_retention' + by_capacity' = by_retention + by_capacity + d
  BY <1>1, <1>2, <1>6, <1>7
<1> QED
  BY <1>8, <1>9, <1>10, <1>11, <1>12 DEF a, new

LEMMA LogInvInit == LogInit => LogInv
<1> SUFFICES ASSUME LogInit PROVE LogInv
  OBVIOUS
<1>1. events \in Seq(LoggedEvent) /\ Len(events) = 0
  BY EmptySeq DEF LogInit
<1> QED
  BY <1>1, LogAssumption DEF LogInit, LogInv, TypeOK, NothingLost, Contiguous, InOrder

LEMMA LogInvNext == LogInv /\ [LogNext]_log_vars => LogInv'
<1> SUFFICES ASSUME LogInv, [LogNext]_log_vars PROVE LogInv'
  OBVIOUS
<1> USE DEF LogInv
<1>1. ASSUME NEW r \in Requests, Record(r) PROVE LogInv'
  <2>1. PICK d \in 0..Len(events) :
              /\ events' \in Seq(LoggedEvent)
              /\ Len(events') = Len(events) - d + 1
              /\ Len(events') =< Capacity
              /\ \A i \in 1..(Len(events) - d) : events'[i] = events[i + d]
              /\ events'[Len(events) - d + 1] = Event(next_sequence, now, r)
              /\ by_retention' \in Nat /\ by_capacity' \in Nat
              /\ by_retention' + by_capacity' = by_retention + by_capacity + d
    BY <1>1, RecordShape
  <2>2. next_sequence' = next_sequence + 1 /\ now' = now
    BY <1>1 DEF Record
  <2>3. /\ events \in Seq(LoggedEvent) /\ next_sequence \in Nat /\ now \in Nat
        /\ by_capacity \in Nat /\ by_retention \in Nat /\ Len(events) \in Nat
        /\ next_sequence = Len(events) + by_capacity + by_retention
    BY LenProperties DEF TypeOK, NothingLost
  <2>4. TypeOK'
    BY <2>1, <2>2, <2>3 DEF TypeOK
  <2>5. NothingLost'
    <3>1. by_retention' \in Nat /\ by_capacity' \in Nat
      BY <2>1
    <3>2. by_retention' + by_capacity' = by_retention + by_capacity + d
      BY <2>1
    <3>3. Len(events') = Len(events) - d + 1
      BY <2>1
    <3>4. SUFFICES next_sequence' = Len(events') + by_capacity' + by_retention'
      BY DEF NothingLost
    <3>5. /\ Len(events) \in Nat /\ by_capacity \in Nat /\ by_retention \in Nat
          /\ d \in Nat /\ by_capacity' \in Nat /\ by_retention' \in Nat
      BY <2>3, <3>1
    <3>6. (Len(events) - d + 1) + by_capacity' + by_retention'
             = (Len(events) - d + 1) + (by_retention' + by_capacity')
      BY <3>5
    <3>7. (Len(events) - d + 1) + (by_retention + by_capacity + d)
             = (Len(events) + by_capacity + by_retention) + 1
      BY <3>5
    <3> QED
      BY <2>2, <2>3, <3>2, <3>3, <3>6, <3>7, Zenon
  <2>6. /\ Event(next_sequence, now, r).sequence = next_sequence
        /\ Event(next_sequence, now, r).at = now
    BY DEF Event
  <2>7. Contiguous'
    <3> SUFFICES ASSUME NEW i \in 1..Len(events')
                 PROVE  events'[i].sequence = next_sequence' - Len(events') + i - 1
      BY DEF Contiguous
    <3>1. CASE i = Len(events) - d + 1
      BY <2>1, <2>2, <2>3, <2>6, <3>1
    <3>2. CASE i # Len(events) - d + 1
      <4>1. i \in 1..(Len(events) - d) /\ i + d \in 1..Len(events)
        <5>1. Len(events') = Len(events) - d + 1 /\ Len(events) \in Nat
          BY <2>1, <2>3
        <5> QED
          BY ONLY <3>2, <5>1, d \in 0..Len(events), i \in 1..Len(events')
      <4>2. events[i + d].sequence = next_sequence - Len(events) + (i + d) - 1
        BY <4>1 DEF Contiguous
      <4>3. events'[i].sequence = events[i + d].sequence
        BY <2>1, <4>1
      <4> QED
        BY <2>1, <2>2, <2>3, <4>2, <4>3
    <3> QED
      BY <3>1, <3>2
  <2>8. InOrder'
    <3>1. \A i \in 1..(Len(events) - d) : i + d \in 1..Len(events)
      <4>1. Len(events) \in Nat
        BY <2>3
      <4> QED
        BY ONLY <4>1, d \in 0..Len(events)
    <3>2. \A i \in 1..(Len(events) - d) : events'[i].at =< now /\ events'[i].at \in Nat
      <4> SUFFICES ASSUME NEW i \in 1..(Len(events) - d)
                   PROVE  events'[i].at =< now /\ events'[i].at \in Nat
        OBVIOUS
      <4>1. events'[i] = events[i + d] /\ i + d \in 1..Len(events)
        BY <2>1, <3>1
      <4>2. events[i + d] \in LoggedEvent
        BY <2>3, <4>1, ElementOfSeq
      <4>3. events[i + d].at =< now
        BY <4>1 DEF InOrder
      <4> QED
        BY <4>1, <4>2, <4>3 DEF LoggedEvent
    <3>3. ASSUME NEW i \in 1..Len(events') PROVE events'[i].at =< now'
      <4>1. CASE i = Len(events) - d + 1
        <5>1. events'[i].at = now
          BY <2>1, <2>6, <4>1
        <5> QED
          BY <2>2, <2>3, <5>1
      <4>2. CASE i # Len(events) - d + 1
        <5>1. i \in 1..(Len(events) - d)
          BY <2>1, <2>3, <4>2
        <5> QED
          BY <2>2, <3>2, <5>1
      <4> QED
        BY <4>1, <4>2
    <3>4. ASSUME NEW i \in 1..Len(events'), NEW j \in 1..Len(events'), i =< j
          PROVE  events'[i].at =< events'[j].at
      <4>1. CASE j = Len(events) - d + 1
        <5>1. events'[j].at = now
          BY <2>1, <2>6, <4>1
        <5>2. events'[i].at =< now'
          BY <3>3
        <5> QED
          BY <2>2, <5>1, <5>2
      <4>2. CASE j # Len(events) - d + 1
        <5>1. i \in 1..(Len(events) - d) /\ j \in 1..(Len(events) - d)
          <6>1. \A m \in Int : \A x, y \in 1..(m + 1) :
                   x =< y /\ y # m + 1 => x \in 1..m /\ y \in 1..m
            OBVIOUS
          <6>2. Len(events) - d \in Int /\ Len(events') = (Len(events) - d) + 1
            BY <2>1, <2>3
          <6> QED
            BY <3>4, <4>2, <6>1, <6>2
        <5>2. i + d \in 1..Len(events) /\ j + d \in 1..Len(events) /\ i + d =< j + d
          BY <2>1, <2>3, <3>4, <5>1
        <5>3. events[i + d].at =< events[j + d].at
          BY <5>2 DEF InOrder
        <5> QED
          BY <2>1, <5>1, <5>3
      <4> QED
        BY <4>1, <4>2
    <3> QED
      BY <3>3, <3>4 DEF InOrder
  <2> QED
    BY <2>4, <2>5, <2>7, <2>8
<1>2. ASSUME NEW t \in 1..Retention, LogTick(t) PROVE LogInv'
  <2>1. now' = now + t /\ UNCHANGED log /\ now \in Nat /\ now' \in Nat
    BY <1>2, LogAssumption DEF LogTick, TypeOK
  <2>2. events' = events /\ UNCHANGED <<next_sequence, by_capacity, by_retention>>
    BY <2>1 DEF log
  <2>3. \A i \in 1..Len(events) : events[i].at \in Nat
    <3>1. \A i \in 1..Len(events) : events[i] \in LoggedEvent
      BY ElementOfSeq DEF TypeOK
    <3> QED
      BY <3>1 DEF LoggedEvent
  <2>4. InOrder'
    <3>1. \A i \in 1..Len(events) : events[i].at =< now'
      <4> SUFFICES ASSUME NEW i \in 1..Len(events) PROVE events[i].at =< now + t
        BY <2>1
      <4>1. events[i].at =< now /\ events[i].at \in Nat
        BY <2>3 DEF InOrder
      <4> QED
        BY <2>1, <4>1
    <3> QED
      BY <2>2, <3>1 DEF InOrder
  <2> QED
    BY <2>1, <2>2, <2>4 DEF TypeOK, NothingLost, Contiguous
<1>3. ASSUME UNCHANGED log_vars PROVE LogInv'
  BY <1>3 DEF log_vars, log, TypeOK, NothingLost, Contiguous, InOrder
<1> QED
  BY <1>1, <1>2, <1>3 DEF LogNext

THEOREM LogInvHolds == LogSpec => []LogInv
BY LogInvInit, LogInvNext, PTL DEF LogSpec

\* The log's bounds hold whatever is recorded (EventLog::record, ::expire).
THEOREM LogTypeOK == LogSpec => []TypeOK
<1>1. LogInv => TypeOK
  BY DEF LogInv
<1> QED
  BY LogInvHolds, <1>1, PTL

\* Nothing is lost silently: every event ever recorded is held, or counted in
\* one of the two drop counters.
THEOREM LogNothingLost == LogSpec => []NothingLost
<1>1. LogInv => NothingLost
  BY DEF LogInv
<1> QED
  BY LogInvHolds, <1>1, PTL

\* The events held are the newest, without a gap in their numbers.
THEOREM LogContiguous == LogSpec => []Contiguous
<1>1. LogInv => Contiguous
  BY DEF LogInv
<1> QED
  BY LogInvHolds, <1>1, PTL

\* The log is the newest part of everything recorded, and says how much the rest is.
THEOREM LogHoldsTheNewest == LogSpec => []HoldsTheNewest
<1>1. NothingLost /\ Contiguous => HoldsTheNewest
  BY DEF HoldsTheNewest
<1> QED
  BY LogNothingLost, LogContiguous, <1>1, PTL

\* Timestamps never go back along the log.
THEOREM LogInOrder == LogSpec => []InOrder
<1>1. LogInv => InOrder
  BY DEF LogInv
<1> QED
  BY LogInvHolds, <1>1, PTL

\* In an ordered log the events out of the window are exactly those expire
\* drops, although it stops at the first one that is in it.
LEMMA OldArePrefix ==
    ASSUME LogInv
    PROVE  \A i \in 1..Len(events) :
              i =< Aged(events, now) <=> now - events[i].at >= Retention
<1> DEFINE a == Aged(events, now)
<1>1. /\ events \in Seq(LoggedEvent) /\ now \in Nat /\ Len(events) \in Nat
      /\ Retention \in Nat
  BY LenProperties, LogAssumption DEF LogInv, TypeOK
<1>2. /\ a \in 0..Len(events)
      /\ \A i \in 1..a : ~InWindow(events[i], now)
      /\ a < Len(events) => InWindow(events[a + 1], now)
  BY <1>1, AgedIsPrefix
<1>3. \A i \in 1..Len(events) : events[i].at \in Nat
  <2>1. \A i \in 1..Len(events) : events[i] \in LoggedEvent
    BY <1>1, ElementOfSeq
  <2> QED
    BY <2>1 DEF LoggedEvent
<1> HIDE DEF a
<1> SUFFICES ASSUME NEW i \in 1..Len(events)
             PROVE  i =< a <=> now - events[i].at >= Retention
  BY DEF a
<1>4. CASE i =< a
  <2>1. i \in 1..a
    BY <1>1, <1>2, <1>4
  <2>2. ~(now - events[i].at < Retention)
    BY <1>2, <2>1 DEF InWindow
  <2> QED
    BY <1>1, <1>3, <1>4, <2>2
<1>5. CASE ~(i =< a)
  <2>1. a + 1 \in 1..Len(events) /\ a < Len(events) /\ a + 1 =< i
    BY <1>1, <1>2, <1>5
  <2>2. now - events[a + 1].at < Retention
    BY <1>2, <2>1 DEF InWindow
  <2>3. events[a + 1].at =< events[i].at
    BY <2>1 DEF LogInv, InOrder
  <2>4. events[a + 1].at \in Nat /\ events[i].at \in Nat
    BY <1>3, <2>1
  <2>5. now - events[i].at < Retention
    BY <1>1, <2>2, <2>3, <2>4
  <2> QED
    BY <1>1, <1>5, <2>4, <2>5
<1> QED
  BY <1>4, <1>5

LEMMA RecordKeepsWindow ==
    ASSUME LogInv, NEW r \in Requests, Record(r)
    PROVE  InStepWithWindow
<1> DEFINE a == Aged(events, now)
<1>1. /\ events \in Seq(LoggedEvent) /\ now \in Nat /\ Len(events) \in Nat
      /\ Retention \in Nat \ {0} /\ by_retention \in Nat
  BY LenProperties, LogAssumption DEF LogInv, TypeOK
<1>2. a \in 0..Len(events)
  BY <1>1, AgedIsPrefix
<1>3. PICK d \in 0..Len(events) :
          /\ Len(events') = Len(events) - d + 1
          /\ \A i \in 1..(Len(events) - d) : events'[i] = events[i + d]
          /\ events'[Len(events) - d + 1] = Event(next_sequence, now, r)
          /\ d >= a
  BY RecordShape
<1>4. \A i \in 1..Len(events) : i =< a <=> now - events[i].at >= Retention
  BY OldArePrefix
<1>5. \A i \in 1..Len(events) : events[i].at \in Nat
  <2>1. \A i \in 1..Len(events) : events[i] \in LoggedEvent
    BY <1>1, ElementOfSeq
  <2> QED
    BY <2>1 DEF LoggedEvent
<1>6. by_retention' = by_retention + a
  BY DEF Record
<1> HIDE DEF a
<1>7. ASSUME NEW i \in 1..Len(events') PROVE now - events'[i].at < Retention
  <2>1. CASE i = Len(events) - d + 1
    <3>1. events'[i].at = now
      BY <1>3, <2>1 DEF Event
    <3> QED
      BY <1>1, <3>1
  <2>2. CASE i # Len(events) - d + 1
    <3>1. i \in 1..(Len(events) - d)
      BY <1>1, <1>3, <2>2
    <3>2. i + d \in 1..Len(events) /\ ~(i + d =< a)
      BY <1>1, <1>2, <1>3, <3>1
    <3>3. ~(now - events[i + d].at >= Retention) /\ events[i + d].at \in Nat
      BY <1>4, <1>5, <3>2
    <3>4. now - events[i + d].at < Retention
      BY <1>1, <3>3
    <3> QED
      BY <1>3, <3>1, <3>4
  <2> QED
    BY <2>1, <2>2
<1>8. {i \in 1..Len(events) : now - events[i].at >= Retention} = 1..a
  BY <1>1, <1>2, <1>4
<1>9. Cardinality(1..a) = a
  <2>1. Cardinality(1..a) = IF 1 > a THEN 0 ELSE a - 1 + 1
    BY <1>1, <1>2, FS_Interval
  <2> QED
    BY <1>1, <1>2, <2>1
<1>10. by_retention' - by_retention = a
  BY <1>1, <1>2, <1>6
<1> QED
  BY <1>7, <1>8, <1>9, <1>10 DEF InStepWithWindow

\* Every recording brings the log in step with the retention period: all that
\* is too old goes, and nothing else goes by age.
THEOREM LogWindowKept == LogSpec => WindowKept
<1>1. LogInv /\ [LogNext]_log_vars => [InStepWithWindow]_log_vars
  <2> SUFFICES ASSUME LogInv, LogNext PROVE InStepWithWindow \/ UNCHANGED log_vars
    OBVIOUS
  <2>1. ASSUME NEW r \in Requests, Record(r) PROVE InStepWithWindow
    BY <2>1, RecordKeepsWindow
  <2>2. ASSUME NEW t \in 1..Retention, LogTick(t) PROVE InStepWithWindow
    BY <2>2 DEF LogTick, log, InStepWithWindow
  <2> QED
    BY <2>1, <2>2 DEF LogNext
<1> QED
  BY LogInvHolds, <1>1, PTL DEF LogSpec, WindowKept

-----------------------------------------------------------------------------
(***************************************************************************)
(* The fleet view.  Its rows are the newest events of their keys, ranked   *)
(* from the last to the first.                                             *)
(***************************************************************************)
LEMMA GreatestExists ==
    ASSUME NEW n \in Nat, NEW S \in SUBSET (1..n), S # {}
    PROVE  \E i \in S : \A j \in S : j =< i
<1> DEFINE D == {n - i : i \in S}
<1>0. \A i \in S : i \in Nat /\ n - i \in Nat
  OBVIOUS
<1>1. D \in SUBSET Nat /\ D # {}
  BY <1>0
<1>2. PICK x \in D : \A y \in D : x =< y
  BY <1>1, LeastExists
<1>3. PICK i \in S : x = n - i
  BY <1>2
<1>4. \A j \in S : n - i =< n - j
  BY <1>2, <1>3
<1> QED
  BY <1>0, <1>4

\* How many elements of a set are not below i.
Rank(S, i) == Cardinality({j \in S : j >= i})

LEMMA RankFalls ==
    ASSUME NEW n \in Nat, NEW S \in SUBSET (1..n)
    PROVE  /\ IsFiniteSet(S) /\ Cardinality(S) \in Nat /\ Cardinality(S) =< n
           /\ \A i \in S : Rank(S, i) \in 1..Cardinality(S)
           /\ \A i, j \in S : i < j => Rank(S, j) < Rank(S, i)
<1> DEFINE Up(i) == {j \in S : j >= i}
<1>1. IsFiniteSet(1..n) /\ Cardinality(1..n) = n
  BY FS_Interval
<1>2. IsFiniteSet(S) /\ Cardinality(S) =< n
  BY <1>1, FS_Subset
<1>3. Cardinality(S) \in Nat
  BY <1>2, FS_CardinalityType
<1>4. \A i : /\ IsFiniteSet(Up(i)) /\ Cardinality(Up(i)) \in Nat
             /\ Cardinality(Up(i)) =< Cardinality(S)
  <2> TAKE i
  <2>1. Up(i) \in SUBSET S
    OBVIOUS
  <2>2. IsFiniteSet(Up(i)) /\ Cardinality(Up(i)) =< Cardinality(S)
    BY <1>2, <2>1, FS_Subset
  <2> QED
    BY <2>2, FS_CardinalityType
<1>5. ASSUME NEW i \in S PROVE Rank(S, i) \in 1..Cardinality(S)
  <2>1. i \in Up(i)
    OBVIOUS
  <2>2. Cardinality(Up(i)) # 0
    BY <1>4, <2>1, FS_EmptySet
  <2> DEFINE u == Cardinality(Up(i))
             c == Cardinality(S)
  <2>3. u \in Nat /\ u # 0 /\ u =< c /\ c \in Nat
    BY <1>3, <1>4, <2>2
  <2> HIDE DEF u, c
  <2>4. u \in 1..c
    BY <2>3
  <2> QED
    BY <2>4 DEF u, c, Rank
<1>6. ASSUME NEW i \in S, NEW j \in S, i < j PROVE Rank(S, j) < Rank(S, i)
  <2>1. Up(j) \in SUBSET Up(i) /\ i \in Up(i) /\ i \notin Up(j)
    <3>1. \A x \in S : x \in Nat
      OBVIOUS
    <3>2. \A x \in S : x >= j => x >= i
      BY <1>6, <3>1
    <3>3. i >= i /\ ~(i >= j)
      BY <1>6, <3>1
    <3> QED
      BY ONLY <1>6, <3>2, <3>3
  <2>2. Up(i) # Up(j)
    BY <2>1
  <2> DEFINE a == Up(i)
             b == Up(j)
  <2> HIDE DEF Up, a, b
  <2>3. Cardinality(b) =< Cardinality(a) /\ Cardinality(b) # Cardinality(a)
    BY <1>4, <2>1, <2>2, FS_Subset DEF a, b
  <2>4. Cardinality(a) \in Nat /\ Cardinality(b) \in Nat
    BY <1>4 DEF a, b
  <2>5. Cardinality(b) < Cardinality(a)
    BY <2>3, <2>4
  <2> QED
    BY <2>5 DEF a, b, Up, Rank
<1> QED
  BY <1>2, <1>3, <1>5, <1>6

\* Every rank is somebody's.
LEMMA RankTaken ==
    ASSUME NEW n \in Nat, NEW S \in SUBSET (1..n), NEW k \in 1..Cardinality(S)
    PROVE  \E i \in S : Rank(S, i) = k
<1> DEFINE Taken(m) == \E i \in S : Rank(S, i) = m
           Bad == {m \in 1..Cardinality(S) : ~Taken(m)}
<1>0. \A x \in S : x \in Nat
  OBVIOUS
<1>1. IsFiniteSet(S) /\ Cardinality(S) \in Nat
  BY RankFalls
<1>2. Bad = {}
  <2> SUFFICES ASSUME Bad # {} PROVE FALSE
    OBVIOUS
  <2>1. Bad \in SUBSET Nat
    OBVIOUS
  <2>2. PICK m \in Bad : \A j \in Bad : m =< j
    BY <2>1, LeastExists
  <2>3. m \in 1..Cardinality(S) /\ ~Taken(m)
    BY <2>2
  <2>4. CASE m = 1
    <3>1. S # {}
      BY <1>1, <2>3, FS_EmptySet
    <3>2. PICK i \in S : \A j \in S : j =< i
      BY <3>1, GreatestExists
    <3>3. {j \in S : j >= i} = {i}
      <4>1. \A j \in S : j >= i <=> j = i
        BY <1>0, <3>2
      <4> QED
        BY ONLY <3>2, <4>1
    <3>4. Rank(S, i) = 1
      BY <3>3, FS_Singleton DEF Rank
    <3> QED
      BY <2>3, <2>4, <3>4
  <2>5. CASE m # 1
    <3>1. m - 1 \in 1..Cardinality(S) /\ m - 1 \notin Bad /\ m - 1 < Cardinality(S)
      <4>1. m \in Nat /\ m >= 2 /\ m =< Cardinality(S)
        BY <1>1, <2>3, <2>5
      <4>2. m - 1 \notin Bad
        <5> HIDE DEF Bad
        <5> QED
          BY <2>2, <4>1
      <4> QED
        BY <1>1, <4>1, <4>2
    <3>2. PICK i \in S : Rank(S, i) = m - 1
      BY <3>1
    <3> DEFINE Up == {j \in S : j >= i}
               Low == {j \in S : j < i}
    <3>3. Low # {}
      <4> SUFFICES ASSUME Low = {} PROVE FALSE
        OBVIOUS
      <4>1. \A j \in S : ~(j < i)
        OBVIOUS
      <4>2. Up = S
        <5>1. \A j \in S : j >= i
          BY <1>0, <4>1
        <5> QED
          BY ONLY <5>1
      <4>3. Cardinality(S) = m - 1
        BY <3>2, <4>2 DEF Rank
      <4> QED
        BY <1>1, <3>1, <4>3
    <3>4. PICK l \in Low : \A j \in Low : j =< l
      <4>1. Low \in SUBSET (1..n)
        OBVIOUS
      <4> HIDE DEF Low
      <4> QED
        BY <3>3, <4>1, GreatestExists
    <3>5. {j \in S : j >= l} = Up \cup {l} /\ l \notin Up /\ l \in S
      <4>1. \A j \in S : j < i => j =< l
        BY <3>4
      <4>2. l \in S /\ l < i
        BY <3>4
      <4>3. \A j \in S : j >= l <=> j >= i \/ j = l
        BY <1>0, <4>1, <4>2
      <4>4. ~(l >= i)
        BY <1>0, <4>2
      <4> QED
        BY ONLY <4>2, <4>3, <4>4
    <3>6. IsFiniteSet(Up)
      <4>1. Up \in SUBSET S
        OBVIOUS
      <4> QED
        BY <1>1, <4>1, FS_Subset
    <3> HIDE DEF Up
    <3>7. Cardinality(Up \cup {l}) = Cardinality(Up) + 1
      BY <3>5, <3>6, FS_AddElement
    <3>8. Rank(S, l) = m - 1 + 1
      BY <3>2, <3>5, <3>7 DEF Rank, Up
    <3> QED
      BY <1>1, <2>3, <3>5, <3>8
  <2> QED
    BY <2>4, <2>5
<1> QED
  BY <1>2

\* The position in the log that the k-th row shows.
Shown(es, k) == CHOOSE i \in Newest(es) : Cardinality({j \in Newest(es) : j >= i}) = k

LEMMA ShownIs ==
    ASSUME NEW es \in Seq(LoggedEvent)
    PROVE  /\ Newest(es) \in SUBSET (1..Len(es)) /\ Len(es) \in Nat
           /\ Cardinality(Newest(es)) \in Nat /\ Cardinality(Newest(es)) =< Len(es)
           /\ \A k \in 1..Cardinality(Newest(es)) :
                 Shown(es, k) \in Newest(es) /\ Rank(Newest(es), Shown(es, k)) = k
           /\ \A i \in Newest(es) :
                 /\ Rank(Newest(es), i) \in 1..Cardinality(Newest(es))
                 /\ Shown(es, Rank(Newest(es), i)) = i
           /\ \A k, l \in 1..Cardinality(Newest(es)) : k < l => Shown(es, l) < Shown(es, k)
<1> DEFINE S == Newest(es)
           n == Len(es)
           c == Cardinality(S)
<1>1. n \in Nat /\ S \in SUBSET (1..n)
  BY LenProperties DEF Newest
<1> HIDE DEF S, n
<1>2. /\ c \in Nat /\ c =< n
      /\ \A i \in S : Rank(S, i) \in 1..c
      /\ \A i, j \in S : i < j => Rank(S, j) < Rank(S, i)
  BY <1>1, RankFalls
<1> DEFINE at(k) == Shown(es, k)
<1>3. ASSUME NEW k \in 1..c PROVE at(k) \in S /\ Rank(S, at(k)) = k
  <2>1. \E i \in S : Rank(S, i) = k
    BY <1>1, RankTaken
  <2>2. \E i \in S : Cardinality({j \in S : j >= i}) = k
    BY <2>1 DEF Rank
  <2>3. at(k) \in S /\ Cardinality({j \in S : j >= at(k)}) = k
    BY <2>2 DEF Shown, S
  <2> QED
    BY <2>3 DEF Rank
<1>4. \A i \in S : i \in Nat
  BY <1>1
<1>5. \A i \in S : Rank(S, i) \in Nat
  BY <1>2
<1>6. ASSUME NEW i \in S PROVE at(Rank(S, i)) = i
  <2> DEFINE k == Rank(S, i)
             j == at(k)
  <2>1. k \in 1..c
    BY <1>2
  <2>2. j \in S /\ Rank(S, j) = k
    BY <1>3, <2>1
  <2> HIDE DEF j, k, at
  <2>3. ~(j < i) /\ ~(i < j)
    BY <1>2, <1>5, <2>2 DEF k
  <2>4. j = i
    BY <1>4, <2>2, <2>3
  <2> QED
    BY <2>4 DEF j, k
<1>7. ASSUME NEW k \in 1..c, NEW l \in 1..c, k < l PROVE at(l) < at(k)
  <2>1. at(k) \in S /\ at(l) \in S /\ Rank(S, at(k)) = k /\ Rank(S, at(l)) = l
    BY <1>3
  <2> HIDE DEF at
  <2>2. ~(at(k) < at(l)) /\ at(k) # at(l)
    BY <1>2, <1>5, <1>7, <2>1
  <2> QED
    BY <1>4, <2>1, <2>2
<1> QED
  BY <1>1, <1>2, <1>3, <1>6, <1>7 DEF S, n

\* Row by row.
LEMMA RowsAre ==
    ASSUME NEW es \in Seq(LoggedEvent), NEW limit \in Nat
    PROVE  LET c == Cardinality(Newest(es))
               rows == Clients(es, limit)
           IN  /\ DOMAIN rows \in SUBSET (1..c)
               /\ DOMAIN rows = 1..(IF c =< limit THEN c ELSE limit)
               /\ \A k \in DOMAIN rows : rows[k] = Row(es, Shown(es, k))
<1> DEFINE c == Cardinality(Newest(es))
           rows == Clients(es, limit)
           m == IF c =< limit THEN c ELSE limit
<1>1. c \in Nat
  BY ShownIs
<1>2. rows = [k \in 1..m |-> Row(es, Shown(es, k))]
  BY DEF Clients, NthRow, Shown
<1>3. m \in Nat /\ m =< c
  BY <1>1
<1> HIDE DEF c, rows, m
<1>4. DOMAIN rows = 1..m /\ \A k \in 1..m : rows[k] = Row(es, Shown(es, k))
  BY <1>2
<1>5. \A k \in 1..m : k \in 1..c
  BY <1>1, <1>3
<1> QED
  BY <1>4, <1>5 DEF c, rows, m

\* Two of the newest are about different things.
LEMMA NewestDiffer ==
    ASSUME NEW es \in Seq(LoggedEvent), NEW i \in Newest(es), NEW j \in Newest(es),
           Key(es[i]) = Key(es[j])
    PROVE  i = j
<1>1. i \in 1..Len(es) /\ j \in 1..Len(es) /\ i \in Nat /\ j \in Nat
  BY LenProperties DEF Newest
<1>2. i \in About(es, j) /\ j \in About(es, i)
  BY <1>1 DEF About
<1>3. i =< j /\ j =< i
  BY <1>2 DEF Newest
<1> QED
  BY <1>1, <1>3

\* Every event has a newest of its key.
LEMMA NewestOfKey ==
    ASSUME NEW es \in Seq(LoggedEvent), NEW i \in 1..Len(es)
    PROVE  \E m \in Newest(es) : Key(es[m]) = Key(es[i])
<1>1. Len(es) \in Nat /\ About(es, i) \in SUBSET (1..Len(es)) /\ i \in About(es, i)
  BY LenProperties DEF About
<1>2. PICK m \in About(es, i) : \A j \in About(es, i) : j =< m
  BY <1>1, GreatestExists
<1>3. m \in 1..Len(es) /\ Key(es[m]) = Key(es[i])
  BY <1>2 DEF About
<1>4. About(es, m) = About(es, i)
  BY <1>3 DEF About
<1>5. m \in Newest(es)
  BY <1>2, <1>3, <1>4 DEF Newest
<1> QED
  BY <1>3, <1>5

\* A row counts at least one activation when one of its events is one.
LEMMA RowActivated ==
    ASSUME NEW es \in Seq(LoggedEvent), NEW i \in 1..Len(es)
    PROVE  /\ Row(es, i).activations > 0 <=> \E j \in About(es, i) : es[j].request.activated
           /\ Row(es, i).activations =< Row(es, i).requests
<1> DEFINE A == About(es, i)
           B == {j \in A : es[j].request.activated}
<1>1. A \in SUBSET (1..Len(es)) /\ Len(es) \in Nat
  BY LenProperties DEF About
<1>2. B \in SUBSET A
  OBVIOUS
<1> HIDE DEF A, B
<1>3. IsFiniteSet(A)
  <2>1. IsFiniteSet(1..Len(es))
    BY <1>1, FS_Interval
  <2> QED
    BY <1>1, <2>1, FS_Subset
<1>4. IsFiniteSet(B) /\ Cardinality(B) =< Cardinality(A)
  BY <1>2, <1>3, FS_Subset
<1>5. Cardinality(B) \in Nat /\ (Cardinality(B) = 0 <=> B = {})
  BY <1>4, FS_CardinalityType, FS_EmptySet
<1>6. Cardinality(B) > 0 <=> B # {}
  BY <1>5
<1>7. B # {} <=> \E j \in A : es[j].request.activated
  BY DEF B
<1>8. Row(es, i).activations = Cardinality(B) /\ Row(es, i).requests = Cardinality(A)
  BY DEF Row, A, B
<1> QED
  BY <1>4, <1>6, <1>7, <1>8 DEF A

\* The machines the fleet view shows as ever activated are those
\* distinct_machines counts.
LEMMA MachinesAgree ==
    ASSUME LogInv
    PROVE  LET rows == Clients(events, Capacity)
               machines == {rows[i].key[1] : i \in {j \in DOMAIN rows : rows[j].activations > 0}}
           IN  /\ machines = UNION {ActivatedMachines(events, r.application) : r \in Requests}
               /\ \A r \in Requests :
                     DistinctMachines(events, r.application) =< Cardinality(machines)
<1> DEFINE es == events
           rows == Clients(es, Capacity)
           live == {j \in DOMAIN rows : rows[j].activations > 0}
           machines == {rows[i].key[1] : i \in live}
           counted == UNION {ActivatedMachines(es, r.application) : r \in Requests}
           c == Cardinality(Newest(es))
<1>1. es \in Seq(LoggedEvent) /\ Len(es) \in Nat /\ Len(es) =< Capacity /\ Capacity \in Nat
  BY LenProperties, LogAssumption DEF LogInv, TypeOK
<1>2. /\ c \in Nat /\ c =< Len(es)
      /\ Newest(es) \in SUBSET (1..Len(es))
      /\ \A k \in 1..c : Shown(es, k) \in Newest(es)
      /\ \A i \in Newest(es) : Rank(Newest(es), i) \in 1..c /\ Shown(es, Rank(Newest(es), i)) = i
  BY <1>1, ShownIs
<1>3. DOMAIN rows = 1..c /\ \A k \in 1..c : rows[k] = Row(es, Shown(es, k))
  <2>1. /\ DOMAIN rows = 1..(IF c =< Capacity THEN c ELSE Capacity)
        /\ \A k \in DOMAIN rows : rows[k] = Row(es, Shown(es, k))
    BY <1>1, RowsAre
  <2>2. c =< Capacity
    BY <1>1, <1>2
  <2> QED
    BY <2>1, <2>2
<1>4. \A i : Key(es[i])[1] = es[i].request.cmid
  BY DEF Key
<1>5. \A i \in 1..Len(es) : es[i].request \in Requests
  <2>1. \A i \in 1..Len(es) : es[i] \in LoggedEvent
    BY <1>1, ElementOfSeq
  <2> QED
    BY <2>1 DEF LoggedEvent
<1> HIDE DEF rows, c, es
<1>6. ASSUME NEW x \in machines PROVE x \in counted
  <2>1. PICK k \in 1..c : rows[k].activations > 0 /\ x = rows[k].key[1]
    BY <1>3
  <2> DEFINE i == Shown(es, k)
  <2>2. i \in 1..Len(es) /\ rows[k] = Row(es, i)
    BY <1>2, <1>3
  <2> HIDE DEF i
  <2>3. PICK j \in About(es, i) : es[j].request.activated
    BY <1>1, <2>1, <2>2, RowActivated
  <2>4. j \in 1..Len(es) /\ Key(es[j]) = Key(es[i])
    BY <2>3 DEF About
  <2>5. x = es[j].request.cmid
    <3>1. rows[k].key = Key(es[i])
      BY <2>2 DEF Row
    <3> QED
      BY <1>4, <2>1, <2>4, <3>1
  <2> DEFINE r == es[j].request
  <2>6. r \in Requests /\ x \in ActivatedMachines(es, r.application)
    BY <1>5, <2>3, <2>4, <2>5 DEF ActivatedMachines
  <2> HIDE DEF r
  <2> QED
    BY <2>6
<1>7. ASSUME NEW x \in counted PROVE x \in machines
  <2>1. PICK r \in Requests : x \in ActivatedMachines(es, r.application)
    BY <1>7
  <2>2. PICK j \in 1..Len(es) : es[j].request.activated /\ x = es[j].request.cmid
    BY <2>1 DEF ActivatedMachines
  <2>3. PICK m \in Newest(es) : Key(es[m]) = Key(es[j])
    BY <1>1, NewestOfKey
  <2> DEFINE k == Rank(Newest(es), m)
  <2>4. k \in 1..c /\ rows[k] = Row(es, m) /\ m \in 1..Len(es)
    BY <1>2, <1>3
  <2> HIDE DEF k
  <2>5. j \in About(es, m)
    BY <2>2, <2>3 DEF About
  <2>6. rows[k].activations > 0
    BY <1>1, <2>2, <2>4, <2>5, RowActivated
  <2>7. rows[k].key[1] = x
    <3>1. rows[k].key = Key(es[m])
      BY <2>4 DEF Row
    <3> QED
      BY <1>4, <2>2, <2>3, <3>1
  <2>8. k \in live
    BY <1>3, <2>4, <2>6
  <2> HIDE DEF live
  <2> QED
    BY <2>7, <2>8
<1>8. machines = counted
  BY <1>6, <1>7
<1>9. IsFiniteSet(machines)
  <2> DEFINE f == [i \in live |-> rows[i].key[1]]
  <2>1. IsFiniteSet(live)
    <3>1. IsFiniteSet(1..c)
      BY <1>2, FS_Interval
    <3>2. live \in SUBSET (1..c)
      BY <1>3
    <3> QED
      BY <3>1, <3>2, FS_Subset
  <2> HIDE DEF live
  <2>2. f \in Surjection(live, machines)
    BY DEF Surjection
  <2> HIDE DEF f
  <2> QED
    BY <2>1, <2>2, FS_Surjection
<1>10. ASSUME NEW r \in Requests
       PROVE  DistinctMachines(es, r.application) =< Cardinality(machines)
  <2>1. ActivatedMachines(es, r.application) \in SUBSET machines
    BY <1>8
  <2> HIDE DEF machines
  <2>2. Cardinality(ActivatedMachines(es, r.application)) =< Cardinality(machines)
    BY <1>9, <2>1, FS_Subset
  <2> QED
    BY <2>2 DEF DistinctMachines
<1> QED
  BY <1>8, <1>10 DEF rows, es

\* Newest first, each key once, the last event on top.
LEMMA RowsInOrder ==
    ASSUME LogInv, NEW limit \in Nat \ {0}
    PROVE  LET rows == Clients(events, limit)
           IN  /\ \A i, j \in DOMAIN rows :
                     i < j => rows[i].last_sequence > rows[j].last_sequence
               /\ \A i, j \in DOMAIN rows : rows[i].key = rows[j].key => i = j
               /\ \A i \in DOMAIN rows : rows[i].activations =< rows[i].requests
               /\ events # <<>> =>
                     /\ rows[1].last_sequence = next_sequence - 1
                     /\ rows[1].activated_last = events[Len(events)].request.activated
<1> DEFINE es == events
           rows == Clients(es, limit)
           c == Cardinality(Newest(es))
           S == Newest(es)
           at(k) == Shown(es, k)
<1>1. /\ es \in Seq(LoggedEvent) /\ Len(es) \in Nat /\ next_sequence \in Nat
      /\ \A i \in 1..Len(es) : es[i].sequence = next_sequence - Len(es) + i - 1
  BY LenProperties DEF LogInv, TypeOK, Contiguous
<1>2. /\ c \in Nat /\ S \in SUBSET (1..Len(es))
      /\ \A k \in 1..c : at(k) \in S /\ Rank(S, at(k)) = k
      /\ \A i \in S : Rank(S, i) \in 1..c /\ at(Rank(S, i)) = i
      /\ \A k, l \in 1..c : k < l => at(l) < at(k)
  BY <1>1, ShownIs
<1>3. /\ DOMAIN rows \in SUBSET (1..c)
      /\ DOMAIN rows = 1..(IF c =< limit THEN c ELSE limit)
      /\ \A k \in DOMAIN rows : rows[k] = Row(es, at(k))
  BY <1>1, RowsAre
<1> HIDE DEF es, rows, c, S, at
<1>4. ASSUME NEW i \in DOMAIN rows, NEW j \in DOMAIN rows, i < j
      PROVE  rows[i].last_sequence > rows[j].last_sequence
  <2>1. i \in 1..c /\ j \in 1..c
    BY <1>3
  <2>2. at(i) \in 1..Len(es) /\ at(j) \in 1..Len(es) /\ at(j) < at(i)
    BY <1>2, <1>4, <2>1
  <2>3. /\ rows[i].last_sequence = next_sequence - Len(es) + at(i) - 1
        /\ rows[j].last_sequence = next_sequence - Len(es) + at(j) - 1
    <3>1. rows[i] = Row(es, at(i)) /\ rows[j] = Row(es, at(j))
      BY <1>3
    <3>2. /\ rows[i].last_sequence = es[at(i)].sequence
          /\ rows[j].last_sequence = es[at(j)].sequence
      BY <3>1 DEF Row
    <3> QED
      BY <1>1, <2>2, <3>2
  <2> QED
    BY <1>1, <2>2, <2>3
<1>5. ASSUME NEW i \in DOMAIN rows, NEW j \in DOMAIN rows, rows[i].key = rows[j].key
      PROVE  i = j
  <2>1. i \in 1..c /\ j \in 1..c
    BY <1>3
  <2>2. at(i) \in S /\ at(j) \in S /\ Key(es[at(i)]) = Key(es[at(j)])
    <3>1. rows[i] = Row(es, at(i)) /\ rows[j] = Row(es, at(j))
      BY <1>3
    <3>2. rows[i].key = Key(es[at(i)]) /\ rows[j].key = Key(es[at(j)])
      BY <3>1 DEF Row
    <3> QED
      BY <1>2, <1>5, <2>1, <3>2
  <2>3. at(i) = at(j)
    BY <1>1, <2>2, NewestDiffer DEF S
  <2> QED
    BY <1>2, <2>1, <2>3
<1>6. ASSUME NEW i \in DOMAIN rows PROVE rows[i].activations =< rows[i].requests
  <2>1. at(i) \in 1..Len(es) /\ rows[i] = Row(es, at(i))
    BY <1>2, <1>3
  <2> QED
    BY <1>1, <2>1, RowActivated
<1>7. ASSUME es # <<>>
      PROVE  /\ rows[1].last_sequence = next_sequence - 1
             /\ rows[1].activated_last = es[Len(es)].request.activated
  <2> DEFINE n == Len(es)
  <2>1. n >= 1 /\ n \in 1..n
    <3>1. n # 0
      BY <1>1, <1>7, EmptySeq
    <3> QED
      BY <1>1, <3>1
  <2>2. n \in S
    <3>1. \A j \in About(es, n) : j =< n
      BY <1>1 DEF About
    <3> QED
      BY <2>1, <3>1 DEF Newest, S
  <2>3. {j \in S : j >= n} = {n}
    <3>1. \A j \in S : j >= n <=> j = n
      BY <1>1, <1>2
    <3> HIDE DEF n
    <3> QED
      BY ONLY <2>2, <3>1
  <2>4. Rank(S, n) = 1
    BY <2>3, FS_Singleton DEF Rank
  <2>5. 1 \in 1..c /\ at(1) = n
    BY <1>2, <2>2, <2>4
  <2>6. 1 \in DOMAIN rows
    BY <1>2, <1>3, <2>5
  <2>7. rows[1] = Row(es, n)
    BY <1>3, <2>5, <2>6
  <2>8. rows[1].last_sequence = next_sequence - n + n - 1
    <3>1. rows[1].last_sequence = es[n].sequence
      BY <2>7 DEF Row
    <3>2. es[n].sequence = next_sequence - Len(es) + n - 1
      BY <1>1, <2>1
    <3> HIDE DEF n
    <3> QED
      BY <3>1, <3>2 DEF n
  <2>9. rows[1].activated_last = es[n].request.activated
    BY <2>7 DEF Row
  <2> QED
    BY <1>1, <2>8, <2>9
<1> QED
  BY <1>4, <1>5, <1>6, <1>7 DEF rows, es

LEMMA LogMeansFleetView == LogInv => FleetView
<1> SUFFICES ASSUME LogInv PROVE FleetView
  OBVIOUS
<1>1. {1, MACHINES_PER_PAGE, Capacity} \subseteq Nat \ {0}
  BY LogAssumption, WebAssumption
<1> QED
  BY <1>1, MachinesAgree, RowsInOrder DEF FleetView

-----------------------------------------------------------------------------
(***************************************************************************)
(* The log behind the web UI.                                              *)
(***************************************************************************)

\* The web UI reads the log and never changes it: the host as a whole is an
\* event log to whoever looks at nothing else.
THEOREM WebKeepsLog == Spec => LogSpec
<1>1. Init => LogInit
  BY DEF Init
<1>2. [Next]_vars => [LogNext]_log_vars
  <2> SUFFICES ASSUME [Next]_vars PROVE LogNext \/ UNCHANGED log_vars
    OBVIOUS
  <2>1. ASSUME NEW req \in HttpRequests, Open(req) PROVE UNCHANGED log_vars
    BY <2>1 DEF Open, log_vars
  <2>2. ASSUME NEW n \in 1..ReadSize, serve_web(n) PROVE UNCHANGED log_vars
    BY <2>2 DEF serve_web, log_vars
  <2>3. CASE Over
    BY <2>3 DEF Over, log_vars
  <2>4. CASE Log
    BY <2>4 DEF Log
  <2>5. ASSUME NEW n \in Networks, publish(n) PROVE UNCHANGED log_vars
    BY <2>5 DEF publish, log_vars
  <2>6. ASSUME NEW s \in Sources, SourceTurns(s) PROVE UNCHANGED log_vars
    BY <2>6 DEF SourceTurns, log_vars
  <2>7. CASE entropy_watch
    BY <2>7 DEF entropy_watch, log_vars
  <2>8. CASE UNCHANGED vars
    BY <2>8 DEF vars, log_vars
  <2> QED
    BY <2>1, <2>2, <2>3, <2>4, <2>5, <2>6, <2>7, <2>8 DEF Next
<1> QED
  BY <1>1, <1>2, PTL DEF Spec, LogSpec

\* The fleet view agrees with the log: newest first, one row per machine and
\* product, the newest event on top, and the machines ever activated those
\* distinct_machines counts (EventLog::clients, ::distinct_machines).
THEOREM WebFleetView == Spec => []FleetView
BY WebKeepsLog, LogInvHolds, LogMeansFleetView, PTL

\* What recent returns, turned round again as the page does: the last `limit'
\* events, oldest first.
LEMMA RecentTurned ==
    ASSUME NEW es \in Seq(LoggedEvent), NEW limit \in Nat \ {0}
    PROVE  LET rows == Reverse(recent(es, limit))
               shown == Min({limit, Len(es)})
           IN  /\ shown \in 0..Len(es)
               /\ rows \in Seq(LoggedEvent)
               /\ Len(rows) = shown
               /\ \A i \in 1..shown : rows[i] = es[Len(es) - shown + i]
<1> DEFINE n == Len(es)
           m == Max({0, n - limit})
           shown == Min({limit, n})
           tail == SubSeq(es, m + 1, n)
           back == Reverse(tail)
           rows == Reverse(back)
<1>1. n \in Nat /\ limit \in Nat
  BY LenProperties
<1>2. shown \in {limit, n} /\ shown =< limit /\ shown =< n
  <2> HIDE DEF n
  <2>1. {limit, n} \in SUBSET Nat /\ {limit, n} # {}
    BY <1>1
  <2> QED
    BY <2>1, MinIsLeast
<1>3. m \in {0, n - limit} /\ m >= 0 /\ m >= n - limit
  <2> HIDE DEF n
  <2>1. {0, n - limit} # {} /\ 0 \in {0, n - limit} /\ n - limit \in {0, n - limit}
    OBVIOUS
  <2>2. \E x \in {0, n - limit} : \A y \in {0, n - limit} : x >= y
    BY <1>1
  <2> QED
    BY <2>2 DEF Max
<1> HIDE DEF m, shown
<1>4. n - m = shown /\ m \in 0..n /\ shown \in 0..n
  BY <1>1, <1>2, <1>3
<1>5. tail \in Seq(LoggedEvent) /\ Len(tail) = shown /\ \A i \in 1..shown : tail[i] = es[m + i]
  <2>1. \A i \in (m + 1)..n : es[i] \in LoggedEvent
    BY <1>1, <1>4, ElementOfSeq
  <2>2. /\ tail \in Seq(LoggedEvent)
        /\ Len(tail) = IF m + 1 =< n THEN n - (m + 1) + 1 ELSE 0
        /\ \A i \in 1..(n - (m + 1) + 1) : tail[i] = es[(m + 1) + i - 1]
    <3>1. m + 1 \in Int /\ n \in Int
      BY <1>1, <1>4
    <3> HIDE DEF n
    <3> QED
      BY <2>1, <3>1, SubSeqProperties
  <2> HIDE DEF tail, n
  <2> QED
    BY <1>1, <1>4, <2>2
<1> HIDE DEF tail, n
<1>6. ASSUME NEW s \in Seq(LoggedEvent), Len(s) = shown
      PROVE  /\ Reverse(s) \in Seq(LoggedEvent) /\ Len(Reverse(s)) = shown
             /\ \A i \in 1..shown : Reverse(s)[i] = s[(shown - i) + 1]
  <2>1. shown \in Nat
    BY <1>1, <1>4
  <2>2. Reverse(s) = [i \in 1..shown |-> s[(shown - i) + 1]]
    BY <1>6 DEF Reverse
  <2>3. \A i \in 1..shown : (shown - i) + 1 \in 1..Len(s)
    BY <1>6, <2>1
  <2>4. \A i \in 1..shown : s[(shown - i) + 1] \in LoggedEvent
    BY <2>3, ElementOfSeq
  <2>5. Reverse(s) \in [1..shown -> LoggedEvent]
    BY <2>2, <2>4
  <2>6. Reverse(s) \in Seq(LoggedEvent)
    BY <2>1, <2>5
  <2>7. Len(Reverse(s)) = shown
    BY <2>1, <2>5, <2>6, LenProperties
  <2> QED
    BY <2>2, <2>6, <2>7
<1>7. /\ back \in Seq(LoggedEvent) /\ Len(back) = shown
      /\ \A i \in 1..shown : back[i] = tail[(shown - i) + 1]
  BY <1>5, <1>6
<1> HIDE DEF back
<1>8. /\ rows \in Seq(LoggedEvent) /\ Len(rows) = shown
      /\ \A i \in 1..shown : rows[i] = back[(shown - i) + 1]
  BY <1>6, <1>7
<1> HIDE DEF rows
<1>9. ASSUME NEW i \in 1..shown PROVE rows[i] = es[n - shown + i]
  <2>1. shown \in Nat /\ (shown - i) + 1 \in 1..shown
    BY <1>1, <1>4
  <2>2. rows[i] = tail[(shown - ((shown - i) + 1)) + 1]
    BY <1>7, <1>8, <2>1
  <2>3. (shown - ((shown - i) + 1)) + 1 = i
    BY <2>1
  <2>4. rows[i] = es[m + i]
    BY <1>5, <2>2, <2>3
  <2>5. m + i = n - shown + i
    BY <1>1, <1>4, <2>1
  <2> QED
    BY <2>4, <2>5
<1>10. rows = Reverse(recent(es, limit))
  BY DEF rows, back, tail, m, n, recent
<1> QED
  BY <1>4, <1>8, <1>9, <1>10 DEF n, shown

\* Only one path leads to the events page.
LEMMA OnlyEventsPage ==
    ASSUME NEW parsed, answer(parsed).written.page.of = "/events"
    PROVE  answer(parsed).written.page = events_page
<1>1. ErrorResponse(404).page.of = "reason" /\ Response(0, Nothing).page.of = "nothing"
  BY DEF ErrorResponse, Response, Nothing
<1>2. \A s : ErrorResponse(s).page.of = "reason" /\ Response(s, Nothing).page.of = "nothing"
  BY DEF ErrorResponse, Response, Nothing
<1>3. parsed.outcome # "refused" /\ parsed.method # "HEAD"
  BY <1>2 DEF answer
<1>4. answer(parsed).written = route(parsed)
  BY <1>3 DEF answer
<1>5. route(parsed).page.of = "/events"
  BY <1>4
<1>6. /\ Response(200, status_page).page.of = "/"
      /\ Response(200, instructions_page(parsed.host)).page.of = "/instructions"
      /\ Response(200, [of |-> "/products"]).page.of = "/products"
      /\ Response(200, metrics).page.of = "/metrics"
      /\ health.page.of = "/healthz"
  BY DEF Response, status_page, instructions_page, metrics, health
<1>7. Response(200, events_page).page = events_page
  BY DEF Response
<1>8. route(parsed).page = events_page
  <2> HIDE DEF ErrorResponse, Response, status_page, instructions_page, metrics, health, events_page
  <2> QED
    BY <1>2, <1>5, <1>6, <1>7 DEF route
<1> QED
  BY <1>4, <1>8

\* A page of the log is exactly the newest events, each once, under numbers that
\* add up (routes.rs: events_page; EventLog::recent).
THEOREM WebPageIsRecent == Spec => PageIsRecent
<1> DEFINE Recent(page) ==
               /\ Len(page.rows) = page.showing
               /\ page.recorded = page.held + page.by_retention + page.by_capacity
               /\ {page.rows[i].sequence : i \in DOMAIN page.rows}
                     = (page.recorded - page.showing)..(page.recorded - 1)
           Listed == reply' # reply /\ reply'.written.page.of = "/events"
                     => Recent(reply'.written.page)
<1>1. ASSUME LogInv PROVE Recent(events_page)
  <2> DEFINE rows == Reverse(recent(events, EVENTS_PER_PAGE))
             shown == Min({EVENTS_PER_PAGE, Len(events)})
  <2>1. /\ events \in Seq(LoggedEvent) /\ EVENTS_PER_PAGE \in Nat \ {0}
        /\ next_sequence \in Nat /\ by_capacity \in Nat /\ by_retention \in Nat
        /\ Len(events) \in Nat
    BY <1>1, WebAssumption, LenProperties DEF LogInv, TypeOK
  <2>2. /\ shown \in 0..Len(events) /\ rows \in Seq(LoggedEvent) /\ Len(rows) = shown
        /\ \A i \in 1..shown : rows[i] = events[Len(events) - shown + i]
    BY <2>1, RecentTurned
  <2>3. /\ events_page.rows = rows /\ events_page.showing = shown
        /\ events_page.recorded = next_sequence /\ events_page.held = Len(events)
        /\ events_page.by_retention = by_retention /\ events_page.by_capacity = by_capacity
    BY DEF events_page
  <2> HIDE DEF rows, shown
  <2>4. DOMAIN rows = 1..shown
    BY <2>2, LenProperties
  <2>5. ASSUME NEW i \in 1..shown PROVE rows[i].sequence = next_sequence - shown + i - 1
    <3>1. Len(events) - shown + i \in 1..Len(events) /\ shown \in Nat
      BY <2>1, <2>2
    <3>2. events[Len(events) - shown + i].sequence
            = next_sequence - Len(events) + (Len(events) - shown + i) - 1
      BY <1>1, <3>1 DEF LogInv, Contiguous
    <3>3. rows[i].sequence = next_sequence - Len(events) + (Len(events) - shown + i) - 1
      BY <2>2, <3>2
    <3> QED
      BY <2>1, <3>1, <3>3
  <2>6. next_sequence = Len(events) + by_retention + by_capacity
    BY <1>1, <2>1 DEF LogInv, NothingLost
  <2>7. {rows[i].sequence : i \in 1..shown} = (next_sequence - shown)..(next_sequence - 1)
    <3>1. shown \in Nat
      BY <2>1, <2>2
    <3>2. ASSUME NEW i \in 1..shown
          PROVE  next_sequence - shown + i - 1 \in (next_sequence - shown)..(next_sequence - 1)
      BY <2>1, <3>1
    <3>3. ASSUME NEW k \in (next_sequence - shown)..(next_sequence - 1)
          PROVE  \E i \in 1..shown : k = rows[i].sequence
      <4>1. k - next_sequence + shown + 1 \in 1..shown
        BY <2>1, <3>1
      <4>2. rows[k - next_sequence + shown + 1].sequence
              = next_sequence - shown + (k - next_sequence + shown + 1) - 1
        BY <2>5, <4>1
      <4>3. rows[k - next_sequence + shown + 1].sequence = k
        BY <2>1, <3>1, <4>2
      <4> QED
        BY <4>1, <4>3
    <3> QED
      BY <2>5, <3>2, <3>3
  <2> QED
    BY <2>2, <2>3, <2>4, <2>6, <2>7
<1>2. \A s : ErrorResponse(s).page.of = "reason" /\ Response(s, Nothing).page.of = "nothing"
  BY DEF ErrorResponse, Response, Nothing
<1>3. LogInv /\ [Next]_vars => [Listed]_vars
  <2> SUFFICES ASSUME LogInv, Next, reply' # reply, reply'.written.page.of = "/events"
               PROVE  Recent(reply'.written.page)
    BY DEF vars, connection
  <2> HIDE DEF Recent
  <2>1. ASSUME NEW n \in 1..ReadSize, serve_web(n) PROVE Recent(reply'.written.page)
    <3>1. CASE reply' = [verdict |-> "HeadTooLong", written |-> ErrorResponse(431)]
      BY <1>2, <3>1
    <3>2. CASE \E parsed : reply' = answer(parsed)
      <4>1. PICK parsed : reply' = answer(parsed)
        BY <3>2
      <4>2. reply'.written.page = events_page
        BY <4>1, OnlyEventsPage
      <4> QED
        BY <1>1, <4>2
    <3> QED
      BY <2>1, <3>1, <3>2 DEF serve_web
  <2>2. CASE Over
    <3>1. reply' = Unanswered
      BY <2>2 DEF Over, Idle
    <3> QED
      BY <1>2, <3>1 DEF Unanswered
  <2>3. ASSUME NEW req \in HttpRequests, Open(req) PROVE FALSE
    BY <2>3 DEF Open
  <2>4. CASE Log \/ entropy_watch
    BY <2>4 DEF Log, entropy_watch, connection
  <2>5. ASSUME NEW n \in Networks, publish(n) PROVE FALSE
    BY <2>5 DEF publish, connection
  <2>6. ASSUME NEW s \in Sources, SourceTurns(s) PROVE FALSE
    BY <2>6 DEF SourceTurns, connection
  <2> QED
    BY <2>1, <2>2, <2>3, <2>4, <2>5, <2>6 DEF Next
<1>4. [][Listed]_vars => PageIsRecent
  BY DEF PageIsRecent
<1> HIDE DEF Listed
<1> QED
  BY WebKeepsLog, LogInvHolds, <1>3, <1>4, PTL DEF Spec

-----------------------------------------------------------------------------
(***************************************************************************)
(* Reading a head piece by piece.                                          *)
(***************************************************************************)

\* Where CR LF CR LF ends in the first k units of a stream.
Ends(w, k) ==
    {i + 3 : i \in {j \in 1..(k - 3) :
        <<w[j].ch, w[j + 1].ch, w[j + 2].ch, w[j + 3].ch>> = <<"cr", "lf", "cr", "lf">>}}

LEMMA EndsApart ==
    ASSUME NEW w, NEW k \in Nat
    PROVE  /\ Ends(w, k) \in SUBSET (1..k)
           /\ \A l \in Nat : l =< k => Ends(w, l) = {e \in Ends(w, k) : e =< l}
<1> DEFINE Four(j) ==
               <<w[j].ch, w[j + 1].ch, w[j + 2].ch, w[j + 3].ch>> = <<"cr", "lf", "cr", "lf">>
<1> HIDE DEF Four
<1>1. ASSUME NEW l \in Nat
      PROVE  \A e : e \in Ends(w, l) <=> e \in 4..l /\ Four(e - 3)
  <2> SUFFICES ASSUME NEW e PROVE e \in Ends(w, l) <=> e \in 4..l /\ Four(e - 3)
    OBVIOUS
  <2>1. ASSUME e \in Ends(w, l) PROVE e \in 4..l /\ Four(e - 3)
    <3>1. PICK j \in 1..(l - 3) : Four(j) /\ e = j + 3
      BY <2>1 DEF Ends, Four
    <3>2. e - 3 = j /\ e \in 4..l
      BY <3>1
    <3> QED
      BY <3>1, <3>2
  <2>2. ASSUME e \in 4..l, Four(e - 3) PROVE e \in Ends(w, l)
    <3> DEFINE j == e - 3
    <3>1. j \in 1..(l - 3) /\ e = j + 3 /\ Four(j)
      BY <2>2
    <3> HIDE DEF j
    <3> QED
      BY <3>1 DEF Ends, Four
  <2> QED
    BY <2>1, <2>2
<1>2. Ends(w, k) \in SUBSET (1..k)
  BY <1>1
<1>3. ASSUME NEW l \in Nat, l =< k PROVE Ends(w, l) = {e \in Ends(w, k) : e =< l}
  <2>1. \A e : e \in 4..l <=> e \in 4..k /\ e =< l
    BY <1>3
  <2>2. \A e : e \in Ends(w, l) <=> e \in Ends(w, k) /\ e =< l
    BY <1>1, <1>3, <2>1
  <2> QED
    BY ONLY <2>2
<1> QED
  BY <1>2, <1>3

Least(S) == IF S = {} THEN 0 ELSE Min(S)

\* head_end of the first k units.
LEMMA HeadEndIs ==
    ASSUME NEW T, NEW w \in Seq(T), NEW k \in 0..Len(w)
    PROVE  /\ SubSeq(w, 1, k) \in Seq(T) /\ Len(SubSeq(w, 1, k)) = k
           /\ head_end(SubSeq(w, 1, k)) = Least(Ends(w, Min({k, MAX_REQUEST})))
<1> DEFINE b == SubSeq(w, 1, k)
           limit == Min({k, MAX_REQUEST})
<1>1. Len(w) \in Nat /\ k \in Nat /\ MAX_REQUEST \in Nat
  BY LenProperties, WebAssumption
<1>2. b \in Seq(T) /\ Len(b) = k /\ \A i \in 1..k : b[i] = w[i]
  <2>1. \A i \in 1..k : w[i] \in T
    BY <1>1, ElementOfSeq
  <2>2. /\ b \in Seq(T) /\ Len(b) = IF 1 =< k THEN k - 1 + 1 ELSE 0
        /\ \A i \in 1..(k - 1 + 1) : b[i] = w[1 + i - 1]
    BY <1>1, <2>1, SubSeqProperties
  <2> HIDE DEF b
  <2> QED
    BY <1>1, <2>2
<1>3. limit \in Nat /\ limit =< k
  <2>1. {k, MAX_REQUEST} \in SUBSET Nat /\ {k, MAX_REQUEST} # {}
    BY <1>1
  <2> QED
    BY <2>1, MinIsLeast
<1> DEFINE Four(i) == <<b[i].ch, b[i + 1].ch, b[i + 2].ch, b[i + 3].ch>>
           ends == {i + 3 : i \in {j \in 1..(limit - 3) : Four(j) = <<"cr", "lf", "cr", "lf">>}}
<1>4. head_end(b) = Least(ends)
  BY <1>2 DEF head_end, Least
<1> HIDE DEF b, limit
<1>5. \A j \in 1..(limit - 3) : b[j] = w[j] /\ b[j + 1] = w[j + 1]
                              /\ b[j + 2] = w[j + 2] /\ b[j + 3] = w[j + 3]
  BY <1>1, <1>2, <1>3
<1>6. ends = Ends(w, limit)
  BY <1>5 DEF Ends
<1> HIDE DEF ends
<1> QED
  BY <1>2, <1>4, <1>6 DEF b, limit

\* The end of a head found in a first part of a stream is the end found in the
\* whole, and one that is not found there lies beyond it.
LEMMA HeadEndKept ==
    ASSUME NEW T, NEW w \in Seq(T), NEW k \in 0..Len(w)
    PROVE  /\ head_end(w) \in 0..Len(w)
           /\ head_end(SubSeq(w, 1, k)) # 0 =>
                 head_end(w) = head_end(SubSeq(w, 1, k)) /\ head_end(w) =< k
<1> DEFINE M == MAX_REQUEST
           n == Len(w)
           low == Min({k, M})
           high == Min({n, M})
<1>1. n \in Nat /\ k \in Nat /\ M \in Nat /\ k =< n
  BY LenProperties, WebAssumption
<1>2. /\ low \in {k, M} /\ low =< k /\ low =< M
      /\ high \in {n, M} /\ high =< n /\ high =< M
  <2> HIDE DEF n, M
  <2>1. {k, M} \in SUBSET Nat /\ {k, M} # {} /\ {n, M} \in SUBSET Nat /\ {n, M} # {}
    BY <1>1
  <2> QED
    BY <2>1, MinIsLeast
<1>3. head_end(SubSeq(w, 1, k)) = Least(Ends(w, low))
  BY HeadEndIs
<1>4. head_end(w) = Least(Ends(w, high))
  <2>1. n \in 0..n
    BY <1>1
  <2>2. SubSeq(w, 1, n) = w
    BY SubSeqFull
  <2> QED
    BY <2>1, <2>2, HeadEndIs
<1> HIDE DEF low, high, n, M
<1>5. low \in Nat /\ high \in Nat /\ low =< high
  BY <1>1, <1>2
<1> DEFINE L == Ends(w, low)
           H == Ends(w, high)
<1>6. H \in SUBSET (1..high) /\ L = {e \in H : e =< low}
  BY <1>5, EndsApart
<1> HIDE DEF L, H
<1>7. H \in SUBSET Nat /\ L \in SUBSET Nat
  <2>1. 1..high \subseteq Nat
    BY <1>5
  <2>2. H \subseteq Nat /\ L \subseteq H
    BY ONLY <1>6, <2>1
  <2> QED
    BY ONLY <2>2
<1>8. H # {} => Min(H) \in H /\ \A j \in H : Min(H) =< j
  BY <1>7, MinIsLeast
<1>9. L # {} => Min(L) \in L /\ \A j \in L : Min(L) =< j
  BY <1>7, MinIsLeast
<1>10. Least(H) \in 0..n
  <2>1. \A e \in H : e \in 0..n
    BY <1>1, <1>2, <1>5, <1>6
  <2> QED
    BY <1>1, <1>8, <2>1 DEF Least
<1>11. ASSUME Least(L) # 0 PROVE Least(H) = Least(L) /\ Least(H) =< k
  <2>1. L # {} /\ Least(L) = Min(L)
    BY <1>11 DEF Least
  <2>2. Min(L) \in H /\ Min(L) =< low /\ H # {} /\ Least(H) = Min(H)
    BY <1>6, <1>9, <2>1 DEF Least
  <2> DEFINE x == Min(L)
             y == Min(H)
  <2>3. y \in H /\ y =< x /\ x \in Nat /\ y \in Nat
    BY <1>7, <1>8, <2>2
  <2>4. x =< low /\ (y =< low => y \in L) /\ (y \in L => x =< y)
    BY <1>6, <1>9, <2>1, <2>2, <2>3
  <2> HIDE DEF x, y
  <2>5. x = y /\ x =< k
    BY <1>1, <1>2, <1>5, <2>3, <2>4
  <2> QED
    BY <2>1, <2>2, <2>5 DEF x, y
<1> QED
  BY <1>3, <1>4, <1>10, <1>11 DEF L, H, n

\* What answer says of a parsed head besides the page.
VerdictOf(parsed) == IF parsed.outcome = "refused" THEN parsed.error ELSE "none"

\* However a request is cut up into reads, it is answered as one read of the
\* whole of it would be, or not at all if that would not be; only one longer
\* than a head may be may be refused for that before its end is looked for.
AnsweredAsWhole ==
    LET w == Wire(request)
    IN  /\ phase = "closed" =>
              \/ parse(w).outcome # "incomplete" /\ reply.verdict = VerdictOf(parse(w))
              \/ reply.verdict = "HeadTooLong" /\ Len(w) > MAX_REQUEST
        /\ phase = "open" /\ taken = Len(w) => parse(w).outcome = "incomplete"

\* What serve_web keeps between reads: all that came, in which no head ends.
ReadInv ==
    /\ phase \in {"idle", "open", "closed"}
    /\ phase = "idle" => taken = 0 /\ inbound = <<>>
    /\ phase # "idle" => request \in HttpRequests
    /\ phase = "open" =>
          /\ taken \in 0..Len(Wire(request))
          /\ inbound = SubSeq(Wire(request), 1, taken)
          /\ head_end(inbound) = 0
          /\ taken < MAX_REQUEST

LEMMA ParsedIsFinal == ASSUME NEW head PROVE Parsed(head).outcome # "incomplete"
<1>1. \A e : Refused(e).outcome = "refused"
  BY DEF Refused
<1> QED
  BY <1>1 DEF Parsed

LEMMA VerdictIs == ASSUME NEW parsed PROVE answer(parsed).verdict = VerdictOf(parsed)
BY DEF answer, VerdictOf

\* A stream whose first k units have been read without an end is parsed like
\* the whole of it once the end is in them, or there is no more to come.
LEMMA ParsedEarly ==
    ASSUME NEW T, NEW w \in Seq(T), NEW k \in 0..Len(w), k =< MAX_REQUEST
    PROVE  LET p == parse(SubSeq(w, 1, k))
           IN  /\ p.outcome = "incomplete" <=>
                     head_end(SubSeq(w, 1, k)) = 0 /\ k < MAX_REQUEST
               /\ p.outcome # "incomplete" =>
                     \/ p = parse(w)
                     \/ p.outcome = "refused" /\ p.error = "HeadTooLong" /\ Len(w) > MAX_REQUEST
<1> DEFINE b == SubSeq(w, 1, k)
           e == head_end(b)
           n == Len(w)
<1>1. n \in Nat /\ k \in Nat /\ MAX_REQUEST \in Nat /\ k =< n
  BY LenProperties, WebAssumption
<1>2. b \in Seq(T) /\ Len(b) = k
  BY HeadEndIs
<1>3. head_end(w) \in 0..n /\ (e # 0 => head_end(w) = e /\ e =< k /\ e \in 1..k)
  <2>1. head_end(w) \in 0..n /\ (e # 0 => head_end(w) = e /\ head_end(w) =< k)
    BY HeadEndKept
  <2> HIDE DEF e, n
  <2> QED
    BY <1>1, <2>1
<1>4. /\ Refused("HeadTooLong").outcome = "refused" /\ Refused("HeadTooLong").error = "HeadTooLong"
      /\ [outcome |-> "incomplete"].outcome = "incomplete"
  BY DEF Refused
<1>5. \A h : Parsed(h).outcome # "incomplete"
  BY ParsedIsFinal
<1>6. CASE e # 0
  <2>1. SubSeq(b, 1, e) = SubSeq(w, 1, e)
    <3>1. /\ SubSeq(b, 1, e) = SubSeq(w, 1 + 1 - 1, 1 + e - 1)
      BY <1>1, <1>3, <1>6, SubSeqOfSubSeq
    <3> QED
      BY <1>1, <1>3, <1>6, <3>1
  <2> HIDE DEF b, e, n
  <2>2. parse(b) = Parsed(SubSeq(b, 1, e))
    BY <1>6 DEF parse, e
  <2>3. parse(w) = Parsed(SubSeq(w, 1, e))
    BY <1>3, <1>6 DEF parse
  <2> QED
    BY <1>5, <1>6, <2>1, <2>2, <2>3 DEF b, e
<1>7. CASE e = 0 /\ k >= MAX_REQUEST
  <2>1. parse(b) = Refused("HeadTooLong")
    BY <1>2, <1>7 DEF parse
  <2>2. CASE n > MAX_REQUEST
    BY <1>1, <1>4, <1>7, <2>1, <2>2
  <2>3. CASE n =< MAX_REQUEST
    <3>1. n = k
      BY <1>1, <1>7, <2>3
    <3>2. b = w
      BY <3>1, SubSeqFull
    <3> HIDE DEF b, e
    <3>3. parse(b) = parse(w)
      BY <3>2
    <3>4. ~(k < MAX_REQUEST)
      BY <1>1, <1>7
    <3> QED
      BY <1>4, <2>1, <3>3, <3>4 DEF b
  <2> QED
    BY <1>1, <2>2, <2>3
<1>8. CASE e = 0 /\ k < MAX_REQUEST
  <2>1. ~(k >= MAX_REQUEST)
    BY <1>1, <1>8
  <2>2. parse(b) = [outcome |-> "incomplete"]
    BY <1>2, <1>8, <2>1 DEF parse
  <2> QED
    BY <1>4, <1>8, <2>2
<1> QED
  BY <1>1, <1>6, <1>7, <1>8

LEMMA ReadAsWhole == ReadInv /\ AnsweredAsWhole /\ [Next]_vars => ReadInv' /\ AnsweredAsWhole'
<1> SUFFICES ASSUME ReadInv, AnsweredAsWhole, [Next]_vars PROVE ReadInv' /\ AnsweredAsWhole'
  OBVIOUS
<1>0. MAX_REQUEST \in Nat \ {0}
  BY WebAssumption
<1>1. ASSUME NEW req \in HttpRequests, Open(req) PROVE ReadInv' /\ AnsweredAsWhole'
  <2> DEFINE w == Wire(req)
             T == Range(w)
  <2>1. w \in Seq(T)
    BY WireAssumption
  <2> HIDE DEF T, w
  <2>2. Len(w) \in Nat /\ 0 \in 0..Len(w)
    BY <2>1, LenProperties
  <2>3. /\ phase' = "open" /\ request' = req /\ taken' = 0 /\ inbound' = <<>>
    BY <1>1 DEF Open, ReadInv
  <2>4. SubSeq(w, 1, 0) = <<>>
    BY <2>1, <2>2, SubSeqEmpty
  <2>5. head_end(<<>>) = 0
    <3>1. head_end(SubSeq(w, 1, 0)) = Least(Ends(w, Min({0, MAX_REQUEST})))
      BY <2>1, <2>2, HeadEndIs
    <3>2. Min({0, MAX_REQUEST}) = 0
      <4>1. {0, MAX_REQUEST} \in SUBSET Nat /\ {0, MAX_REQUEST} # {}
        BY <1>0
      <4>2. Min({0, MAX_REQUEST}) \in Nat /\ Min({0, MAX_REQUEST}) =< 0
        BY <4>1, MinIsLeast
      <4> QED
        BY <4>2
    <3>3. Ends(w, 0) \in SUBSET (1..0)
      BY EndsApart
    <3>4. Ends(w, 0) = {}
      BY <3>3
    <3> QED
      BY <2>4, <3>1, <3>2, <3>4 DEF Least
  <2>6. ReadInv'
    BY <1>0, <2>2, <2>3, <2>4, <2>5 DEF ReadInv, w
  <2>7. ASSUME Len(w) = 0 PROVE parse(w).outcome = "incomplete"
    <3>1. SubSeq(w, 1, 0) = w
      BY <2>1, <2>7, SubSeqFull
    <3>2. 0 =< MAX_REQUEST /\ 0 < MAX_REQUEST
      BY <1>0
    <3>3. parse(SubSeq(w, 1, 0)).outcome = "incomplete" <=>
             head_end(SubSeq(w, 1, 0)) = 0 /\ 0 < MAX_REQUEST
      BY <2>1, <2>2, <3>2, ParsedEarly
    <3> QED
      BY <2>4, <2>5, <3>1, <3>2, <3>3
  <2> QED
    BY <2>3, <2>6, <2>7 DEF AnsweredAsWhole, w
<1>2. ASSUME NEW n \in 1..ReadSize, serve_web(n) PROVE ReadInv' /\ AnsweredAsWhole'
  <2> DEFINE w == Wire(request)
             T == Range(w)
             k == taken + n
             b == SubSeq(w, 1, k)
  <2>1. /\ phase = "open" /\ request \in HttpRequests /\ request' = request
        /\ taken' = k /\ k =< Len(w)
        /\ taken \in 0..Len(w) /\ inbound = SubSeq(w, 1, taken)
    BY <1>2 DEF serve_web, ReadInv
  <2>2. w \in Seq(T)
    BY <2>1, WireAssumption
  <2> HIDE DEF T
  <2>3. Len(w) \in Nat /\ taken \in Nat /\ n \in Nat /\ k \in Nat /\ k \in 0..Len(w)
    <3>1. Len(w) \in Nat
      BY <2>2, LenProperties
    <3>2. ReadSize \in Nat
      BY WebAssumption
    <3> QED
      BY <2>1, <3>1, <3>2
  <2>4. inbound \o SubSeq(w, taken + 1, taken + n) = b
    BY <2>1, <2>2, <2>3, ConcatAdjacentSubSeq
  <2>5. Len(inbound) = taken
    BY <2>1, <2>2, HeadEndIs
  <2>6. CASE Len(inbound) + n > MAX_REQUEST
    <3>1. /\ reply' = [verdict |-> "HeadTooLong", written |-> ErrorResponse(431)]
          /\ phase' = "closed"
      BY <1>2, <2>6 DEF serve_web
    <3>2. Len(w) > MAX_REQUEST
      BY <1>0, <2>1, <2>3, <2>5, <2>6
    <3> QED
      BY <2>1, <3>1, <3>2 DEF ReadInv, AnsweredAsWhole
  <2>7. CASE ~(Len(inbound) + n > MAX_REQUEST)
    <3> DEFINE p == parse(b)
    <3>1. /\ inbound' = b
          /\ p.outcome = "incomplete" => phase' = phase /\ reply' = reply
          /\ p.outcome # "incomplete" => reply' = answer(p) /\ phase' = "closed"
      BY <1>2, <2>4, <2>7 DEF serve_web
    <3>2. k =< MAX_REQUEST
      BY <1>0, <2>3, <2>5, <2>7
    <3>3. /\ p.outcome = "incomplete" <=> head_end(b) = 0 /\ k < MAX_REQUEST
          /\ p.outcome # "incomplete" =>
                \/ p = parse(w)
                \/ p.outcome = "refused" /\ p.error = "HeadTooLong" /\ Len(w) > MAX_REQUEST
      BY <2>2, <2>3, <3>2, ParsedEarly
    <3>4. ASSUME k = Len(w) PROVE b = w
      BY <2>2, <3>4, SubSeqFull
    <3>5. answer(p).verdict = VerdictOf(p)
      BY VerdictIs
    <3> HIDE DEF p, b, k, w
    <3>6. CASE p.outcome = "incomplete"
      <4>1. ReadInv'
        BY <2>1, <2>3, <3>1, <3>3, <3>6 DEF ReadInv, w, b
      <4>2. k = Len(w) => parse(w).outcome = "incomplete"
        BY <3>4, <3>6 DEF p
      <4> QED
        BY <2>1, <3>1, <3>6, <4>1, <4>2 DEF AnsweredAsWhole, w
    <3>7. CASE p.outcome # "incomplete"
      <4>1. ReadInv'
        BY <2>1, <3>1, <3>7 DEF ReadInv
      <4>2. \/ p = parse(w)
            \/ p.outcome = "refused" /\ p.error = "HeadTooLong" /\ Len(w) > MAX_REQUEST
        BY <3>3, <3>7
      <4>3. reply'.verdict = VerdictOf(p) /\ phase' = "closed"
        BY <3>1, <3>5, <3>7
      <4>4. \/ parse(w).outcome # "incomplete" /\ reply'.verdict = VerdictOf(parse(w))
            \/ reply'.verdict = "HeadTooLong" /\ Len(w) > MAX_REQUEST
        <5>1. CASE p = parse(w)
          BY <3>7, <4>3, <5>1
        <5>2. CASE p.outcome = "refused" /\ p.error = "HeadTooLong" /\ Len(w) > MAX_REQUEST
          BY <4>3, <5>2 DEF VerdictOf
        <5> QED
          BY <4>2, <5>1, <5>2
      <4> QED
        BY <2>1, <4>1, <4>3, <4>4 DEF AnsweredAsWhole, w
    <3> QED
      BY <3>6, <3>7
  <2> QED
    BY <2>6, <2>7
<1>3. CASE Over
  BY <1>3 DEF Over, Idle, ReadInv, AnsweredAsWhole
<1>4. ASSUME UNCHANGED connection PROVE ReadInv' /\ AnsweredAsWhole'
  BY <1>4 DEF connection, ReadInv, AnsweredAsWhole
<1>5. ASSUME NEW n \in Networks, publish(n) PROVE UNCHANGED connection
  BY <1>5 DEF publish
<1>6. ASSUME NEW s \in Sources, SourceTurns(s) PROVE UNCHANGED connection
  BY <1>6 DEF SourceTurns
<1>7. Log \/ entropy_watch \/ UNCHANGED vars => UNCHANGED connection
  BY DEF Log, entropy_watch, vars
<1> QED
  BY <1>1, <1>2, <1>3, <1>4, <1>5, <1>6, <1>7 DEF Next

\* Where a request is cut does not matter: it is answered as one read of the
\* whole would be (net/driver.rs: serve_web; web/request.rs: parse, head_end).
THEOREM WebAnsweredAsWhole == Spec => []AnsweredAsWhole
<1>1. Init => ReadInv /\ AnsweredAsWhole
  BY DEF Init, ReadInv, AnsweredAsWhole
<1> QED
  BY <1>1, ReadAsWhole, PTL DEF Spec
=============================================================================
