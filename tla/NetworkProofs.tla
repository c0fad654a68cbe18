---------------------------- MODULE NetworkProofs ----------------------------
(***************************************************************************)
(* The two tasks that keep the image on the network, for every value of    *)
(* their constants.  The clock discipline, whatever the widths of a        *)
(* second, of a fraction and of an era and whatever servers, leases,       *)
(* delays and drifts there are: the two clocks agree, an outage is         *)
(* complained of once, and a reply leaves the clock within its bound.  The *)
(* DHCP client, for every set of addresses, servers, intervals and lengths *)
(* of lease: the interface follows the lease, an expired lease is given up *)
(* in time, and a NAK is followed by silence.                              *)
(***************************************************************************)
EXTENDS Clock, Lease, FiniteSetTheorems, TLAPS

\* The inductive invariant.
ClockInv ==
    /\ realtime \in Int /\ wall \in Int /\ ClocksAgree
    /\ complained \in BOOLEAN /\ complaints \in Nat /\ ComplainsOnce

\* What is cut off an instant is less than a second.
LEMMA LessThanSecond == \A t \in Int : BelowSecond(t) \in 0..(Second - 1)
BY ClockAssumption DEF ClockAssumption, BelowSecond

\* A timestamp's fields are integers.
LEMMA StampType ==
    \A t \in Int : /\ ntp_timestamp(t).seconds \in Int
                   /\ ntp_timestamp(t).fraction \in Int
BY ClockAssumption DEF ClockAssumption, ntp_timestamp

\* A timestamp is read as an integer number of ticks.
LEMMA InstantType ==
    ASSUME NEW stamp, stamp.seconds \in Int, stamp.fraction \in Int
    PROVE  unix_nanos(stamp) \in Int
BY ClockAssumption DEF ClockAssumption, unix_nanos

\* An offset is an integer number of ticks.
LEMMA OffsetType ==
    ASSUME NEW reply, NEW sent \in Int, NEW received \in Int, NEW served \in Int,
           reply.receive = ntp_timestamp(served), reply.transmit = ntp_timestamp(served)
    PROVE  offset(reply, ntp_timestamp(sent), ntp_timestamp(received)) \in Int
<1>1. \A t \in Int : unix_nanos(ntp_timestamp(t)) \in Int
  BY StampType, InstantType
<1>2. \A n \in Int : Halved(n) \in Int
  BY DEF Halved
<1> DEFINE a == unix_nanos(ntp_timestamp(served))
           b == unix_nanos(ntp_timestamp(sent))
           c == unix_nanos(ntp_timestamp(received))
<1>3. a \in Int /\ b \in Int /\ c \in Int
  BY <1>1
<1>4. offset(reply, ntp_timestamp(sent), ntp_timestamp(received)) = Halved((a - b) + (a - c))
  BY DEF offset
<1> HIDE DEF a, b, c
<1>5. (a - b) + (a - c) \in Int
  BY <1>3
<1> QED
  BY <1>2, <1>4, <1>5

\* Stepping the clock, or being refused, keeps the two together (apply).
LEMMA ApplyStep ==
    ASSUME realtime \in Int, wall \in Int, ClocksAgree,
           NEW now \in Int, NEW by \in Int, NEW error, NEW settable,
           apply(now, by, error, settable)
    PROVE  realtime' \in Int /\ wall' \in Int /\ ClocksAgree'
<1>1. CASE UNCHANGED <<realtime, wall>>
  BY <1>1 DEF ClocksAgree
<1>2. CASE realtime' = realtime + by /\ wall' = realtime' - BelowSecond(now + realtime')
  <2>1. realtime' \in Int /\ now + realtime' \in Int
    BY <1>2
  <2>2. BelowSecond(now + realtime') \in 0..(Second - 1)
    BY <2>1, LessThanSecond
  <2>3. PICK cut \in 0..(Second - 1) : wall' = realtime' - cut
    BY <1>2, <2>2
  <2>4. cut \in Int
    BY <2>3, ClockAssumption DEF ClockAssumption
  <2>5. \A r, c \in Int : r - c \in Int /\ r - (r - c) = c
    OBVIOUS
  <2>6. wall' \in Int /\ realtime' - wall' = cut
    BY <2>1, <2>3, <2>4, <2>5, Zenon
  <2> QED
    BY <2>1, <2>3, <2>6 DEF ClocksAgree
<1> QED
  BY <1>1, <1>2 DEF apply

\* The clock build_server reads once, to the second.
LEMMA ClockInvInit == Init => ClockInv
<1> SUFFICES ASSUME Init PROVE ClockInv
  OBVIOUS
<1>1. realtime \in Int
  BY ClockAssumption DEF Init, ClockAssumption
<1>2. PICK now \in Instants : wall = realtime - BelowSecond(now + realtime)
  BY DEF Init
<1> DEFINE cut == BelowSecond(now + realtime)
<1>3. cut \in 0..(Second - 1)
  BY <1>1, <1>2, LessThanSecond, ClockAssumption DEF ClockAssumption
<1>4. wall = realtime - cut
  BY <1>2
<1> HIDE DEF cut
<1>5. wall \in Int /\ realtime - wall = cut
  BY <1>1, <1>3, <1>4, ClockAssumption DEF ClockAssumption
<1>6. ClocksAgree
  BY <1>3, <1>5 DEF ClocksAgree
<1>7. complained = FALSE /\ complaints = 0
  BY DEF Init
<1>8. ComplainsOnce
  BY <1>7 DEF ComplainsOnce
<1> QED
  BY <1>1, <1>5, <1>6, <1>7, <1>8 DEF ClockInv

\* One step per action of Next.
LEMMA ClockInvNext == ClockInv /\ [Next]_vars => ClockInv'
<1> SUFFICES ASSUME ClockInv, [Next]_vars PROVE ClockInv'
  OBVIOUS
<1> USE DEF ClockInv
<1>c. ASSUME UNCHANGED <<realtime, wall>> PROVE realtime' \in Int /\ wall' \in Int /\ ClocksAgree'
  BY <1>c DEF ClocksAgree
<1>l. ASSUME UNCHANGED <<complained, complaints>>
      PROVE  complained' \in BOOLEAN /\ complaints' \in Nat /\ ComplainsOnce'
  BY <1>l DEF ComplainsOnce
<1>1. ASSUME NEW lease \in Leases, Publish(lease) PROVE ClockInv'
  BY <1>1, <1>c, <1>l DEF Publish, task, clocks
<1>2. ASSUME NEW by \in Drifts, Drift(by) PROVE ClockInv'
  <2>1. by \in Int /\ realtime' = realtime + by /\ wall' = wall + by
    BY <1>2, ClockAssumption DEF Drift, ClockAssumption
  <2>2. realtime' \in Int /\ wall' \in Int /\ realtime' - wall' = realtime - wall
    BY <2>1
  <2>3. ClocksAgree'
    BY <2>2 DEF ClocksAgree
  <2> QED
    BY <1>2, <1>l, <2>2, <2>3 DEF Drift, task
<1>3. CASE BeginRound
  BY <1>3, <1>c, <1>l DEF BeginRound, clocks
<1>4. ASSUME NEW answer, Resolved(answer) PROVE ClockInv'
  BY <1>4, <1>c, <1>l DEF Resolved, clocks
<1>5. CASE AskFails
  BY <1>5, <1>c, <1>l DEF AskFails, clocks
<1>6. CASE Wake
  BY <1>6, <1>c, <1>l DEF Wake, clocks
<1>7. CASE NothingAnswered
  <2>1. realtime' \in Int /\ wall' \in Int /\ ClocksAgree'
    BY <1>7, <1>c DEF NothingAnswered, clocks
  <2>2. complained' = TRUE
    BY <1>7 DEF NothingAnswered
  <2>3. complaints' = 1
    <3>1. CASE complained
      BY <3>1, <1>7 DEF NothingAnswered, ComplainsOnce
    <3>2. CASE ~complained
      <4>1. complaints = 0
        BY <3>2 DEF ComplainsOnce
      <4> QED
        BY <3>2, <4>1, <1>7 DEF NothingAnswered
    <3> QED
      BY <3>1, <3>2
  <2>4. ComplainsOnce'
    BY <2>2, <2>3 DEF ComplainsOnce
  <2> QED
    BY <2>1, <2>2, <2>3, <2>4
<1>8. CASE Exchange
  <2>1. PICK departs \in Instants, noise \in 0..(Second - 1), there \in Delays,
             back \in Delays, error \in ServerErrors, kind \in Replies,
             settable \in BOOLEAN :
               Answered(departs, noise, there, back, error, kind, settable)
    BY <1>8 DEF Exchange
  <2> DEFINE arrives == departs + there + back
             asked == departs + realtime + noise
             then == departs - kind.late + there + error
             sent == ntp_timestamp(asked)
             received == ntp_timestamp(arrives + realtime)
             served == ntp_timestamp(then)
             reply == [originate |-> IF kind.late = 0 THEN sent
                                     ELSE ntp_timestamp(departs - kind.late + realtime + noise),
                       receive |-> served, transmit |-> served,
                       synchronised |-> kind.synchronised]
             by == offset(reply, sent, received)
  <2>2. /\ arrives \in Int /\ arrives + realtime \in Int
        /\ asked \in Int /\ then \in Int
    BY ClockAssumption DEF ClockAssumption
  <2>3. reply.receive = ntp_timestamp(then) /\ reply.transmit = ntp_timestamp(then)
    OBVIOUS
  <2>4. \/ /\ apply(arrives, by, error, settable)
           /\ complained' = FALSE /\ complaints' = 0
        \/ UNCHANGED <<complained, complaints, clocks>>
    BY <2>1 DEF Answered
  <2> HIDE DEF arrives, asked, then, reply
  <2>5. by \in Int
    BY <2>2, <2>3, OffsetType
  <2> HIDE DEF by
  <2>6. CASE apply(arrives, by, error, settable) /\ complained' = FALSE /\ complaints' = 0
    <3>1. realtime' \in Int /\ wall' \in Int /\ ClocksAgree'
      BY <2>2, <2>5, <2>6, ApplyStep
    <3>2. ComplainsOnce'
      BY <2>6 DEF ComplainsOnce
    <3> QED
      BY <2>6, <3>1, <3>2
  <2>7. CASE UNCHANGED <<complained, complaints, clocks>>
    BY <2>7, <1>c, <1>l DEF clocks
  <2> QED
    BY <2>4, <2>6, <2>7
<1>9. CASE UNCHANGED vars
  BY <1>9, <1>c, <1>l DEF vars, task, clocks
<1> QED
  BY <1>1, <1>2, <1>3, <1>4, <1>5, <1>6, <1>7, <1>8, <1>9 DEF Next, discipline

\* The inductive invariant of the discipline holds.
THEOREM ClockInvHolds == Spec => []ClockInv
BY ClockInvInit, ClockInvNext, PTL DEF Spec

\* What WallClock projects is CLOCK_REALTIME to the second, whatever happens
\* to either (apply, WallClock::discipline, build_server).
THEOREM ClockClocksAgree == Spec => []ClocksAgree
<1>1. ClockInv => ClocksAgree
  BY DEF ClockInv
<1> QED
  BY ClockInvHolds, <1>1, PTL

\* An outage is complained of once (`complained' in discipline).
THEOREM ClockComplainsOnce == Spec => []ComplainsOnce
<1>1. ClockInv => ComplainsOnce
  BY DEF ClockInv
<1> QED
  BY ClockInvHolds, <1>1, PTL

-----------------------------------------------------------------------------
\* The widths the arithmetic below needs, and what they are multiplied with.
LEMMA ClockWidths ==
    /\ Second \in Nat \ {0} /\ Fractions \in Nat \ {0} /\ Fractions >= Second
    /\ EraSeconds \in Nat \ {0} /\ EraSeconds = 2 * (EraSeconds \div 2)
    /\ EraSeconds \div 2 \in Nat \ {0} /\ NtpToUnix \in Nat
<1>1. \A n \in Nat \ {0} : n % 2 = 0 => n = 2 * (n \div 2) /\ n \div 2 \in Nat \ {0}
  OBVIOUS
<1> QED
  BY <1>1, ClockAssumption

\* Division with a remainder.
LEMMA Divided ==
    ASSUME NEW t \in Int, NEW s \in Nat \ {0}
    PROVE  /\ t \div s \in Int /\ t % s \in 0..(s - 1)
           /\ t = (t \div s) * s + (t % s)
OBVIOUS

\* A quotient in bounds, as products.
LEMMA QuotientBounds ==
    ASSUME NEW t \in Int, NEW s \in Nat \ {0}
    PROVE  /\ t \div s \in Int
           /\ (t \div s) * s =< t /\ t < (t \div s) * s + s
OBVIOUS

\* Factors compare as their products do.
LEMMA ProductOrder ==
    ASSUME NEW a \in Int, NEW b \in Int, NEW f \in Nat \ {0}
    PROVE  /\ a * f < (b + 1) * f => a =< b
           /\ (b + 1) * f = b * f + f /\ (b + 2) * f = b * f + 2 * f
           /\ a * f < (b + 2) * f => a =< b + 1
           /\ a * f \in Int /\ b * f \in Int
<1>1. (b + 1) * f = b * f + f /\ (b + 2) * f = b * f + 2 * f /\ a * f \in Int /\ b * f \in Int
  OBVIOUS
<1>2. \A c \in Int : a >= c => a * f >= c * f
  OBVIOUS
<1>3. a * f < (b + 1) * f => a =< b
  <2> SUFFICES ASSUME ~(a =< b) PROVE ~(a * f < (b + 1) * f)
    OBVIOUS
  <2>1. a >= b + 1 /\ b + 1 \in Int
    OBVIOUS
  <2>2. a * f >= (b + 1) * f
    BY <1>2, <2>1
  <2> QED
    BY <1>1, <2>2
<1>4. a * f < (b + 2) * f => a =< b + 1
  <2> SUFFICES ASSUME ~(a =< b + 1) PROVE ~(a * f < (b + 2) * f)
    OBVIOUS
  <2>1. a >= b + 2 /\ b + 2 \in Int
    OBVIOUS
  <2>2. a * f >= (b + 2) * f
    BY <1>2, <2>1
  <2> QED
    BY <1>1, <2>2
<1> QED
  BY <1>1, <1>3, <1>4

\* A fraction of a second survives its conversion and back but for one tick,
\* and two of them never become one.
LEMMA FractionKept ==
    ASSUME NEW r \in 0..(Second - 1)
    PROVE  LET f == (r * Fractions) \div Second
               g == (f * Second) \div Fractions
           IN  /\ f \in Int /\ g \in Int /\ g =< r /\ r =< g + 1
               /\ f * Second =< r * Fractions /\ r * Fractions < f * Second + Second
<1> DEFINE rf == r * Fractions
           f == rf \div Second
           fs == f * Second
           g == fs \div Fractions
<1>0. r \in Int /\ Second \in Nat \ {0} /\ Fractions \in Nat \ {0} /\ Fractions >= Second
  BY ClockWidths
<1>1. rf \in Int
  BY <1>0
<1>2. f \in Int /\ fs =< rf /\ rf < fs + Second
  BY <1>0, <1>1, QuotientBounds
<1>3. fs \in Int
  BY <1>0, <1>2
<1> HIDE DEF fs, f
<1>4. g \in Int /\ g * Fractions =< fs /\ fs < g * Fractions + Fractions
  BY <1>0, <1>3, QuotientBounds
<1> HIDE DEF g
<1>5. /\ r * Fractions < (g + 2) * Fractions => r =< g + 1
      /\ g * Fractions < (r + 1) * Fractions => g =< r
      /\ (r + 1) * Fractions = rf + Fractions
      /\ (g + 2) * Fractions = g * Fractions + 2 * Fractions
      /\ g * Fractions \in Int
  BY <1>0, <1>4, ProductOrder DEF rf
<1> HIDE DEF rf
<1>6. g * Fractions < rf + Fractions
  BY <1>0, <1>1, <1>2, <1>3, <1>4, <1>5
<1>7. rf < g * Fractions + 2 * Fractions
  BY <1>0, <1>1, <1>2, <1>3, <1>4, <1>5
<1>8. g =< r /\ r =< g + 1
  BY <1>5, <1>6, <1>7 DEF rf
<1> QED
  BY <1>2, <1>4, <1>8 DEF g, fs, f, rf

\* The seconds of a timestamp say which of the two eras it is of.
LEMMA SecondsKept ==
    ASSUME NEW t \in Int, Readable(t)
    PROVE  LET s == ntp_timestamp(t).seconds
           IN  (IF s < EraSeconds \div 2 THEN s + EraSeconds ELSE s) - NtpToUnix = t \div Second
<1> DEFINE q == t \div Second
           h == EraSeconds \div 2
           n == q + NtpToUnix
           s == ntp_timestamp(t).seconds
<1>1. q \in Int
  BY ClockWidths, Divided
<1>2. s = n % EraSeconds
  BY DEF ntp_timestamp
<1>3. n >= h /\ n < EraSeconds + h
  BY DEF Readable
<1> HIDE DEF q
<1>4. n \in Int /\ h \in Nat \ {0} /\ EraSeconds = 2 * h
  BY <1>1, ClockWidths
<1> HIDE DEF n, h, s
<1>5. \A e \in Nat \ {0} : \A x \in Int : (x >= 0 /\ x < e => x % e = x)
                                       /\ (x >= e /\ x < 2 * e => x % e = x - e)
  OBVIOUS
<1>6. CASE n < EraSeconds
  <2>1. s = n
    BY <1>2, <1>3, <1>4, <1>5, <1>6
  <2> QED
    BY <1>1, <1>3, <1>4, <1>6, <2>1, ClockWidths DEF n, h, s, q
<1>7. CASE ~(n < EraSeconds)
  <2>1. s = n - EraSeconds
    BY <1>2, <1>3, <1>4, <1>5, <1>7
  <2>2. s < h /\ s + EraSeconds = n
    BY <1>3, <1>4, <2>1
  <2> QED
    BY <1>1, <2>2, ClockWidths DEF n, h, s, q
<1> QED
  BY <1>6, <1>7

\* A timestamp is read back as the instant it was made from, or the tick before.
LEMMA ReadBack ==
    ASSUME NEW t \in Int, Readable(t)
    PROVE  /\ unix_nanos(ntp_timestamp(t)) \in Int
           /\ unix_nanos(ntp_timestamp(t)) =< t
           /\ t =< unix_nanos(ntp_timestamp(t)) + 1
<1> DEFINE q == t \div Second
           r == t % Second
           f == (r * Fractions) \div Second
           g == (f * Second) \div Fractions
           stamp == ntp_timestamp(t)
           whole == IF stamp.seconds < EraSeconds \div 2
                      THEN stamp.seconds + EraSeconds ELSE stamp.seconds
<1>1. q \in Int /\ r \in 0..(Second - 1) /\ t = q * Second + r
  BY ClockWidths, Divided
<1>2. g \in Int /\ g =< r /\ r =< g + 1
  BY <1>1, FractionKept
<1>3. whole - NtpToUnix = q
  BY SecondsKept
<1>4. unix_nanos(stamp) = (whole - NtpToUnix) * Second + (stamp.fraction * Second) \div Fractions
  BY DEF unix_nanos
<1>5. stamp.fraction = f
  BY DEF ntp_timestamp
<1>6. unix_nanos(stamp) = q * Second + g
  BY <1>3, <1>4, <1>5
<1> DEFINE x == q * Second
<1>7. x \in Int
  BY <1>1, ClockWidths
<1> HIDE DEF q, r, f, g, stamp, x
<1>8. unix_nanos(stamp) = x + g /\ t = x + r /\ r \in Int
  BY <1>1, <1>6, ClockWidths DEF x
<1>9. unix_nanos(stamp) \in Int /\ unix_nanos(stamp) =< t /\ t =< unix_nanos(stamp) + 1
  BY <1>2, <1>7, <1>8
<1> QED
  BY <1>9 DEF stamp

\* Two instants have the same timestamp only if they are one: a reply to an
\* earlier request does not echo this one's.
LEMMA StampsDiffer ==
    ASSUME NEW t \in Int, NEW u \in Int, Readable(t), Readable(u),
           ntp_timestamp(t) = ntp_timestamp(u)
    PROVE  t = u
<1> DEFINE r == t % Second
           v == u % Second
           f == (r * Fractions) \div Second
           rf == r * Fractions
           vf == v * Fractions
           fs == f * Second
<1>1. /\ r \in 0..(Second - 1) /\ t = (t \div Second) * Second + r
      /\ v \in 0..(Second - 1) /\ u = (u \div Second) * Second + v
  BY ClockWidths, Divided
<1>2. t \div Second = u \div Second
  BY SecondsKept
<1>3. f = (v * Fractions) \div Second
  BY DEF ntp_timestamp
<1>4. f \in Int /\ fs =< rf /\ rf < fs + Second
  BY <1>1, FractionKept
<1>5. fs =< vf /\ vf < fs + Second
  BY <1>1, <1>3, FractionKept
<1>6. /\ r \in Int /\ v \in Int /\ Fractions \in Nat \ {0} /\ Fractions >= Second
      /\ Second \in Nat \ {0}
  BY <1>1, ClockWidths
<1> HIDE DEF r, v, f
<1>7. fs \in Int
  BY <1>4, <1>6
<1>8. /\ (r + 1) * Fractions = rf + Fractions /\ (v + 1) * Fractions = vf + Fractions
      /\ rf \in Int /\ vf \in Int
      /\ r * Fractions < (v + 1) * Fractions => r =< v
      /\ v * Fractions < (r + 1) * Fractions => v =< r
  BY <1>6, ProductOrder
<1> HIDE DEF fs
<1>9. rf < vf + Fractions /\ vf < rf + Fractions
  <2> HIDE DEF rf, vf
  <2> QED
    BY <1>4, <1>5, <1>6, <1>7, <1>8
<1>10. r = v
  BY <1>6, <1>8, <1>9
<1> QED
  BY <1>1, <1>2, <1>10

\* The longest delay bounds what a reading can be off by.
LEMMA WorstIs ==
    \E longest \in Nat : /\ \A d \in Delays : d \in 0..longest
                         /\ Worst = ((Second - 1) + longest) \div 2 + 2
                         /\ Worst \in Nat
<1> DEFINE longest == CHOOSE d \in Delays : \A e \in Delays : e =< d
<1>1. longest \in Delays /\ \A e \in Delays : e =< longest
  BY EraAssumption
<1>2. longest \in Nat /\ \A d \in Delays : d \in 0..longest
  <2> HIDE DEF longest
  <2>1. \A d \in Delays : d \in Nat
    BY ClockAssumption
  <2> QED
    BY <1>1, <2>1
<1>3. Worst = ((Second - 1) + longest) \div 2 + 2
  BY DEF Worst
<1> HIDE DEF longest
<1>4. ((Second - 1) + longest) \div 2 + 2 \in Nat
  BY <1>2, ClockWidths
<1> QED
  BY <1>2, <1>3, <1>4

\* Halving towards zero is off by less than one.
LEMMA HalvedBound ==
    ASSUME NEW n \in Int
    PROVE  Halved(n) \in Int /\ 2 * Halved(n) =< n + 1 /\ n =< 2 * Halved(n) + 1
BY DEF Halved

\* The mean of two differences, each read to a tick: half the asymmetry `w' of the
\* exchange, and rounding.
LEMMA MeanBound ==
    ASSUME NEW a \in Int, NEW b \in Int, NEW c \in Int,
           NEW served \in Int, NEW sent \in Int, NEW received \in Int,
           a =< served, served =< a + 1, b =< sent, sent =< b + 1,
           c =< received, received =< c + 1,
           NEW k \in Int, NEW wide \in Nat,
           (served - sent) + (served - received) =< 2 * k + wide,
           2 * k =< (served - sent) + (served - received) + wide
    PROVE  LET h == Halved((a - b) + (a - c))
           IN  /\ h \in Int /\ h - k =< wide \div 2 + 2 /\ k - h =< wide \div 2 + 2
<1> DEFINE n == (a - b) + (a - c)
           h == Halved(n)
<1>1. n \in Int /\ n =< 2 * k + wide + 2 /\ 2 * k =< n + wide + 2
  OBVIOUS
<1> HIDE DEF n
<1>2. h \in Int /\ 2 * h =< n + 1 /\ n =< 2 * h + 1
  BY <1>1, HalvedBound
<1> HIDE DEF h
<1>3. 2 * (h - k) =< wide + 3 /\ 2 * (k - h) =< wide + 3
  BY <1>1, <1>2
<1>4. h - k =< wide \div 2 + 2 /\ k - h =< wide \div 2 + 2
  BY <1>2, <1>3
<1> QED
  BY <1>2, <1>4 DEF h, n

\* An exchange within the eras: what the reply to this request says is off by no
\* more than Worst, and a reply to another is not taken for it.
LEMMA ReadingBound ==
    ASSUME realtime \in (-MaxError)..MaxError,
           NEW departs \in Instants, NEW noise \in 0..(Second - 1), NEW there \in Delays,
           NEW back \in Delays, NEW error \in ServerErrors, NEW kind \in Replies,
           NEW reply,
           reply.receive = ntp_timestamp(departs - kind.late + there + error),
           reply.transmit = ntp_timestamp(departs - kind.late + there + error),
           reply.originate = IF kind.late = 0 THEN ntp_timestamp(departs + realtime + noise)
                             ELSE ntp_timestamp(departs - kind.late + realtime + noise),
           usable(reply, ntp_timestamp(departs + realtime + noise))
    PROVE  LET by == offset(reply, ntp_timestamp(departs + realtime + noise),
                            ntp_timestamp(departs + there + back + realtime))
           IN  /\ by \in Int
               /\ realtime + by - error =< Worst /\ error - (realtime + by) =< Worst
<1> DEFINE asked == departs + realtime + noise
           before == departs - kind.late + realtime + noise
           then == departs - kind.late + there + error
           ends == departs + there + back + realtime
           by == offset(reply, ntp_timestamp(asked), ntp_timestamp(ends))
<1>1. PICK longest \in Nat : /\ \A d \in Delays : d \in 0..longest
                             /\ Worst = ((Second - 1) + longest) \div 2 + 2
                             /\ Worst \in Nat
  BY WorstIs
<1>2. /\ departs \in Nat /\ noise \in Int /\ there \in 0..longest /\ back \in 0..longest
      /\ error \in Int /\ kind.late \in Nat /\ realtime \in Int
      /\ MaxError \in Nat /\ Second \in Nat \ {0}
  BY <1>1, ClockAssumption
<1>3. error \in (-MaxError)..MaxError
  <2>1. Magnitude(error) + Worst =< MaxError
    BY EraAssumption
  <2> QED
    BY <1>1, <1>2, <2>1 DEF Magnitude
<1>4. /\ asked \in Int /\ before \in Int /\ then \in Int /\ ends \in Int
  BY <1>2
<1>5. Readable(asked) /\ Readable(before) /\ Readable(then) /\ Readable(ends)
  <2>1. /\ Readable(departs + realtime + noise)
        /\ Readable(departs - kind.late + realtime + noise)
        /\ Readable(departs + there + back + realtime)
    BY EraAssumption
  <2>2. Readable(departs - kind.late + there + error)
    BY <1>3, EraAssumption
  <2> QED
    BY <2>1, <2>2
<1>6. kind.late = 0
  <2> SUFFICES ASSUME kind.late # 0 PROVE FALSE
    OBVIOUS
  <2>1. ntp_timestamp(before) = ntp_timestamp(asked)
    BY DEF usable
  <2>2. before = asked
    <3> HIDE DEF before, asked
    <3> QED
      BY <1>4, <1>5, <2>1, StampsDiffer
  <2>3. departs - kind.late + realtime + noise = departs + realtime + noise
    BY <2>2
  <2>4. departs \in Int /\ noise \in Int /\ kind.late \in Int /\ realtime \in Int
    BY <1>2
  <2> DEFINE late == kind.late
  <2> HIDE DEF late
  <2>5. late = 0
    BY ONLY <2>3, <2>4 DEF late
  <2> QED
    BY <2>5 DEF late
<1> DEFINE a == unix_nanos(ntp_timestamp(then))
           b == unix_nanos(ntp_timestamp(asked))
           c == unix_nanos(ntp_timestamp(ends))
<1>7. by = Halved((a - b) + (a - c))
  BY DEF offset
<1>8. asked = departs + realtime + noise /\ then = departs + there + error
      /\ ends = departs + there + back + realtime
  BY <1>2, <1>6
<1> HIDE DEF asked, before, then, ends
<1>9. /\ a \in Int /\ a =< then /\ then =< a + 1
      /\ b \in Int /\ b =< asked /\ asked =< b + 1
      /\ c \in Int /\ c =< ends /\ ends =< c + 1
  BY <1>4, <1>5, ReadBack
<1> HIDE DEF a, b, c
<1> DEFINE k == error - realtime
           wide == (Second - 1) + longest
<1>10. /\ k \in Int /\ wide \in Nat
       /\ (then - asked) + (then - ends) =< 2 * k + wide
       /\ 2 * k =< (then - asked) + (then - ends) + wide
  BY <1>2, <1>8
<1> HIDE DEF by, k, wide
<1>11. by \in Int /\ by - k =< wide \div 2 + 2 /\ k - by =< wide \div 2 + 2
  BY <1>4, <1>7, <1>9, <1>10, MeanBound
<1>12. by - k =< Worst /\ k - by =< Worst
  BY <1>1, <1>11 DEF wide
<1>13. realtime + by - error =< Worst /\ error - (realtime + by) =< Worst
  BY <1>1, <1>2, <1>11, <1>12 DEF k
<1> QED
  BY <1>11, <1>13 DEF by, asked, ends

\* The clock stays within the eras, and near the server it last believed.
SyncInv == realtime \in (-MaxError)..MaxError /\ SynchronisedWithin

\* Nothing touches the clock.
LEMMA SyncStays == SyncInv /\ UNCHANGED <<realtime, reference>> => SyncInv'
BY DEF SyncInv, SynchronisedWithin, Magnitude, Worst

\* Applying a reading that is off by no more than Worst.
LEMMA ApplySynchronises ==
    ASSUME SyncInv, NEW at \in Int, NEW by \in Int, NEW error \in ServerErrors,
           NEW settable \in BOOLEAN, apply(at, by, error, settable),
           realtime + by - error =< Worst, error - (realtime + by) =< Worst
    PROVE  SyncInv'
<1>1. /\ realtime \in Int /\ MaxError \in Nat /\ error \in Int /\ Worst \in Nat
      /\ StepThreshold \in Nat /\ realtime \in (-MaxError)..MaxError
  BY WorstIs, ClockAssumption DEF SyncInv
<1>2. error + Worst =< MaxError /\ Worst - error =< MaxError
  <2>1. Magnitude(error) + Worst =< MaxError
    BY EraAssumption
  <2> QED
    BY <1>1, <2>1 DEF Magnitude
<1>3. CASE /\ Magnitude(by) < StepThreshold /\ reference' = {error} /\ realtime' = realtime
  <2>1. by < StepThreshold /\ -by < StepThreshold
    BY <1>1, <1>3 DEF Magnitude
  <2>2. realtime - error =< StepThreshold + Worst /\ error - realtime =< StepThreshold + Worst
    BY <1>1, <2>1
  <2>3. Magnitude(realtime - error) =< StepThreshold + Worst
    BY <1>1, <2>2 DEF Magnitude
  <2> QED
    BY <1>1, <1>3, <2>3 DEF SyncInv, SynchronisedWithin, Magnitude, Worst
<1>4. CASE realtime' = realtime + by /\ reference' = {error}
  <2> DEFINE r == realtime + by
  <2>1. r \in Int /\ r - error =< Worst /\ error - r =< Worst
    BY <1>1
  <2> HIDE DEF r
  <2>2. r \in (-MaxError)..MaxError /\ Magnitude(r - error) =< StepThreshold + Worst
    BY <1>1, <1>2, <2>1 DEF Magnitude
  <2>3. realtime' = r
    BY <1>4 DEF r
  <2> QED
    BY <1>4, <2>2, <2>3 DEF SyncInv, SynchronisedWithin, Magnitude, Worst
<1>5. CASE reference' = {} /\ realtime' = realtime
  BY <1>1, <1>5 DEF SyncInv, SynchronisedWithin
<1> QED
  BY <1>3, <1>4, <1>5 DEF apply

\* One step per action that touches the clock.
LEMMA SyncInvNext == SyncInv /\ [Next]_vars => SyncInv'
<1> SUFFICES ASSUME SyncInv, [Next]_vars PROVE SyncInv'
  OBVIOUS
<1>1. ASSUME NEW by \in Drifts, Drift(by) PROVE SyncInv'
  <2>1. by \in Int /\ realtime \in Int /\ MaxError \in Nat
    BY ClockAssumption DEF SyncInv
  <2>2. Magnitude(realtime + by) =< MaxError /\ realtime' = realtime + by /\ reference' = {}
    BY <1>1 DEF Drift
  <2>3. realtime' \in (-MaxError)..MaxError
    BY <2>1, <2>2 DEF Magnitude
  <2> QED
    BY <2>2, <2>3 DEF SyncInv, SynchronisedWithin
<1>2. CASE Exchange
  <2>1. PICK departs \in Instants, noise \in 0..(Second - 1), there \in Delays,
             back \in Delays, error \in ServerErrors, kind \in Replies,
             settable \in BOOLEAN :
               Answered(departs, noise, there, back, error, kind, settable)
    BY <1>2 DEF Exchange
  <2> DEFINE arrives == departs + there + back
             sent == ntp_timestamp(departs + realtime + noise)
             received == ntp_timestamp(arrives + realtime)
             served == ntp_timestamp(departs - kind.late + there + error)
             reply == [originate |-> IF kind.late = 0 THEN sent
                                     ELSE ntp_timestamp(departs - kind.late + realtime + noise),
                       receive |-> served, transmit |-> served,
                       synchronised |-> kind.synchronised]
             by == offset(reply, sent, received)
  <2>2. \/ usable(reply, sent) /\ apply(arrives, by, error, settable)
        \/ UNCHANGED clocks
    BY <2>1 DEF Answered
  <2>3. reply.receive = served /\ reply.transmit = served
        /\ reply.originate = IF kind.late = 0 THEN sent
                             ELSE ntp_timestamp(departs - kind.late + realtime + noise)
    OBVIOUS
  <2>4. realtime \in (-MaxError)..MaxError /\ arrives \in Int
    BY ClockAssumption DEF SyncInv
  <2> HIDE DEF reply
  <2>5. CASE usable(reply, sent) /\ apply(arrives, by, error, settable)
    <3>1. by \in Int /\ realtime + by - error =< Worst /\ error - (realtime + by) =< Worst
      BY <2>3, <2>4, <2>5, ReadingBound
    <3> HIDE DEF by, arrives
    <3> QED
      BY <2>4, <2>5, <3>1, ApplySynchronises
  <2>6. CASE UNCHANGED clocks
    BY <2>6, SyncStays DEF clocks
  <2> QED
    BY <2>2, <2>5, <2>6
<1>3. CASE \/ BeginRound \/ AskFails \/ NothingAnswered \/ Wake \/ UNCHANGED vars
           \/ \E answer \in Answers \cup {<< >>} : Resolved(answer)
           \/ \E lease \in Leases : Publish(lease)
  <2>1. UNCHANGED <<realtime, reference>>
    BY <1>3 DEF BeginRound, AskFails, NothingAnswered, Wake, Resolved, Publish, vars, clocks
  <2> QED
    BY <2>1, SyncStays
<1> QED
  BY <1>1, <1>2, <1>3 DEF Next, discipline

\* A machine whose last reading was applied is within the step threshold and the
\* error of a reading from the server it believed, for every width of an era and
\* of a fraction, across the turn of an era, whatever late replies arrive.
THEOREM ClockSynchronises == Spec => []SynchronisedWithin
<1>1. Init => SyncInv
  <2> SUFFICES ASSUME Init PROVE SyncInv
    OBVIOUS
  <2>1. realtime \in Int /\ Magnitude(realtime) =< MaxError /\ MaxError \in Nat
    BY ClockAssumption, EraAssumption DEF Init
  <2>2. realtime \in (-MaxError)..MaxError
    BY <2>1 DEF Magnitude
  <2> QED
    BY <2>2 DEF Init, SyncInv, SynchronisedWithin
<1>2. SyncInv => SynchronisedWithin
  BY DEF SyncInv
<1> QED
  BY <1>1, <1>2, SyncInvNext, PTL DEF Spec

-----------------------------------------------------------------------------
LeasesTaken == [config : [address : IpAddresses, prefix : Prefixes, lease : Span],
                t2 : Span, expires : Span]

Using == {"Bound", "Renewing", "Rebinding"}

\* The types, with a lease held where one is used.
MachineType ==
    /\ state \in {"Init", "Selecting", "Requesting"} \cup Using
    /\ state \in Using => \E h \in LeasesTaken : held = {h}
    /\ state \notin Using => held = {}
    /\ deadline \in Nat
    /\ backoff \in FirstBackoff..MaxBackoff
    /\ attempts \in 0..MaxAttempts
    /\ client \in {"acquiring", "running", "ended"}
    /\ server \in Servers

\* Where the servers agree on the netmask, what the task believes is on the
\* interface has that netmask, and everything else on it could not be taken off:
\* comparing the address alone then finds every pair that has to go.
OneMaskInv ==
    OneMask => /\ kernel \subseteq applied \cup stuck
               /\ \A on \in applied : \A r \in server : on[2] = r.prefix

\* What is on the interface is the held lease's or could not be taken off, and
\* whatever could be is what the task believes is there.
InterfaceInv ==
    /\ applied \subseteq IpAddresses \X Prefixes
    /\ applied = {} => published = {}
    /\ OneMaskInv
    /\ NothingLeftBehind
    /\ LeaseIsOnInterface
    /\ BelievesOnlyTheLease

LeaseInv == MachineType /\ InterfaceInv

\* The caller sets an address: on a segment with one netmask, whatever else is on
\* the interface is stuck there.
LEMMA ApplyKeeps ==
    ASSUME InterfaceInv, NEW config, config.address \in IpAddresses, config.prefix \in Prefixes,
           NEW r \in server, config.prefix = r.prefix, server' = server, Apply(config),
           held' # {}, HeldPair' = {PairOf(config)}, HeldAddress' = {config.address}
    PROVE  InterfaceInv'
<1> DEFINE pair == PairOf(config)
           old == {on \in applied : on[1] # config.address}
<1>1. PICK removed \in Outcomes, configured \in Outcomes :
        /\ stuck' = (IF removed THEN stuck \ old ELSE stuck \cup old)
                      \ (IF configured THEN {pair} ELSE {})
        /\ kernel' = configure(remove(kernel, old, removed), pair, configured)
        /\ applied' = IF configured THEN {pair} ELSE applied
        /\ published' = IF configured THEN {config.address} ELSE published
        /\ unset' = ~configured
  BY DEF Apply, ApplyOver
<1>2. pair = <<config.address, config.prefix>> /\ pair[1] = config.address /\ pair[2] = config.prefix
  BY DEF PairOf
<1>3. applied' \subseteq IpAddresses \X Prefixes
  BY <1>1, <1>2 DEF InterfaceInv
<1>4. applied' = {} => published' = {}
  BY <1>1 DEF InterfaceInv
<1>5. ASSUME OneMask' PROVE /\ kernel' \subseteq {pair} \cup stuck'
                            /\ kernel' \subseteq applied' \cup stuck'
                            /\ \A on \in applied' : \A q \in server' : on[2] = q.prefix
  <2>1. OneMask
    BY <1>5 DEF OneMask
  <2>2. \A q \in server : config.prefix = q.prefix
    BY <2>1 DEF OneMask
  <2>3. kernel \subseteq applied \cup stuck /\ \A on \in applied : on[2] = config.prefix
    BY <2>1 DEF InterfaceInv, OneMaskInv
  <2>4. \A on \in applied : on \in old \/ on = pair
    BY <1>2, <2>3 DEF InterfaceInv
  <2> HIDE DEF old, pair
  <2>5. kernel' \subseteq {pair} \cup stuck'
    BY <1>1, <2>3, <2>4 DEF configure, remove
  <2>6. kernel' \subseteq applied' \cup stuck'
    <3>1. CASE configured
      BY <1>1, <2>5, <3>1
    <3>2. CASE ~configured
      BY <1>1, <2>3, <3>2 DEF configure, remove
    <3> QED
      BY <3>1, <3>2
  <2>7. \A on \in applied' : \A q \in server' : on[2] = q.prefix
    BY <1>1, <1>2, <2>2, <2>3
  <2> QED
    BY <2>5, <2>6, <2>7
<1>6. ~unset' => pair \in kernel' /\ published' = {config.address} /\ applied' = {pair}
  BY <1>1 DEF configure
<1> HIDE DEF pair, old
<1>7. HeldPair' = {pair}
  BY DEF pair
<1>8. OneMaskInv' /\ NothingLeftBehind'
  BY <1>5, <1>7 DEF OneMaskInv, NothingLeftBehind
<1>9. LeaseIsOnInterface' /\ BelievesOnlyTheLease'
  BY <1>6, <1>7 DEF LeaseIsOnInterface, BelievesOnlyTheLease
<1> QED
  BY <1>3, <1>4, <1>8, <1>9 DEF InterfaceInv

\* The caller takes the address off: on a segment with one netmask, what stays is
\* stuck.
LEMMA WithdrawKeeps ==
    ASSUME InterfaceInv, Withdraw, held' = {}, server' = server
    PROVE  InterfaceInv'
<1>1. applied' = {} /\ published' = {}
  BY DEF Withdraw, InterfaceInv
<1>2. OneMask' => kernel' \subseteq stuck'
  <2> SUFFICES ASSUME OneMask' PROVE kernel' \subseteq stuck'
    OBVIOUS
  <2>1. kernel \subseteq applied \cup stuck
    BY DEF OneMask, InterfaceInv, OneMaskInv
  <2> QED
    BY <2>1 DEF Withdraw, remove
<1>3. OneMaskInv' /\ NothingLeftBehind'
  BY <1>1, <1>2 DEF OneMaskInv, NothingLeftBehind
<1>4. LeaseIsOnInterface' /\ BelievesOnlyTheLease'
  BY <1>1 DEF LeaseIsOnInterface, BelievesOnlyTheLease
<1> QED
  BY <1>1, <1>3, <1>4 DEF InterfaceInv

\* Nothing on the interface and nothing about the held address changes.
LEMMA SameInterface ==
    ASSUME InterfaceInv, UNCHANGED interface, HeldPair' = HeldPair,
           HeldAddress' = HeldAddress, server' = server, held' = {} <=> held = {}
    PROVE  InterfaceInv'
<1>1. OneMask' <=> OneMask
  BY DEF OneMask
<1>2. OneMaskInv' /\ NothingLeftBehind'
  BY <1>1 DEF InterfaceInv, OneMaskInv, NothingLeftBehind, interface
<1>3. LeaseIsOnInterface' /\ BelievesOnlyTheLease'
  BY DEF InterfaceInv, LeaseIsOnInterface, BelievesOnlyTheLease, interface
<1> QED
  BY <1>2, <1>3 DEF InterfaceInv, interface

\* A fraction of a lease is no longer than the lease.
LEMMA FractionFits ==
    ASSUME LeaseConstants, NEW option \in Span, NEW lease \in Span
    PROVE  /\ OrFraction(option, lease, 7, 8) \in Span
           /\ OrFraction(option, lease, 1, 2) \in Span
           /\ option = Forever => /\ OrFraction(option, lease, 7, 8) =< lease
                                  /\ OrFraction(option, lease, 1, 2) =< lease
BY DEF LeaseConstants, OrFraction, Span

\* The wait towards an instant is at least the floor and, past the floor, ends
\* by that instant.
LEMMA HalfwayFits ==
    ASSUME LeaseConstants, NEW left \in Span
    PROVE  /\ Halfway(left) \in Nat
           /\ left # Forever => /\ Halfway(left) < Forever
                                /\ left >= MinRetry => Halfway(left) =< left
                                /\ left =< MinRetry => Halfway(left) = MinRetry
BY DEF LeaseConstants, Halfway, Span, LesserOf, GreaterOf

\* Time left only runs down, in step.
LEMMA ElapseFits ==
    ASSUME LeaseConstants, NEW a \in Nat, NEW b \in Nat
    PROVE  /\ Elapse(a) \in Nat /\ Elapse(a) =< a
           /\ a \in Span => Elapse(a) \in Span
           /\ a =< b /\ b =< Forever => Elapse(a) =< Elapse(b)
           /\ a # 0 /\ a # Forever => Elapse(a) = a - 1
BY DEF LeaseConstants, Elapse, Span

\* The only lease held is the one the code finds.
LEMMA HeldIsOne ==
    ASSUME NEW h, held = {h}
    PROVE  HeldLease = h /\ HeldAddress = {h.config.address}
BY DEF HeldLease, HeldAddress

\* A wait that jitter lengthens or shortens is still a wait.
LEMMA JitterFits ==
    ASSUME LeaseConstants, NEW base \in FirstBackoff..MaxBackoff, NEW j \in Jitter
    PROVE  base + j \in Nat
BY DEF LeaseConstants

\* A fresh transaction (Lease::discover).
LEMMA DiscoverKeeps ==
    ASSUME LeaseConstants, MachineType, Discover, held' = {}, UNCHANGED around
    PROVE  MachineType'
<1>1. PICK j \in Jitter : deadline' = FirstBackoff + j
  BY DEF Discover
<1>2. FirstBackoff \in FirstBackoff..MaxBackoff /\ 1 \in 0..MaxAttempts
  BY DEF LeaseConstants
<1>3. deadline' \in Nat
  BY <1>1, <1>2, JitterFits
<1> QED
  BY <1>2, <1>3 DEF MachineType, Discover, around, Using

\* The constants leave room for the first attempt.
LEMMA FirstAttempt ==
    ASSUME LeaseConstants
    PROVE  /\ 0 \in 0..MaxAttempts /\ 1 \in 0..MaxAttempts
           /\ FirstBackoff \in FirstBackoff..MaxBackoff
BY DEF LeaseConstants

\* Before anything is heard.
LEMMA LeaseInvInit == LeaseConstants /\ LeaseInit => LeaseInv
<1> SUFFICES ASSUME LeaseConstants, LeaseInit PROVE LeaseInv
  OBVIOUS
<1>1. MachineType
  BY FirstAttempt DEF LeaseInit, MachineType, Using
<1> QED
  BY <1>1 DEF LeaseInit, LeaseInv, InterfaceInv, OneMaskInv, NothingLeftBehind,
              LeaseIsOnInterface, BelievesOnlyTheLease

\* Every step keeps it.
LEMMA LeaseInvNext ==
    ASSUME LeaseConstants, LeaseInv, [LeaseNext]_lease_vars
    PROVE  LeaseInv'
<1> USE DEF LeaseInv
<1>0. ASSUME held' = held PROVE HeldAddress' = HeldAddress /\ HeldPair' = HeldPair
  BY <1>0 DEF HeldAddress, HeldPair
<1>1. CASE UNCHANGED lease_vars
  <2>1. MachineType'
    BY <1>1 DEF lease_vars, machine, around, MachineType
  <2> QED
    BY <1>0, <1>1, <2>1, SameInterface DEF lease_vars, machine, around
<1>2. CASE Acquire \/ Plug \/ SocketFails
  <2>1. /\ UNCHANGED <<state, held, server, interface>>
        /\ client' \in {"acquiring", "running", "ended"}
    BY <1>2 DEF Acquire, Plug, SocketFails, MachineType, machine
  <2>2. /\ deadline' \in {deadline, 0} /\ backoff' \in {backoff, FirstBackoff}
        /\ attempts' \in {attempts, 0}
    BY <1>2 DEF Acquire, Plug, SocketFails, machine
  <2>3. deadline' \in Nat /\ backoff' \in FirstBackoff..MaxBackoff /\ attempts' \in 0..MaxAttempts
    BY <2>2, FirstAttempt DEF MachineType
  <2>4. MachineType'
    BY <2>1, <2>3 DEF MachineType
  <2> QED
    BY <1>0, <2>1, <2>4, SameInterface DEF around
<1>3. CASE TimeInit
  <2>1. held = {} /\ held' = {} /\ UNCHANGED <<around, interface>> /\ Discover
    BY <1>3 DEF TimeInit, MachineType, Using
  <2> QED
    BY <1>0, <2>1, DiscoverKeeps, SameInterface DEF around
<1>4. CASE TimeAsking
  <2>1. held = {} /\ held' = {} /\ UNCHANGED <<around, interface>>
    BY <1>4 DEF TimeAsking, RetransmitBackingOff, MachineType, Using
  <2>2. MachineType'
    <3>1. CASE Discover
      BY <2>1, <3>1, DiscoverKeeps
    <3>2. CASE attempts < MaxAttempts /\ RetransmitBackingOff
      <4>1. backoff' \in FirstBackoff..MaxBackoff /\ attempts' \in 0..MaxAttempts
        BY <3>2 DEF RetransmitBackingOff, MachineType, LeaseConstants, LesserOf
      <4>2. PICK j \in Jitter : deadline' = backoff' + j
        BY <3>2 DEF RetransmitBackingOff
      <4>3. deadline' \in Nat
        BY <4>1, <4>2, JitterFits
      <4> QED
        BY <2>1, <3>2, <4>1, <4>3 DEF RetransmitBackingOff, MachineType, around
    <3> QED
      BY <1>4, <3>1, <3>2 DEF TimeAsking, MachineType, LeaseConstants
  <2> QED
    BY <1>0, <2>1, <2>2, SameInterface DEF around
<1>5. CASE TimeBound \/ TimeRenewing
  <2>1. PICK h \in LeasesTaken : held = {h}
    BY <1>5 DEF TimeBound, TimeRenewing, MachineType, Using
  <2>2. HeldLease = h /\ h.t2 \in Span /\ h.expires \in Span
    BY <2>1, HeldIsOne DEF LeasesTaken
  <2>3. UntilExpiry \in Span
    BY <2>2 DEF UntilExpiry, Span, LeaseConstants
  <2>4. deadline' \in Nat
    BY <1>5, <2>2, <2>3, HalfwayFits DEF TimeBound, TimeRenewing, RetransmitToward
  <2>5. /\ state' \in Using /\ held' = held /\ UNCHANGED <<around, interface, backoff>>
        /\ attempts' \in {1, attempts}
    BY <1>5 DEF TimeBound, TimeRenewing, RetransmitToward, Using
  <2>6. MachineType'
    BY <2>1, <2>4, <2>5, FirstAttempt DEF MachineType, around
  <2> QED
    BY <1>0, <2>5, <2>6, SameInterface DEF around
<1>6. CASE TimeRebinding
  <2>1. PICK h \in LeasesTaken : held = {h}
    BY <1>6 DEF TimeRebinding, MachineType, Using
  <2>2. HeldLease = h /\ h.expires \in Span
    BY <2>1, HeldIsOne DEF LeasesTaken
  <2>3. CASE HeldLease.expires = 0
    <3>1. held' = {} /\ Withdraw /\ Discover /\ UNCHANGED around
      BY <1>6, <2>3 DEF TimeRebinding
    <3> QED
      BY <3>1, DiscoverKeeps, WithdrawKeeps DEF around
  <2>4. CASE HeldLease.expires # 0
    <3>1. RetransmitToward(UntilExpiry) /\ UNCHANGED <<around, interface>>
      BY <1>6, <2>4 DEF TimeRebinding
    <3>2. UntilExpiry \in Span
      BY <2>2 DEF UntilExpiry, Span, LeaseConstants
    <3>3. deadline' \in Nat /\ UNCHANGED <<state, held, backoff, attempts>>
      BY <3>1, <3>2, HalfwayFits DEF RetransmitToward
    <3>4. MachineType'
      BY <3>1, <3>3 DEF MachineType, around
    <3> QED
      BY <1>0, <3>1, <3>3, <3>4, SameInterface DEF around
  <2> QED
    BY <2>3, <2>4
<1>7. ASSUME NEW r \in server, AcceptOffer(r) PROVE LeaseInv'
  <2>1. held = {} /\ held' = {} /\ UNCHANGED <<around, interface>>
    BY <1>7 DEF AcceptOffer, MachineType, Using
  <2>2. PICK j \in Jitter : deadline' = FirstBackoff + j
    BY <1>7 DEF AcceptOffer
  <2>3. deadline' \in Nat
    BY <2>2, JitterFits, FirstAttempt
  <2>4. MachineType'
    BY <1>7, <2>1, <2>3, FirstAttempt DEF AcceptOffer, MachineType, Using, around
  <2> QED
    BY <1>0, <2>1, <2>4, SameInterface DEF around
<1>8. ASSUME NEW r \in server, AcceptAck(r) PROVE LeaseInv'
  <2>0. r \in Messages
    BY DEF MachineType, LeaseConstants
  <2> DEFINE config(address) == [address |-> address, prefix |-> r.prefix, lease |-> r.lease]
             new(address) == [config  |-> config(address),
                              t2      |-> OrFraction(r.rebinding, r.lease, 7, 8),
                              expires |-> r.lease]
  <2>1. PICK address \in AckedAddress(r) :
          /\ held' = {new(address)}
          /\ IF \E h \in held : h.config = config(address) THEN UNCHANGED interface
                                                           ELSE Apply(config(address))
          /\ server' = server
    BY <1>8 DEF AcceptAck, around
  <2>2. address \in IpAddresses
    <3>1. CASE r.yiaddr # Unspecified
      BY <2>0, <3>1 DEF AckedAddress, Messages
    <3>2. CASE r.yiaddr = Unspecified
      <4>1. PICK h \in held : address = h.config.address
        BY <3>2 DEF AckedAddress
      <4>2. h \in LeasesTaken
        BY <4>1 DEF MachineType
      <4> QED
        BY <4>1, <4>2 DEF LeasesTaken
    <3> QED
      BY <3>1, <3>2
  <2>3. r.prefix \in Prefixes /\ r.lease \in Span /\ r.renewal \in Span /\ r.rebinding \in Span
    BY <2>0 DEF Messages
  <2>4. new(address) \in LeasesTaken
    BY <2>2, <2>3, FractionFits DEF LeasesTaken
  <2>5. deadline' \in Nat
    <3>1. OrFraction(r.renewal, r.lease, 1, 2) \in Span
      BY <2>3, FractionFits
    <3> QED
      BY <1>8, <3>1 DEF AcceptAck, Span, LeaseConstants
  <2>6. MachineType'
    BY <1>8, <2>1, <2>4, <2>5, FirstAttempt DEF AcceptAck, MachineType, Using, around
  <2>7. HeldAddress' = {address} /\ HeldPair' = {PairOf(config(address))} /\ held' # {}
    BY <2>1 DEF HeldAddress, HeldPair
  <2>8. CASE \E h \in held : h.config = config(address)
    <3>1. PICK h \in held : h.config = config(address)
      BY <2>8
    <3>2. held = {h}
      BY <3>1 DEF MachineType
    <3>3. HeldAddress = {address} /\ HeldPair = {PairOf(config(address))}
      BY <3>1, <3>2 DEF HeldAddress, HeldPair
    <3> QED
      BY <2>1, <2>6, <2>7, <2>8, <3>2, <3>3, SameInterface DEF around
  <2>9. CASE ~\E h \in held : h.config = config(address)
    <3>1. Apply(config(address)) /\ config(address).address = address
          /\ config(address).prefix = r.prefix
      BY <2>1, <2>9
    <3> HIDE DEF config
    <3>2. InterfaceInv'
      BY <2>1, <2>2, <2>3, <2>7, <3>1, ApplyKeeps
    <3> QED
      BY <2>6, <3>2
  <2> QED
    BY <2>8, <2>9
<1>9. ASSUME NEW r \in server, AcceptNak(r) PROVE LeaseInv'
  <2>1. /\ held' = {} /\ state' = "Init" /\ attempts' = 0 /\ deadline' = AfterNak
        /\ UNCHANGED <<backoff, around>>
        /\ IF held # {} THEN Withdraw ELSE UNCHANGED interface
    BY <1>9 DEF AcceptNak, NakWith
  <2>2. MachineType'
    BY <2>1, FirstAttempt DEF MachineType, Using, around, LeaseConstants
  <2> QED
    BY <1>0, <2>1, <2>2, WithdrawKeeps, SameInterface DEF around
<1>10. CASE Tick
  <2>1. /\ held' = {[h EXCEPT !.t2 = Elapse(@), !.expires = Elapse(@)] : h \in held}
        /\ deadline' = Elapse(deadline)
        /\ UNCHANGED <<state, backoff, attempts, around, interface>>
    BY <1>10 DEF Tick
  <2>2. deadline' \in Nat
    BY <2>1, ElapseFits DEF MachineType
  <2>3. CASE state \in Using
    <3>1. PICK h \in LeasesTaken : held = {h}
      BY <2>3 DEF MachineType
    <3> DEFINE older == [h EXCEPT !.t2 = Elapse(@), !.expires = Elapse(@)]
    <3>2. held' = {older}
      BY <2>1, <3>1
    <3>3. h.t2 \in Span /\ h.expires \in Span
      BY DEF LeasesTaken
    <3>4. Elapse(h.t2) \in Span /\ Elapse(h.expires) \in Span
      BY <3>3, ElapseFits DEF Span, LeaseConstants
    <3>5. older \in LeasesTaken /\ older.config = h.config
      BY <3>4 DEF LeasesTaken
    <3> HIDE DEF older
    <3>6. MachineType'
      BY <2>1, <2>2, <2>3, <3>2, <3>5 DEF MachineType, around
    <3>7. HeldAddress' = HeldAddress /\ HeldPair' = HeldPair
      BY <3>1, <3>2, <3>5 DEF HeldAddress, HeldPair
    <3> QED
      BY <2>1, <3>1, <3>2, <3>6, <3>7, SameInterface DEF around
  <2>4. CASE state \notin Using
    <3>1. held = {} /\ held' = {}
      BY <2>1, <2>4 DEF MachineType
    <3>2. MachineType'
      BY <2>1, <2>2, <2>4, <3>1 DEF MachineType, around
    <3> QED
      BY <1>0, <2>1, <3>1, <3>2, SameInterface DEF around
  <2> QED
    BY <2>3, <2>4
<1> QED
  BY <1>1, <1>2, <1>3, <1>4, <1>5, <1>6, <1>7, <1>8, <1>9, <1>10 DEF LeaseNext, OnTime, OnMessage

\* The invariant gives the property: one lease is one, and none is none.
LEMMA LeaseInvMeans == LeaseConstants /\ LeaseInv => InterfaceFollowsLease
<1> SUFFICES ASSUME LeaseConstants, LeaseInv PROVE LeaseTypeOK
  BY DEF LeaseInv, InterfaceInv, InterfaceFollowsLease
<1>1. CASE state \in Using
  <2>1. PICK h \in LeasesTaken : held = {h}
    BY <1>1 DEF LeaseInv, MachineType
  <2>2. Cardinality(held) = 1
    BY <2>1, FS_Singleton
  <2> QED
    BY <1>1, <2>1, <2>2 DEF LeaseInv, MachineType, LeaseTypeOK, LeasesTaken, Using
<1>2. CASE state \notin Using
  <2>1. held = {} /\ Cardinality(held) = 0
    BY <1>2, FS_EmptySet DEF LeaseInv, MachineType
  <2> QED
    BY <1>2, <2>1 DEF LeaseInv, MachineType, LeaseTypeOK, Using
<1> QED
  BY <1>1, <1>2

\* The interface carries the leased address, whatever a segment's servers send and
\* whichever netlink call fails, and no other where they agree on the netmask
\* (lease.rs and client.rs).
THEOREM LeaseInterfaceFollowsLease == LeaseSpec => []InterfaceFollowsLease
<1> USE LeaseAssumption
<1>1. LeaseInit => LeaseInv
  BY LeaseInvInit
<1>2. LeaseInv /\ [LeaseNext]_lease_vars => LeaseInv'
  BY LeaseInvNext
<1>3. LeaseInv => InterfaceFollowsLease
  BY LeaseInvMeans
<1> QED
  BY <1>1, <1>2, <1>3, PTL DEF LeaseSpec

-----------------------------------------------------------------------------
\* The segment's servers leave T1 and T2 to the client.
Lazy == \A r \in server : r.renewal = Forever /\ r.rebinding = Forever

\* How far the next timer is from the lease's instants, by state: past an instant
\* it is at most a retry floor away, so the two that follow the expiry of a lease
\* that ends are both over two floors after it.
TimerFits(h) ==
    /\ h.t2 =< h.expires
    /\ h.expires # 0 => overdue = 0
    /\ state = "Bound" => overdue = 0 /\ (h.expires # Forever => deadline =< h.expires)
    /\ state = "Renewing" /\ h.expires # Forever =>
          /\ deadline =< MinRetry \/ deadline =< h.t2
          /\ h.expires = 0 => overdue + deadline =< MinRetry
    /\ state = "Rebinding" /\ h.expires # Forever =>
          /\ deadline =< MinRetry \/ deadline =< h.expires
          /\ h.expires = 0 => overdue + deadline =< 2 * MinRetry

ExpiryInv ==
    /\ overdue \in Nat
    /\ held = {} => overdue = 0
    /\ Lazy /\ client # "ended" => \A h \in held : TimerFits(h)

\* Two waits of a floor each are over after two floors.
LEMMA TwoFloors == \A a, b, floor \in Nat : a =< floor /\ b =< floor => a + b =< 2 * floor
  OBVIOUS

\* A tick of a lease that has run out adds to what is overdue what it takes off
\* the timer.
LEMMA TickOverdue ==
    \A late, later, left, bound \in Nat :
        later =< late + 1 /\ left > 0 /\ late + left =< bound => later + (left - 1) =< bound
  OBVIOUS

\* Every step keeps the timers where the lease needs them.
LEMMA ExpiryInvNext ==
    ASSUME LeaseConstants, LeaseInv, LeaseInv', ExpiryInv, [LeaseNext]_lease_vars
    PROVE  ExpiryInv'
<1>0. /\ MinRetry \in Nat /\ MinRetry > 0 /\ Forever \in Nat /\ MinRetry < Forever
      /\ deadline \in Nat /\ deadline' \in Nat /\ overdue \in Nat
  BY DEF LeaseConstants, LeaseInv, MachineType, ExpiryInv
<1>1. CASE UNCHANGED <<state, held, deadline, server, overdue>> /\ client # "ended"
  BY <1>1 DEF ExpiryInv, Lazy, TimerFits
<1>2. CASE Acquire \/ Plug \/ SocketFails \/ UNCHANGED lease_vars
  <2>1. CASE client' = "ended"
    BY <1>2, <2>1 DEF Acquire, Plug, SocketFails, lease_vars, machine, observed, around, ExpiryInv
  <2>2. CASE client' # "ended"
    BY <1>1, <1>2, <2>2 DEF Acquire, Plug, SocketFails, lease_vars, machine, observed, around
  <2> QED
    BY <2>1, <2>2
<1>3. CASE TimeInit \/ TimeAsking \/ \E r \in server : AcceptOffer(r)
  <2>1. held = {} /\ held' = {} /\ overdue' = overdue
    BY <1>3 DEF TimeInit, TimeAsking, RetransmitBackingOff, AcceptOffer, observed, LeaseInv,
                MachineType, Using
  <2> QED
    BY <2>1 DEF ExpiryInv
<1>4. CASE TimeBound
  <2>1. PICK h \in LeasesTaken : held = {h}
    BY <1>4 DEF TimeBound, LeaseInv, MachineType, Using
  <2>2. h.t2 \in Span /\ h.expires \in Span /\ HeldLease = h
    BY <2>1, HeldIsOne DEF LeasesTaken
  <2>3. /\ held' = held /\ overdue' = overdue /\ server' = server
        /\ state = "Bound" /\ state' = "Renewing" /\ deadline' = Halfway(h.t2)
        /\ client = "running"
    BY <1>4, <2>2 DEF TimeBound, observed, around, Due
  <2>4. ASSUME Lazy PROVE TimerFits(h)'
    <3>1. TimerFits(h)
      BY <2>1, <2>3, <2>4 DEF ExpiryInv
    <3>2. h.expires # Forever => h.t2 # Forever
      BY <2>2, <3>1 DEF TimerFits, Span, LeaseConstants
    <3>3. h.expires # Forever => deadline' =< MinRetry \/ deadline' =< h.t2
      BY <1>0, <2>2, <2>3, <3>2, HalfwayFits DEF Span
    <3>4. h.expires = 0 => overdue' + deadline' =< MinRetry
      BY <1>0, <2>2, <2>3, <3>1, <3>3 DEF TimerFits, Span
    <3> QED
      BY <2>3, <3>1, <3>3, <3>4 DEF TimerFits
  <2> QED
    BY <1>0, <2>1, <2>3, <2>4 DEF ExpiryInv, Lazy
<1>5. CASE TimeRenewing
  <2>1. PICK h \in LeasesTaken : held = {h}
    BY <1>5 DEF TimeRenewing, LeaseInv, MachineType, Using
  <2>2. h.t2 \in Span /\ h.expires \in Span /\ HeldLease = h
    BY <2>1, HeldIsOne DEF LeasesTaken
  <2>3. /\ held' = held /\ overdue' = overdue /\ server' = server
        /\ state = "Renewing" /\ deadline = 0 /\ client = "running"
    BY <1>5 DEF TimeRenewing, observed, around, RetransmitToward, Due
  <2>4. ASSUME Lazy PROVE TimerFits(h)'
    <3>1. TimerFits(h)
      BY <2>1, <2>3, <2>4 DEF ExpiryInv
    <3>2. CASE h.t2 = 0
      <4>1. state' = "Rebinding" /\ deadline' = Halfway(UntilExpiry)
        BY <1>5, <2>2, <3>2 DEF TimeRenewing
      <4>2. h.expires # Forever => UntilExpiry = h.expires
        BY <2>2 DEF UntilExpiry
      <4>3. h.expires # Forever => deadline' =< MinRetry \/ deadline' =< h.expires
        BY <1>0, <2>2, <4>1, <4>2, HalfwayFits DEF Span
      <4>4. h.expires = 0 => overdue' + deadline' =< 2 * MinRetry
        <5> HAVE h.expires = 0
        <5>1. overdue + deadline =< MinRetry /\ deadline = 0 /\ overdue' = overdue
          BY <1>0, <2>3, <3>1 DEF TimerFits
        <5>2. overdue' =< MinRetry /\ overdue' \in Nat
          BY ONLY <1>0, <5>1
        <5>3. deadline' =< MinRetry
          BY <1>0, <4>3
        <5> QED
          BY ONLY <1>0, <5>2, <5>3, TwoFloors
      <4> QED
        BY <2>3, <3>1, <4>1, <4>3, <4>4 DEF TimerFits
    <3>3. CASE h.t2 # 0
      <4>1. state' = "Renewing" /\ deadline' = Halfway(h.t2)
        BY <1>5, <2>2, <2>3, <3>3 DEF TimeRenewing, RetransmitToward
      <4>2. h.expires # 0 /\ (h.expires # Forever => h.t2 # Forever)
        BY <2>2, <3>1, <3>3 DEF TimerFits, Span, LeaseConstants
      <4>3. h.expires # Forever => deadline' =< MinRetry \/ deadline' =< h.t2
        BY <1>0, <2>2, <4>1, <4>2, HalfwayFits DEF Span
      <4> QED
        BY <2>3, <3>1, <4>1, <4>2, <4>3 DEF TimerFits
    <3> QED
      BY <3>2, <3>3
  <2> QED
    BY <1>0, <2>1, <2>3, <2>4 DEF ExpiryInv, Lazy
<1>6. CASE TimeRebinding
  <2>1. PICK h \in LeasesTaken : held = {h}
    BY <1>6 DEF TimeRebinding, LeaseInv, MachineType, Using
  <2>2. h.t2 \in Span /\ h.expires \in Span /\ HeldLease = h
    BY <2>1, HeldIsOne DEF LeasesTaken
  <2>3. CASE h.expires = 0
    BY <1>6, <2>2, <2>3 DEF TimeRebinding, ExpiryInv
  <2>4. CASE h.expires # 0
    <3>1. /\ held' = held /\ overdue' = overdue /\ server' = server
          /\ state' = state /\ state = "Rebinding" /\ deadline' = Halfway(UntilExpiry)
          /\ client = "running"
      BY <1>6, <2>2, <2>4 DEF TimeRebinding, RetransmitToward, observed, around, Due
    <3>2. h.expires # Forever => deadline' =< MinRetry \/ deadline' =< h.expires
      BY <1>0, <2>2, <3>1, HalfwayFits DEF Span, UntilExpiry
    <3>3. Lazy => TimerFits(h)'
      BY <2>1, <2>4, <3>1, <3>2 DEF ExpiryInv, TimerFits
    <3> QED
      BY <1>0, <2>1, <3>1, <3>3 DEF ExpiryInv, Lazy
  <2> QED
    BY <2>3, <2>4
<1>7. ASSUME NEW r \in server, AcceptAck(r) PROVE ExpiryInv'
  <2>0. r \in Messages
    BY DEF LeaseInv, MachineType, LeaseConstants
  <2>1. r.lease \in Span /\ r.renewal \in Span /\ r.rebinding \in Span
    BY <2>0 DEF Messages
  <2>2. /\ state' = "Bound" /\ overdue' = 0 /\ server' = server
        /\ deadline' = OrFraction(r.renewal, r.lease, 1, 2)
    BY <1>7 DEF AcceptAck, around
  <2> DEFINE new(address) == [config  |-> [address |-> address, prefix |-> r.prefix,
                                           lease |-> r.lease],
                              t2      |-> OrFraction(r.rebinding, r.lease, 7, 8),
                              expires |-> r.lease]
  <2>3. PICK h : /\ held' = {h} /\ h.expires = r.lease
                 /\ h.t2 = OrFraction(r.rebinding, r.lease, 7, 8)
    <3>1. PICK address \in AckedAddress(r) : held' = {new(address)}
      BY <1>7 DEF AcceptAck
    <3> WITNESS new(address)
    <3> QED
      BY <3>1
  <2>4. ASSUME Lazy PROVE TimerFits(h)'
    <3>1. r.renewal = Forever /\ r.rebinding = Forever
      BY <2>4 DEF Lazy
    <3>2. h.t2 =< h.expires /\ deadline' =< h.expires
      BY <2>1, <2>2, <2>3, <3>1, FractionFits
    <3> QED
      BY <2>2, <3>2 DEF TimerFits
  <2> QED
    BY <2>2, <2>3, <2>4 DEF ExpiryInv, Lazy
<1>8. ASSUME NEW r \in server, AcceptNak(r) PROVE ExpiryInv'
  BY <1>8 DEF AcceptNak, NakWith, ExpiryInv
<1>9. CASE Tick
  <2>1. /\ held' = {[h EXCEPT !.t2 = Elapse(@), !.expires = Elapse(@)] : h \in held}
        /\ client # "ended" => deadline > 0
        /\ deadline' = Elapse(deadline) /\ UNCHANGED <<state, server, client>>
        /\ overdue' = IF \E h \in held : h.expires = 0
                      THEN LesserOf(overdue + 1, OverdueCap) ELSE 0
    BY <1>9 DEF Tick, around
  <2>2. overdue' \in Nat
    <3>1. LesserOf(overdue + 1, OverdueCap) \in Nat
      BY ONLY <1>0 DEF LesserOf, OverdueCap
    <3> QED
      BY <2>1, <3>1
  <2>3. CASE held = {}
    BY <2>1, <2>3 DEF ExpiryInv
  <2>4. CASE held # {}
    <3>1. PICK h \in LeasesTaken : held = {h}
      BY <2>4 DEF LeaseInv, MachineType
    <3>2. h.t2 \in Span /\ h.expires \in Span
      BY DEF LeasesTaken
    <3> DEFINE older == [h EXCEPT !.t2 = Elapse(@), !.expires = Elapse(@)]
    <3>3. held' = {older}
      BY <2>1, <3>1
    <3>4. older.t2 = Elapse(h.t2) /\ older.expires = Elapse(h.expires)
      BY DEF LeasesTaken
    <3> HIDE DEF older
    <3>5. overdue' = IF h.expires = 0 THEN LesserOf(overdue + 1, OverdueCap) ELSE 0
      BY <2>1, <3>1
    <3>6. overdue' =< overdue + 1 /\ (h.expires # 0 => overdue' = 0)
      BY <1>0, <3>5 DEF LesserOf, OverdueCap
    <3>7. ASSUME Lazy, client # "ended" PROVE TimerFits(older)'
      <4>0. deadline > 0
        BY <2>1, <3>7
      <4>1. TimerFits(h)
        BY <3>1, <3>7 DEF ExpiryInv
      <4>2. /\ older.t2 \in Nat /\ older.expires \in Nat /\ older.t2 =< older.expires
            /\ h.t2 \in Nat /\ h.expires \in Nat /\ h.expires =< Forever
        BY <1>0, <3>2, <3>4, <4>1, ElapseFits DEF TimerFits, Span
      <4>3. /\ h.expires = 0 <=> (older.expires = 0 /\ h.expires = 0)
            /\ older.expires = Forever <=> h.expires = Forever
            /\ older.expires # 0 => h.expires # 0
        BY <1>0, <3>2, <3>4 DEF Elapse, Span
      <4>4. older.expires # 0 => overdue' = 0
        BY <3>6, <4>3
      <4>5. CASE h.expires = Forever
        BY <1>0, <3>6, <4>2, <4>3, <4>4, <4>5 DEF TimerFits
      <4>6. CASE h.expires # Forever
        <5>1. deadline # Forever => deadline' = deadline - 1
          <6>1. deadline > 0
            BY <4>0
          <6>2. deadline # 0
            BY ONLY <1>0, <6>1
          <6> QED
            BY <2>1, <6>2 DEF Elapse
        <5>2. state \in Using => deadline < Forever
          BY <1>0, <4>1, <4>2, <4>6 DEF TimerFits, Using
        <5>3. state \in Using => deadline' = deadline - 1
          BY <1>0, <5>1, <5>2
        <5>4. /\ h.expires # 0 => older.expires = h.expires - 1
              /\ h.t2 # 0 => older.t2 = h.t2 - 1
              /\ h.expires = 0 => older.expires = 0
              /\ h.t2 = 0 => older.t2 = 0
          BY <1>0, <3>4, <4>1, <4>2, <4>6 DEF Elapse, TimerFits
        <5>5. CASE state = "Bound"
          <6>1. deadline =< h.expires /\ deadline > 0 /\ deadline' = deadline - 1
            BY <2>1, <4>0, <4>1, <4>6, <5>3, <5>5 DEF TimerFits, Using
          <6>2. h.expires # 0 /\ deadline' =< older.expires
            BY ONLY <1>0, <4>2, <5>4, <6>1
          <6> QED
            BY <2>1, <3>6, <4>2, <5>5, <6>2 DEF TimerFits
        <5>6. CASE state = "Renewing"
          <6>0. /\ deadline > 0 /\ deadline' = deadline - 1
                /\ deadline =< MinRetry \/ deadline =< h.t2
                /\ h.expires = 0 => overdue + deadline =< MinRetry
                /\ h.t2 =< h.expires
            BY <2>1, <4>0, <4>1, <4>6, <5>3, <5>6 DEF TimerFits, Using
          <6>1. deadline' =< MinRetry \/ deadline' =< older.t2
            BY ONLY <1>0, <4>2, <5>4, <6>0
          <6>2. older.expires = 0 => overdue' + deadline' =< MinRetry
            <7>1. CASE h.expires = 0
              BY ONLY <1>0, <2>2, <3>6, <6>0, <7>1, TickOverdue
            <7>2. CASE h.expires # 0
              <8> HAVE older.expires = 0
              <8>1. h.expires = 1 /\ h.expires >= 1 /\ overdue' = 0
                BY ONLY <3>6, <4>2, <5>4, <7>2, older.expires = 0
              <8>2. deadline' =< MinRetry
                BY ONLY <1>0, <4>2, <6>0, <8>1
              <8>3. \A d, m \in Nat : d =< m => 0 + d =< m /\ 0 + d =< 2 * m
                OBVIOUS
              <8> QED
                BY ONLY <1>0, <8>1, <8>2, <8>3
            <7> QED
              BY <7>1, <7>2
          <6> QED
            BY <2>1, <4>2, <4>4, <5>6, <6>1, <6>2 DEF TimerFits
        <5>7. CASE state = "Rebinding"
          <6>0. /\ deadline > 0 /\ deadline' = deadline - 1
                /\ deadline =< MinRetry \/ deadline =< h.expires
                /\ h.expires = 0 => overdue + deadline =< 2 * MinRetry
            BY <2>1, <4>0, <4>1, <4>6, <5>3, <5>7 DEF TimerFits, Using
          <6>1. deadline' =< MinRetry \/ deadline' =< older.expires
            BY ONLY <1>0, <4>2, <5>4, <6>0
          <6>2. older.expires = 0 => overdue' + deadline' =< 2 * MinRetry
            <7>1. CASE h.expires = 0
              <8>1. 2 * MinRetry \in Nat /\ overdue + deadline =< 2 * MinRetry
                BY ONLY <1>0, <6>0, <7>1
              <8>2. overdue' + (deadline - 1) =< 2 * MinRetry
                BY ONLY <1>0, <2>2, <3>6, <6>0, <8>1, TickOverdue
              <8> QED
                BY <6>0, <8>2
            <7>2. CASE h.expires # 0
              <8> HAVE older.expires = 0
              <8>1. h.expires = 1 /\ h.expires >= 1 /\ overdue' = 0
                BY ONLY <3>6, <4>2, <5>4, <7>2, older.expires = 0
              <8>2. deadline' =< MinRetry
                BY ONLY <1>0, <4>2, <6>0, <8>1
              <8>3. \A d, m \in Nat : d =< m => 0 + d =< m /\ 0 + d =< 2 * m
                OBVIOUS
              <8> QED
                BY ONLY <1>0, <8>1, <8>2, <8>3
            <7> QED
              BY <7>1, <7>2
          <6> QED
            BY <2>1, <4>2, <4>4, <5>7, <6>1, <6>2 DEF TimerFits
        <5> QED
          BY <3>1, <5>5, <5>6, <5>7 DEF LeaseInv, MachineType, Using
      <4> QED
        BY <4>5, <4>6
    <3> QED
      BY <2>1, <2>2, <3>3, <3>7 DEF ExpiryInv, Lazy
  <2> QED
    BY <2>3, <2>4
<1> QED
  BY <1>2, <1>3, <1>4, <1>5, <1>6, <1>7, <1>8, <1>9 DEF LeaseNext, OnTime, OnMessage

\* The timers give the bound.
LEMMA ExpiryInvMeans == LeaseConstants /\ LeaseInv /\ ExpiryInv => ExpiryHonoured
<1> SUFFICES ASSUME LeaseConstants, LeaseInv, ExpiryInv, Lazy, client # "ended"
             PROVE  overdue =< 2 * MinRetry
  BY DEF ExpiryHonoured, Lazy
<1>0. /\ MinRetry \in Nat /\ MinRetry > 0 /\ Forever \in Nat /\ MinRetry < Forever
      /\ deadline \in Nat /\ overdue \in Nat
  BY DEF LeaseConstants, LeaseInv, MachineType, ExpiryInv
<1>1. CASE held = {}
  BY <1>0, <1>1 DEF ExpiryInv
<1>2. CASE held # {}
  <2>1. PICK h \in held : TimerFits(h)
    BY <1>2 DEF ExpiryInv
  <2>2. state \in Using
    BY <1>2 DEF LeaseInv, MachineType
  <2> QED
    BY <1>0, <2>1, <2>2 DEF TimerFits, Using
<1> QED
  BY <1>1, <1>2

\* An expired lease is given up within two retry floors of MIN_RETRY, whatever
\* its length, by a client that runs, on a segment whose servers leave T1 and T2
\* to it.
THEOREM LeaseExpiryHonoured == LeaseSpec => []ExpiryHonoured
<1> USE LeaseAssumption
<1>1. LeaseInit => LeaseInv /\ ExpiryInv
  BY LeaseInvInit DEF LeaseInit, ExpiryInv
<1>2. LeaseInv /\ [LeaseNext]_lease_vars => LeaseInv'
  BY LeaseInvNext
<1>3. LeaseInv /\ LeaseInv' /\ ExpiryInv /\ [LeaseNext]_lease_vars => ExpiryInv'
  BY ExpiryInvNext
<1>4. LeaseInv /\ ExpiryInv => ExpiryHonoured
  BY ExpiryInvMeans
<1> QED
  BY <1>1, <1>2, <1>3, <1>4, PTL DEF LeaseSpec

\* While the client is silent the silence is no longer than its timer.
QuietInv == hush \in 0..AfterNak /\ (state = "Init" => hush =< deadline)

\* The silence after a NAK is over before the next message, in any step.
THEOREM LeaseQuietAfterNak == LeaseSpec => QuietAfterNak
<1> USE LeaseAssumption
<1>1. LeaseInit => LeaseInv /\ QuietInv
  BY LeaseInvInit DEF LeaseInit, QuietInv, LeaseConstants
<1>2. LeaseInv /\ [LeaseNext]_lease_vars => LeaseInv'
  BY LeaseInvNext
<1>3. LeaseInv /\ QuietInv /\ [LeaseNext]_lease_vars => QuietInv'
  <2> SUFFICES ASSUME LeaseInv, QuietInv, [LeaseNext]_lease_vars PROVE QuietInv'
    OBVIOUS
  <2>1. CASE Tick
    <3>1. hush' = Elapse(hush) /\ deadline' = Elapse(deadline) /\ state' = state
      BY <2>1 DEF Tick
    <3>2. /\ hush \in Nat /\ hush =< AfterNak /\ AfterNak \in Nat /\ AfterNak < Forever
          /\ Forever \in Nat /\ deadline \in Nat
      BY DEF QuietInv, LeaseConstants, LeaseInv, MachineType
    <3> QED
      BY <3>1, <3>2 DEF Elapse, QuietInv
  <2>2. ASSUME NEW r \in server, AcceptNak(r) PROVE QuietInv'
    BY <2>2 DEF AcceptNak, NakWith, QuietInv, LeaseConstants
  <2>3. CASE UNCHANGED hush /\ (state' = "Init" => UNCHANGED <<state, deadline>>)
    BY <2>3 DEF QuietInv
  <2>4. CASE Acquire \/ Plug \/ UNCHANGED lease_vars
    BY <2>3, <2>4 DEF Acquire, Plug, lease_vars, machine, observed
  <2>7. CASE SocketFails
    BY <2>7 DEF SocketFails, QuietInv, LeaseConstants
  <2>5. CASE OnTime
    BY <2>3, <2>5 DEF OnTime, TimeInit, TimeAsking, TimeBound, TimeRenewing, TimeRebinding,
                      Discover, RetransmitBackingOff, RetransmitToward, observed
  <2>6. ASSUME NEW r \in server, AcceptOffer(r) \/ AcceptAck(r) PROVE QuietInv'
    BY <2>3, <2>6 DEF AcceptOffer, AcceptAck, observed
  <2> QED
    BY <2>1, <2>2, <2>4, <2>5, <2>6, <2>7 DEF LeaseNext, OnMessage
<1>4. LeaseInv /\ QuietInv /\ [LeaseNext]_lease_vars
         => [state = "Init" /\ state' # "Init" => hush = 0]_lease_vars
  <2> SUFFICES ASSUME QuietInv, LeaseInv, LeaseNext, state = "Init", state' # "Init" PROVE hush = 0
    OBVIOUS
  <2>1. deadline = 0
    BY DEF LeaseNext, OnTime, OnMessage, Acquire, Plug, SocketFails, Tick, TimeInit, TimeAsking,
           TimeBound, TimeRenewing, TimeRebinding, AcceptOffer, AcceptAck, AcceptNak, NakWith,
           Asking, Due, machine
  <2> QED
    BY <2>1 DEF QuietInv, LeaseConstants
<1> QED
  BY <1>1, <1>2, <1>3, <1>4, PTL DEF LeaseSpec, QuietAfterNak
=============================================================================
