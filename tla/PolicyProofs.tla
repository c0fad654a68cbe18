---------------------------- MODULE PolicyProofs ----------------------------
(***************************************************************************)
(* The tables of kmsrs-policy: that the rate limiter keeps a source within *)
(* bounds of its rate, that the host's counts are those of module          *)
(* ClientCounts driven by granted requests and exact up to the cap, and    *)
(* that the log explains them and has a line for every request; and the    *)
(* calendar its identity draws dates from: days and dates are the same,    *)
(* each way.                                                               *)
(***************************************************************************)
EXTENDS Host, RateLimiter, Calendar, OrderFacts, SequenceTheorems, FiniteSetTheorems, TLAPS

-----------------------------------------------------------------------------
\* What whole seconds earn is never more than their share of the time, and never
\* less than half of it.
LEMMA EarnedBound ==
    ASSUME NEW d \in Nat, NEW s \in Nat \ {0}, NEW r \in Nat
    PROVE  /\ d \div s \in Nat
           /\ ((d \div s) * r) \in Nat
           /\ ((d \div s) * r) * s =< d * r
           /\ d >= s => d \div s >= 1 /\ d * r =< 2 * (((d \div s) * r) * s)
<1>1. /\ d \div s \in Nat /\ (d \div s) * s =< d /\ (d >= s => d \div s >= 1)
      /\ d < (d \div s) * s + s
  OBVIOUS
<1> DEFINE q == d \div s
<1> HIDE DEF q
<1>2. q \in Nat /\ q * s =< d /\ (d >= s => q >= 1) /\ d < q * s + s
  BY <1>1 DEF q
<1>3. (q * r) * s = (q * s) * r /\ q * s \in Nat /\ q * r \in Nat
  BY <1>2
<1>4. (q * s) * r =< d * r
  <2> DEFINE x == q * s
  <2> HIDE DEF x
  <2>1. x \in Nat /\ x =< d
    BY <1>2, <1>3 DEF x
  <2>2. x * r =< d * r
    BY <2>1
  <2> QED
    BY <2>2 DEF x
<1>5. ASSUME d >= s PROVE d * r =< 2 * ((q * r) * s)
  <2> DEFINE x == q * s
  <2>1. x \in Nat /\ s =< x
    BY <1>2, <1>3, <1>5
  <2>2. d < x + s
    BY <1>2
  <2> HIDE DEF x
  <2>3. d =< 2 * x
    BY <2>1, <2>2
  <2>4. \A y \in Nat : d =< y => d * r =< y * r
    OBVIOUS
  <2>5. d * r =< (2 * x) * r /\ (2 * x) * r = 2 * (x * r)
    BY <2>1, <2>3, <2>4
  <2>6. x * r = (q * r) * s
    BY <1>3 DEF x
  <2> QED
    BY <2>5, <2>6
<1> QED
  BY <1>1, <1>3, <1>4, <1>5 DEF q

\* A bucket in order at an instant: its times do not lie ahead, and what it
\* admitted, holds and spilled is covered by the burst and the time since, and is
\* at least the burst and half of what that time is worth.
InOrder(b, t) ==
    /\ b \in Allowance
    /\ b.last_seen =< t /\ b.last_refill =< b.last_seen /\ b.born =< b.last_refill
    /\ (b.admitted + b.tokens + b.spilled) * Second
          =< Burst * Second + (b.last_refill - b.born) * Refill
    /\ 2 * (Burst * Second) + (b.last_refill - b.born) * Refill
          =< 2 * ((b.admitted + b.tokens + b.spilled) * Second)
    /\ b.last_seen - b.last_refill < Second

\* The table: within its capacity, one bucket to a key, each in order.
LimiterInv ==
    /\ allowances \in Seq(Allowance) /\ Len(allowances) =< MaxSources
    /\ ticks \in Nat
    /\ \A i \in 1..Len(allowances) : InOrder(allowances[i], ticks)
    /\ \A i, j \in 1..Len(allowances) : allowances[i].key = allowances[j].key => i = j

\* The fields of a bucket.
LEMMA BucketFields ==
    ASSUME NEW b \in Allowance
    PROVE  /\ b = [key |-> b.key, tokens |-> b.tokens, last_refill |-> b.last_refill,
                   last_seen |-> b.last_seen, born |-> b.born, admitted |-> b.admitted,
                   spilled |-> b.spilled]
           /\ b.key \in Keys /\ b.tokens \in 0..Burst /\ b.last_refill \in Nat
           /\ b.last_seen \in Nat /\ b.born \in Nat /\ b.admitted \in Nat /\ b.spilled \in Nat
BY DEF Allowance

\* A new bucket is in order.
LEMMA FreshInOrder ==
    ASSUME NEW key \in Keys, NEW t \in Nat
    PROVE  InOrder(Fresh(key, t), t) /\ Fresh(key, t).key = key
<1> DEFINE b == Fresh(key, t)
<1>1. Burst \in Nat \ {0} /\ Refill \in Nat /\ Second \in Nat \ {0}
  BY LimiterAssumption
<1>2. b = [key |-> key, tokens |-> Burst, last_refill |-> t, last_seen |-> t,
           born |-> t, admitted |-> 0, spilled |-> 0]
  BY DEF Fresh
<1> HIDE DEF b
<1>3. b \in Allowance
  BY <1>1, <1>2 DEF Allowance
<1>4. b.tokens = Burst /\ b.last_refill = t /\ b.last_seen = t /\ b.born = t
      /\ b.admitted = 0 /\ b.spilled = 0 /\ b.key = key
  BY <1>2
<1>5. /\ (b.admitted + b.tokens + b.spilled) * Second
            =< Burst * Second + (b.last_refill - b.born) * Refill
      /\ 2 * (Burst * Second) + (b.last_refill - b.born) * Refill
            =< 2 * ((b.admitted + b.tokens + b.spilled) * Second)
      /\ b.last_seen - b.last_refill < Second
  <2>1. 0 + Burst + 0 = Burst /\ (t - t) * Refill = 0 /\ Burst * Second \in Nat
    BY <1>1
  <2> QED
    BY <1>1, <1>4, <2>1
<1> QED
  BY <1>3, <1>4, <1>5 DEF InOrder, b

\* Refilled, a bucket is in order, and after a quiet second it is not empty.
LEMMA RefilledInOrder ==
    ASSUME NEW t \in Nat, NEW b, InOrder(b, t)
    PROVE  /\ InOrder(Refilled(b, t), t)
           /\ Refilled(b, t).key = b.key
           /\ t - b.last_seen >= Second => Refilled(b, t).tokens # 0
<1>1. Burst \in Nat \ {0} /\ Refill \in Nat \ {0} /\ Second \in Nat \ {0}
  BY LimiterAssumption
<1>2. /\ b = [key |-> b.key, tokens |-> b.tokens, last_refill |-> b.last_refill,
              last_seen |-> b.last_seen, born |-> b.born, admitted |-> b.admitted,
              spilled |-> b.spilled]
      /\ b.key \in Keys /\ b.tokens \in 0..Burst /\ b.last_refill \in Nat
      /\ b.last_seen \in Nat /\ b.born \in Nat /\ b.admitted \in Nat /\ b.spilled \in Nat
  BY BucketFields DEF InOrder
<1>3. /\ b.last_seen =< t /\ b.last_refill =< b.last_seen /\ b.born =< b.last_refill
      /\ (b.admitted + b.tokens + b.spilled) * Second
            =< Burst * Second + (b.last_refill - b.born) * Refill
      /\ 2 * (Burst * Second) + (b.last_refill - b.born) * Refill
            =< 2 * ((b.admitted + b.tokens + b.spilled) * Second)
  BY DEF InOrder
<1> DEFINE d == t - b.last_refill
           e == Earned(b, t)
           c == Refilled(b, t)
<1>4. d \in Nat
  BY <1>2, <1>3
<1>5. e = (d \div Second) * Refill
  BY DEF Earned
<1> HIDE DEF d
<1>6. e \in Nat /\ e * Second =< d * Refill /\ (d >= Second => d \div Second >= 1)
      /\ d \div Second \in Nat /\ (d >= Second => d * Refill =< 2 * (e * Second))
  BY <1>1, <1>4, <1>5, EarnedBound
<1>7. d >= Second => e > 0
  <2> SUFFICES ASSUME d >= Second PROVE e > 0
    OBVIOUS
  <2> DEFINE q == d \div Second
  <2>1. q \in Nat /\ q >= 1
    BY <1>6
  <2> HIDE DEF q
  <2>2. q * Refill > 0
    BY <1>1, <2>1
  <2> QED
    BY <1>5, <2>2 DEF q
<1>8. t - b.last_seen >= Second => d >= Second
  BY <1>1, <1>2, <1>3 DEF d
<1>9. CASE e > 0
  <2> DEFINE sum == b.tokens + e
             top == AtMost(sum, Burst)
  <2>1. top \in 1..Burst /\ top =< sum /\ sum \in Nat
    BY <1>1, <1>2, <1>6, <1>9 DEF AtMost
  <2>2. c = [b EXCEPT !.tokens = top, !.spilled = b.spilled + b.tokens + e - top,
                      !.last_refill = t, !.last_seen = t]
    BY <1>9 DEF Refilled
  <2> HIDE DEF c, e, top, sum
  <2>3. /\ c.key = b.key /\ c.tokens = top /\ c.spilled = b.spilled + b.tokens + e - top
        /\ c.last_refill = t /\ c.last_seen = t /\ c.born = b.born /\ c.admitted = b.admitted
        /\ c = [key |-> c.key, tokens |-> c.tokens, last_refill |-> c.last_refill,
                last_seen |-> c.last_seen, born |-> c.born, admitted |-> c.admitted,
                spilled |-> c.spilled]
    BY <1>2, <2>2
  <2>4. b.spilled + b.tokens + e - top \in Nat
    BY <1>2, <1>6, <2>1 DEF sum
  <2>5. c \in Allowance
    BY <1>2, <2>1, <2>3, <2>4 DEF Allowance
  <2>0. d >= Second
    <3>1. d < Second => d \div Second = 0
      BY <1>1, <1>4
    <3> QED
      BY <1>1, <1>4, <1>5, <1>9, <3>1
  <2>6. /\ (c.admitted + c.tokens + c.spilled) * Second
             =< Burst * Second + (c.last_refill - c.born) * Refill
        /\ 2 * (Burst * Second) + (c.last_refill - c.born) * Refill
             =< 2 * ((c.admitted + c.tokens + c.spilled) * Second)
    <3> DEFINE held == b.admitted + b.tokens + b.spilled
               age == b.last_refill - b.born
    <3>1. c.admitted + c.tokens + c.spilled = held + e
      BY <1>1, <1>2, <1>6, <2>1, <2>3
    <3>2. c.last_refill - c.born = age + d
      BY <1>2, <2>3 DEF d
    <3>3. held \in Nat /\ age \in Nat
      BY <1>2, <1>3
    <3>4. /\ held * Second =< Burst * Second + age * Refill
          /\ 2 * (Burst * Second) + age * Refill =< 2 * (held * Second)
      BY <1>3
    <3> HIDE DEF held, age
    <3>5. (held + e) * Second = held * Second + e * Second
      BY <1>1, <1>6, <3>3
    <3>6. (age + d) * Refill = age * Refill + d * Refill
      BY <1>1, <1>4, <3>3
    <3>7. /\ held * Second \in Nat /\ e * Second \in Nat /\ age * Refill \in Nat
          /\ d * Refill \in Nat /\ Burst * Second \in Nat
      BY <1>1, <1>4, <1>6, <3>3
    <3> QED
      BY <1>6, <2>0, <3>1, <3>2, <3>4, <3>5, <3>6, <3>7
  <2>7. c.born =< t /\ c.last_seen - c.last_refill < Second
    BY <1>1, <1>2, <1>3, <2>3
  <2> QED
    BY <2>1, <2>3, <2>5, <2>6, <2>7 DEF InOrder, c
<1>10. CASE ~(e > 0)
  <2>1. c = [b EXCEPT !.last_seen = t]
    BY <1>10 DEF Refilled
  <2> HIDE DEF c, e
  <2>2. /\ c.key = b.key /\ c.tokens = b.tokens /\ c.spilled = b.spilled
        /\ c.last_refill = b.last_refill /\ c.last_seen = t /\ c.born = b.born
        /\ c.admitted = b.admitted
        /\ c = [key |-> c.key, tokens |-> c.tokens, last_refill |-> c.last_refill,
                last_seen |-> c.last_seen, born |-> c.born, admitted |-> c.admitted,
                spilled |-> c.spilled]
    BY <1>2, <2>1
  <2>3. c \in Allowance
    BY <1>2, <2>2 DEF Allowance
  <2>4. ~(t - b.last_seen >= Second)
    BY <1>7, <1>8, <1>10
  <2>5. c.last_refill =< t /\ c.last_seen - c.last_refill < Second
    BY <1>1, <1>2, <1>3, <1>4, <1>6, <1>7, <1>10, <2>2 DEF d
  <2> QED
    BY <1>3, <2>2, <2>3, <2>4, <2>5 DEF InOrder, c
<1> QED
  BY <1>9, <1>10

\* Spending a token keeps a bucket in order.
LEMMA SpendInOrder ==
    ASSUME NEW t \in Nat, NEW b, InOrder(b, t)
    PROVE  InOrder(Spend(b), t) /\ Spend(b).key = b.key
<1>1. /\ b = [key |-> b.key, tokens |-> b.tokens, last_refill |-> b.last_refill,
              last_seen |-> b.last_seen, born |-> b.born, admitted |-> b.admitted,
              spilled |-> b.spilled]
      /\ b.key \in Keys /\ b.tokens \in 0..Burst /\ b.last_refill \in Nat
      /\ b.last_seen \in Nat /\ b.born \in Nat /\ b.admitted \in Nat /\ b.spilled \in Nat
      /\ Burst \in Nat
  BY BucketFields, LimiterAssumption DEF InOrder
<1>2. CASE b.tokens = 0
  BY <1>2 DEF Spend
<1>3. CASE b.tokens # 0
  <2> DEFINE c == Spend(b)
  <2>1. c = [b EXCEPT !.tokens = b.tokens - 1, !.admitted = b.admitted + 1]
    BY <1>3 DEF Spend
  <2> HIDE DEF c
  <2>2. /\ c.key = b.key /\ c.tokens = b.tokens - 1 /\ c.spilled = b.spilled
        /\ c.last_refill = b.last_refill /\ c.last_seen = b.last_seen /\ c.born = b.born
        /\ c.admitted = b.admitted + 1
        /\ c = [key |-> c.key, tokens |-> c.tokens, last_refill |-> c.last_refill,
                last_seen |-> c.last_seen, born |-> c.born, admitted |-> c.admitted,
                spilled |-> c.spilled]
    BY <1>1, <2>1
  <2>3. b.tokens - 1 \in 0..Burst
    BY <1>1, <1>3
  <2>4. c \in Allowance
    BY <1>1, <2>2, <2>3 DEF Allowance
  <2>5. c.admitted + c.tokens + c.spilled = b.admitted + b.tokens + b.spilled
    BY <1>1, <2>2
  <2> QED
    BY <2>2, <2>4, <2>5 DEF InOrder, c
<1> QED
  BY <1>2, <1>3

\* There is a stalest bucket.
LEMMA StalestIsIn ==
    ASSUME LimiterInv, Len(allowances) >= 1
    PROVE  StalestAllowance(allowances) \in 1..Len(allowances)
<1> DEFINE n == Len(allowances)
           times == {allowances[i].last_seen : i \in 1..n}
           most == {i \in 1..n : \A j \in 1..n :
                       allowances[i].last_seen =< allowances[j].last_seen}
<1>1. n \in Nat /\ 1 \in 1..n
  BY DEF LimiterInv
<1>2. \A i \in 1..n : allowances[i].last_seen \in Nat
  BY BucketFields DEF LimiterInv, InOrder
<1>3. times \in SUBSET Nat /\ times # {}
  BY <1>1, <1>2
<1>4. PICK least \in times : \A x \in times : least =< x
  BY <1>3, LeastExists
<1>5. most # {} /\ most \in SUBSET Nat
  BY <1>1, <1>4
<1>6. Min(most) \in most
  BY <1>5, MinIsLeast
<1>7. StalestAllowance(allowances) = Min(most)
  BY DEF StalestAllowance
<1> QED
  BY <1>6, <1>7 DEF Min, Min

\* The bucket a key gets: one in order, under the key, in a table like before.
LEMMA BucketForFacts ==
    ASSUME LimiterInv, NEW key \in Keys
    PROVE  LET found == AllowanceFor(allowances, key, ticks)
               bs == found.buckets
           IN  /\ bs \in Seq(Allowance) /\ Len(bs) =< MaxSources
               /\ found.index \in 1..Len(bs) /\ bs[found.index].key = key
               /\ \A i \in 1..Len(bs) : InOrder(bs[i], ticks)
               /\ \A i, j \in 1..Len(bs) : bs[i].key = bs[j].key => i = j
               /\ \A i \in AllowancesOf(allowances, key) :
                     i = found.index /\ bs = allowances
<1> DEFINE found == AllowanceFor(allowances, key, ticks)
           bs == found.buckets
           n == Len(allowances)
           own == AllowancesOf(allowances, key)
           new == Fresh(key, ticks)
<1>0. /\ allowances \in Seq(Allowance) /\ n \in Nat /\ n =< MaxSources /\ ticks \in Nat
      /\ \A i \in 1..n : InOrder(allowances[i], ticks)
      /\ \A i, j \in 1..n : allowances[i].key = allowances[j].key => i = j
      /\ MaxSources \in Nat \ {0}
  BY LimiterAssumption DEF LimiterInv
<1>1. own = {i \in 1..n : allowances[i].key = key}
  BY DEF AllowancesOf
<1>2. InOrder(new, ticks) /\ new.key = key /\ new \in Allowance
  BY <1>0, FreshInOrder DEF InOrder
<1> HIDE DEF own, new
<1>3. CASE own # {}
  <2>1. found = [index |-> Min(own), buckets |-> allowances]
    BY <1>3 DEF AllowanceFor, own
  <2>2. own \in SUBSET Nat
    BY <1>1
  <2>3. Min(own) \in own
    BY <1>3, <2>2, MinIsLeast
  <2>4. Min(own) \in own
    BY <2>3 DEF Min, Min
  <2> HIDE DEF found
  <2>5. found.index \in own /\ found.buckets = allowances
    BY <2>1, <2>4
  <2>6. \A i \in own : i = found.index
    BY <1>0, <1>1, <2>5
  <2> QED
    BY <1>0, <1>1, <2>5, <2>6 DEF found, own
<1>4. CASE own = {} /\ n < MaxSources
  <2>1. found = [index |-> n + 1, buckets |-> Append(allowances, new)]
    BY <1>4 DEF AllowanceFor, own, new
  <2> HIDE DEF found
  <2>2. found.index = n + 1 /\ found.buckets = Append(allowances, new)
    BY <2>1
  <2>3. /\ Append(allowances, new) \in Seq(Allowance) /\ Len(Append(allowances, new)) = n + 1
        /\ \A i \in 1..n : Append(allowances, new)[i] = allowances[i]
        /\ Append(allowances, new)[n + 1] = new
    BY <1>0, <1>2
  <2> DEFINE a == Append(allowances, new)
  <2> HIDE DEF a
  <2>4. \A i \in 1..(n + 1) : (i \in 1..n /\ a[i] = allowances[i]) \/ (i = n + 1 /\ a[i] = new)
    BY <1>0, <2>3 DEF a
  <2>5. \A i \in 1..n : allowances[i].key # key
    BY <1>1, <1>4
  <2>6. \A i \in 1..(n + 1) : InOrder(a[i], ticks)
    BY <1>0, <1>2, <2>4
  <2>7. \A i, j \in 1..(n + 1) : a[i].key = a[j].key => i = j
    BY <1>0, <1>2, <2>4, <2>5
  <2>8. n + 1 =< MaxSources /\ n + 1 \in 1..(n + 1)
    BY <1>0, <1>4
  <2> QED
    BY <1>2, <1>4, <2>2, <2>3, <2>6, <2>7, <2>8 DEF found, own, a
<1>5. CASE own = {} /\ ~(n < MaxSources)
  <2> DEFINE s == StalestAllowance(allowances)
             a == [allowances EXCEPT ![s] = new]
  <2>0. n >= 1
    BY <1>0, <1>5
  <2>1. s \in 1..n
    BY <2>0, StalestIsIn
  <2>2. found = [index |-> s, buckets |-> a]
    BY <1>5 DEF AllowanceFor, own, new
  <2> HIDE DEF found, s
  <2>3. found.index = s /\ found.buckets = a
    BY <2>2
  <2>4. a \in Seq(Allowance) /\ Len(a) = n /\ a[s] = new
        /\ \A i \in 1..n : i # s => a[i] = allowances[i]
    BY <1>0, <1>2, <2>1
  <2> HIDE DEF a
  <2>5. \A i \in 1..n : allowances[i].key # key
    BY <1>1, <1>5
  <2>6. \A i \in 1..n : InOrder(a[i], ticks)
    BY <1>0, <1>2, <2>4
  <2>7. \A i, j \in 1..n : a[i].key = a[j].key => i = j
    BY <1>0, <1>2, <2>4, <2>5
  <2> QED
    BY <1>0, <1>2, <1>5, <2>1, <2>3, <2>4, <2>6, <2>7 DEF found, own
<1> QED
  BY <1>3, <1>4, <1>5

\* A request keeps the table, and refuses no source that was quiet for a second.
LEMMA RequestKeeps ==
    ASSUME LimiterInv, NEW key \in Keys, Request(key)
    PROVE  LimiterInv' /\ QuietSourceAdmitted
<1> DEFINE found == AllowanceFor(allowances, key, ticks)
           bs == found.buckets
           at == found.index
           full == Refilled(bs[at], ticks)
           spent == Spend(full)
           a == [bs EXCEPT ![at] = spent]
           n == Len(bs)
<1>1. /\ bs \in Seq(Allowance) /\ n =< MaxSources
      /\ at \in 1..n /\ bs[at].key = key
      /\ \A i \in 1..n : InOrder(bs[i], ticks)
      /\ \A i, j \in 1..n : bs[i].key = bs[j].key => i = j
      /\ \A i \in AllowancesOf(allowances, key) : i = at /\ bs = allowances
  BY BucketForFacts
<1>2. /\ allowances' = a /\ ticks' = ticks
      /\ last' = [key |-> key, admission |-> IF full.tokens = 0 THEN "limited" ELSE "allowed"]
  BY DEF Request, Admit
<1>3. ticks \in Nat
  BY DEF LimiterInv
<1> HIDE DEF bs, at, n
<1>4. /\ InOrder(full, ticks) /\ full.key = key
      /\ ticks - bs[at].last_seen >= Second => full.tokens # 0
  BY <1>1, <1>3, RefilledInOrder
<1> HIDE DEF full
<1>5. InOrder(spent, ticks) /\ spent.key = key
  BY <1>3, <1>4, SpendInOrder
<1>6. spent \in Allowance
  BY <1>5 DEF InOrder
<1> HIDE DEF spent
<1>7. a \in Seq(Allowance) /\ Len(a) = n /\ a[at] = spent
      /\ \A i \in 1..n : i # at => a[i] = bs[i]
  BY <1>1, <1>6 DEF n
<1> HIDE DEF a
<1>8. \A i \in 1..n : InOrder(a[i], ticks)
  BY <1>1, <1>5, <1>7
<1>9. \A i, j \in 1..n : a[i].key = a[j].key => i = j
  <2>1. \A i \in 1..n : a[i].key = bs[i].key
    BY <1>1, <1>5, <1>7
  <2> QED
    BY <1>1, <2>1
<1>10. LimiterInv'
  <2>1. allowances' \in Seq(Allowance) /\ Len(allowances') =< MaxSources
    BY <1>1, <1>2, <1>7
  <2>2. \A i \in 1..Len(allowances') : InOrder(allowances'[i], ticks')
    BY <1>2, <1>7, <1>8
  <2>3. \A i, j \in 1..Len(allowances') : allowances'[i].key = allowances'[j].key => i = j
    BY <1>2, <1>7, <1>9
  <2> QED
    BY <1>2, <1>3, <2>1, <2>2, <2>3 DEF LimiterInv, InOrder, Allowance
<1>11. QuietSourceAdmitted
  <2> SUFFICES ASSUME NEW k \in Keys, last' = [key |-> k, admission |-> "limited"],
                      NEW i \in AllowancesOf(allowances, k)
               PROVE  ticks - allowances[i].last_seen < Second
    BY DEF QuietSourceAdmitted
  <2>1. k = key /\ full.tokens = 0
    BY <1>2
  <2>2. i = at /\ bs = allowances
    BY <1>1, <2>1
  <2>3. ~(ticks - allowances[i].last_seen >= Second)
    BY <1>4, <2>1, <2>2
  <2>4. InOrder(allowances[i], ticks)
    BY <1>1, <2>2
  <2>5. allowances[i].last_seen \in Nat /\ Second \in Nat
    BY <2>4, BucketFields, LimiterAssumption DEF InOrder
  <2> QED
    BY <1>3, <2>3, <2>5
<1> QED
  BY <1>10, <1>11

\* Time passing only makes room.
LEMMA LimiterKeeps ==
    ASSUME LimiterInv, [LimiterNext]_limiter_vars
    PROVE  LimiterInv' /\ (QuietSourceAdmitted \/ UNCHANGED limiter_vars)
<1>1. CASE \E key \in Keys : Request(key)
  BY <1>1, RequestKeeps
<1>2. CASE LimiterTick
  <2>1. allowances' = allowances /\ ticks' = ticks + 1 /\ ticks \in Nat
    BY <1>2 DEF LimiterTick, LimiterInv
  <2>2. ASSUME NEW b, InOrder(b, ticks) PROVE InOrder(b, ticks')
    <3>1. b.last_seen \in Nat
      BY <2>2, BucketFields DEF InOrder
    <3> QED
      BY <2>1, <2>2, <3>1 DEF InOrder
  <2>3. \A i \in 1..Len(allowances) : InOrder(allowances[i], ticks')
    BY <2>2 DEF LimiterInv
  <2>4. LimiterInv'
    <3>1. \A i \in 1..Len(allowances') : InOrder(allowances'[i], ticks')
      BY <2>1, <2>3
    <3>2. ticks' \in Nat
      BY <2>1
    <3>3. /\ allowances' \in Seq(Allowance) /\ Len(allowances') =< MaxSources
          /\ \A i, j \in 1..Len(allowances') : allowances'[i].key = allowances'[j].key => i = j
      BY <2>1 DEF LimiterInv
    <3> QED
      BY ONLY <3>1, <3>2, <3>3 DEF LimiterInv, InOrder, Allowance
  <2>5. QuietSourceAdmitted
    BY <2>1 DEF QuietSourceAdmitted
  <2> QED
    BY <2>4, <2>5
<1>3. CASE UNCHANGED limiter_vars
  <2>1. UNCHANGED <<allowances, ticks>>
    BY <1>3 DEF limiter_vars
  <2> QED
    BY <1>3, <2>1 DEF LimiterInv, InOrder, Allowance
<1> QED
  BY <1>1, <1>2, <1>3 DEF LimiterNext

\* Since its bucket was made a source was admitted at most a burst and what the
\* time earned, it earned at least half of that for all the fractions dropped, and
\* after a second without a request it is not refused (RateLimiter::admit).
THEOREM LimiterRateKept == LimiterSpec => RateKept
<1>1. LimiterInit => LimiterInv
  BY LimiterAssumption DEF LimiterInit, LimiterInv
<1>2. LimiterInv /\ [LimiterNext]_limiter_vars => LimiterInv'
  BY LimiterKeeps
<1>3. LimiterInv => NeverOverRate /\ AtLeastHalfRate
  BY DEF LimiterInv, InOrder, NeverOverRate, AtLeastHalfRate, LimiterTypeOK
<1>4. LimiterInv /\ [LimiterNext]_limiter_vars
        => [NeverOverRate' /\ AtLeastHalfRate' /\ QuietSourceAdmitted]_limiter_vars
  <2>1. LimiterInv' => NeverOverRate' /\ AtLeastHalfRate'
    BY <1>3, PTL
  <2> QED
    BY <2>1, LimiterKeeps
<1> QED
  BY <1>1, <1>2, <1>4, PTL DEF LimiterSpec, RateKept

-----------------------------------------------------------------------------
\* The part of HostAssumption the log needs.
LEMMA LogConstants ==
    Capacity \in Nat \ {0} /\ Retention \in Nat \ {0} /\ Expiry \in Nat \ {0}
BY HostAssumption

\* Every event of a log has its instant.
LEMMA EventTimes ==
    ASSUME NEW es \in Seq(Log!LoggedEvent)
    PROVE  \A i \in 1..Len(es) : es[i].at \in Nat
<1>1. \A i \in 1..Len(es) : es[i] \in Log!LoggedEvent
  OBVIOUS
<1>2. \A e \in Log!LoggedEvent : e.at \in Nat
  BY DEF Log!LoggedEvent
<1> QED
  BY <1>1, <1>2

\* An event that expire drops is out of the window; the first it keeps is not.
LEMMA AgedOut ==
    ASSUME NEW es \in Seq(Log!LoggedEvent), NEW at \in Nat
    PROVE  /\ Log!Aged(es, at) \in 0..Len(es)
           /\ \A i \in 1..Log!Aged(es, at) : at - es[i].at >= Retention
<1> DEFINE S == {i \in 1..Len(es) : Log!InWindow(es[i], at)} \cup {Len(es) + 1}
<1>1. S \in SUBSET Nat /\ S # {} /\ Len(es) \in Nat
  OBVIOUS
<1>2. Min(S) \in S /\ \A j \in S : Min(S) =< j
  BY <1>1, MinIsLeast
<1>3. Log!Aged(es, at) = Min(S) - 1
  BY DEF Log!Aged, Log!Min, Min
<1>4. Min(S) \in 1..(Len(es) + 1)
  BY <1>1, <1>2
<1>5. \A i \in 1..Len(es) : Log!InWindow(es[i], at) => i \in S
  OBVIOUS
<1> HIDE DEF S
<1>6. \A i \in 1..(Min(S) - 1) : ~Log!InWindow(es[i], at)
  BY <1>1, <1>2, <1>4, <1>5
<1>7. \A i \in 1..Len(es) : es[i].at \in Nat
  BY EventTimes
<1>8. \A i \in 1..Len(es) : ~Log!InWindow(es[i], at) => at - es[i].at >= Retention
  BY <1>7, LogConstants DEF Log!InWindow
<1> QED
  BY <1>1, <1>3, <1>4, <1>6, <1>8

\* What record does to the events: `a' of them age out of the front, `k' more
\* makes room if the log is still full, and the new one goes to the back.
LEMMA RecordedEvents ==
    ASSUME events \in Seq(Log!LoggedEvent), Len(events) =< Capacity, now \in Nat,
           next_sequence \in Nat, NEW request \in Requests, Log!Record(request)
    PROVE  \E a \in 0..Len(events), k \in {0, 1} :
              /\ a = Log!Aged(events, now)
              /\ k = 1 <=> Len(events) - a >= Capacity
              /\ a + k =< Len(events)
              /\ by_capacity' = by_capacity + k
              /\ events' \in Seq(Log!LoggedEvent)
              /\ Len(events') = Len(events) - (a + k) + 1
              /\ \A i \in 1..(Len(events) - (a + k)) : events'[i] = events[i + (a + k)]
              /\ events'[Len(events')] = Log!Event(next_sequence, now, request)
<1> DEFINE a == Log!Aged(events, now)
           kept == Log!Kept(events, now)
           k == IF Len(kept) >= Capacity THEN 1 ELSE 0
           room == Log!WithRoom(kept)
           new == Log!Event(next_sequence, now, request)
<1>1. a \in 0..Len(events) /\ Len(events) \in Nat
  BY AgedOut
<1>2. kept = SubSeq(events, a + 1, Len(events))
  BY DEF Log!Kept
<1> HIDE DEF a, kept
<1>3. /\ kept \in Seq(Log!LoggedEvent) /\ Len(kept) = Len(events) - a
      /\ \A i \in 1..(Len(events) - a) : kept[i] = events[i + a]
  BY <1>1, <1>2, SuffixFacts
<1>4. k \in {0, 1} /\ k =< Len(kept) /\ (k = 1 <=> Len(kept) >= Capacity) /\ Len(kept) \in Nat
  BY <1>3, LogConstants
<1>5. room = SubSeq(kept, k + 1, Len(kept))
  <2>1. CASE Len(kept) >= Capacity
    BY <2>1 DEF Log!WithRoom
  <2>2. CASE ~(Len(kept) >= Capacity)
    <3>1. room = kept /\ k + 1 = 1
      BY <2>2 DEF Log!WithRoom
    <3> QED
      BY <1>3, <3>1
  <2> QED
    BY <2>1, <2>2
<1>6. by_capacity' = by_capacity + k /\ events' = Append(room, new)
  BY DEF Log!Record, kept
<1> HIDE DEF k, room
<1>7. /\ room \in Seq(Log!LoggedEvent) /\ Len(room) = Len(kept) - k
      /\ \A i \in 1..(Len(kept) - k) : room[i] = kept[i + k]
  BY <1>3, <1>4, <1>5, SuffixFacts
<1>8. new \in Log!LoggedEvent
  BY DEF Log!Event, Log!LoggedEvent
<1> HIDE DEF new
<1>9. /\ events' \in Seq(Log!LoggedEvent) /\ Len(events') = Len(room) + 1
      /\ \A i \in 1..Len(room) : events'[i] = room[i]
      /\ events'[Len(room) + 1] = new
  BY <1>6, <1>7, <1>8
<1>10. Len(events') = Len(events) - (a + k) + 1
  BY <1>1, <1>3, <1>4, <1>7, <1>9
<1>11. ASSUME NEW i \in 1..(Len(events) - (a + k)) PROVE events'[i] = events[i + (a + k)]
  <2>1. i \in 1..Len(room) /\ i + k \in 1..(Len(events) - a) /\ (i + k) + a = i + (a + k)
    BY <1>1, <1>3, <1>4, <1>7
  <2>2. events'[i] = kept[i + k]
    BY <1>3, <1>7, <1>9, <2>1
  <2> QED
    BY <1>3, <2>1, <2>2
<1>12. a + k =< Len(events) /\ (k = 1 <=> Len(events) - a >= Capacity)
  BY <1>1, <1>3, <1>4
<1>13. events'[Len(events')] = new
  BY <1>7, <1>9
<1> QED
  BY <1>1, <1>4, <1>6, <1>9, <1>10, <1>11, <1>12, <1>13 DEF a, new

\* The log of a host: within its capacity and numbered without a gap.
HostLogInv ==
    /\ events \in Seq(Log!LoggedEvent) /\ Len(events) =< Capacity
    /\ next_sequence \in Nat /\ by_capacity \in Nat /\ now \in Nat
    /\ \A i \in 1..Len(events) : events[i].sequence = next_sequence - Len(events) + i - 1

\* A call of handle in progress: the log still has what it recorded, as far as it
\* fits, and all of that is of this instant, so that none of it can age out.
HandleInv ==
    /\ handling \in Nat /\ through \in Nat
    /\ handling > 0 => through = next_sequence - handling
    /\ handling =< Len(events) \/ Len(events) = Capacity
    /\ \A i \in 1..Len(events) : i > Len(events) - handling => events[i].at = now

\* Deciding a request keeps both.
LEMMA ActivateKeepsLog ==
    ASSUME HostLogInv, HandleInv, NEW r \in KmsRequest, Activate(r)
    PROVE  HostLogInv' /\ HandleInv' /\ now' = now
<1> DEFINE q == [cmid |-> r.cmid, sku |-> r.sku, application |-> r.application,
                 activated |-> Granted(r)]
<1>1. /\ Log!Record(q) /\ handling' = handling + 1 /\ through' = Through
  BY DEF Activate, ActivateWith
<1>2. q \in Requests
  BY DEF KmsRequest, Requests, Granted
<1> HIDE DEF q
<1>3. /\ events \in Seq(Log!LoggedEvent) /\ Len(events) =< Capacity /\ Len(events) \in Nat
      /\ next_sequence \in Nat /\ by_capacity \in Nat /\ now \in Nat
      /\ handling \in Nat /\ through \in Nat /\ Capacity \in Nat \ {0} /\ Retention \in Nat \ {0}
      /\ \A i \in 1..Len(events) : events[i].at \in Nat
  BY LogConstants, EventTimes DEF HostLogInv, HandleInv
<1>3a. next_sequence \in Nat /\ handling \in Nat /\ Capacity \in Nat
  BY <1>3
<1>4. PICK a \in 0..Len(events), k \in {0, 1} :
              /\ a = Log!Aged(events, now)
              /\ k = 1 <=> Len(events) - a >= Capacity
              /\ a + k =< Len(events)
              /\ by_capacity' = by_capacity + k
              /\ events' \in Seq(Log!LoggedEvent)
              /\ Len(events') = Len(events) - (a + k) + 1
              /\ \A i \in 1..(Len(events) - (a + k)) : events'[i] = events[i + (a + k)]
              /\ events'[Len(events')] = Log!Event(next_sequence, now, q)
  BY <1>1, <1>2, <1>3, RecordedEvents
<1>5. next_sequence' = next_sequence + 1 /\ now' = now
  BY <1>1 DEF Log!Record
<1> DEFINE n == Len(events)
           d == a + k
           m == Len(events')
<1>6. /\ n \in Nat /\ d \in 0..n /\ m = n - d + 1 /\ m \in Nat \ {0}
      /\ \A i \in 1..(n - d) : events'[i] = events[i + d]
      /\ (k = 0 /\ n - a < Capacity) \/ (k = 1 /\ n - a >= Capacity)
      /\ a \in Nat /\ n =< Capacity /\ d = a + k
  <2>1. \A i \in 1..(n - d) : events'[i] = events[i + d]
    BY <1>4
  <2>2. n \in Nat /\ a \in 0..n /\ k \in {0, 1} /\ a + k =< n /\ m = n - d + 1
        /\ (k = 1 <=> n - a >= Capacity) /\ n =< Capacity /\ d = a + k
    BY <1>3, <1>4
  <2> HIDE DEF n, d, m
  <2>3. d \in 0..n /\ m \in Nat \ {0} /\ a \in Nat
        /\ ((k = 0 /\ n - a < Capacity) \/ (k = 1 /\ n - a >= Capacity))
    BY ONLY <2>2, <1>3a
  <2> QED
    BY <2>1, <2>2, <2>3
<1> HIDE DEF n, d, m
<1>6a. \A i \in 1..m : (i \in 1..(n - d) /\ i + d \in 1..n /\ events'[i] = events[i + d])
                       \/ i = m
  BY ONLY <1>6
<1>7. events'[Len(events')].sequence = next_sequence /\ events'[Len(events')].at = now
  BY <1>4 DEF Log!Event
<1>8. HostLogInv'
  <2>1. \A i \in 1..m : events'[i].sequence = next_sequence' - m + i - 1
    <3> SUFFICES ASSUME NEW i \in 1..m
                 PROVE  events'[i].sequence = next_sequence' - m + i - 1
      OBVIOUS
    <3>1. CASE i \in 1..(n - d) /\ i + d \in 1..n /\ events'[i] = events[i + d]
      <4>1. events[i + d].sequence = next_sequence - n + (i + d) - 1
        BY <3>1 DEF HostLogInv, n
      <4> QED
        BY ONLY <1>5, <1>6, <3>1, <4>1, <1>3a
    <3>2. CASE i = m
      <4>1. events'[m].sequence = next_sequence
        BY <1>7 DEF m
      <4> QED
        BY ONLY <1>5, <1>6, <3>2, <4>1, <1>3a
    <3> QED
      BY <1>6a, <3>1, <3>2
  <2>2. Len(events') =< Capacity /\ by_capacity' \in Nat /\ next_sequence' \in Nat /\ now' \in Nat
    <3>1. m =< Capacity
      BY ONLY <1>6, <1>3a
    <3>2. by_capacity' = by_capacity + k /\ k \in {0, 1} /\ by_capacity \in Nat /\ now \in Nat
      BY <1>3, <1>4
    <3>3. by_capacity' \in Nat /\ next_sequence' \in Nat /\ now' \in Nat
      BY ONLY <1>5, <1>3a, <3>2
    <3> QED
      BY <3>1, <3>3 DEF m
  <2> QED
    BY <1>4, <2>1, <2>2 DEF HostLogInv, Log!LoggedEvent, Requests, m
<1>9. a =< n - handling \/ a = 0
  <2> SUFFICES ASSUME a > n - handling, a # 0 PROVE FALSE
    BY <1>3, <1>6
  <2>1. a \in 1..n /\ events[a].at = now
    BY <1>3, <1>6 DEF HandleInv, n
  <2>2. now - events[a].at >= Retention
    <3>1. \A i \in 1..Log!Aged(events, now) : now - events[i].at >= Retention
      BY <1>3, AgedOut
    <3>2. a \in 1..Log!Aged(events, now)
      BY <1>4, <2>1
    <3> QED
      BY <3>1, <3>2
  <2> QED
    BY <1>3, <2>1, <2>2
<1>10. HandleInv'
  <2>1. handling' \in Nat /\ through' \in Nat /\ through' = next_sequence' - handling'
    BY <1>1, <1>3, <1>5 DEF Through, HandleInv
  <2>2. handling' =< Len(events') \/ Len(events') = Capacity
    <3>1. handling =< n \/ n = Capacity
      BY DEF HandleInv, n
    <3>2. handling + 1 =< m \/ m = Capacity
      BY ONLY <1>6, <1>9, <3>1, <1>3a
    <3> QED
      BY <1>1, <3>2 DEF m
  <2>3. \A i \in 1..Len(events') : i > Len(events') - handling' => events'[i].at = now'
    <3> SUFFICES ASSUME NEW i \in 1..m, i > m - (handling + 1)
                 PROVE  events'[i].at = now'
      BY <1>1 DEF m
    <3>1. CASE i \in 1..(n - d) /\ i + d \in 1..n /\ events'[i] = events[i + d]
      <4>1. i + d > n - handling
        BY ONLY <1>6, <3>1, i > m - (handling + 1), <1>3a
      <4> QED
        BY <1>5, <3>1, <4>1 DEF HandleInv, n
    <3>2. CASE i = m
      BY <1>5, <1>7, <3>2 DEF m
    <3> QED
      BY <1>6a, <3>1, <3>2
  <2> QED
    BY <2>1, <2>2, <2>3 DEF HandleInv
<1> QED
  BY <1>5, <1>8, <1>10

\* Every step of a host keeps both.
LEMMA HostKeepsLog ==
    ASSUME HostLogInv, HandleInv, [Next]_vars
    PROVE  HostLogInv' /\ HandleInv'
<1>1. CASE \E r \in KmsRequest : Activate(r)
  BY <1>1, ActivateKeepsLog
<1>2. CASE EndHandle
  <2>1. /\ UNCHANGED <<events, next_sequence, by_capacity, now, through>> /\ handling' = 0
    BY <1>2 DEF EndHandle, log
  <2>2. HostLogInv'
    BY <2>1 DEF HostLogInv, Log!LoggedEvent, Requests
  <2>3. Len(events) \in Nat
    BY DEF HostLogInv
  <2>4. HandleInv'
    BY <2>1, <2>3 DEF HandleInv
  <2> QED
    BY <2>2, <2>4
<1>3. ASSUME NEW d \in 1..Expiry, Tick(d) PROVE HostLogInv' /\ HandleInv'
  <2>1. /\ UNCHANGED <<events, next_sequence, by_capacity, handling, through>>
        /\ handling = 0 /\ now' = now + d
    BY <1>3 DEF Tick, log
  <2>2. now' \in Nat
    BY <1>3, <2>1, LogConstants DEF HostLogInv
  <2>3. HostLogInv'
    BY <2>1, <2>2 DEF HostLogInv, Log!LoggedEvent, Requests
  <2>4. Len(events) \in Nat
    BY DEF HostLogInv
  <2>5. HandleInv'
    BY <2>1, <2>4 DEF HandleInv
  <2> QED
    BY <2>3, <2>5
<1>4. CASE UNCHANGED vars
  <2>1. UNCHANGED <<events, next_sequence, by_capacity, now, handling, through>>
    BY <1>4 DEF vars, log
  <2> QED
    BY <2>1 DEF HostLogInv, HandleInv, Log!LoggedEvent, Requests
<1> QED
  BY <1>1, <1>2, <1>3, <1>4 DEF Next

\* The lines of a call: the last events of the log, as many as it decided or as
\* the log holds.
LEMMA LinesOfTheCall ==
    ASSUME HostLogInv, HandleInv, EndHandle
    PROVE  /\ Len(lines') = IF handling =< Capacity THEN handling ELSE Capacity
           /\ \A i \in 1..Len(lines') :
                 lines'[i].sequence = next_sequence - Len(lines') + i - 1
<1> DEFINE n == Len(events)
           h == IF handling =< Capacity THEN handling ELSE Capacity
           S == {i \in 1..n : events[i].sequence >= through} \cup {n + 1}
<1>1. /\ events \in Seq(Log!LoggedEvent) /\ n \in Nat /\ n =< Capacity
      /\ next_sequence \in Nat /\ handling \in Nat \ {0} /\ Capacity \in Nat \ {0}
      /\ through = next_sequence - handling
      /\ handling =< n \/ n = Capacity
  BY LogConstants DEF HostLogInv, HandleInv, EndHandle
<1>2. \A i \in 1..n : events[i].sequence = next_sequence - n + i - 1
  BY DEF HostLogInv
<1>3. lines' = SubSeq(events, Min(S), n)
  BY DEF EndHandle, Since
<1> HIDE DEF n
<1>4. h \in 1..n
  BY ONLY <1>1
<1>5. \A i \in 1..n : events[i].sequence >= through <=> i >= n - h + 1
  <2> SUFFICES ASSUME NEW i \in 1..n
               PROVE  events[i].sequence >= through <=> i >= n - h + 1
    OBVIOUS
  <2>1. events[i].sequence = next_sequence - n + i - 1
    BY <1>2
  <2>2. n - handling =< n - h /\ (n - handling < n - h => h = n)
    BY ONLY <1>1
  <2> HIDE DEF h
  <2> QED
    BY ONLY <1>1, <1>4, <2>1, <2>2, i \in 1..n
<1> HIDE DEF h
<1>6. S \in SUBSET Nat /\ S # {} /\ n - h + 1 \in S
  BY <1>1, <1>4, <1>5
<1>7. \A i \in S : i >= n - h + 1
  BY <1>1, <1>4, <1>5
<1> HIDE DEF S
<1>8. Min(S) = n - h + 1
  <2>1. Min(S) \in S /\ Min(S) =< n - h + 1
    BY <1>6, MinIsLeast
  <2>2. Min(S) >= n - h + 1 /\ Min(S) \in Nat
    BY <1>6, <1>7, <2>1
  <2> QED
    BY <1>1, <1>4, <2>1, <2>2
<1>9. /\ Len(lines') = h /\ \A i \in 1..h : lines'[i] = events[i + (n - h)]
  <2>1. n - h \in 0..n /\ n - (n - h) = h
    BY <1>1, <1>4
  <2>2. lines' = SubSeq(events, (n - h) + 1, n)
    BY <1>3, <1>8
  <2>3. /\ Len(SubSeq(events, (n - h) + 1, Len(events))) = Len(events) - (n - h)
        /\ \A i \in 1..(Len(events) - (n - h)) :
              SubSeq(events, (n - h) + 1, Len(events))[i] = events[i + (n - h)]
    BY <1>1, <2>1, SuffixFacts DEF n
  <2> QED
    BY <2>1, <2>2, <2>3 DEF n
<1>10. ASSUME NEW i \in 1..h PROVE lines'[i].sequence = next_sequence - h + i - 1
  <2>1. i + (n - h) \in 1..n /\ lines'[i] = events[i + (n - h)]
    BY <1>1, <1>4, <1>9
  <2>2. lines'[i].sequence = next_sequence - n + (i + (n - h)) - 1
    BY <1>2, <2>1
  <2> QED
    BY <1>1, <1>4, <2>2
<1> QED
  BY <1>9, <1>10 DEF h

\* The host starts in order.
LEMMA HostLogInit == Init => HostLogInv /\ HandleInv
<1> SUFFICES ASSUME Init PROVE HostLogInv /\ HandleInv
  OBVIOUS
<1>1. /\ events = <<>> /\ next_sequence = 0 /\ by_capacity = 0 /\ now = 0
      /\ handling = 0 /\ through = 0
  BY DEF Init, Log!LogInit
<1> QED
  BY <1>1, LogConstants DEF HostLogInv, HandleInv

\* A line per decided request: a call of Server::handle logs every request it
\* decided, as many as the log holds, each once and in order, and nothing from
\* before it began, whatever its own requests expired or evicted.
THEOREM HostLogsEveryRequest == Spec => EveryRequestLogged
<1>1. HostLogInv /\ HandleInv /\ [Next]_vars => HostLogInv' /\ HandleInv'
  BY HostKeepsLog
<1>2. HostLogInv /\ HandleInv /\ [Next]_vars =>
        [ handling > 0 /\ handling' = 0 =>
          /\ Len(lines') = IF handling =< Capacity THEN handling ELSE Capacity
          /\ \A i \in 1..Len(lines') :
                lines'[i].sequence = next_sequence - Len(lines') + i - 1 ]_vars
  <2> SUFFICES ASSUME HostLogInv, HandleInv, Next, handling > 0, handling' = 0
               PROVE  /\ Len(lines') = IF handling =< Capacity THEN handling ELSE Capacity
                      /\ \A i \in 1..Len(lines') :
                            lines'[i].sequence = next_sequence - Len(lines') + i - 1
    OBVIOUS
  <2>1. handling \in Nat
    BY DEF HandleInv
  <2>2. ~(\E r \in KmsRequest : Activate(r))
    <3> SUFFICES ASSUME NEW r \in KmsRequest, Activate(r) PROVE FALSE
      OBVIOUS
    <3>1. handling' = handling + 1
      BY DEF Activate, ActivateWith
    <3> QED
      BY <2>1, <3>1
  <2>3. ~(\E d \in 1..Expiry : Tick(d))
    BY <2>1 DEF Tick
  <2>4. EndHandle
    BY <2>2, <2>3 DEF Next
  <2> QED
    BY <2>4, LinesOfTheCall
<1> QED
  BY <1>1, <1>2, HostLogInit, PTL DEF Spec, EveryRequestLogged

\* A step of the host is a step of the counts, or leaves them and the clock alone.
LEMMA HostStepCounts ==
    ASSUME [Next]_vars
    PROVE  [Counts!Next]_(Counts!vars)
<1>1. ASSUME NEW r \in KmsRequest, Activate(r) PROVE [Counts!Next]_(Counts!vars)
  <2>1. now' = now
    BY <1>1 DEF Activate, ActivateWith, Log!Record
  <2>2. CASE Counts!ObserveRequest(r.application, r.cmid, r.demand)
    <3>1. r.application \in Applications /\ r.cmid \in Machines /\ r.demand \in Demands
      BY DEF KmsRequest
    <3> QED
      BY <2>2, <3>1 DEF Counts!Next
  <2>3. CASE UNCHANGED counts
    BY <2>1, <2>3 DEF counts, Counts!vars
  <2> QED
    BY <1>1, <2>2, <2>3 DEF Activate, ActivateWith
<1>2. CASE EndHandle
  BY <1>2 DEF EndHandle, counts, Counts!vars
<1>3. ASSUME NEW d \in 1..Expiry, Tick(d) PROVE [Counts!Next]_(Counts!vars)
  <2>1. Counts!Tick(d)
    BY <1>3 DEF Tick, Counts!Tick, counts
  <2> QED
    BY <2>1 DEF Counts!Next
<1>4. CASE UNCHANGED vars
  BY <1>4 DEF vars, counts, Counts!vars
<1> QED
  BY <1>1, <1>2, <1>3, <1>4 DEF Next

\* What moves the table is a granted request of the application it is moved for.
LEMMA OnlyGrantsMove ==
    ASSUME HostLogInv, Next, buckets' # buckets
    PROVE  LET newest == events'[Len(events')].request
           IN  newest.activated /\ newest.application = view'.application
<1>1. PICK r \in KmsRequest : Activate(r)
  BY DEF Next, EndHandle, Tick, counts
<1> DEFINE q == [cmid |-> r.cmid, sku |-> r.sku, application |-> r.application,
                 activated |-> Granted(r)]
<1>2. Log!Record(q)
  BY <1>1 DEF Activate, ActivateWith
<1>3. Granted(r) /\ Counts!ObserveRequest(r.application, r.cmid, r.demand)
  BY <1>1 DEF Activate, ActivateWith, counts
<1>4. view'.application = r.application
  BY <1>3 DEF Counts!ObserveRequest
<1>5. q \in Requests /\ q.activated /\ q.application = r.application
  BY <1>3 DEF KmsRequest, Requests, Granted
<1> HIDE DEF q
<1>6. events'[Len(events')] = Log!Event(next_sequence, now, q)
  <2>1. /\ events \in Seq(Log!LoggedEvent) /\ Len(events) =< Capacity
        /\ next_sequence \in Nat /\ now \in Nat
    BY DEF HostLogInv
  <2> QED
    BY <1>2, <1>5, <2>1, RecordedEvents
<1>7. events'[Len(events')].request = q
  BY <1>6 DEF Log!Event
<1> QED
  BY <1>4, <1>5, <1>7

\* The host's counts are those of module ClientCounts, for every sequence of
\* requests, grants and refusals: what a host does to its table is what the
\* counting alone would do, and only a granted request does anything to it.
THEOREM HostCountsRefined == Spec => CountsRefined
<1>1. Init => Counts!Init
  BY DEF Init
<1>2. [Next]_vars => [Counts!Next]_(Counts!vars)
  BY HostStepCounts
<1>3. HostLogInv /\ HandleInv /\ [Next]_vars => HostLogInv' /\ HandleInv'
  BY HostKeepsLog
<1>4. HostLogInv /\ [Next]_vars =>
        [ buckets' # buckets =>
          LET newest == events'[Len(events')].request
          IN  newest.activated /\ newest.application = view'.application ]_vars
  BY OnlyGrantsMove
<1> QED
  BY <1>1, <1>2, <1>3, <1>4, HostLogInit, PTL DEF Spec, CountsRefined, Counts!Spec, GrantsDrive

-----------------------------------------------------------------------------
\* The counts of a host: buckets of entries, none of them from the future.
Entry == [cmid : Machines, seen : Nat]
Bucket == [application : Applications, entries : Seq(Entry)]

\* What a table holds: machine and instant, by application.
Holding(bs, a, e) ==
    \E b \in 1..Len(bs) : bs[b].application = a /\ \E i \in 1..Len(bs[b].entries) :
        bs[b].entries[i] = e

\* Expiry takes entries from the front.
LEMMA ExpireKeepsSome ==
    ASSUME NEW es \in Seq(Entry), NEW at \in Nat
    PROVE  /\ Counts!Expire(es, at) \in Seq(Entry)
           /\ \A i \in 1..Len(Counts!Expire(es, at)) : \E j \in 1..Len(es) :
                 Counts!Expire(es, at)[i] = es[j]
<1> DEFINE S == {i \in 1..Len(es) : Counts!Live(es[i], at)} \cup {Len(es) + 1}
           p == Counts!ExpiredPrefix(es, at)
<1>1. S \in SUBSET Nat /\ S # {} /\ Len(es) \in Nat
  OBVIOUS
<1>2. Min(S) \in 1..(Len(es) + 1)
  <2>1. Min(S) \in S
    BY <1>1, MinIsLeast
  <2> QED
    BY <1>1, <2>1
<1>3. p = Min(S) - 1
  BY DEF Counts!ExpiredPrefix, Counts!Min, Min
<1> HIDE DEF S
<1>4. p \in 0..Len(es)
  BY <1>1, <1>2, <1>3
<1>5. Counts!Expire(es, at) = SubSeq(es, p + 1, Len(es))
  BY DEF Counts!Expire, Counts!DropFirst
<1> HIDE DEF p
<1>6. /\ SubSeq(es, p + 1, Len(es)) \in Seq(Entry)
      /\ Len(SubSeq(es, p + 1, Len(es))) = Len(es) - p
      /\ \A i \in 1..(Len(es) - p) : SubSeq(es, p + 1, Len(es))[i] = es[i + p]
  BY <1>4, SuffixFacts
<1>7. \A i \in 1..(Len(es) - p) : i + p \in 1..Len(es)
  BY <1>1, <1>4
<1> QED
  BY <1>5, <1>6, <1>7

\* Recording a machine keeps entries that were there, and adds its own.
LEMMA RecordKeepsSome ==
    ASSUME NEW es \in Seq(Entry), NEW at \in Nat, NEW m \in Machines
    PROVE  /\ Counts!RecordIn(es, m, at) \in Seq(Entry)
           /\ \A i \in 1..Len(Counts!RecordIn(es, m, at)) :
                 \/ Counts!RecordIn(es, m, at)[i] = [cmid |-> m, seen |-> at]
                 \/ \E j \in 1..Len(es) : Counts!RecordIn(es, m, at)[i] = es[j]
<1> DEFINE r == Counts!Remaining(es, m)
           new == [cmid |-> m, seen |-> at]
           P == Counts!Positions(es, m)
<1>0. Len(es) \in Nat /\ MaxCached \in Nat \ {0} /\ new \in Entry
  BY HostAssumption DEF Entry
<1>1. r \in Seq(Entry) /\ \A i \in 1..Len(r) : \E j \in 1..Len(es) : r[i] = es[j]
  <2>1. CASE P # {}
    <3> DEFINE p == Counts!Min(P)
    <3>1. P \in SUBSET Nat /\ \A i \in P : i \in 1..Len(es)
      BY DEF Counts!Positions
    <3>2. p \in 1..Len(es)
      BY <2>1, <3>1, MinIsLeast DEF Min, Counts!Min
    <3>3. r = [i \in 1..(Len(es) - 1) |-> IF i < p THEN es[i] ELSE es[i + 1]]
      BY <2>1 DEF Counts!Remaining, Counts!RemoveAtPosition
    <3> HIDE DEF p, r
    <3>4. Len(es) - 1 \in Nat
      BY <1>0, <3>2
    <3>5. \A i \in 1..(Len(es) - 1) : i \in 1..Len(es) /\ i + 1 \in 1..Len(es)
      BY <1>0
    <3>6. \A i \in 1..(Len(es) - 1) : (IF i < p THEN es[i] ELSE es[i + 1]) \in Entry
      BY <3>5
    <3>7. r \in Seq(Entry) /\ Len(r) = Len(es) - 1
      BY <3>3, <3>4, <3>6
    <3> QED
      BY <3>3, <3>5, <3>7
  <2>2. CASE P = {} /\ Len(es) >= MaxCached
    <3>1. r = SubSeq(es, 1 + 1, Len(es))
      BY <2>2 DEF Counts!Remaining, Counts!DropFirst
    <3> HIDE DEF r
    <3>2. 1 \in 0..Len(es)
      BY <1>0, <2>2
    <3>3. /\ r \in Seq(Entry) /\ Len(r) = Len(es) - 1
          /\ \A i \in 1..(Len(es) - 1) : r[i] = es[i + 1]
      BY <3>1, <3>2, SuffixFacts
    <3>4. \A i \in 1..(Len(es) - 1) : i + 1 \in 1..Len(es)
      BY <1>0
    <3> QED
      BY <3>3, <3>4
  <2>3. CASE P = {} /\ ~(Len(es) >= MaxCached)
    <3>1. r = es
      BY <2>3 DEF Counts!Remaining
    <3> QED
      BY <3>1
  <2> QED
    BY <2>1, <2>2, <2>3
<1>2. Counts!RecordIn(es, m, at) = Append(r, new)
  BY DEF Counts!RecordIn
<1> HIDE DEF r, new
<1>3. /\ Append(r, new) \in Seq(Entry) /\ Len(Append(r, new)) = Len(r) + 1 /\ Len(r) \in Nat
      /\ \A i \in 1..Len(r) : Append(r, new)[i] = r[i]
      /\ Append(r, new)[Len(r) + 1] = new
  BY <1>0, <1>1
<1>4. \A i \in 1..(Len(r) + 1) : i \in 1..Len(r) \/ i = Len(r) + 1
  BY <1>3
<1> QED
  BY <1>1, <1>2, <1>3, <1>4 DEF new

\* There is a bucket whose newest entry is oldest.
LEMMA StalestBucketIsIn ==
    ASSUME NEW bs \in Seq(Bucket), Len(bs) >= 1, NEW at \in Nat
    PROVE  /\ Counts!Stalest(bs, at) \in 1..Len(bs)
           /\ \A j \in 1..Len(bs) :
                 Counts!NewestSeen(bs[Counts!Stalest(bs, at)], at) =< Counts!NewestSeen(bs[j], at)
<1> DEFINE n == Len(bs)
           times == {Counts!NewestSeen(bs[i], at) : i \in 1..n}
           most == {i \in 1..n : \A j \in 1..n :
                       Counts!NewestSeen(bs[i], at) =< Counts!NewestSeen(bs[j], at)}
<1>1. n \in Nat /\ 1 \in 1..n
  OBVIOUS
<1>2. ASSUME NEW i \in 1..n PROVE Counts!NewestSeen(bs[i], at) \in Nat
  <2> DEFINE es == bs[i].entries
  <2>1. bs[i] \in Bucket
    OBVIOUS
  <2>2. es \in Seq(Entry)
    BY <2>1 DEF Bucket
  <2>3. CASE es = <<>>
    BY <2>3 DEF Counts!NewestSeen
  <2>4. CASE es # <<>>
    <3> HIDE DEF es
    <3>1. es[Len(es)] \in Entry
      BY <2>2, <2>4
    <3>2. es[Len(es)].seen \in Nat
      BY <3>1 DEF Entry
    <3> QED
      BY <2>4, <3>2 DEF Counts!NewestSeen, es
  <2> QED
    BY <2>3, <2>4
<1>3. times \in SUBSET Nat /\ times # {}
  BY <1>1, <1>2
<1>4. PICK least \in times : \A x \in times : least =< x
  BY <1>3, LeastExists
<1>5. most # {} /\ most \in SUBSET Nat
  BY <1>1, <1>4
<1>6. Min(most) \in most
  BY <1>5, MinIsLeast
<1>7. Counts!Stalest(bs, at) = Counts!Min(most)
  BY DEF Counts!Stalest
<1>8. Counts!Stalest(bs, at) \in most
  <2> HIDE DEF most
  <2> QED
    BY <1>6, <1>7 DEF Min, Counts!Min
<1> QED
  BY <1>8

\* The bucket an application gets: its own with what it held, or an empty one; the
\* others are as before.
LEMMA BucketGiven ==
    ASSUME NEW bs \in Seq(Bucket), NEW a \in Applications, NEW at \in Nat
    PROVE  LET given == Counts!BucketFor(bs, a, at)
               cs == given.buckets
           IN  /\ cs \in Seq(Bucket) /\ given.index \in 1..Len(cs)
               /\ cs[given.index].application = a
               /\ \A x \in Applications, e \in Entry : Holding(cs, x, e) => Holding(bs, x, e)
<1> DEFINE given == Counts!BucketFor(bs, a, at)
           cs == given.buckets
           own == Counts!BucketsOf(bs, a)
           n == Len(bs)
           new == Counts!EmptyBucket(a)
<1>0. n \in Nat /\ MaxApplications \in Nat \ {0}
  BY HostAssumption
<1>1. own = {i \in 1..n : bs[i].application = a}
  BY DEF Counts!BucketsOf
<1>2. new \in Bucket /\ new.application = a /\ new.entries = <<>>
  BY DEF Counts!EmptyBucket, Bucket
<1>3. \A i \in 1..Len(new.entries) : FALSE
  BY <1>2
<1> HIDE DEF own, new
<1>4. CASE own # {}
  <2>1. given = [index |-> Counts!Min(own), buckets |-> bs]
    BY <1>4 DEF Counts!BucketFor, own
  <2>2. own \in SUBSET Nat
    BY <1>1
  <2>3. Counts!Min(own) \in own
    BY <1>4, <2>2, MinIsLeast DEF Min, Counts!Min
  <2> HIDE DEF given
  <2>4. given.index \in own /\ given.buckets = bs
    BY <2>1, <2>3
  <2> QED
    BY <1>1, <2>4 DEF given
<1>5. CASE own = {} /\ n < MaxApplications
  <2> DEFINE c == Append(bs, new)
  <2>1. given = [index |-> n + 1, buckets |-> c]
    BY <1>5 DEF Counts!BucketFor, own, new
  <2> HIDE DEF given
  <2>2. given.index = n + 1 /\ given.buckets = c
    BY <2>1
  <2>3. /\ c \in Seq(Bucket) /\ Len(c) = n + 1 /\ c[n + 1] = new
        /\ \A i \in 1..n : c[i] = bs[i]
    BY <1>2
  <2> HIDE DEF c
  <2>4. \A i \in 1..Len(c) : (i \in 1..n /\ c[i] = bs[i]) \/ c[i] = new
    BY <1>0, <2>3
  <2>5. \A x \in Applications, e \in Entry : Holding(c, x, e) => Holding(bs, x, e)
    BY <1>3, <2>4 DEF Holding
  <2>6. n + 1 \in 1..Len(c)
    BY <1>0, <2>3
  <2> QED
    BY <1>2, <2>2, <2>3, <2>5, <2>6 DEF given
<1>6. CASE own = {} /\ ~(n < MaxApplications)
  <2> DEFINE s == Counts!Stalest(bs, at)
             c == [bs EXCEPT ![s] = new]
  <2>0. n >= 1
    BY <1>0, <1>6
  <2>1. s \in 1..n
    BY <2>0, StalestBucketIsIn
  <2>2. given = [index |-> s, buckets |-> c]
    BY <1>6 DEF Counts!BucketFor, own, new
  <2> HIDE DEF given, s
  <2>3. given.index = s /\ given.buckets = c
    BY <2>2
  <2>4. /\ c \in Seq(Bucket) /\ Len(c) = n /\ c[s] = new
        /\ \A i \in 1..n : i # s => c[i] = bs[i]
    BY <1>2, <2>1
  <2> HIDE DEF c
  <2>5. \A i \in 1..Len(c) : (i \in 1..n /\ c[i] = bs[i]) \/ c[i] = new
    BY <2>4
  <2>6. \A x \in Applications, e \in Entry : Holding(c, x, e) => Holding(bs, x, e)
    BY <1>3, <2>5 DEF Holding
  <2> QED
    BY <1>2, <2>1, <2>3, <2>4, <2>6 DEF given
<1> QED
  BY <1>4, <1>5, <1>6

\* Counting a machine adds that machine to its application, at this instant, and
\* nothing else.
LEMMA ObserveAddsOne ==
    ASSUME NEW bs \in Seq(Bucket), NEW a \in Applications, NEW m \in Machines, NEW at \in Nat
    PROVE  LET after == Counts!Observe(bs, a, m, at)
           IN  /\ after \in Seq(Bucket)
               /\ \A x \in Applications, e \in Entry :
                     Holding(after, x, e) =>
                        \/ Holding(bs, x, e)
                        \/ x = a /\ e = [cmid |-> m, seen |-> at]
<1> DEFINE given == Counts!BucketFor(bs, a, at)
           cs == given.buckets
           g == given.index
           kept == Counts!Expire(cs[g].entries, at)
           es == Counts!RecordIn(kept, m, at)
           after == Counts!Observe(bs, a, m, at)
           new == [cmid |-> m, seen |-> at]
<1>1. /\ cs \in Seq(Bucket) /\ g \in 1..Len(cs) /\ cs[g].application = a
      /\ \A x \in Applications, e \in Entry : Holding(cs, x, e) => Holding(bs, x, e)
  BY BucketGiven
<1>2. after = [cs EXCEPT ![g].entries = es]
  BY DEF Counts!Observe
<1> HIDE DEF given, after
<1>3. cs[g] \in Bucket
  BY <1>1
<1>4. cs[g].entries \in Seq(Entry)
  BY <1>3 DEF Bucket
<1>5. /\ kept \in Seq(Entry)
      /\ \A i \in 1..Len(kept) : \E j \in 1..Len(cs[g].entries) : kept[i] = cs[g].entries[j]
  BY <1>4, ExpireKeepsSome
<1> HIDE DEF kept
<1>6. /\ es \in Seq(Entry)
      /\ \A i \in 1..Len(es) : es[i] = new \/ \E j \in 1..Len(kept) : es[i] = kept[j]
  BY <1>5, RecordKeepsSome
<1> HIDE DEF es, new, cs, g
<1>7. \A i \in 1..Len(es) : es[i] = new \/ \E j \in 1..Len(cs[g].entries) : es[i] = cs[g].entries[j]
  BY <1>5, <1>6
<1> DEFINE own == [cs[g] EXCEPT !.entries = es]
<1>8. own \in Bucket /\ own.application = a /\ own.entries = es
  BY <1>1, <1>3, <1>6 DEF Bucket
<1>9. after = [cs EXCEPT ![g] = own]
  BY <1>2
<1> HIDE DEF own
<1>10. /\ after \in Seq(Bucket) /\ Len(after) = Len(cs) /\ after[g] = own
       /\ \A i \in 1..Len(cs) : i # g => after[i] = cs[i]
  BY <1>1, <1>8, <1>9
<1>11. ASSUME NEW x \in Applications, NEW e \in Entry, Holding(after, x, e)
       PROVE  Holding(cs, x, e) \/ (x = a /\ e = new)
  <2>1. PICK b \in 1..Len(after) : after[b].application = x
             /\ \E i \in 1..Len(after[b].entries) : after[b].entries[i] = e
    BY <1>11 DEF Holding
  <2>2. CASE b = g
    <3>1. x = a /\ \E i \in 1..Len(es) : es[i] = e
      BY <1>8, <1>10, <2>1, <2>2
    <3> QED
      BY <1>1, <1>7, <3>1 DEF Holding
  <2>3. CASE b # g
    BY <1>10, <2>1, <2>3 DEF Holding
  <2> QED
    BY <2>2, <2>3
<1> QED
  BY <1>1, <1>10, <1>11 DEF after, new

\* The log shows the grant an entry is held by.
Shown(a, e) ==
    \E k \in 1..Len(events) :
        /\ events[k].at = e.seen
        /\ events[k].request.cmid = e.cmid
        /\ events[k].request.application = a
        /\ events[k].request.activated

\* Every live entry is shown, while nothing was dropped for want of room.
CountsShown ==
    /\ buckets \in Seq(Bucket)
    /\ by_capacity = 0 /\ Retention >= Expiry =>
         \A a \in Applications, e \in Entry :
             Holding(buckets, a, e) /\ Counts!Live(e, now) => Shown(a, e)

\* What it takes to be so in the next state.
LEMMA ShownNext ==
    ASSUME buckets' \in Seq(Bucket),
           by_capacity' = 0 /\ Retention >= Expiry =>
             \A a \in Applications, e \in Entry :
                 Holding(buckets', a, e) /\ Counts!Live(e, now') => Shown(a, e)'
    PROVE  CountsShown'
BY DEF CountsShown, Holding, Counts!Live, Shown, Entry, Bucket

\* A grant that is shown and whose entry is live stays shown while nothing is
\* dropped for want of room: retention outlasts the count.
LEMMA ShownStays ==
    ASSUME HostLogInv, NEW q \in Requests, Log!Record(q), by_capacity' = 0,
           Retention >= Expiry, NEW a \in Applications, NEW e \in Entry,
           Counts!Live(e, now), Shown(a, e)
    PROVE  Shown(a, e)'
<1>1. /\ events \in Seq(Log!LoggedEvent) /\ Len(events) =< Capacity /\ Len(events) \in Nat
      /\ next_sequence \in Nat /\ now \in Nat /\ by_capacity \in Nat
  BY DEF HostLogInv
<1>2. PICK g \in 0..Len(events), k \in {0, 1} :
              /\ g = Log!Aged(events, now)
              /\ k = 1 <=> Len(events) - g >= Capacity
              /\ g + k =< Len(events)
              /\ by_capacity' = by_capacity + k
              /\ events' \in Seq(Log!LoggedEvent)
              /\ Len(events') = Len(events) - (g + k) + 1
              /\ \A i \in 1..(Len(events) - (g + k)) : events'[i] = events[i + (g + k)]
              /\ events'[Len(events')] = Log!Event(next_sequence, now, q)
  BY <1>1, RecordedEvents
<1>3. k = 0
  BY <1>1, <1>2
<1>4. PICK i \in 1..Len(events) : /\ events[i].at = e.seen
                                  /\ events[i].request.cmid = e.cmid
                                  /\ events[i].request.application = a
                                  /\ events[i].request.activated
  BY DEF Shown
<1>5. i > g
  <2>1. \A j \in 1..g : now - events[j].at >= Retention
    BY <1>1, <1>2, AgedOut
  <2>2. now - e.seen < Expiry /\ e.seen \in Nat
    BY DEF Counts!Live, Entry
  <2>3. i \notin 1..g
    BY <1>1, <1>4, <2>1, <2>2, LogConstants
  <2> QED
    BY <1>1, <1>2, <2>3
<1>6. i - g \in 1..(Len(events) - g) /\ (i - g) + g = i
  BY <1>1, <1>2, <1>5
<1>6a. /\ \A j \in 1..(Len(events) - g) : events'[j] = events[j + g]
       /\ Len(events') = Len(events) - g + 1
  BY <1>1, <1>2, <1>3
<1>7. events'[i - g] = events[i]
  BY <1>6, <1>6a
<1>8. i - g \in 1..Len(events')
  BY <1>1, <1>2, <1>6, <1>6a
<1> QED
  BY <1>4, <1>7, <1>8 DEF Shown

\* A decided request keeps every live entry shown: the one it adds by its own
\* event, the others by theirs.
LEMMA ActivateKeepsShown ==
    ASSUME HostLogInv, CountsShown, NEW r \in KmsRequest, Activate(r)
    PROVE  CountsShown'
<1> DEFINE q == [cmid |-> r.cmid, sku |-> r.sku, application |-> r.application,
                 activated |-> Granted(r)]
           new == [cmid |-> r.cmid, seen |-> now]
<1>1. Log!Record(q) /\ now' = now /\ now \in Nat
  BY DEF Activate, ActivateWith, Log!Record, HostLogInv
<1>2. /\ q \in Requests /\ q.cmid = r.cmid /\ q.application = r.application
      /\ q.activated = Granted(r)
      /\ r.application \in Applications /\ r.cmid \in Machines
  BY DEF KmsRequest, Requests, Granted
<1> HIDE DEF q
<1>3. /\ buckets' \in Seq(Bucket)
      /\ \A x \in Applications, e \in Entry :
            Holding(buckets', x, e) =>
               \/ Holding(buckets, x, e)
               \/ Granted(r) /\ x = r.application /\ e = new
  <2>1. CASE Granted(r) /\ Counts!ObserveRequest(r.application, r.cmid, r.demand)
    <3>1. buckets' = Counts!Observe(buckets, r.application, r.cmid, now)
      BY <2>1 DEF Counts!ObserveRequest
    <3>2. buckets \in Seq(Bucket)
      BY DEF CountsShown
    <3> QED
      BY <1>1, <1>2, <2>1, <3>1, <3>2, ObserveAddsOne
  <2>2. CASE ~Granted(r) /\ UNCHANGED counts
    <3>1. buckets' = buckets
      BY <2>2 DEF counts
    <3> QED
      BY <3>1 DEF CountsShown
  <2> QED
    BY <2>1, <2>2 DEF Activate, ActivateWith
<1>4. ASSUME by_capacity' = 0, Retention >= Expiry, NEW a \in Applications, NEW e \in Entry,
             Holding(buckets', a, e), Counts!Live(e, now)
      PROVE  Shown(a, e)'
  <2>1. /\ events \in Seq(Log!LoggedEvent) /\ Len(events) =< Capacity
        /\ next_sequence \in Nat /\ by_capacity \in Nat
    BY DEF HostLogInv
  <2>2. /\ by_capacity = 0 /\ Len(events') \in Nat \ {0}
        /\ events'[Len(events')] = Log!Event(next_sequence, now, q)
    <3>1. PICK g \in 0..Len(events), k \in {0, 1} :
              /\ g + k =< Len(events)
              /\ by_capacity' = by_capacity + k
              /\ Len(events') = Len(events) - (g + k) + 1
              /\ events'[Len(events')] = Log!Event(next_sequence, now, q)
      BY <1>1, <1>2, <2>1, RecordedEvents
    <3>2. Len(events) \in Nat
      BY <2>1
    <3> QED
      BY <1>4, <2>1, <3>1, <3>2
  <2>3. CASE Holding(buckets, a, e)
    <3>1. Shown(a, e)
      BY <1>4, <2>2, <2>3 DEF CountsShown
    <3> QED
      BY <1>1, <1>2, <1>4, <3>1, ShownStays
  <2>4. CASE Granted(r) /\ a = r.application /\ e = new
    <3>1. /\ events'[Len(events')].at = now /\ events'[Len(events')].request = q
      BY <2>2 DEF Log!Event
    <3>2. e.seen = now /\ e.cmid = r.cmid
      BY <2>4
    <3>3. Len(events') \in 1..Len(events')
      BY <2>2
    <3> QED
      BY <1>2, <2>4, <3>1, <3>2, <3>3 DEF Shown
  <2> QED
    BY <1>3, <1>4, <2>3, <2>4
<1> QED
  BY <1>1, <1>3, <1>4, ShownNext

\* So does every step: time only ends lives.
LEMMA HostKeepsShown ==
    ASSUME HostLogInv, CountsShown, [Next]_vars
    PROVE  CountsShown'
<1>1. CASE \E r \in KmsRequest : Activate(r)
  BY <1>1, ActivateKeepsShown
<1>2. ASSUME NEW d \in 1..Expiry, Tick(d) PROVE CountsShown'
  <2>1. UNCHANGED <<buckets, events, by_capacity>> /\ now' = now + d /\ now \in Nat
    BY <1>2 DEF Tick, counts, log, HostLogInv
  <2>2. \A e \in Entry : Counts!Live(e, now + d) => Counts!Live(e, now)
    <3> SUFFICES ASSUME NEW e \in Entry, Counts!Live(e, now + d) PROVE Counts!Live(e, now)
      OBVIOUS
    <3>1. e.seen \in Nat
      BY DEF Entry
    <3> QED
      BY <2>1, <3>1, LogConstants DEF Counts!Live
  <2>3. \A e \in Entry : Counts!Live(e, now') => Counts!Live(e, now)
    BY <2>1, <2>2
  <2>4. ASSUME by_capacity' = 0, Retention >= Expiry, NEW a \in Applications, NEW e \in Entry,
               Holding(buckets', a, e), Counts!Live(e, now')
        PROVE  Shown(a, e)'
    <3>1. Shown(a, e)
      BY <2>1, <2>3, <2>4 DEF CountsShown
    <3> QED
      BY <2>1, <3>1 DEF Shown
  <2>5. buckets' \in Seq(Bucket)
    BY <2>1 DEF CountsShown
  <2> QED
    BY <2>4, <2>5, ShownNext
<1>3. CASE EndHandle \/ UNCHANGED vars
  <2>1. UNCHANGED <<buckets, events, by_capacity, now>>
    BY <1>3 DEF EndHandle, vars, counts, log
  <2> QED
    BY <2>1 DEF CountsShown, Holding, Counts!Live, Shown, Entry, Bucket
<1> QED
  BY <1>1, <1>2, <1>3 DEF Next

\* The log explains the counts: for every table size, expiry and retention that
\* outlasts it, a machine the host holds as live was granted, at the instant it is
\* held since, by an event the log still shows, until the log first runs out of
\* room.
THEOREM HostLogExplainsCounts == Spec => []LogExplainsCounts
<1>1. Init => CountsShown
  <2> SUFFICES ASSUME Init PROVE CountsShown
    OBVIOUS
  <2>1. buckets = <<>>
    BY DEF Init, Counts!Init
  <2>2. \A i \in 1..Len(buckets) : FALSE
    BY <2>1
  <2> QED
    BY <2>1, <2>2 DEF CountsShown, Holding
<1>2. HostLogInv /\ HandleInv /\ CountsShown /\ [Next]_vars
        => (HostLogInv /\ HandleInv /\ CountsShown)'
  BY HostKeepsLog, HostKeepsShown
<1>3. CountsShown => LogExplainsCounts
  <2> SUFFICES ASSUME CountsShown, by_capacity = 0 /\ Retention >= Expiry,
                      NEW b \in 1..Len(buckets), NEW i \in 1..Len(buckets[b].entries),
                      Counts!Live(buckets[b].entries[i], now)
               PROVE  Shown(buckets[b].application, buckets[b].entries[i])
    BY DEF LogExplainsCounts, Shown
  <2>1. buckets[b] \in Bucket
    BY DEF CountsShown
  <2>2. buckets[b].application \in Applications /\ buckets[b].entries \in Seq(Entry)
    BY <2>1 DEF Bucket
  <2>3. buckets[b].entries[i] \in Entry
    BY <2>2
  <2>4. Holding(buckets, buckets[b].application, buckets[b].entries[i])
    BY DEF Holding
  <2> QED
    BY <2>2, <2>3, <2>4 DEF CountsShown
<1> QED
  BY <1>1, <1>2, <1>3, HostLogInit, PTL DEF Spec

-----------------------------------------------------------------------------
\* What is known of a machine that a bucket does not hold: it was never counted
\* since the bucket was made, or its time is over, or the bucket is full of
\* machines seen since.
Forgotten(es, s, at) ==
    \/ s = -1
    \/ at - s >= Expiry
    \/ Len(es) = MaxCached /\ \A i \in 1..Len(es) : s =< es[i].seen

\* A bucket against the times its application's machines were last counted.
Faithful(es, seen, at) ==
    /\ es \in Seq(Entry) /\ Len(es) =< MaxCached
    /\ \A i, j \in 1..Len(es) : es[i].cmid = es[j].cmid => i = j
    /\ \A i, j \in 1..Len(es) : i =< j => es[i].seen =< es[j].seen
    /\ \A i \in 1..Len(es) : es[i].seen =< at /\ seen[es[i].cmid] = es[i].seen
    /\ \A c \in Machines :
          (\A i \in 1..Len(es) : es[i].cmid # c) => Forgotten(es, seen[c], at)

Times == [Machines -> Nat \cup {-1}]

\* The part of HostAssumption the counts need.
LEMMA CountsConstants ==
    /\ MaxApplications \in Nat \ {0} /\ MaxTracked \in Nat \ {0} /\ MaxCached \in Nat \ {0}
    /\ Expiry \in Nat \ {0} /\ Demands \subseteq Nat /\ IsFiniteSet(Machines)
BY HostAssumption

\* The entries of a sequence, field by field.
LEMMA EntryFields ==
    ASSUME NEW es \in Seq(Entry)
    PROVE  /\ Len(es) \in Nat
           /\ \A i \in 1..Len(es) : es[i] \in Entry /\ es[i].cmid \in Machines /\ es[i].seen \in Nat
<1>1. \A i \in 1..Len(es) : es[i] \in Entry
  OBVIOUS
<1>2. \A e \in Entry : e.cmid \in Machines /\ e.seen \in Nat
  BY DEF Entry
<1> QED
  BY <1>1, <1>2

\* Expiry leaves a faithful bucket, in which every entry is live.
LEMMA ExpireFaithful ==
    ASSUME NEW es, NEW seen \in Times, NEW at \in Nat, Faithful(es, seen, at)
    PROVE  LET kept == Counts!Expire(es, at)
           IN  /\ Faithful(kept, seen, at)
               /\ \A i \in 1..Len(kept) : at - kept[i].seen < Expiry
<1> DEFINE n == Len(es)
           S == {i \in 1..n : Counts!Live(es[i], at)} \cup {n + 1}
           p == Counts!ExpiredPrefix(es, at)
           kept == Counts!Expire(es, at)
<1>0. /\ es \in Seq(Entry) /\ n =< MaxCached
      /\ \A i, j \in 1..n : es[i].cmid = es[j].cmid => i = j
      /\ \A i, j \in 1..n : i =< j => es[i].seen =< es[j].seen
      /\ \A i \in 1..n : es[i].seen =< at /\ seen[es[i].cmid] = es[i].seen
      /\ \A c \in Machines :
            (\A i \in 1..n : es[i].cmid # c) => Forgotten(es, seen[c], at)
  BY DEF Faithful
<1>1. n \in Nat /\ \A i \in 1..n : es[i].cmid \in Machines /\ es[i].seen \in Nat
  BY <1>0, EntryFields
<1>2. Expiry \in Nat \ {0} /\ MaxCached \in Nat \ {0}
  BY CountsConstants
<1>3. S \in SUBSET Nat /\ S # {}
  BY <1>1
<1>4. Min(S) \in S /\ \A j \in S : Min(S) =< j
  BY <1>3, MinIsLeast
<1>5. p = Min(S) - 1
  BY DEF Counts!ExpiredPrefix, Counts!Min, Min
<1>6. Min(S) \in 1..(n + 1)
  BY <1>1, <1>4
<1>7. \A i \in 1..n : Counts!Live(es[i], at) => i \in S
  OBVIOUS
<1>8. Min(S) # n + 1 => Counts!Live(es[Min(S)], at)
  BY <1>4
<1> HIDE DEF S, p
<1>9. p \in 0..n
  BY <1>1, <1>5, <1>6
<1>10. \A i \in 1..p : at - es[i].seen >= Expiry
  <2> SUFFICES ASSUME NEW i \in 1..p PROVE at - es[i].seen >= Expiry
    OBVIOUS
  <2>1. i \in 1..n /\ i < Min(S)
    BY <1>1, <1>5, <1>6
  <2>2. i \notin S
    <3> SUFFICES ASSUME i \in S PROVE FALSE
      OBVIOUS
    <3>1. Min(S) =< i /\ Min(S) \in Nat /\ i \in Nat
      BY <1>3, <1>4
    <3> QED
      BY <2>1, <3>1
  <2> QED
    BY <1>1, <1>2, <1>7, <2>1, <2>2 DEF Counts!Live
<1>11. p < n => at - es[p + 1].seen < Expiry
  <2> SUFFICES ASSUME p < n PROVE at - es[p + 1].seen < Expiry
    OBVIOUS
  <2>1. p + 1 = Min(S) /\ Min(S) # n + 1
    BY <1>1, <1>5, <1>6
  <2> QED
    BY <1>8, <2>1 DEF Counts!Live
<1>12. kept = SubSeq(es, p + 1, n)
  BY DEF Counts!Expire, Counts!DropFirst, p
<1> HIDE DEF kept
<1>13. /\ kept \in Seq(Entry) /\ Len(kept) = n - p
       /\ \A i \in 1..(n - p) : kept[i] = es[i + p]
  BY <1>0, <1>9, <1>12, SuffixFacts
<1> HIDE DEF n
<1>14. \A i \in 1..(n - p) : i + p \in 1..n
  BY <1>1, <1>9
<1>15. \A i, j \in 1..(n - p) : kept[i].cmid = kept[j].cmid => i = j
  <2> SUFFICES ASSUME NEW i \in 1..(n - p), NEW j \in 1..(n - p), kept[i].cmid = kept[j].cmid
               PROVE  i = j
    OBVIOUS
  <2>1. i + p = j + p
    BY <1>0, <1>13, <1>14
  <2> QED
    BY <1>1, <1>9, <2>1
<1>16. \A i, j \in 1..(n - p) : i =< j => kept[i].seen =< kept[j].seen
  <2> SUFFICES ASSUME NEW i \in 1..(n - p), NEW j \in 1..(n - p), i =< j
               PROVE  kept[i].seen =< kept[j].seen
    OBVIOUS
  <2>1. i + p =< j + p
    BY <1>1, <1>9
  <2> QED
    BY <1>0, <1>13, <1>14, <2>1
<1>17. \A i \in 1..(n - p) : kept[i].seen =< at /\ seen[kept[i].cmid] = kept[i].seen
  BY <1>0, <1>13, <1>14
<1>18. \A i \in 1..(n - p) : at - kept[i].seen < Expiry
  <2> SUFFICES ASSUME NEW i \in 1..(n - p) PROVE at - kept[i].seen < Expiry
    OBVIOUS
  <2>1. p < n /\ p + 1 \in 1..n /\ p + 1 =< i + p /\ i + p \in 1..n
    BY <1>1, <1>9
  <2>2. es[p + 1].seen =< es[i + p].seen
    BY <1>0, <2>1
  <2>3. /\ at - es[p + 1].seen < Expiry /\ kept[i] = es[i + p]
        /\ es[p + 1].seen \in Nat /\ es[i + p].seen \in Nat
    BY <1>1, <1>11, <1>13, <2>1
  <2>4. at - es[i + p].seen < Expiry
    BY <1>2, <2>2, <2>3
  <2> QED
    BY <2>3, <2>4
<1>19. ASSUME NEW c \in Machines, \A i \in 1..(n - p) : kept[i].cmid # c
       PROVE  Forgotten(kept, seen[c], at)
  <2>0. seen[c] \in Int
    BY DEF Times
  <2>1. CASE \E j \in 1..n : es[j].cmid = c
    <3>1. PICK j \in 1..n : es[j].cmid = c
      BY <2>1
    <3>2. j \in 1..p
      <4> SUFFICES ASSUME ~(j =< p) PROVE FALSE
        BY <1>1, <1>9
      <4>1. j - p \in 1..(n - p) /\ (j - p) + p = j
        BY <1>1, <1>9
      <4>2. kept[j - p].cmid = c
        BY <1>13, <3>1, <4>1
      <4> QED
        BY <1>19, <4>1, <4>2
    <3>3. at - seen[c] >= Expiry
      BY <1>0, <1>10, <3>1, <3>2
    <3> QED
      BY <3>3 DEF Forgotten
  <2>2. CASE \A j \in 1..n : es[j].cmid # c
    <3>1. Forgotten(es, seen[c], at)
      BY <1>0, <2>2
    <3>2. CASE seen[c] = -1 \/ at - seen[c] >= Expiry
      BY <3>2 DEF Forgotten
    <3>3. CASE n = MaxCached /\ \A i \in 1..n : seen[c] =< es[i].seen
      <4>1. CASE p = 0
        <5>1. Len(kept) = MaxCached /\ \A i \in 1..Len(kept) : seen[c] =< kept[i].seen
          BY <1>1, <1>13, <1>14, <3>3, <4>1
        <5> QED
          BY <5>1 DEF Forgotten
      <4>2. CASE p # 0
        <5>1. 1 \in 1..p /\ 1 \in 1..n
          BY <1>1, <1>9, <4>2
        <5>2. at - es[1].seen >= Expiry /\ seen[c] =< es[1].seen /\ es[1].seen \in Nat
          BY <1>1, <1>10, <3>3, <5>1
        <5>3. at - seen[c] >= Expiry
          BY <1>2, <2>0, <5>2
        <5> QED
          BY <5>3 DEF Forgotten
      <4> QED
        BY <4>1, <4>2
    <3> QED
      BY <3>1, <3>2, <3>3 DEF Forgotten, n
  <2> QED
    BY <2>1, <2>2
<1>20. n - p =< MaxCached
  BY <1>0, <1>1, <1>2, <1>9 DEF n
<1>21. Faithful(kept, seen, at)
  BY <1>13, <1>15, <1>16, <1>17, <1>19, <1>20 DEF Faithful
<1> QED
  BY <1>13, <1>18, <1>21 DEF kept

\* What recording leaves of the others: all of them if there is room, and otherwise
\* all but one, the machine's own old entry or the oldest.
LEMMA RemainingShape ==
    ASSUME NEW es \in Seq(Entry), NEW m \in Machines
    PROVE  LET r == Counts!Remaining(es, m)
           IN  \/ /\ r = es /\ Len(es) < MaxCached
                  /\ \A i \in 1..Len(es) : es[i].cmid # m
               \/ \E x \in 1..Len(es) :
                     /\ r \in Seq(Entry) /\ Len(r) = Len(es) - 1
                     /\ \A i \in 1..(Len(es) - 1) : r[i] = es[IF i < x THEN i ELSE i + 1]
                     /\ \/ es[x].cmid = m
                        \/ /\ x = 1 /\ Len(es) >= MaxCached
                           /\ \A i \in 1..Len(es) : es[i].cmid # m
<1> DEFINE r == Counts!Remaining(es, m)
           P == Counts!Positions(es, m)
           n == Len(es)
<1>0. n \in Nat /\ MaxCached \in Nat \ {0}
  BY CountsConstants
<1>1. P = {i \in 1..n : es[i].cmid = m}
  BY DEF Counts!Positions
<1> HIDE DEF P
<1>2. CASE P # {}
  <2> DEFINE x == Counts!Min(P)
  <2>1. P \in SUBSET Nat
    BY <1>1
  <2>2. x \in P
    BY <1>2, <2>1, MinIsLeast DEF Min, Counts!Min
  <2>3. r = [i \in 1..(n - 1) |-> IF i < x THEN es[i] ELSE es[i + 1]]
    BY <1>2 DEF Counts!Remaining, Counts!RemoveAtPosition, P
  <2> HIDE DEF x, r
  <2>4. x \in 1..n /\ es[x].cmid = m
    BY <1>1, <2>2
  <2>5. n - 1 \in Nat /\ \A i \in 1..(n - 1) : i \in 1..n /\ i + 1 \in 1..n
    BY <1>0, <2>4
  <2>6. \A i \in 1..(n - 1) : (IF i < x THEN es[i] ELSE es[i + 1]) \in Entry
    BY <2>5
  <2>7. r \in Seq(Entry) /\ Len(r) = n - 1
    BY <2>3, <2>5, <2>6
  <2>8. \A i \in 1..(n - 1) : r[i] = es[IF i < x THEN i ELSE i + 1]
    BY <2>3
  <2> QED
    BY <2>4, <2>7, <2>8 DEF r
<1>3. CASE P = {} /\ n >= MaxCached
  <2>1. r = SubSeq(es, 1 + 1, n)
    BY <1>3 DEF Counts!Remaining, Counts!DropFirst, P
  <2> HIDE DEF r
  <2>2. 1 \in 0..n /\ 1 \in 1..n
    BY <1>0, <1>3
  <2>3. r \in Seq(Entry) /\ Len(r) = n - 1 /\ \A i \in 1..(n - 1) : r[i] = es[i + 1]
    BY <2>1, <2>2, SuffixFacts
  <2>4. \A i \in 1..(n - 1) : r[i] = es[IF i < 1 THEN i ELSE i + 1]
    BY <1>0, <2>3
  <2>5. \A i \in 1..n : es[i].cmid # m
    BY <1>1, <1>3
  <2> QED
    BY <1>3, <2>2, <2>3, <2>4, <2>5 DEF r
<1>4. CASE P = {} /\ ~(n >= MaxCached)
  <2>1. r = es /\ n < MaxCached
    BY <1>0, <1>4 DEF Counts!Remaining, P
  <2> QED
    BY <1>1, <1>4, <2>1
<1> QED
  BY <1>2, <1>3, <1>4

\* A machine that the others leave out is forgotten for a reason, once one more
\* is held.
Missed(r, s, at) ==
    \/ s = -1
    \/ at - s >= Expiry
    \/ Len(r) + 1 = MaxCached /\ s =< at /\ \A i \in 1..Len(r) : s =< r[i].seen

\* The others, against the times: what Remaining leaves of a bucket.
Others(r, m, seen, at) ==
    /\ r \in Seq(Entry) /\ Len(r) + 1 =< MaxCached
    /\ \A i, j \in 1..Len(r) : r[i].cmid = r[j].cmid => i = j
    /\ \A i, j \in 1..Len(r) : i =< j => r[i].seen =< r[j].seen
    /\ \A i \in 1..Len(r) : /\ r[i].seen =< at /\ seen[r[i].cmid] = r[i].seen
                            /\ r[i].cmid # m /\ at - r[i].seen < Expiry
    /\ \A c \in Machines :
          c # m /\ (\A i \in 1..Len(r) : r[i].cmid # c) => Missed(r, seen[c], at)

LEMMA RemainingIsOthers ==
    ASSUME NEW es, NEW seen \in Times, NEW at \in Nat, NEW m \in Machines,
           Faithful(es, seen, at), \A i \in 1..Len(es) : at - es[i].seen < Expiry
    PROVE  Others(Counts!Remaining(es, m), m, seen, at)
<1> DEFINE n == Len(es)
           r == Counts!Remaining(es, m)
<1>0. /\ es \in Seq(Entry) /\ n =< MaxCached
      /\ \A i, j \in 1..n : es[i].cmid = es[j].cmid => i = j
      /\ \A i, j \in 1..n : i =< j => es[i].seen =< es[j].seen
      /\ \A i \in 1..n : es[i].seen =< at /\ seen[es[i].cmid] = es[i].seen
      /\ \A c \in Machines :
            (\A i \in 1..n : es[i].cmid # c) => Forgotten(es, seen[c], at)
  BY DEF Faithful
<1>1. n \in Nat /\ \A i \in 1..n : es[i].cmid \in Machines /\ es[i].seen \in Nat
  BY <1>0, EntryFields
<1>2. Expiry \in Nat \ {0} /\ MaxCached \in Nat \ {0}
  BY CountsConstants
<1>3. \A c \in Machines : seen[c] \in Int
  BY DEF Times
<1>4. CASE r = es /\ n < MaxCached /\ \A i \in 1..n : es[i].cmid # m
  <2> HIDE DEF r
  <2>1. ASSUME NEW c \in Machines, \A i \in 1..n : es[i].cmid # c
        PROVE  Missed(es, seen[c], at)
    <3>1. Forgotten(es, seen[c], at)
      BY <1>0, <2>1
    <3>2. seen[c] = -1 \/ at - seen[c] >= Expiry
      BY <1>1, <1>2, <1>4, <3>1 DEF Forgotten
    <3> QED
      BY <3>2 DEF Missed
  <2>2. Len(es) + 1 =< MaxCached
    BY <1>1, <1>2, <1>4
  <2>3. Others(es, m, seen, at)
    BY <1>0, <1>4, <2>1, <2>2 DEF Others
  <2> QED
    BY <1>4, <2>3 DEF r
<1>5. ASSUME NEW x \in 1..n, r \in Seq(Entry), Len(r) = n - 1,
             \A i \in 1..(n - 1) : r[i] = es[IF i < x THEN i ELSE i + 1],
             \/ es[x].cmid = m
             \/ x = 1 /\ n >= MaxCached /\ \A i \in 1..n : es[i].cmid # m
      PROVE  Others(r, m, seen, at)
  <2> DEFINE from(i) == IF i < x THEN i ELSE i + 1
  <2> HIDE DEF r, n
  <2>1. \A i \in 1..(n - 1) : from(i) \in 1..n /\ from(i) # x
    BY <1>1
  <2>2. \A i, j \in 1..(n - 1) : (from(i) = from(j) => i = j) /\ (i =< j => from(i) =< from(j))
    BY <1>1
  <2>3. \A j \in 1..n : j # x => \E i \in 1..(n - 1) : from(i) = j
    <3> SUFFICES ASSUME NEW j \in 1..n, j # x PROVE \E i \in 1..(n - 1) : from(i) = j
      OBVIOUS
    <3>1. CASE j < x
      <4>1. j \in 1..(n - 1) /\ from(j) = j
        BY <1>1, <3>1
      <4> QED
        BY <4>1
    <3>2. CASE j > x
      <4>1. j - 1 \in 1..(n - 1) /\ from(j - 1) = j
        BY <1>1, <3>2
      <4> QED
        BY <4>1
    <3> QED
      BY <1>1, <3>1, <3>2
  <2>4. \A i \in 1..(n - 1) : r[i] = es[from(i)]
    BY <1>5
  <2> HIDE DEF from
  <2>5. \A i, j \in 1..(n - 1) : r[i].cmid = r[j].cmid => i = j
    <3> SUFFICES ASSUME NEW i \in 1..(n - 1), NEW j \in 1..(n - 1), r[i].cmid = r[j].cmid
                 PROVE  i = j
      OBVIOUS
    <3>0. /\ from(i) \in 1..n /\ from(j) \in 1..n
          /\ es[from(i)].cmid = es[from(j)].cmid
      BY <2>1, <2>4
    <3>1. from(i) = from(j)
      BY <1>0, <3>0 DEF n
    <3> QED
      BY <2>2, <3>1
  <2>6. \A i, j \in 1..(n - 1) : i =< j => r[i].seen =< r[j].seen
    <3> SUFFICES ASSUME NEW i \in 1..(n - 1), NEW j \in 1..(n - 1), i =< j
                 PROVE  r[i].seen =< r[j].seen
      OBVIOUS
    <3>1. from(i) =< from(j) /\ from(i) \in 1..n /\ from(j) \in 1..n
      BY <2>1, <2>2
    <3>2. es[from(i)].seen =< es[from(j)].seen
      BY <1>0, <3>1 DEF n
    <3> QED
      BY <2>4, <3>2
  <2>7. ASSUME NEW i \in 1..(n - 1)
        PROVE  /\ r[i].seen =< at /\ seen[r[i].cmid] = r[i].seen
               /\ r[i].cmid # m /\ at - r[i].seen < Expiry
    <3>1. from(i) \in 1..n /\ from(i) # x /\ r[i] = es[from(i)]
      BY <2>1, <2>4
    <3>2. es[from(i)].cmid # m
      BY <1>0, <1>5, <3>1 DEF n
    <3> QED
      BY <1>0, <3>1, <3>2 DEF n
  <2>8. ASSUME NEW c \in Machines, c # m, \A i \in 1..(n - 1) : r[i].cmid # c
        PROVE  Missed(r, seen[c], at)
    <3>0. \A j \in 1..n : es[j].cmid = c => j = x
      <4> SUFFICES ASSUME NEW j \in 1..n, es[j].cmid = c, j # x PROVE FALSE
        OBVIOUS
      <4>1. PICK i \in 1..(n - 1) : from(i) = j
        BY <2>3
      <4> QED
        BY <2>4, <2>8, <4>1
    <3>1. CASE \A j \in 1..n : es[j].cmid # c
      <4>1. Forgotten(es, seen[c], at)
        BY <1>0, <3>1 DEF n
      <4>2. CASE seen[c] = -1 \/ at - seen[c] >= Expiry
        BY <4>2 DEF Missed
      <4>3. CASE n = MaxCached /\ \A i \in 1..n : seen[c] =< es[i].seen
        <5>1. \A i \in 1..(n - 1) : seen[c] =< r[i].seen
          BY <2>1, <2>4, <4>3
        <5>2. seen[c] =< es[x].seen /\ es[x].seen =< at /\ es[x].seen \in Nat
          BY <1>0, <1>1, <4>3 DEF n
        <5>3. seen[c] =< at
          BY <1>3, <5>2
        <5>4. Len(r) + 1 = MaxCached
          BY <1>1, <1>5, <4>3
        <5> QED
          BY <1>5, <5>1, <5>3, <5>4 DEF Missed
      <4> QED
        BY <4>1, <4>2, <4>3 DEF Forgotten, n
    <3>2. CASE \E j \in 1..n : es[j].cmid = c
      <4>1. es[x].cmid = c
        BY <3>0, <3>2
      <4>2. x = 1 /\ n >= MaxCached
        BY <1>5, <2>8, <4>1
      <4>3. seen[c] = es[1].seen /\ es[1].seen =< at
        BY <1>0, <4>1, <4>2 DEF n
      <4>4. \A i \in 1..(n - 1) : from(i) >= 1
        BY <1>1, <2>1
      <4>5. \A i \in 1..(n - 1) : seen[c] =< r[i].seen
        <5> SUFFICES ASSUME NEW i \in 1..(n - 1) PROVE seen[c] =< r[i].seen
          OBVIOUS
        <5>1. 1 =< from(i) /\ from(i) \in 1..n /\ 1 \in 1..n
          BY <2>1, <4>2, <4>4
        <5>2. es[1].seen =< es[from(i)].seen
          BY <1>0, <5>1 DEF n
        <5> QED
          BY <2>4, <4>3, <5>2
      <4>6. Len(r) + 1 = MaxCached
        BY <1>0, <1>1, <1>2, <1>5, <4>2 DEF n
      <4> QED
        BY <1>5, <4>3, <4>5, <4>6 DEF Missed
    <3> QED
      BY <3>1, <3>2
  <2>9. Len(r) + 1 =< MaxCached
    BY <1>0, <1>1, <1>2, <1>5 DEF n
  <2> QED
    BY <1>5, <2>5, <2>6, <2>7, <2>8, <2>9 DEF Others
<1>6. \/ r = es /\ n < MaxCached /\ \A i \in 1..n : es[i].cmid # m
      \/ \E x \in 1..n :
            /\ r \in Seq(Entry) /\ Len(r) = n - 1
            /\ \A i \in 1..(n - 1) : r[i] = es[IF i < x THEN i ELSE i + 1]
            /\ \/ es[x].cmid = m
               \/ x = 1 /\ n >= MaxCached /\ \A i \in 1..n : es[i].cmid # m
  BY <1>0, RemainingShape
<1> QED
  BY <1>4, <1>5, <1>6

\* Recording keeps a bucket faithful: the times move with it.
LEMMA RecordFaithful ==
    ASSUME NEW r, NEW seen \in Times, NEW at \in Nat, NEW m \in Machines,
           Others(r, m, seen, at)
    PROVE  LET out == Append(r, [cmid |-> m, seen |-> at])
           IN  /\ Faithful(out, [seen EXCEPT ![m] = at], at) /\ Len(out) >= 1
               /\ \A i \in 1..Len(out) : at - out[i].seen < Expiry
<1> DEFINE new == [cmid |-> m, seen |-> at]
           out == Append(r, new)
           n == Len(r)
           after == [seen EXCEPT ![m] = at]
<1>0. /\ r \in Seq(Entry) /\ n + 1 =< MaxCached
      /\ \A i, j \in 1..n : r[i].cmid = r[j].cmid => i = j
      /\ \A i, j \in 1..n : i =< j => r[i].seen =< r[j].seen
      /\ \A i \in 1..n : /\ r[i].seen =< at /\ seen[r[i].cmid] = r[i].seen
                         /\ r[i].cmid # m /\ at - r[i].seen < Expiry
      /\ \A c \in Machines :
            c # m /\ (\A i \in 1..n : r[i].cmid # c) => Missed(r, seen[c], at)
  BY DEF Others
<1>1. n \in Nat /\ \A i \in 1..n : r[i].cmid \in Machines /\ r[i].seen \in Nat
  BY <1>0, EntryFields
<1>2. Expiry \in Nat \ {0} /\ MaxCached \in Nat \ {0}
  BY CountsConstants
<1>3. new \in Entry /\ new.cmid = m /\ new.seen = at
  BY DEF Entry
<1> HIDE DEF new
<1>4. /\ out \in Seq(Entry) /\ Len(out) = n + 1 /\ out[n + 1] = new
      /\ \A i \in 1..n : out[i] = r[i]
  BY <1>0, <1>3
<1>5. after[m] = at /\ \A c \in Machines : c # m => after[c] = seen[c]
  BY DEF Times
<1> HIDE DEF out, n, after
<1>6. \A i \in 1..(n + 1) : (i \in 1..n /\ out[i] = r[i]) \/ (i = n + 1 /\ out[i] = new)
  BY <1>1, <1>4
<1>7. \A i, j \in 1..(n + 1) : out[i].cmid = out[j].cmid => i = j
  BY <1>0, <1>3, <1>6 DEF n
<1>8. \A i, j \in 1..(n + 1) : i =< j => out[i].seen =< out[j].seen
  <2> SUFFICES ASSUME NEW i \in 1..(n + 1), NEW j \in 1..(n + 1), i =< j
               PROVE  out[i].seen =< out[j].seen
    OBVIOUS
  <2>1. CASE j = n + 1 /\ out[j] = new
    BY <1>0, <1>3, <1>6, <2>1 DEF n
  <2>2. CASE j \in 1..n /\ out[j] = r[j]
    <3>1. i \in 1..n /\ out[i] = r[i]
      BY <1>1, <1>6, <2>2
    <3> QED
      BY <1>0, <2>2, <3>1 DEF n
  <2> QED
    BY <1>6, <2>1, <2>2
<1>9. \A i \in 1..(n + 1) : out[i].seen =< at /\ after[out[i].cmid] = out[i].seen
  <2>1. ASSUME NEW i \in 1..n PROVE r[i].seen =< at /\ after[r[i].cmid] = r[i].seen
    <3>1. /\ r[i].seen =< at /\ seen[r[i].cmid] = r[i].seen /\ r[i].cmid # m
          /\ r[i].cmid \in Machines
      BY <1>0, <1>1 DEF n
    <3> QED
      BY <1>5, <3>1
  <2>2. new.seen =< at /\ after[new.cmid] = new.seen
    BY <1>3, <1>5
  <2> QED
    BY <1>6, <2>1, <2>2
<1>10. \A i \in 1..(n + 1) : at - out[i].seen < Expiry
  BY <1>0, <1>2, <1>3, <1>6 DEF n
<1>11. ASSUME NEW c \in Machines, \A i \in 1..(n + 1) : out[i].cmid # c
       PROVE  Forgotten(out, after[c], at)
  <2>1. n + 1 \in 1..(n + 1) /\ \A i \in 1..n : i \in 1..(n + 1)
    BY <1>1
  <2>2. c # m /\ \A i \in 1..n : r[i].cmid # c
    BY <1>3, <1>4, <1>11, <2>1
  <2>3. Missed(r, seen[c], at) /\ after[c] = seen[c]
    BY <1>0, <1>5, <2>2 DEF n
  <2>4. CASE seen[c] = -1 \/ at - seen[c] >= Expiry
    BY <2>3, <2>4 DEF Forgotten
  <2>5. CASE n + 1 = MaxCached /\ seen[c] =< at /\ \A i \in 1..n : seen[c] =< r[i].seen
    <3>1. \A i \in 1..(n + 1) : seen[c] =< out[i].seen
      BY <1>3, <1>6, <2>5
    <3> QED
      BY <1>4, <2>3, <2>5, <3>1 DEF Forgotten
  <2> QED
    BY <2>3, <2>4, <2>5 DEF Missed, n
<1>12. Faithful(out, after, at)
  BY <1>0, <1>4, <1>7, <1>8, <1>9, <1>11 DEF Faithful, n
<1> QED
  BY <1>1, <1>4, <1>10, <1>12 DEF out, new, after

\* So the count is exact: a bucket in which every entry is live holds as many
\* machines as are live, up to its capacity.
LEMMA CountOfFaithful ==
    ASSUME NEW es, NEW seen \in Times, NEW at \in Nat, Faithful(es, seen, at),
           \A i \in 1..Len(es) : at - es[i].seen < Expiry
    PROVE  LET live == {c \in Machines : seen[c] # -1 /\ at - seen[c] < Expiry}
           IN  Len(es) = Counts!Least2(Cardinality(live), MaxCached)
<1> DEFINE live == {c \in Machines : seen[c] # -1 /\ at - seen[c] < Expiry}
           held == {es[i].cmid : i \in 1..Len(es)}
           n == Len(es)
           f == [i \in 1..n |-> es[i].cmid]
<1>0. /\ es \in Seq(Entry) /\ n =< MaxCached
      /\ \A i, j \in 1..n : es[i].cmid = es[j].cmid => i = j
      /\ \A i \in 1..n : seen[es[i].cmid] = es[i].seen
      /\ \A c \in Machines :
            (\A i \in 1..n : es[i].cmid # c) => Forgotten(es, seen[c], at)
  BY DEF Faithful
<1>1. n \in Nat /\ \A i \in 1..n : es[i].cmid \in Machines /\ es[i].seen \in Nat
  BY <1>0, EntryFields
<1>2. MaxCached \in Nat \ {0} /\ IsFiniteSet(Machines) /\ Expiry \in Nat
  BY CountsConstants
<1>3. IsFiniteSet(live) /\ Cardinality(live) \in Nat
  BY <1>2, FS_Subset, FS_CardinalityType
<1>4. held \subseteq live
  BY <1>0, <1>1
<1>5. Cardinality(held) = n
  <2>1. f \in Bijection(1..n, held)
    <3>1. f \in [1..n -> held] /\ \A i, j \in 1..n : f[i] = f[j] => i = j
      BY <1>0
    <3>2. \A h \in held : \E i \in 1..n : f[i] = h
      OBVIOUS
    <3> HIDE DEF f, held
    <3> QED
      BY <3>1, <3>2 DEF Bijection, Injection, Surjection, IsInjective
  <2>2. ExistsBijection(1..n, held)
    BY <2>1 DEF ExistsBijection
  <2> QED
    BY <1>1, <2>2, FS_CountingElements
<1>6. n =< Cardinality(live)
  BY <1>3, <1>4, <1>5, FS_Subset
<1>7. n < MaxCached => live \subseteq held
  <2> SUFFICES ASSUME n < MaxCached, NEW c \in live, c \notin held PROVE FALSE
    OBVIOUS
  <2>1. \A i \in 1..n : es[i].cmid # c
    OBVIOUS
  <2>2. Forgotten(es, seen[c], at)
    BY <1>0, <2>1
  <2>3. seen[c] \in Int /\ seen[c] # -1 /\ at - seen[c] < Expiry
    BY DEF Times
  <2> QED
    BY <1>1, <1>2, <2>2, <2>3 DEF Forgotten
<1>8. CASE n < MaxCached
  <2>1. live = held
    BY <1>4, <1>7, <1>8
  <2>2. Cardinality(live) = n
    BY <1>5, <2>1
  <2> HIDE DEF live, n
  <2> QED
    BY <1>1, <1>2, <1>8, <2>2 DEF Counts!Least2, live, n
<1>9. CASE ~(n < MaxCached)
  <2>1. n = MaxCached
    BY <1>0, <1>1, <1>2, <1>9
  <2> HIDE DEF live
  <2>2. Counts!Least2(Cardinality(live), MaxCached) = MaxCached
    BY <1>2, <1>3, <1>6, <2>1 DEF Counts!Least2
  <2> QED
    BY <2>1, <2>2 DEF live
<1> QED
  BY <1>8, <1>9

\* One bucket to an application.
OneEach(bs) == \A i, j \in 1..Len(bs) : bs[i].application = bs[j].application => i = j

\* The bucket an application gets, in full: its own, one more, or the stalest.
LEMMA BucketShape ==
    ASSUME NEW bs \in Seq(Bucket), NEW a \in Applications, NEW at \in Nat,
           OneEach(bs), Len(bs) =< MaxApplications
    PROVE  LET given == Counts!BucketFor(bs, a, at)
               cs == given.buckets
               g == given.index
           IN  /\ cs \in Seq(Bucket) /\ Len(cs) =< MaxApplications /\ OneEach(cs)
               /\ g \in 1..Len(cs) /\ cs[g].application = a
               /\ \A i \in 1..Len(cs) : i # g => i \in 1..Len(bs) /\ cs[i] = bs[i]
               /\ \/ g \in 1..Len(bs) /\ cs = bs /\ Counts!Holds(bs, a)
                  \/ /\ ~Counts!Holds(bs, a) /\ cs[g].entries = <<>>
                     /\ \/ Len(cs) = Len(bs) + 1 /\ g = Len(bs) + 1
                        \/ /\ Len(cs) = Len(bs) /\ Len(bs) = MaxApplications
                           /\ g = Counts!Stalest(bs, at)
<1> DEFINE given == Counts!BucketFor(bs, a, at)
           own == Counts!BucketsOf(bs, a)
           n == Len(bs)
           new == Counts!EmptyBucket(a)
<1>0. n \in Nat /\ MaxApplications \in Nat \ {0} /\ n =< MaxApplications
      /\ \A i, j \in 1..n : bs[i].application = bs[j].application => i = j
  BY CountsConstants DEF OneEach
<1>1. own = {i \in 1..n : bs[i].application = a} /\ (Counts!Holds(bs, a) <=> own # {})
  BY DEF Counts!BucketsOf, Counts!Holds
<1>2. new \in Bucket /\ new.application = a /\ new.entries = <<>>
  BY DEF Counts!EmptyBucket, Bucket
<1> HIDE DEF own, new
<1>3. CASE own # {}
  <2>1. given = [index |-> Counts!Min(own), buckets |-> bs]
    BY <1>3 DEF Counts!BucketFor, own
  <2>2. own \in SUBSET Nat
    BY <1>1
  <2>3. Counts!Min(own) \in own
    BY <1>3, <2>2, MinIsLeast DEF Min, Counts!Min
  <2> HIDE DEF given
  <2>4. given.index \in own /\ given.buckets = bs
    BY <2>1, <2>3
  <2> QED
    BY <1>1, <1>3, <2>4 DEF given
<1>4. CASE own = {} /\ n < MaxApplications
  <2> DEFINE c == Append(bs, new)
  <2>1. given = [index |-> n + 1, buckets |-> c]
    BY <1>4 DEF Counts!BucketFor, own, new
  <2> HIDE DEF given
  <2>2. given.index = n + 1 /\ given.buckets = c
    BY <2>1
  <2>3. /\ c \in Seq(Bucket) /\ Len(c) = n + 1 /\ c[n + 1] = new
        /\ \A i \in 1..n : c[i] = bs[i]
    BY <1>2
  <2> HIDE DEF c
  <2>4. \A i \in 1..(n + 1) : (i \in 1..n /\ c[i] = bs[i]) \/ (i = n + 1 /\ c[i] = new)
    BY <1>0, <2>3
  <2>5. \A i \in 1..n : bs[i].application # a
    BY <1>1, <1>4
  <2>6. \A i, j \in 1..(n + 1) : c[i].application = c[j].application => i = j
    BY <1>0, <1>2, <2>4, <2>5
  <2>7. OneEach(c)
    BY <2>3, <2>6 DEF OneEach
  <2>8. n + 1 \in 1..Len(c) /\ Len(c) =< MaxApplications
    BY <1>0, <1>4, <2>3
  <2>9. \A i \in 1..Len(c) : i # n + 1 => i \in 1..n /\ c[i] = bs[i]
    BY <2>3, <2>4
  <2> QED
    BY <1>1, <1>2, <1>4, <2>2, <2>3, <2>7, <2>8, <2>9 DEF given
<1>5. CASE own = {} /\ ~(n < MaxApplications)
  <2> DEFINE s == Counts!Stalest(bs, at)
             c == [bs EXCEPT ![s] = new]
  <2>0. n >= 1 /\ n = MaxApplications
    BY <1>0, <1>5
  <2>1. s \in 1..n
    BY <2>0, StalestBucketIsIn
  <2>2. given = [index |-> s, buckets |-> c]
    BY <1>5 DEF Counts!BucketFor, own, new
  <2> HIDE DEF given, s
  <2>3. given.index = s /\ given.buckets = c
    BY <2>2
  <2>4. /\ c \in Seq(Bucket) /\ Len(c) = n /\ c[s] = new
        /\ \A i \in 1..n : i # s => c[i] = bs[i]
    BY <1>2, <2>1
  <2> HIDE DEF c
  <2>5. \A i \in 1..n : bs[i].application # a
    BY <1>1, <1>5
  <2>6. \A i, j \in 1..n : c[i].application = c[j].application => i = j
    BY <1>0, <1>2, <2>4, <2>5
  <2>7. OneEach(c)
    BY <2>4, <2>6 DEF OneEach
  <2> QED
    BY <1>1, <1>2, <1>5, <2>0, <2>1, <2>3, <2>4, <2>7 DEF given, s
<1> QED
  BY <1>3, <1>4, <1>5

\* The table of a host against the times its machines were counted.
CountsInv ==
    /\ buckets \in Seq(Bucket) /\ Len(buckets) =< MaxApplications /\ OneEach(buckets)
    /\ now \in Nat /\ seenAt \in [Applications -> Times]
    /\ \A i \in 1..Len(buckets) :
          /\ Len(buckets[i].entries) >= 1
          /\ Faithful(buckets[i].entries, seenAt[buckets[i].application], now)

\* A bucket that was never used is faithful.
LEMMA EmptyFaithful ==
    ASSUME NEW at \in Nat
    PROVE  Faithful(<<>>, [c \in Machines |-> -1], at)
BY CountsConstants DEF Faithful, Forgotten

\* What a counted request leaves, bucket by bucket.
LEMMA ObserveShape ==
    ASSUME CountsInv, NEW a \in Applications, NEW m \in Machines, NEW d \in Demands,
           Counts!ObserveRequest(a, m, d)
    PROVE  \E g \in 1..Len(buckets') :
              /\ buckets' \in Seq(Bucket) /\ Len(buckets') =< MaxApplications
              /\ OneEach(buckets') /\ buckets'[g].application = a
              /\ Len(buckets'[g].entries) >= 1
              /\ Faithful(buckets'[g].entries, seenAt'[a], now)
              /\ \A i \in 1..Len(buckets'[g].entries) : now - buckets'[g].entries[i].seen < Expiry
              /\ view'.cached = Len(buckets'[g].entries)
              /\ \A i \in 1..Len(buckets') : i # g =>
                    /\ i \in 1..Len(buckets) /\ buckets'[i] = buckets[i]
                    /\ seenAt'[buckets[i].application] = seenAt[buckets[i].application]
              /\ seenAt' \in [Applications -> Times]
              /\ \/ Len(buckets') = Len(buckets) /\ g \in 1..Len(buckets)
                    /\ buckets[g].application = a
                 \/ Len(buckets') = Len(buckets) + 1 /\ g = Len(buckets) + 1
                 \/ /\ Len(buckets') = Len(buckets) /\ Len(buckets) = MaxApplications
                    /\ g = Counts!Stalest(buckets, now)
<1> DEFINE given == Counts!BucketFor(buckets, a, now)
           cs == given.buckets
           g == given.index
           old == cs[g].entries
           kept == Counts!Expire(old, now)
           r == Counts!Remaining(kept, m)
           out == Append(r, [cmid |-> m, seen |-> now])
           own == [cs[g] EXCEPT !.entries = out]
           none == [c \in Machines |-> -1]
           base == IF Counts!Holds(buckets, a) THEN seenAt[a] ELSE none
<1>0. /\ buckets \in Seq(Bucket) /\ Len(buckets) =< MaxApplications /\ OneEach(buckets)
      /\ now \in Nat /\ seenAt \in [Applications -> Times]
      /\ \A i \in 1..Len(buckets) :
            /\ Len(buckets[i].entries) >= 1
            /\ Faithful(buckets[i].entries, seenAt[buckets[i].application], now)
  BY DEF CountsInv
<1>1. /\ cs \in Seq(Bucket) /\ Len(cs) =< MaxApplications /\ OneEach(cs)
      /\ g \in 1..Len(cs) /\ cs[g].application = a
      /\ \A i \in 1..Len(cs) : i # g => i \in 1..Len(buckets) /\ cs[i] = buckets[i]
      /\ \/ g \in 1..Len(buckets) /\ cs = buckets /\ Counts!Holds(buckets, a)
         \/ /\ ~Counts!Holds(buckets, a) /\ cs[g].entries = <<>>
            /\ \/ Len(cs) = Len(buckets) + 1 /\ g = Len(buckets) + 1
               \/ /\ Len(cs) = Len(buckets) /\ Len(buckets) = MaxApplications
                  /\ g = Counts!Stalest(buckets, now)
  BY <1>0, BucketShape
<1>2. buckets' = [cs EXCEPT ![g].entries = out] /\ view'.cached = Len(out)
  BY DEF Counts!ObserveRequest, Counts!Observe, Counts!View, Counts!RecordIn
<1>3. seenAt' = [x \in Applications |-> [c \in Machines |->
                    IF x = a /\ c = m THEN now
                    ELSE IF Counts!Holds(buckets, x) /\ Counts!Holds(buckets', x)
                      THEN seenAt[x][c]
                    ELSE -1]]
  BY DEF Counts!ObserveRequest, Counts!Never
<1> HIDE DEF given
<1>4. none \in Times /\ base \in Times
  BY <1>0 DEF Times
<1>5. Faithful(old, base, now)
  <2>1. CASE Counts!Holds(buckets, a)
    <3>1. g \in 1..Len(buckets) /\ cs = buckets
      BY <1>1, <2>1
    <3> QED
      BY <1>0, <1>1, <2>1, <3>1
  <2>2. CASE ~Counts!Holds(buckets, a)
    <3>1. old = <<>> /\ base = none
      BY <1>1, <2>2
    <3> QED
      BY <1>0, <3>1, EmptyFaithful
  <2> QED
    BY <2>1, <2>2
<1> HIDE DEF base, old
<1>6. Faithful(kept, base, now) /\ \A i \in 1..Len(kept) : now - kept[i].seen < Expiry
  BY <1>0, <1>4, <1>5, ExpireFaithful
<1> HIDE DEF kept
<1>7. Others(r, m, base, now)
  BY <1>0, <1>4, <1>6, RemainingIsOthers
<1> HIDE DEF r
<1>8. /\ Faithful(out, [base EXCEPT ![m] = now], now) /\ Len(out) >= 1
      /\ \A i \in 1..Len(out) : now - out[i].seen < Expiry
  BY <1>0, <1>4, <1>7, RecordFaithful
<1> HIDE DEF out, cs, g
<1>9. own \in Bucket /\ own.application = a /\ own.entries = out
  <2>1. out \in Seq(Entry)
    BY <1>8 DEF Faithful
  <2>2. cs[g] \in Bucket
    BY <1>1
  <2> QED
    BY <1>1, <2>1, <2>2 DEF Bucket
<1>10. buckets' = [cs EXCEPT ![g] = own]
  BY <1>2
<1> HIDE DEF own
<1>11. /\ buckets' \in Seq(Bucket) /\ Len(buckets') = Len(cs) /\ buckets'[g] = own
       /\ \A i \in 1..Len(cs) : i # g => buckets'[i] = cs[i]
  BY <1>1, <1>9, <1>10
<1>12. \A i \in 1..Len(cs) : buckets'[i].application = cs[i].application
  BY <1>1, <1>9, <1>11
<1>13. OneEach(buckets')
  BY <1>1, <1>11, <1>12 DEF OneEach
<1>14. \A i \in 1..Len(buckets') : Counts!Holds(buckets', buckets'[i].application)
  BY DEF Counts!Holds, Counts!BucketsOf
<1>15. \A i \in 1..Len(buckets) : Counts!Holds(buckets, buckets[i].application)
  BY DEF Counts!Holds, Counts!BucketsOf
<1>16. ASSUME NEW i \in 1..Len(buckets'), i # g
       PROVE  /\ i \in 1..Len(buckets) /\ buckets'[i] = buckets[i]
              /\ seenAt'[buckets[i].application] = seenAt[buckets[i].application]
  <2>1. i \in 1..Len(buckets) /\ buckets'[i] = buckets[i]
    BY <1>1, <1>11, <1>16
  <2> DEFINE x == buckets[i].application
  <2>2. buckets[i] \in Bucket
    BY <1>0, <2>1
  <2>3. x \in Applications
    BY <2>2 DEF Bucket
  <2>4. x # a
    BY <1>1, <1>11, <1>12, <1>16, <2>1 DEF OneEach
  <2>5. Counts!Holds(buckets, x) /\ Counts!Holds(buckets', x)
    BY <1>14, <1>15, <1>16, <2>1
  <2> HIDE DEF x
  <2>6. seenAt'[x] = [c \in Machines |-> seenAt[x][c]]
    BY <1>3, <2>3, <2>4, <2>5
  <2>7. seenAt[x] \in Times
    BY <1>0, <2>3
  <2>8. seenAt[x] = [c \in Machines |-> seenAt[x][c]]
    BY <2>7 DEF Times
  <2>9. seenAt'[x] = seenAt[x]
    BY <2>6, <2>8
  <2> QED
    BY <2>1, <2>9 DEF x
<1>17. seenAt'[a] = [base EXCEPT ![m] = now]
  <2>1. Counts!Holds(buckets', a)
    BY <1>1, <1>9, <1>11, <1>14
  <2>2. seenAt'[a] = [c \in Machines |-> IF c = m THEN now
                                         ELSE IF Counts!Holds(buckets, a) THEN seenAt[a][c]
                                         ELSE -1]
    BY <1>3, <2>1
  <2>3. \A c \in Machines : base[c] = IF Counts!Holds(buckets, a) THEN seenAt[a][c] ELSE -1
    BY DEF base
  <2>4. base = [c \in Machines |-> base[c]]
    BY <1>4 DEF Times
  <2>5. [base EXCEPT ![m] = now] = [c \in Machines |-> IF c = m THEN now ELSE base[c]]
    BY <2>4
  <2> QED
    BY <2>2, <2>3, <2>5
<1>18. seenAt' \in [Applications -> Times]
  <2>1. \A x \in Applications, c \in Machines : seenAt[x][c] \in Nat \cup {-1}
    BY <1>0 DEF Times
  <2> QED
    BY <1>0, <1>3, <2>1 DEF Times
<1>19. \/ Len(buckets') = Len(buckets) /\ g \in 1..Len(buckets) /\ buckets[g].application = a
       \/ Len(buckets') = Len(buckets) + 1 /\ g = Len(buckets) + 1
       \/ /\ Len(buckets') = Len(buckets) /\ Len(buckets) = MaxApplications
          /\ g = Counts!Stalest(buckets, now)
  BY <1>1, <1>11
<1>20. view'.cached = Len(buckets'[g].entries)
  BY <1>2, <1>9, <1>11
<1>21. g \in 1..Len(buckets') /\ Len(buckets') =< MaxApplications
  BY <1>1, <1>11
<1> QED
  BY <1>8, <1>9, <1>11, <1>13, <1>16, <1>17, <1>18, <1>19, <1>20, <1>21

\* Time passing forgets nobody who was remembered.
LEMMA FaithfulLater ==
    ASSUME NEW es, NEW seen \in Times, NEW at \in Nat, NEW d \in Nat, Faithful(es, seen, at)
    PROVE  Faithful(es, seen, at + d)
<1>1. es \in Seq(Entry)
  BY DEF Faithful
<1>2. \A i \in 1..Len(es) : es[i].seen \in Nat
  BY <1>1, EntryFields
<1>3. \A c \in Machines : seen[c] \in Int
  BY DEF Times
<1>4. \A c \in Machines : Forgotten(es, seen[c], at) => Forgotten(es, seen[c], at + d)
  BY <1>3, CountsConstants DEF Forgotten
<1>5. \A i \in 1..Len(es) : es[i].seen =< at => es[i].seen =< at + d
  BY <1>2
<1> QED
  BY <1>4, <1>5 DEF Faithful

\* The counts keep their invariant.
LEMMA CountsInvNext ==
    ASSUME CountsInv, [Counts!Next]_(Counts!vars)
    PROVE  CountsInv'
<1>0. /\ buckets \in Seq(Bucket) /\ Len(buckets) =< MaxApplications /\ OneEach(buckets)
      /\ now \in Nat /\ seenAt \in [Applications -> Times]
      /\ \A i \in 1..Len(buckets) :
            /\ Len(buckets[i].entries) >= 1
            /\ Faithful(buckets[i].entries, seenAt[buckets[i].application], now)
  BY DEF CountsInv
<1>i. ASSUME buckets' \in Seq(Bucket), Len(buckets') =< MaxApplications, OneEach(buckets'),
             now' \in Nat, seenAt' \in [Applications -> Times],
             \A i \in 1..Len(buckets') :
                /\ Len(buckets'[i].entries) >= 1
                /\ Faithful(buckets'[i].entries, seenAt'[buckets'[i].application], now')
      PROVE  CountsInv'
  BY <1>i DEF CountsInv, Faithful, Forgotten, OneEach, Bucket, Entry, Times
<1>1. ASSUME NEW a \in Applications, NEW m \in Machines, NEW d \in Demands,
             Counts!ObserveRequest(a, m, d)
      PROVE  CountsInv'
  <2>1. now' = now
    BY <1>1 DEF Counts!ObserveRequest
  <2>2. PICK g \in 1..Len(buckets') :
              /\ buckets' \in Seq(Bucket) /\ Len(buckets') =< MaxApplications
              /\ OneEach(buckets') /\ buckets'[g].application = a
              /\ Len(buckets'[g].entries) >= 1
              /\ Faithful(buckets'[g].entries, seenAt'[a], now)
              /\ \A i \in 1..Len(buckets') : i # g =>
                    /\ i \in 1..Len(buckets) /\ buckets'[i] = buckets[i]
                    /\ seenAt'[buckets[i].application] = seenAt[buckets[i].application]
              /\ seenAt' \in [Applications -> Times]
    BY <1>1, ObserveShape
  <2>3. \A i \in 1..Len(buckets') :
           /\ Len(buckets'[i].entries) >= 1
           /\ Faithful(buckets'[i].entries, seenAt'[buckets'[i].application], now')
    BY <1>0, <2>1, <2>2
  <2> QED
    BY <1>0, <1>i, <2>1, <2>2, <2>3
<1>2. ASSUME NEW d \in 1..Expiry, Counts!Tick(d) PROVE CountsInv'
  <2>1. UNCHANGED <<buckets, seenAt>> /\ now' = now + d
    BY <1>2 DEF Counts!Tick
  <2>2. d \in Nat /\ now' \in Nat
    BY <1>0, <2>1, CountsConstants
  <2>3. \A i \in 1..Len(buckets) : seenAt[buckets[i].application] \in Times
    <3>1. \A i \in 1..Len(buckets) : buckets[i] \in Bucket
      BY <1>0
    <3>2. \A b \in Bucket : b.application \in Applications
      BY DEF Bucket
    <3> QED
      BY <1>0, <3>1, <3>2
  <2>4. \A i \in 1..Len(buckets) :
           Faithful(buckets[i].entries, seenAt[buckets[i].application], now + d)
    BY <1>0, <2>2, <2>3, FaithfulLater
  <2> QED
    BY <1>0, <1>i, <2>1, <2>2, <2>4
<1>3. CASE UNCHANGED Counts!vars
  <2>1. UNCHANGED <<buckets, seenAt, now>>
    BY <1>3 DEF Counts!vars
  <2> QED
    BY <1>0, <1>i, <2>1
<1> QED
  BY <1>1, <1>2, <1>3 DEF Counts!Next

\* What is reported is what a genuine host could say.
LEMMA ReportPlausible ==
    ASSUME NEW cached \in Nat, NEW d \in Nat
    PROVE  LET reported == Counts!Reported(cached, d)
           IN  IF d > MaxTracked THEN reported =< cached
               ELSE reported >= d /\ reported =< 2 * Counts!Most2(1, d)
BY CountsConstants DEF Counts!Reported, Counts!Most2, Counts!Least2

\* A counted request is answered with the exact number of live machines.
LEMMA CountedExactly ==
    ASSUME CountsInv, [Counts!Next]_(Counts!vars)
    PROVE  Counts!CountIsExact
<1> SUFFICES ASSUME view' # view, now' = now
             PROVE  LET a == view'.application
                        live == {m \in Machines : /\ seenAt'[a][m] # Counts!Never
                                                  /\ now - seenAt'[a][m] < Expiry}
                    IN  /\ view'.cached = Counts!Least2(Counts!Cardinality(live), MaxCached)
                        /\ Counts!Plausible(view')
  BY DEF Counts!CountIsExact
<1>1. PICK a \in Applications, m \in Machines, d \in Demands : Counts!ObserveRequest(a, m, d)
  BY DEF Counts!Next, Counts!Tick, Counts!vars
<1>2. PICK g \in 1..Len(buckets') :
              /\ buckets' \in Seq(Bucket)
              /\ Faithful(buckets'[g].entries, seenAt'[a], now)
              /\ \A i \in 1..Len(buckets'[g].entries) : now - buckets'[g].entries[i].seen < Expiry
              /\ view'.cached = Len(buckets'[g].entries)
              /\ seenAt' \in [Applications -> Times]
  BY <1>1, ObserveShape
<1> DEFINE es == buckets'[g].entries
           seen == seenAt'[a]
           live == {c \in Machines : seen[c] # -1 /\ now - seen[c] < Expiry}
<1>3. seen \in Times /\ now \in Nat /\ Len(es) \in Nat
  <2>1. es \in Seq(Entry)
    BY <1>2 DEF Faithful
  <2> QED
    BY <1>2, <2>1 DEF CountsInv
<1>4. Len(es) = Counts!Least2(Cardinality(live), MaxCached)
  <2> HIDE DEF es, seen
  <2>1. Faithful(es, seen, now) /\ \A i \in 1..Len(es) : now - es[i].seen < Expiry
    BY <1>2 DEF es, seen
  <2> QED
    BY <1>3, <2>1, CountOfFaithful
<1>5. view'.application = a /\ view'.demand = d
      /\ view'.reported = Counts!Reported(view'.cached, d)
  BY <1>1 DEF Counts!ObserveRequest, Counts!View
<1>6. Counts!Plausible(view')
  <2>1. view'.cached \in Nat /\ d \in Nat
    BY <1>2, <1>3, CountsConstants
  <2> QED
    BY <1>5, <2>1, ReportPlausible DEF Counts!Plausible
<1>7. view'.cached = Counts!Least2(Cardinality(live), MaxCached)
  BY <1>2, <1>4
<1>8. Counts!Cardinality(live) = Cardinality(live)
  <2> HIDE DEF live
  <2> QED
    BY DEF Counts!Cardinality, Cardinality
<1> QED
  BY <1>5, <1>6, <1>7, <1>8 DEF Counts!Never

\* A bucket is displaced for want of room, and it is the one not used for longest.
LEMMA DisplacedStalest ==
    ASSUME CountsInv, [Counts!Next]_(Counts!vars)
    PROVE  Counts!StaleBucketDisplaced
<1> SUFFICES ASSUME NEW a \in Applications, NEW b \in Applications,
                    Counts!Holds(buckets, a), ~Counts!Holds(buckets', a), Counts!Holds(buckets, b)
             PROVE  /\ Len(buckets) = MaxApplications
                    /\ Counts!NewestOf(buckets, a) =< Counts!NewestOf(buckets, b)
  BY DEF Counts!StaleBucketDisplaced
<1>0. /\ buckets \in Seq(Bucket) /\ Len(buckets) \in Nat /\ OneEach(buckets) /\ now \in Nat
      /\ \A i \in 1..Len(buckets) : Len(buckets[i].entries) >= 1
  BY DEF CountsInv
<1>1. buckets' # buckets
  OBVIOUS
<1>2. PICK x \in Applications, m \in Machines, d \in Demands : Counts!ObserveRequest(x, m, d)
  BY <1>1 DEF Counts!Next, Counts!Tick, Counts!vars
<1>3. PICK g \in 1..Len(buckets') :
              /\ buckets' \in Seq(Bucket) /\ buckets'[g].application = x
              /\ \A i \in 1..Len(buckets') : i # g =>
                    i \in 1..Len(buckets) /\ buckets'[i] = buckets[i]
              /\ \/ Len(buckets') = Len(buckets) /\ g \in 1..Len(buckets)
                    /\ buckets[g].application = x
                 \/ Len(buckets') = Len(buckets) + 1 /\ g = Len(buckets) + 1
                 \/ /\ Len(buckets') = Len(buckets) /\ Len(buckets) = MaxApplications
                    /\ g = Counts!Stalest(buckets, now)
  BY <1>2, ObserveShape, SMTT(30)
<1>4. PICK i \in 1..Len(buckets) : buckets[i].application = a
  BY DEF Counts!Holds, Counts!BucketsOf
<1>5. PICK j \in 1..Len(buckets) : buckets[j].application = b
  BY DEF Counts!Holds, Counts!BucketsOf
<1>6. \A k \in 1..Len(buckets') : buckets'[k].application # a
  BY DEF Counts!Holds, Counts!BucketsOf
<1>7. i \in 1..Len(buckets')
  BY <1>0, <1>3
<1>8. i = g
  BY <1>3, <1>4, <1>6, <1>7
<1>9. Len(buckets) = MaxApplications /\ g = Counts!Stalest(buckets, now)
  <2>1. ~(g \in 1..Len(buckets) /\ buckets[g].application = x)
    BY <1>3, <1>4, <1>6, <1>8
  <2>2. g # Len(buckets) + 1
    BY <1>0, <1>8
  <2> QED
    BY <1>3, <2>1, <2>2
<1>10. ASSUME NEW k \in 1..Len(buckets), NEW c \in Applications, buckets[k].application = c
       PROVE  Counts!NewestOf(buckets, c) = Counts!NewestSeen(buckets[k], now)
  <2> DEFINE S == Counts!BucketsOf(buckets, c)
             es == buckets[k].entries
  <2>1. S = {k}
    BY <1>0, <1>10 DEF Counts!BucketsOf, OneEach
  <2>2. Min(S) = k
    <3>1. S \in SUBSET Nat /\ S # {}
      BY <2>1
    <3> QED
      BY <2>1, <3>1, MinIsLeast
  <2>3. Counts!Min(S) = k
    BY <2>2 DEF Min, Counts!Min
  <2> HIDE DEF S
  <2>4. Counts!NewestOf(buckets, c) = es[Len(es)].seen
    BY <2>3 DEF Counts!NewestOf, S
  <2>5. es # <<>>
    <3>1. Len(es) >= 1
      BY <1>0
    <3> QED
      BY <3>1
  <2> QED
    BY <2>4, <2>5 DEF Counts!NewestSeen
<1>11. Counts!NewestSeen(buckets[g], now) =< Counts!NewestSeen(buckets[j], now)
  <2>1. Len(buckets) >= 1
    BY <1>0, <1>9, CountsConstants
  <2> QED
    BY <1>0, <1>9, <2>1, StalestBucketIsIn
<1>12. /\ Counts!NewestOf(buckets, a) = Counts!NewestSeen(buckets[g], now)
       /\ Counts!NewestOf(buckets, b) = Counts!NewestSeen(buckets[j], now)
  BY <1>4, <1>5, <1>8, <1>10
<1> QED
  BY <1>9, <1>11, <1>12

\* The count a host reports: for every number of applications, machines and demands
\* and every expiry, the machines it holds for an application are exactly those
\* seen within the expiry period since its bucket was made, up to the cap, what it
\* reports is plausible, and a bucket is displaced only from a full table, the
\* stalest first.
THEOREM CountsAreKept == Counts!Spec => Counts!CountsKept
<1>1. Counts!Init => CountsInv
  <2> SUFFICES ASSUME Counts!Init PROVE CountsInv
    OBVIOUS
  <2>1. buckets = <<>> /\ now = 0
        /\ seenAt = [a \in Applications |-> [m \in Machines |-> -1]]
    BY DEF Counts!Init, Counts!Never
  <2>2. seenAt \in [Applications -> Times]
    BY <2>1 DEF Times
  <2>3. buckets \in Seq(Bucket) /\ Len(buckets) = 0
    BY <2>1
  <2> QED
    BY <2>1, <2>2, <2>3, CountsConstants DEF CountsInv, OneEach
<1>2. CountsInv /\ [Counts!Next]_(Counts!vars) => CountsInv'
  BY CountsInvNext
<1>3. CountsInv /\ [Counts!Next]_(Counts!vars)
        => [Counts!CountIsExact /\ Counts!StaleBucketDisplaced]_(Counts!vars)
  BY CountedExactly, DisplacedStalest
<1> QED
  BY <1>1, <1>2, <1>3, PTL DEF Counts!Spec, Counts!CountsKept

\* And so the counts of a host that grants and refuses are kept.
THEOREM HostCountsKept == Spec => Counts!CountsKept
BY HostCountsRefined, CountsAreKept, PTL DEF CountsRefined

-----------------------------------------------------------------------------
(***************************************************************************)
(* The calendar of the ePID's date.  The days of a 400-year era are split  *)
(* as 36524 h + 1461 q + 365 r + i: centuries, spans of four years, years  *)
(* and days, where the last day of a leap year is day 365 of it.           *)
(***************************************************************************)
DayOfEra(h, q, r, i) == 36524 * h + 1461 * q + 365 * r + i

\* The split is one of a day of the era.
Splits(h, q, r, i) ==
    /\ h \in Int /\ 0 =< h /\ h =< 3
    /\ q \in Int /\ 0 =< q /\ q =< 24
    /\ r \in Int /\ 0 =< r /\ r =< 3
    /\ i \in Int /\ 0 =< i /\ i =< 365
    /\ i = 365 => r = 3 /\ (q < 24 \/ h = 3)

LEMMA EraSplits ==
    ASSUME NEW d \in Int, 0 =< d, d =< 146096
    PROVE  \E h, q, r, i \in Int : Splits(h, q, r, i) /\ d = DayOfEra(h, q, r, i)
<1> DEFINE h == IF d < 36524 THEN 0 ELSE IF d < 73048 THEN 1 ELSE IF d < 109572 THEN 2 ELSE 3
<1>1. /\ h \in Int /\ 0 =< h /\ h =< 3
      /\ 0 =< d - 36524 * h /\ d - 36524 * h =< 36524
      /\ d - 36524 * h = 36524 => h = 3
  BY SMT
<1> HIDE DEF h
<1> DEFINE s == d - 36524 * h
<1>2. s \in Int /\ 0 =< s /\ s =< 36524 /\ (s = 36524 => h = 3) /\ d = 36524 * h + s
  BY <1>1, SMT
<1> HIDE DEF s
<1> DEFINE q == s \div 1461
           t == s - 1461 * q
<1>3. /\ q \in Int /\ 0 =< q /\ q =< 24
      /\ t \in Int /\ 0 =< t /\ t =< 1460 /\ s = 1461 * q + t
  BY <1>2, SMT
<1> HIDE DEF q, t
<1>4. t = 1460 => q < 24 \/ h = 3
  BY <1>2, <1>3, SMT
<1> DEFINE r == IF t < 365 THEN 0 ELSE IF t < 730 THEN 1 ELSE IF t < 1095 THEN 2 ELSE 3
<1>5. /\ r \in Int /\ 0 =< r /\ r =< 3
      /\ 0 =< t - 365 * r /\ t - 365 * r =< 365
      /\ t - 365 * r = 365 => t = 1460 /\ r = 3
  BY <1>3, SMT
<1> HIDE DEF r
<1> DEFINE i == t - 365 * r
<1>6. /\ i \in Int /\ 0 =< i /\ i =< 365
      /\ t = 365 * r + i /\ (i = 365 => t = 1460 /\ r = 3)
  BY <1>3, <1>5, SMT
<1> HIDE DEF i
<1>7. Splits(h, q, r, i)
  BY <1>1, <1>3, <1>4, <1>5, <1>6, SMT DEF Splits
<1>8. d = DayOfEra(h, q, r, i)
  BY <1>1, <1>2, <1>3, <1>5, <1>6, SMT DEF DayOfEra
<1>9. h \in Int /\ q \in Int /\ r \in Int /\ i \in Int
  BY <1>1, <1>3, <1>5, <1>6, SMT
<1> QED
  BY <1>7, <1>8, <1>9, SMT

\* The year of an era, as from_days_since_epoch computes it.
YearOfEra(d) ==
    (((d - (d \div 1460)) + (d \div 36524)) - (d \div (DAYS_PER_ERA - 1))) \div 365

LEMMA SplitIsRead ==
    ASSUME NEW h, NEW q, NEW r, NEW i, Splits(h, q, r, i)
    PROVE  LET d == DayOfEra(h, q, r, i)
               y == 100 * h + 4 * q + r
           IN  /\ d \in Int /\ 0 =< d /\ d =< 146096
               /\ y \in Int /\ 0 =< y /\ y =< 399
               /\ YearsDays(y) = 36524 * h + 1461 * q + 365 * r
               /\ YearOfEra(d) = y
               /\ d - YearsDays(y) = i
<1> DEFINE d == DayOfEra(h, q, r, i)
           y == 100 * h + 4 * q + r
           e == IF 24 * h + q + 365 * r + i >= 1460 THEN 1 ELSE 0
<1>1. /\ h \in Int /\ 0 =< h /\ h =< 3
      /\ q \in Int /\ 0 =< q /\ q =< 24
      /\ r \in Int /\ 0 =< r /\ r =< 3
      /\ i \in Int /\ 0 =< i /\ i =< 365
      /\ i = 365 => r = 3 /\ (q < 24 \/ h = 3)
  BY SMT DEF Splits
<1>2. d = 36524 * h + 1461 * q + 365 * r + i
  BY SMT DEF DayOfEra
<1> HIDE DEF d
<1>3. d \in Int /\ 0 =< d /\ d =< 146096
  BY <1>1, <1>2, SMT
<1>4. y \in Int /\ 0 =< y /\ y =< 399
  BY <1>1, SMT
<1>5. y \div 4 = 25 * h + q /\ y \div 100 = h
  BY <1>1, SMT
<1>6. YearsDays(y) = 36524 * h + 1461 * q + 365 * r
  <2> HIDE DEF y
  <2>1. YearsDays(y) = (365 * y + (25 * h + q)) - h
    BY <1>5, SMT DEF YearsDays
  <2> QED
    BY <1>1, <2>1, SMT DEF y
<1>7. d \div 1460 = 25 * h + q + e
  BY <1>1, <1>2, SMT
<1>8. (d \div 36524) - (d \div 146096) = h
  <2>1. CASE d = 146096
    <3>1. h = 3
      BY <1>1, <1>2, <2>1, SMT
    <3> QED
      BY <2>1, <3>1, SMT
  <2>2. CASE d # 146096
    <3>1. d \div 146096 = 0
      BY <1>3, <2>2, SMT
    <3>2. 36524 * h =< d /\ d < 36524 * h + 36524
      BY <1>1, <1>2, <2>2, SMT
    <3>3. d \div 36524 = h
      BY <1>1, <1>3, <3>2, SMT
    <3> QED
      BY <1>1, <3>1, <3>3, SMT
  <2> QED
    BY <2>1, <2>2
<1>9. e \in Int /\ 0 =< e /\ 0 =< i - e /\ i - e =< 364
  BY <1>1, SMT
<1> DEFINE a == d \div 1460
           b == d \div 36524
           c == d \div 146096
<1>10. a \in Int /\ b \in Int /\ c \in Int
  BY <1>3, SMT
<1>11. a = 25 * h + q + e /\ b - c = h
  BY <1>7, <1>8, SMT
<1>12. YearOfEra(d) = (((d - a) + b) - c) \div 365
  BY SMT DEF YearOfEra, DAYS_PER_ERA
<1> HIDE DEF a, b, c, e
<1>13. ((d - a) + b) - c = 365 * y + (i - e)
  BY <1>1, <1>2, <1>3, <1>9, <1>10, <1>11, SMT
<1> HIDE DEF y
<1>14. (365 * y + (i - e)) \div 365 = y
  <2> DEFINE k == i - e
  <2>1. k \in Int /\ 0 =< k /\ k =< 364
    BY <1>1, <1>9, SMT
  <2> HIDE DEF k
  <2>2. (365 * y + k) \div 365 = y
    BY <1>4, <2>1, SMT
  <2> QED
    BY <2>2, SMT DEF k
<1>15. YearOfEra(d) = y
  BY <1>12, <1>13, <1>14, SMT
<1>16. d - YearsDays(y) = i
  BY <1>1, <1>2, <1>6, SMT
<1> QED
  BY <1>3, <1>4, <1>6, <1>15, <1>16, SMT DEF y, d

\* How long the s-th month from March is.
LengthFromMarch(s, leap) ==
    IF s \in {1, 3, 6, 8} THEN 30 ELSE IF s # 11 THEN 31 ELSE IF leap THEN 29 ELSE 28

MonthFromMarch(s) == IF s < 10 THEN s + 3 ELSE s - 9

\* A month and a day of it, read off the day of a year that begins in March.
LEMMA MonthIsRead ==
    ASSUME NEW i \in Int, 0 =< i, i =< 365
    PROVE  LET s == (5 * i + 2) \div 153
               day == (i - DaysBefore(s)) + 1
           IN  /\ s \in Int /\ 0 =< s /\ s =< 11
               /\ day \in Int /\ 1 =< day /\ day =< LengthFromMarch(s, i = 365)
               /\ DaysBefore(s) + day - 1 = i
<1> DEFINE s == (5 * i + 2) \div 153
           day == (i - DaysBefore(s)) + 1
<1>1. s \in Int /\ 0 =< s /\ s =< 11 /\ 153 * s =< 5 * i + 2 /\ 5 * i + 2 < 153 * s + 153
  BY SMT
<1> HIDE DEF s
<1>2. s \in {0, 1, 2, 3, 4, 5, 6, 7, 8, 9, 10, 11}
  BY <1>1, SMT
<1>3. /\ s = 0 => DaysBefore(s) = 0
      /\ s = 1 => DaysBefore(s) = 31
      /\ s = 2 => DaysBefore(s) = 61
      /\ s = 3 => DaysBefore(s) = 92
      /\ s = 4 => DaysBefore(s) = 122
      /\ s = 5 => DaysBefore(s) = 153
      /\ s = 6 => DaysBefore(s) = 184
      /\ s = 7 => DaysBefore(s) = 214
      /\ s = 8 => DaysBefore(s) = 245
      /\ s = 9 => DaysBefore(s) = 275
      /\ s = 10 => DaysBefore(s) = 306
      /\ s = 11 => DaysBefore(s) = 337
  BY SMT DEF DaysBefore
<1>4. LengthFromMarch(s, i = 365)
        = IF s \in {1, 3, 6, 8} THEN 30 ELSE IF s # 11 THEN 31 ELSE IF i = 365 THEN 29 ELSE 28
  BY SMT DEF LengthFromMarch
<1>5. DaysBefore(s) \in Int
  BY <1>2, <1>3, SMT
<1>6. day \in Int /\ 1 =< day /\ day =< LengthFromMarch(s, i = 365)
  BY <1>1, <1>2, <1>3, <1>4, SMT
<1>7. DaysBefore(s) + day - 1 = i
  BY <1>5, SMT
<1> QED
  BY <1>1, <1>6, <1>7, SMT DEF s

LEMMA MonthIsWritten ==
    ASSUME NEW s \in Int, 0 =< s, s =< 11, NEW leap \in BOOLEAN,
           NEW day \in Int, 1 =< day, day =< LengthFromMarch(s, leap)
    PROVE  LET i == DaysBefore(s) + day - 1
           IN  /\ i \in Int /\ 0 =< i /\ i =< 365
               /\ (5 * i + 2) \div 153 = s
               /\ i = 365 => s = 11 /\ leap
<1> DEFINE b == DaysBefore(s)
           i == b + day - 1
           n == LengthFromMarch(s, leap)
<1>2. s \in {0, 1, 2, 3, 4, 5, 6, 7, 8, 9, 10, 11}
  BY SMT
<1>3. /\ s = 0 => b = 0 /\ n = 31
      /\ s = 1 => b = 31 /\ n = 30
      /\ s = 2 => b = 61 /\ n = 31
      /\ s = 3 => b = 92 /\ n = 30
      /\ s = 4 => b = 122 /\ n = 31
      /\ s = 5 => b = 153 /\ n = 31
      /\ s = 6 => b = 184 /\ n = 30
      /\ s = 7 => b = 214 /\ n = 31
      /\ s = 8 => b = 245 /\ n = 30
      /\ s = 9 => b = 275 /\ n = 31
      /\ s = 10 => b = 306 /\ n = 31
      /\ s = 11 => b = 337 /\ (n = 28 \/ (n = 29 /\ leap))
  BY SMT DEF DaysBefore, LengthFromMarch
<1>4. 1 =< day /\ day =< n
  OBVIOUS
<1> HIDE DEF b, n
<1>5. i \in Int /\ 0 =< i /\ i =< 365 /\ (i = 365 => s = 11 /\ leap)
  BY <1>2, <1>3, <1>4, SMT
<1>6. (5 * i + 2) \div 153 = s
  <2>1. 153 * s =< 5 * i + 2 /\ 5 * i + 2 < 153 * s + 153
    BY <1>2, <1>3, <1>4, SMT
  <2> HIDE DEF i
  <2> QED
    BY <1>5, <2>1, SMT
<1> QED
  BY <1>5, <1>6, SMT DEF b

\* What from_days_since_epoch makes of a split day.
LEMMA SplitIsDate ==
    ASSUME NEW era \in Int, NEW h, NEW q, NEW r, NEW i, Splits(h, q, r, i)
    PROVE  LET d == (era * DAYS_PER_ERA + DayOfEra(h, q, r, i)) - EPOCH_SHIFT
               s == (5 * i + 2) \div 153
               year == (100 * h + 4 * q + r) + era * 400
           IN  /\ d \in Int
               /\ from_days_since_epoch(d)
                    = Date(IF MonthFromMarch(s) =< 2 THEN year + 1 ELSE year,
                           MonthFromMarch(s), (i - DaysBefore(s)) + 1)
<1> DEFINE e == DayOfEra(h, q, r, i)
           y == 100 * h + 4 * q + r
           d == (era * DAYS_PER_ERA + e) - EPOCH_SHIFT
<1>1. /\ e \in Int /\ 0 =< e /\ e =< 146096
      /\ y \in Int /\ 0 =< y /\ y =< 399
      /\ YearOfEra(e) = y /\ e - YearsDays(y) = i
  BY SplitIsRead, SMT
<1> HIDE DEF e, y
<1>2. d \in Int /\ d + EPOCH_SHIFT = era * 146097 + e
  BY <1>1, SMT DEF DAYS_PER_ERA, EPOCH_SHIFT
<1> HIDE DEF d
<1>3. (d + EPOCH_SHIFT) \div DAYS_PER_ERA = era /\ (d + EPOCH_SHIFT) % DAYS_PER_ERA = e
  <2>1. (era * 146097 + e) \div 146097 = era /\ (era * 146097 + e) % 146097 = e
    BY <1>1, SMT
  <2> QED
    BY <1>2, <2>1, SMT DEF DAYS_PER_ERA
<1>4. from_days_since_epoch(d)
        = LET year_of_era == YearOfEra(e)
              in_year == e - YearsDays(year_of_era)
              shifted == (5 * in_year + 2) \div 153
              year == year_of_era + era * 400
          IN  Date(IF MonthFromMarch(shifted) =< 2 THEN year + 1 ELSE year,
                   MonthFromMarch(shifted), (in_year - DaysBefore(shifted)) + 1)
  BY <1>3, SMT DEF from_days_since_epoch, YearOfEra, MonthFromMarch
<1> QED
  BY <1>1, <1>2, <1>4, SMT DEF d, e, y

\* A date of the calendar: a year, and a day that exists in it.
IsDate(date) == date = Date(date.year, date.month, date.day) /\ date.year \in Int /\ Exists(date)

\* Months from March, and the year they belong to.
LEMMA MonthsTurn ==
    ASSUME NEW s \in Int, 0 =< s, s =< 11, NEW year \in Int
    PROVE  LET m == MonthFromMarch(s)
               y == IF m =< 2 THEN year + 1 ELSE year
           IN  /\ m \in Int /\ 1 =< m /\ m =< 12
               /\ y \in Int
               /\ (IF m =< 2 THEN y - 1 ELSE y) = year
               /\ (IF m > 2 THEN m - 3 ELSE m + 9) = s
               /\ days_in_month(y, m) = LengthFromMarch(s, is_leap_year(year + 1))
<1>1. s \in {0, 1, 2, 3, 4, 5, 6, 7, 8, 9, 10, 11}
  BY SMT
<1> DEFINE leap == is_leap_year(year + 1)
<1>2. MonthFromMarch(s) = IF s < 10 THEN s + 3 ELSE s - 9
  BY SMT DEF MonthFromMarch
<1>3. s = 11 => days_in_month(year + 1, 2) = LengthFromMarch(s, leap)
  BY SMT DEF days_in_month, LengthFromMarch
<1>4. \A y : s # 11 => days_in_month(y, MonthFromMarch(s)) = LengthFromMarch(s, leap)
  <2> HIDE DEF leap
  <2> QED
    BY <1>1, <1>2, SMT DEF days_in_month, LengthFromMarch
<1> HIDE DEF leap
<1> QED
  BY <1>1, <1>2, <1>3, <1>4, SMT DEF leap

\* A year of the calendar that begins in March, split like the days.
YearSplits(year, era, h, q, r) ==
    era \in Int /\ Splits(h, q, r, 0) /\ year = (100 * h + 4 * q + r) + era * 400

\* The last day of a split year is a 29 February that exists.
LEMMA SplitLeaps ==
    ASSUME NEW year, NEW era, NEW h, NEW q, NEW r, YearSplits(year, era, h, q, r)
    PROVE  is_leap_year(year + 1) <=> r = 3 /\ (q < 24 \/ h = 3)
<1>1. /\ era \in Int /\ year = (100 * h + 4 * q + r) + era * 400
      /\ h \in Int /\ 0 =< h /\ h =< 3 /\ q \in Int /\ 0 =< q /\ q =< 24
      /\ r \in Int /\ 0 =< r /\ r =< 3
  BY SMT DEF YearSplits, Splits
<1> DEFINE y == year + 1
<1>2. y % 4 = 0 <=> r = 3
  BY <1>1, SMT
<1>3. r = 3 => (y % 100 = 0 <=> q = 24)
  BY <1>1, SMT
<1>4. r = 3 /\ q = 24 => (y % 400 = 0 <=> h = 3)
  BY <1>1, SMT
<1>5. q = 24 \/ q < 24
  BY <1>1, SMT
<1> HIDE DEF y
<1>6. is_leap_year(y) <=> r = 3 /\ (q < 24 \/ h = 3)
  BY <1>2, <1>3, <1>4, <1>5, SMT DEF is_leap_year
<1> QED
  BY <1>6, SMT DEF y

\* Days before the year that begins in March of `year', from the same in year 0.
Base(year) == (year \div 400) * DAYS_PER_ERA + YearsDays(year % 400)

LEMMA YearIsSplit ==
    ASSUME NEW year \in Int
    PROVE  \E era, h, q, r : YearSplits(year, era, h, q, r)
<1> DEFINE era == year \div 400
           y == year % 400
<1>1. era \in Int /\ y \in Int /\ 0 =< y /\ y =< 399 /\ year = y + era * 400
  BY SMT
<1> HIDE DEF era, y
<1> DEFINE h == y \div 100
           c == y % 100
<1>2. h \in Int /\ 0 =< h /\ h =< 3 /\ c \in Int /\ 0 =< c /\ c =< 99 /\ y = 100 * h + c
  BY <1>1, SMT
<1> HIDE DEF h, c
<1> DEFINE q == c \div 4
           r == c % 4
<1>3. /\ q \in Int /\ 0 =< q /\ q =< 24 /\ r \in Int /\ 0 =< r /\ r =< 3
      /\ c = 4 * q + r
  BY <1>2, SMT
<1> HIDE DEF q, r
<1>4. Splits(h, q, r, 0)
  BY <1>2, <1>3, SMT DEF Splits
<1>5. year = (100 * h + 4 * q + r) + era * 400
  BY <1>1, <1>2, <1>3, SMT
<1>6. YearSplits(year, era, h, q, r)
  BY <1>1, <1>4, <1>5, SMT DEF YearSplits
<1> QED
  BY <1>6, SMT

LEMMA BaseIs ==
    ASSUME NEW year, NEW era, NEW h, NEW q, NEW r, YearSplits(year, era, h, q, r)
    PROVE  Base(year) = era * 146097 + (36524 * h + 1461 * q + 365 * r)
<1> DEFINE y == 100 * h + 4 * q + r
<1>1. era \in Int /\ Splits(h, q, r, 0) /\ year = y + era * 400
  BY SMT DEF YearSplits
<1>2. /\ y \in Int /\ 0 =< y /\ y =< 399
      /\ YearsDays(y) = 36524 * h + 1461 * q + 365 * r
  BY <1>1, SplitIsRead, SMT
<1> HIDE DEF y
<1>3. year \div 400 = era /\ year % 400 = y
  BY <1>1, <1>2, SMT
<1> QED
  BY <1>2, <1>3, SMT DEF Base, DAYS_PER_ERA

\* A year that begins in March is as long as the February that ends it says.
LEMMA YearLength ==
    ASSUME NEW year \in Int
    PROVE  /\ Base(year) \in Int
           /\ Base(year + 1) = Base(year) + (IF is_leap_year(year + 1) THEN 366 ELSE 365)
<1>1. PICK era, h, q, r : YearSplits(year, era, h, q, r)
  BY YearIsSplit, SMT
<1>2. /\ era \in Int /\ year = (100 * h + 4 * q + r) + era * 400
      /\ h \in Int /\ 0 =< h /\ h =< 3 /\ q \in Int /\ 0 =< q /\ q =< 24
      /\ r \in Int /\ 0 =< r /\ r =< 3
  BY <1>1, SMT DEF YearSplits, Splits
<1> DEFINE leap == is_leap_year(year + 1)
           long == r = 3 /\ (q < 24 \/ h = 3)
<1>3. leap <=> long
  BY <1>1, SplitLeaps, SMT
<1>4. Base(year) = era * 146097 + (36524 * h + 1461 * q + 365 * r)
  BY <1>1, BaseIs, SMT
<1> HIDE DEF leap
<1>5. Base(year) \in Int
  BY <1>2, <1>4, SMT
<1>6. Base(year + 1) = Base(year) + (IF long THEN 366 ELSE 365)
  <2>1. CASE r < 3
    <3> DEFINE w == r + 1
    <3>1. YearSplits(year + 1, era, h, q, w)
      BY <1>2, <2>1, SMT DEF Splits, YearSplits
    <3> HIDE DEF w
    <3>2. Base(year + 1) = era * 146097 + (36524 * h + 1461 * q + 365 * w)
      BY <3>1, BaseIs, SMT
    <3> QED
      BY <1>2, <1>4, <2>1, <3>2, SMT DEF w
  <2>2. CASE r = 3 /\ q < 24
    <3> DEFINE v == q + 1
    <3>1. YearSplits(year + 1, era, h, v, 0)
      BY <1>2, <2>2, SMT DEF Splits, YearSplits
    <3> HIDE DEF v
    <3>2. Base(year + 1) = era * 146097 + (36524 * h + 1461 * v + 365 * 0)
      BY <3>1, BaseIs, SMT
    <3> QED
      BY <1>2, <1>4, <2>2, <3>2, SMT DEF v
  <2>3. CASE r = 3 /\ q = 24 /\ h < 3
    <3> DEFINE u == h + 1
    <3>1. YearSplits(year + 1, era, u, 0, 0)
      BY <1>2, <2>3, SMT DEF Splits, YearSplits
    <3> HIDE DEF u
    <3>2. Base(year + 1) = era * 146097 + (36524 * u + 1461 * 0 + 365 * 0)
      BY <3>1, BaseIs, SMT
    <3> QED
      BY <1>2, <1>4, <2>3, <3>2, SMT DEF u
  <2>4. CASE r = 3 /\ q = 24 /\ h = 3
    <3> DEFINE f == era + 1
    <3>1. YearSplits(year + 1, f, 0, 0, 0)
      BY <1>2, <2>4, SMT DEF Splits, YearSplits
    <3> HIDE DEF f
    <3>2. Base(year + 1) = f * 146097 + (36524 * 0 + 1461 * 0 + 365 * 0)
      BY <3>1, BaseIs, SMT
    <3> QED
      BY <1>2, <1>4, <2>4, <3>2, SMT DEF f
  <2>5. r < 3 \/ (r = 3 /\ q < 24) \/ (r = 3 /\ q = 24 /\ h < 3) \/ (r = 3 /\ q = 24 /\ h = 3)
    BY <1>2, SMT
  <2> QED
    BY <2>1, <2>2, <2>3, <2>4, <2>5, SMT
<1> QED
  BY <1>3, <1>5, <1>6, SMT DEF leap

\* The days of a date, by the year that begins in March.
LEMMA DaysByMarch ==
    ASSUME NEW year \in Int, NEW s \in Int, 0 =< s, s =< 11, NEW day \in Int
    PROVE  LET m == MonthFromMarch(s)
               y == IF m =< 2 THEN year + 1 ELSE year
           IN  days_since_epoch(Date(y, m, day))
                 = (Base(year) + DaysBefore(s) + day - 1) - EPOCH_SHIFT
<1> DEFINE m == MonthFromMarch(s)
           y == IF m =< 2 THEN year + 1 ELSE year
           date == Date(y, m, day)
<1>1. /\ (IF m =< 2 THEN y - 1 ELSE y) = year
      /\ (IF m > 2 THEN m - 3 ELSE m + 9) = s
  BY MonthsTurn, SMT
<1>2. date.year = y /\ date.month = m /\ date.day = day
  BY SMT DEF Date
<1> HIDE DEF date, y, m
<1>3. days_since_epoch(date)
        = ((year \div 400) * DAYS_PER_ERA + YearsDays(year % 400)
            + DaysBefore(s) + day - 1) - EPOCH_SHIFT
  BY <1>1, <1>2, SMT DEF days_since_epoch
<1> QED
  BY <1>3, SMT DEF Base, date, y, m

\* The date of a day, in terms of its split: what the two theorems share.
LEMMA DateBySplit ==
    ASSUME NEW era, NEW h, NEW q, NEW r, NEW i, NEW year,
           YearSplits(year, era, h, q, r), Splits(h, q, r, i)
    PROVE  LET s == (5 * i + 2) \div 153
               m == MonthFromMarch(s)
           IN  from_days_since_epoch((Base(year) + i) - EPOCH_SHIFT)
                 = Date(IF m =< 2 THEN year + 1 ELSE year, m, (i - DaysBefore(s)) + 1)
<1>1. era \in Int /\ year = (100 * h + 4 * q + r) + era * 400 /\ i \in Int
      /\ h \in Int /\ q \in Int /\ r \in Int
  BY SMT DEF YearSplits, Splits
<1>2. Base(year) = era * 146097 + (36524 * h + 1461 * q + 365 * r)
  BY BaseIs, SMT
<1>3. era * DAYS_PER_ERA + DayOfEra(h, q, r, i) = Base(year) + i
  BY <1>1, <1>2, SMT DEF DAYS_PER_ERA, DayOfEra
<1> DEFINE s == (5 * i + 2) \div 153
           y == (100 * h + 4 * q + r) + era * 400
<1>4. from_days_since_epoch((era * DAYS_PER_ERA + DayOfEra(h, q, r, i)) - EPOCH_SHIFT)
        = Date(IF MonthFromMarch(s) =< 2 THEN y + 1 ELSE y,
               MonthFromMarch(s), (i - DaysBefore(s)) + 1)
  BY <1>1, SplitIsDate, SMT
<1> HIDE DEF s
<1> QED
  BY <1>1, <1>3, <1>4, SMT DEF s

\* Every day is a date that exists, and it is the day of that date
\* (date.rs: from_days_since_epoch, days_since_epoch).
THEOREM DaysAreDates ==
    \A d \in Int : /\ IsDate(from_days_since_epoch(d))
                   /\ days_since_epoch(from_days_since_epoch(d)) = d
<1> SUFFICES ASSUME NEW d \in Int
             PROVE  /\ IsDate(from_days_since_epoch(d))
                    /\ days_since_epoch(from_days_since_epoch(d)) = d
  OBVIOUS
<1> DEFINE z == d + EPOCH_SHIFT
           era == z \div 146097
           e == z % 146097
<1>1. z \in Int /\ d = z - EPOCH_SHIFT
  BY SMT DEF EPOCH_SHIFT
<1> HIDE DEF z
<1>2. era \in Int /\ e \in Int /\ 0 =< e /\ e =< 146096 /\ z = era * 146097 + e
  BY <1>1, SMT
<1> HIDE DEF era, e
<1>3. PICK h, q, r, i \in Int : Splits(h, q, r, i) /\ e = DayOfEra(h, q, r, i)
  BY <1>2, EraSplits, SMT
<1> DEFINE year == (100 * h + 4 * q + r) + era * 400
<1>4. YearSplits(year, era, h, q, r) /\ year \in Int
  BY <1>2, <1>3, SMT DEF YearSplits, Splits
<1> HIDE DEF year
<1>5. d = (Base(year) + i) - EPOCH_SHIFT /\ Base(year) \in Int
  <2>1. Base(year) = era * 146097 + (36524 * h + 1461 * q + 365 * r)
    BY <1>4, BaseIs, SMT
  <2>2. z = Base(year) + i
    BY <1>2, <1>3, <2>1, SMT DEF DayOfEra
  <2> QED
    BY <1>1, <1>4, <2>2, YearLength, SMT
<1> DEFINE s == (5 * i + 2) \div 153
           day == (i - DaysBefore(s)) + 1
           m == MonthFromMarch(s)
           y == IF m =< 2 THEN year + 1 ELSE year
           date == Date(y, m, day)
<1>6. from_days_since_epoch(d) = date
  BY <1>3, <1>4, <1>5, DateBySplit, SMT
<1>7. 0 =< i /\ i =< 365 /\ (i = 365 => r = 3 /\ (q < 24 \/ h = 3))
  BY <1>3, SMT DEF Splits
<1>8. /\ s \in Int /\ 0 =< s /\ s =< 11
      /\ day \in Int /\ 1 =< day /\ day =< LengthFromMarch(s, i = 365)
      /\ DaysBefore(s) + day - 1 = i
  BY <1>7, MonthIsRead, SMT
<1> HIDE DEF s, day
<1> DEFINE leap == is_leap_year(year + 1)
<1>9. i = 365 => leap
  BY <1>4, <1>7, SplitLeaps, SMT
<1>10. /\ m \in Int /\ 1 =< m /\ m =< 12 /\ y \in Int
       /\ days_in_month(y, m) = LengthFromMarch(s, leap)
  BY <1>4, <1>8, MonthsTurn, SMT
<1>11. days_since_epoch(date) = (Base(year) + DaysBefore(s) + day - 1) - EPOCH_SHIFT
  BY <1>4, <1>8, DaysByMarch, SMT
<1> HIDE DEF m, y, leap
<1>12. LengthFromMarch(s, i = 365) =< LengthFromMarch(s, leap)
  <2>1. leap \in BOOLEAN
    BY SMT DEF leap, is_leap_year
  <2> QED
    BY <1>8, <1>9, <2>1, SMT DEF LengthFromMarch
<1>13. LengthFromMarch(s, i = 365) \in Int /\ LengthFromMarch(s, leap) \in Int
  BY SMT DEF LengthFromMarch
<1>14. IsDate(date)
  <2>1. day \in 1..days_in_month(y, m) /\ m \in 1..12
    BY <1>8, <1>10, <1>12, <1>13, SMT
  <2>2. date.year = y /\ date.month = m /\ date.day = day
    BY SMT DEF Date
  <2> HIDE DEF date
  <2>3. Exists(date)
    BY <2>1, <2>2, SMT DEF Exists
  <2>4. date = Date(date.year, date.month, date.day)
    BY <2>2, SMT DEF date
  <2> QED
    BY <1>10, <2>2, <2>3, <2>4, SMT DEF IsDate
<1> HIDE DEF date
<1>15. DaysBefore(s) \in Int
  BY <1>8, SMT DEF DaysBefore
<1>16. Base(year) + DaysBefore(s) + day - 1 = Base(year) + i
  BY <1>5, <1>8, <1>15, SMT
<1> QED
  BY <1>5, <1>6, <1>11, <1>14, <1>16, SMT

\* A date, by the year that begins in March, the month from there and the day.
FromMarch(date, year, s, day) ==
    LET m == MonthFromMarch(s)
        y == IF m =< 2 THEN year + 1 ELSE year
    IN  /\ year \in Int /\ s \in Int /\ 0 =< s /\ s =< 11 /\ day \in Int
        /\ date = Date(y, m, day) /\ date.year = y
        /\ 1 =< day /\ day =< LengthFromMarch(s, is_leap_year(year + 1))

LEMMA DateFromMarch ==
    ASSUME NEW date, IsDate(date)
    PROVE  \E year, s, day \in Int : FromMarch(date, year, s, day)
<1> DEFINE n == date.month
           year == IF n =< 2 THEN date.year - 1 ELSE date.year
           s == IF n > 2 THEN n - 3 ELSE n + 9
           day == date.day
           long == days_in_month(date.year, n)
<1>1. /\ date = Date(date.year, date.month, date.day)
      /\ date.year \in Int /\ n \in 1..12 /\ day \in 1..long
  BY SMT DEF IsDate, Exists
<1>2. n \in Int /\ 1 =< n /\ n =< 12
  BY <1>1, SMT
<1>3. long \in Int
  BY SMT DEF days_in_month
<1> HIDE DEF long, n
<1>4. day \in Int /\ 1 =< day /\ day =< long
  BY <1>1, <1>3, SMT
<1>5. year \in Int /\ s \in Int /\ 0 =< s /\ s =< 11
  BY <1>1, <1>2, SMT
<1>6. MonthFromMarch(s) = n
  BY <1>2, SMT DEF MonthFromMarch
<1>7. (IF n =< 2 THEN year + 1 ELSE year) = date.year
  BY <1>1, <1>2, SMT
<1> HIDE DEF year, s
<1>8. days_in_month(IF n =< 2 THEN year + 1 ELSE year, n)
        = LengthFromMarch(s, is_leap_year(year + 1))
  <2> DEFINE m == MonthFromMarch(s)
             y == IF m =< 2 THEN year + 1 ELSE year
  <2>1. days_in_month(y, m) = LengthFromMarch(s, is_leap_year(year + 1))
    BY <1>5, MonthsTurn, Zenon
  <2> QED
    BY <1>6, <2>1, Zenon
<1>9. day =< LengthFromMarch(s, is_leap_year(year + 1))
  BY <1>4, <1>7, <1>8, SMT DEF long
<1>10. date = Date(IF MonthFromMarch(s) =< 2 THEN year + 1 ELSE year, MonthFromMarch(s), day)
  BY <1>1, <1>6, <1>7, SMT DEF n
<1>11. date.year = IF MonthFromMarch(s) =< 2 THEN year + 1 ELSE year
  BY <1>6, <1>7, SMT
<1> HIDE DEF day
<1>12. FromMarch(date, year, s, day)
  BY <1>4, <1>5, <1>9, <1>10, <1>11, Zenon DEF FromMarch
<1> QED
  BY <1>4, <1>5, <1>12, Zenon

\* Every date that exists is one day, and read back from it: the conversion loses
\* no day and invents none (date.rs: days_since_epoch, from_days_since_epoch).
THEOREM DatesAreDays ==
    \A date : IsDate(date) => /\ days_since_epoch(date) \in Int
                              /\ from_days_since_epoch(days_since_epoch(date)) = date
<1> SUFFICES ASSUME NEW date, IsDate(date)
             PROVE  /\ days_since_epoch(date) \in Int
                    /\ from_days_since_epoch(days_since_epoch(date)) = date
  OBVIOUS
<1>0. PICK year, s, day \in Int : FromMarch(date, year, s, day)
  BY DateFromMarch, Zenon
<1>1. date = Date(IF MonthFromMarch(s) =< 2 THEN year + 1 ELSE year, MonthFromMarch(s), day)
  BY <1>0, Zenon DEF FromMarch
<1> DEFINE leap == is_leap_year(year + 1)
           i == DaysBefore(s) + day - 1
           m == MonthFromMarch(s)
<1>2. leap \in BOOLEAN
  BY SMT DEF is_leap_year
<1>3. 0 =< s /\ s =< 11 /\ 1 =< day /\ day =< LengthFromMarch(s, leap)
  BY <1>0, Zenon DEF FromMarch
<1> HIDE DEF leap
<1>4. /\ i \in Int /\ 0 =< i /\ i =< 365
      /\ (5 * i + 2) \div 153 = s
      /\ i = 365 => s = 11 /\ leap
  BY <1>2, <1>3, MonthIsWritten, SMT
<1>5. DaysBefore(s) \in Int
  BY SMT DEF DaysBefore
<1>6. days_since_epoch(date) = (Base(year) + i) - EPOCH_SHIFT /\ Base(year) \in Int
  <2>1. days_since_epoch(date) = (Base(year) + DaysBefore(s) + day - 1) - EPOCH_SHIFT
    BY <1>1, <1>3, DaysByMarch, SMT
  <2>2. Base(year) \in Int
    BY YearLength, SMT
  <2>3. Base(year) + DaysBefore(s) + day - 1 = Base(year) + i
    BY <1>5, <2>2, SMT
  <2> QED
    BY <2>1, <2>2, <2>3, SMT
<1>7. (i - DaysBefore(s)) + 1 = day
  BY <1>5, SMT
<1> HIDE DEF i
<1>8. PICK era, h, q, r : YearSplits(year, era, h, q, r)
  BY YearIsSplit, SMT
<1>9. leap <=> r = 3 /\ (q < 24 \/ h = 3)
  BY <1>8, SplitLeaps, SMT DEF leap
<1>10. Splits(h, q, r, i)
  BY <1>4, <1>8, <1>9, SMT DEF YearSplits, Splits
<1>11. from_days_since_epoch((Base(year) + i) - EPOCH_SHIFT)
         = Date(IF m =< 2 THEN year + 1 ELSE year, m, day)
  <2> DEFINE u == (5 * i + 2) \div 153
  <2>1. from_days_since_epoch((Base(year) + i) - EPOCH_SHIFT)
          = Date(IF MonthFromMarch(u) =< 2 THEN year + 1 ELSE year, MonthFromMarch(u),
                 (i - DaysBefore(u)) + 1)
    BY <1>8, <1>10, DateBySplit, SMT
  <2>2. u = s
    BY <1>4, SMT
  <2> HIDE DEF u
  <2> QED
    BY <1>7, <2>1, <2>2, SMT
<1>12. (Base(year) + i) - EPOCH_SHIFT \in Int
  BY <1>4, <1>6, SMT DEF EPOCH_SHIFT
<1> QED
  BY <1>1, <1>6, <1>11, <1>12, SMT

\* The day of the year an ePID shows is one the year has (date.rs: day_of_year).
THEOREM DayOfYearExists ==
    \A date : IsDate(date) =>
        /\ day_of_year(date) \in Int
        /\ 1 =< day_of_year(date)
        /\ day_of_year(date) =< IF is_leap_year(date.year) THEN 366 ELSE 365
<1> SUFFICES ASSUME NEW date, IsDate(date)
             PROVE  /\ day_of_year(date) \in Int
                    /\ 1 =< day_of_year(date)
                    /\ day_of_year(date) =< IF is_leap_year(date.year) THEN 366 ELSE 365
  OBVIOUS
<1>0. PICK year, s, day \in Int : FromMarch(date, year, s, day)
  BY DateFromMarch, Zenon
<1>1. /\ date = Date(IF MonthFromMarch(s) =< 2 THEN year + 1 ELSE year, MonthFromMarch(s), day)
      /\ date.year = IF MonthFromMarch(s) =< 2 THEN year + 1 ELSE year
  BY <1>0, Zenon DEF FromMarch
<1> DEFINE leap == is_leap_year(year + 1)
           m == MonthFromMarch(s)
           i == DaysBefore(s) + day - 1
           v == date.year
<1>2. leap \in BOOLEAN /\ is_leap_year(v) \in BOOLEAN
  BY SMT DEF is_leap_year
<1>3. 0 =< s /\ s =< 11 /\ 1 =< day /\ day =< LengthFromMarch(s, leap)
  BY <1>0, Zenon DEF FromMarch
<1>4. s \in {0, 1, 2, 3, 4, 5, 6, 7, 8, 9, 10, 11}
  BY <1>3, SMT
<1>5. /\ s < 10 => m > 2 /\ ~(m =< 2)
      /\ s >= 10 => m =< 2
  BY <1>4, SMT DEF MonthFromMarch
<1>6. v = IF s < 10 THEN year ELSE year + 1
  BY <1>1, <1>4, <1>5, SMT
<1>7. /\ days_since_epoch(date) = (Base(year) + DaysBefore(s) + day - 1) - EPOCH_SHIFT
      /\ Base(year) \in Int /\ v \in Int
  <2>1. days_since_epoch(Date(IF MonthFromMarch(s) =< 2 THEN year + 1 ELSE year,
                              MonthFromMarch(s), day))
          = (Base(year) + DaysBefore(s) + day - 1) - EPOCH_SHIFT
    BY <1>1, <1>3, DaysByMarch, SMT
  <2>2. Base(year) \in Int
    BY <1>1, YearLength, SMT
  <2>3. v \in Int
    BY <1>1, <1>6, SMT
  <2> QED
    BY <1>1, <2>1, <2>2, <2>3, Zenon
<1>8. days_since_epoch(Date(v, 1, 1)) = (Base(v - 1) + 306) - EPOCH_SHIFT /\ Base(v - 1) \in Int
  <2> DEFINE w == v - 1
  <2>1. w \in Int /\ w + 1 = v
    BY <1>7, SMT
  <2> HIDE DEF w
  <2>2. MonthFromMarch(10) = 1 /\ DaysBefore(10) = 306
    BY SMT DEF MonthFromMarch, DaysBefore
  <2>3. days_since_epoch(Date(IF MonthFromMarch(10) =< 2 THEN w + 1 ELSE w, MonthFromMarch(10), 1))
          = (Base(w) + DaysBefore(10) + 1 - 1) - EPOCH_SHIFT
    BY <2>1, DaysByMarch, SMT
  <2>4. Base(w) \in Int
    BY <2>1, YearLength, SMT
  <2>5. days_since_epoch(Date(v, 1, 1)) = (Base(w) + 306 + 1 - 1) - EPOCH_SHIFT
    BY <2>1, <2>2, <2>3, SMT
  <2>6. (Base(w) + 306 + 1 - 1) - EPOCH_SHIFT = (Base(w) + 306) - EPOCH_SHIFT
    BY <2>4, SMT DEF EPOCH_SHIFT
  <2> QED
    BY <2>4, <2>5, <2>6, SMT DEF w
<1> HIDE DEF leap, m
<1>9. /\ i \in Int /\ DaysBefore(s) \in Int
      /\ s < 10 => 0 =< i /\ i =< 305
      /\ s >= 10 => 306 =< i /\ i =< (IF leap THEN 365 ELSE 364)
  <2> DEFINE b == DaysBefore(s)
             n == LengthFromMarch(s, leap)
  <2>1. /\ s = 0 => b = 0 /\ n = 31
        /\ s = 1 => b = 31 /\ n = 30
        /\ s = 2 => b = 61 /\ n = 31
        /\ s = 3 => b = 92 /\ n = 30
        /\ s = 4 => b = 122 /\ n = 31
        /\ s = 5 => b = 153 /\ n = 31
        /\ s = 6 => b = 184 /\ n = 30
        /\ s = 7 => b = 214 /\ n = 31
        /\ s = 8 => b = 245 /\ n = 30
        /\ s = 9 => b = 275 /\ n = 31
        /\ s = 10 => b = 306 /\ n = 31
        /\ s = 11 => b = 337 /\ n = IF leap THEN 29 ELSE 28
    BY <1>2, SMT DEF DaysBefore, LengthFromMarch
  <2> HIDE DEF b, n
  <2>2. day =< n
    BY <1>3, SMT DEF n
  <2>3. /\ b + day - 1 \in Int /\ b \in Int
        /\ s < 10 => 0 =< b + day - 1 /\ b + day - 1 =< 305
        /\ s >= 10 => 306 =< b + day - 1 /\ b + day - 1 =< (IF leap THEN 365 ELSE 364)
    BY <1>2, <1>3, <1>4, <2>1, <2>2, SMT
  <2> QED
    BY <2>3, SMT DEF b
<1>10. day_of_year(date)
         = (((Base(year) + DaysBefore(s) + day - 1) - EPOCH_SHIFT)
              - ((Base(v - 1) + 306) - EPOCH_SHIFT)) + 1
  BY <1>7, <1>8, SMT DEF day_of_year
<1>11. day_of_year(date) = (Base(year) - Base(v - 1)) + (i - 305)
  BY <1>7, <1>8, <1>9, <1>10, SMT DEF EPOCH_SHIFT
<1> HIDE DEF i
<1>12. CASE s >= 10
  <2>1. v - 1 = year /\ v = year + 1
    BY <1>6, <1>12, SMT
  <2>2. day_of_year(date) = i - 305
    BY <1>7, <1>9, <1>11, <2>1, SMT
  <2> QED
    BY <1>9, <1>12, <2>2, SMT
<1>13. CASE s < 10
  <2> DEFINE w == year - 1
             long == is_leap_year(year)
  <2>1. v = year /\ v - 1 = w /\ w \in Int /\ w + 1 = year
    BY <1>6, <1>13, SMT
  <2> HIDE DEF w
  <2>2. Base(year) = Base(w) + (IF long THEN 366 ELSE 365) /\ Base(w) \in Int
    BY <2>1, YearLength, SMT
  <2>3. long \in BOOLEAN
    BY <1>2, <2>1, SMT
  <2> HIDE DEF long
  <2>4. day_of_year(date) = (IF long THEN 366 ELSE 365) + (i - 305)
    BY <1>7, <1>9, <1>11, <2>1, <2>2, <2>3, SMT
  <2>5. /\ day_of_year(date) \in Int /\ 1 =< day_of_year(date)
        /\ day_of_year(date) =< IF long THEN 366 ELSE 365
    BY <1>9, <1>13, <2>3, <2>4, SMT
  <2> QED
    BY <2>1, <2>5, SMT DEF long
<1> QED
  BY <1>4, <1>12, <1>13, SMT
=============================================================================
