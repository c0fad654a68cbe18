----------------------------- MODULE RateLimiter -----------------------------
(***************************************************************************)
(* The token buckets of kmsrs-policy/access.rs, one per key; a key is a    *)
(* (source address, application) pair after `canonical'.                   *)
(*                                                                         *)
(* Time is in ticks, Second of them to a second: the code refills whole    *)
(* seconds of a finer clock, and what happens between them matters.        *)
(* Arithmetic on tokens saturates far above the burst and is left out.     *)
(***************************************************************************)
EXTENDS Integers, Sequences, FiniteSetsExt

CONSTANTS
    Keys,         \* (address, application) pairs
    Burst,        \* BURST
    Refill,       \* REFILL_PER_SECOND
    MaxSources,   \* MAX_TRACKED_SOURCES
    Second,       \* ticks in a second
    MaxTicks      \* bound: the last tick explored

\* What the code's constants are.
ASSUME LimiterAssumption ==
    /\ Burst \in Nat \ {0} /\ Refill \in Nat \ {0} /\ Second \in Nat \ {0}
    /\ MaxSources \in Nat \ {0} /\ MaxTicks \in Nat

AtMost(a, b) == IF a =< b THEN a ELSE b

(***************************************************************************)
(* RateLimiter::bucket_for.  A bucket is [key, tokens, last_refill,        *)
(* last_seen], and three observer fields: when it was made, how many       *)
(* requests it has admitted since, and how many tokens the burst cut off.  *)
(***************************************************************************)
AllowancesOf(buckets, key) == {i \in 1..Len(buckets) : buckets[i].key = key}

Fresh(key, now) ==
    [key |-> key, tokens |-> Burst, last_refill |-> now, last_seen |-> now,
     born |-> now, admitted |-> 0, spilled |-> 0]

StalestAllowance(buckets) ==
    Min({i \in 1..Len(buckets) : \A j \in 1..Len(buckets) :
               buckets[i].last_seen =< buckets[j].last_seen})

AllowanceFor(buckets, key, now) ==
    IF AllowancesOf(buckets, key) # {}
      THEN [index |-> Min(AllowancesOf(buckets, key)), buckets |-> buckets]
    ELSE IF Len(buckets) < MaxSources
      THEN [index |-> Len(buckets) + 1, buckets |-> Append(buckets, Fresh(key, now))]
    ELSE [index |-> StalestAllowance(buckets),
          buckets |-> [buckets EXCEPT ![StalestAllowance(buckets)] = Fresh(key, now)]]

(***************************************************************************)
(* RateLimiter::admit on one bucket: refill for the whole seconds passed,  *)
(* then take a token if there is one.                                      *)
(***************************************************************************)
\* Mutant: a second earns nothing until it is more than over.
EarnedLate(bucket, now) == ((now - bucket.last_refill - 1) \div Second) * Refill

Earned(bucket, now) == ((now - bucket.last_refill) \div Second) * Refill

Refilled(bucket, now) ==
    IF Earned(bucket, now) > 0
      THEN [bucket EXCEPT !.tokens = AtMost(@ + Earned(bucket, now), Burst),
                          !.spilled = @ + bucket.tokens + Earned(bucket, now)
                                        - AtMost(bucket.tokens + Earned(bucket, now), Burst),
                          !.last_refill = now, !.last_seen = now]
      ELSE [bucket EXCEPT !.last_seen = now]

Spend(bucket) ==
    IF bucket.tokens = 0 THEN bucket
    ELSE [bucket EXCEPT !.tokens = @ - 1, !.admitted = @ + 1]

Admit(buckets, key, now) ==
    LET found == AllowanceFor(buckets, key, now)
        full  == Refilled(found.buckets[found.index], now)
    IN  [buckets |-> [found.buckets EXCEPT ![found.index] = Spend(full)],
         admission |-> IF full.tokens = 0 THEN "limited" ELSE "allowed"]

-----------------------------------------------------------------------------
VARIABLES
    allowances,   \* the table
    ticks,        \* the monotonic clock, in ticks
    last          \* the last decision: [key, admission]

limiter_vars == <<allowances, ticks, last>>

LimiterInit ==
    /\ allowances = <<>>
    /\ ticks = 0
    /\ last = [key |-> "none", admission |-> "none"]

Request(key) ==
    LET result == Admit(allowances, key, ticks)
    IN  /\ allowances' = result.buckets
        /\ last' = [key |-> key, admission |-> result.admission]
        /\ UNCHANGED ticks

LimiterTick ==
    /\ ticks < MaxTicks
    /\ ticks' = ticks + 1
    /\ UNCHANGED <<allowances, last>>

LimiterNext == LimiterTick \/ \E key \in Keys : Request(key)

LimiterSpec == LimiterInit /\ [][LimiterNext]_limiter_vars

-----------------------------------------------------------------------------
Allowance == [key : Keys, tokens : 0..Burst, last_refill : Nat, last_seen : Nat,
              born : Nat, admitted : Nat, spilled : Nat]

\* Type and capacity of the table, times that never lie ahead, and one bucket
\* per key: a source cannot have two allowances.
LimiterTypeOK ==
    /\ allowances \in Seq(Allowance)
    /\ Len(allowances) =< MaxSources
    /\ ticks \in Nat
    /\ \A i \in 1..Len(allowances) :
          /\ allowances[i].last_seen =< ticks
          /\ allowances[i].last_refill =< allowances[i].last_seen
          /\ allowances[i].born =< allowances[i].last_refill
    /\ \A i, j \in 1..Len(allowances) : allowances[i].key = allowances[j].key => i = j

\* The rate: since its one bucket was made, a source has been admitted at most a
\* burst plus what the elapsed time earns, however its requests are spaced.
NeverOverRate ==
    /\ LimiterTypeOK
    /\ \A i \in 1..Len(allowances) :
          (allowances[i].admitted + allowances[i].tokens + allowances[i].spilled) * Second
             =< Burst * Second + (allowances[i].last_refill - allowances[i].born) * Refill

\* A refill starts its second anew and drops the fraction that had passed: however
\* its requests are spaced a source earns at least half its rate, and asking it is
\* never a whole second behind.
AtLeastHalfRate ==
    \A i \in 1..Len(allowances) :
        LET bucket == allowances[i]
        IN  /\ 2 * (Burst * Second) + (bucket.last_refill - bucket.born) * Refill
                  =< 2 * ((bucket.admitted + bucket.tokens + bucket.spilled) * Second)
            /\ bucket.last_seen - bucket.last_refill < Second

\* Quiet for a whole second, a source is admitted: a refusal never outlives the
\* retry_after it is given.
QuietSourceAdmitted ==
    \A key \in Keys :
        /\ last' = [key |-> key, admission |-> "limited"]
        /\ allowances' # allowances
        => \A i \in AllowancesOf(allowances, key) : ticks - allowances[i].last_seen < Second

\* A source's rate is bounded both ways, whatever the spacing of its requests and
\* whichever buckets are displaced: never more than a burst and a Refill a second,
\* never less than half of that, and no refusal past its retry_after.
RateKept == [][NeverOverRate' /\ AtLeastHalfRate' /\ QuietSourceAdmitted]_limiter_vars
=============================================================================
