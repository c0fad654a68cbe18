---------------------------- MODULE ClientCounts ----------------------------
(***************************************************************************)
(* The client-count world of kmsrs-policy/counting.rs: which machines the  *)
(* host is holding per application, and the count it reports.              *)
(*                                                                         *)
(* A bucket is [application, entries]; an entry is [cmid, seen], oldest    *)
(* first.  The operations are operators on a sequence of buckets, so that  *)
(* module Host can use them; the state machine below drives them with one  *)
(* request at a time and a clock that may stand still or jump.             *)
(***************************************************************************)
EXTENDS Integers, Sequences, FiniteSetsExt

CONSTANTS
    Applications,     \* application GUIDs clients send
    Machines,         \* client machine IDs
    Demands,          \* N_Policy values clients declare
    MaxApplications,  \* MAX_APPLICATIONS
    MaxTracked,       \* MAX_TRACKED_REQUIRED_CLIENTS
    MaxCached,        \* MAX_CACHED_PER_APPLICATION
    Expiry,           \* CMID_EXPIRY
    MaxTime           \* bound: the last instant explored

Least2(a, b) == IF a =< b THEN a ELSE b

Most2(a, b) == IF a >= b THEN a ELSE b

DropFirst(s, n) == SubSeq(s, n + 1, Len(s))

RemoveAtPosition(s, p) ==
    [i \in 1..(Len(s) - 1) |-> IF i < p THEN s[i] ELSE s[i + 1]]

(***************************************************************************)
(* Bucket::expire: entries leave from the front, up to the first live one. *)
(***************************************************************************)
\* Mutant: an entry counts for one instant too long.
LiveAtExpiry(entry, now) == now - entry.seen =< Expiry

Live(entry, now) == now - entry.seen < Expiry

ExpiredPrefix(entries, now) ==
    Min({i \in 1..Len(entries) : Live(entries[i], now)} \cup {Len(entries) + 1}) - 1

Expire(entries, now) == DropFirst(entries, ExpiredPrefix(entries, now))

(***************************************************************************)
(* Bucket::record: a renewal is moved to the back; a newcomer displaces    *)
(* the oldest entry when the bucket is full.                               *)
(***************************************************************************)
Positions(entries, cmid) == {i \in 1..Len(entries) : entries[i].cmid = cmid}

Remaining(entries, cmid) ==
    IF Positions(entries, cmid) # {}
      THEN RemoveAtPosition(entries, Min(Positions(entries, cmid)))
    ELSE IF Len(entries) >= MaxCached THEN DropFirst(entries, 1)
    ELSE entries

RecordIn(entries, cmid, now) ==
    Append(Remaining(entries, cmid), [cmid |-> cmid, seen |-> now])

Outcome(entries, cmid) ==
    IF Positions(entries, cmid) # {} THEN "renewed"
    ELSE IF Len(entries) >= MaxCached THEN "inserted_with_eviction"
    ELSE "inserted"

(***************************************************************************)
(* ClientCounts::bucket_for: the application's bucket, a new one while     *)
(* there is room, or else the one whose newest entry is oldest, emptied.   *)
(***************************************************************************)
BucketsOf(buckets, application) ==
    {i \in 1..Len(buckets) : buckets[i].application = application}

NewestSeen(bucket, now) ==
    IF bucket.entries = <<>> THEN now ELSE bucket.entries[Len(bucket.entries)].seen

Stalest(buckets, now) ==
    Min({i \in 1..Len(buckets) : \A j \in 1..Len(buckets) :
              NewestSeen(buckets[i], now) =< NewestSeen(buckets[j], now)})

EmptyBucket(application) == [application |-> application, entries |-> <<>>]

BucketFor(buckets, application, now) ==
    IF BucketsOf(buckets, application) # {}
      THEN [index |-> Min(BucketsOf(buckets, application)), buckets |-> buckets]
    ELSE IF Len(buckets) < MaxApplications
      THEN [index |-> Len(buckets) + 1, buckets |-> Append(buckets, EmptyBucket(application))]
    ELSE [index |-> Stalest(buckets, now),
          buckets |-> [buckets EXCEPT ![Stalest(buckets, now)] = EmptyBucket(application)]]

(***************************************************************************)
(* ClientCounts::observe: the new buckets, and the view to answer with.    *)
(***************************************************************************)
Observe(buckets, application, cmid, now) ==
    LET found == BucketFor(buckets, application, now)
        kept  == Expire(found.buckets[found.index].entries, now)
    IN  [found.buckets EXCEPT ![found.index].entries = RecordIn(kept, cmid, now)]

\* The reported number: the world, floored at an ordinary demand.
Reported(cached, demand) ==
    LET tracked == Most2(1, Least2(demand, MaxTracked))
        world   == Least2(cached, 2 * tracked)
    IN  IF demand > MaxTracked THEN world ELSE Most2(world, demand)

View(buckets, application, cmid, demand, now) ==
    LET found == BucketFor(buckets, application, now)
        old   == found.buckets[found.index].entries
        kept  == Expire(old, now)
        cached == Len(RecordIn(kept, cmid, now))
    IN  [reported  |-> Reported(cached, demand),
         cached    |-> cached,
         outcome   |-> Outcome(kept, cmid),
         expired   |-> Len(old) - Len(kept),
         anomalous |-> demand > MaxTracked]

-----------------------------------------------------------------------------
VARIABLES
    buckets,   \* the world
    now,       \* the instant of the current request
    view,      \* the last answer, and the request it answers
    seenAt     \* observer: when each machine was last counted, since its
               \* application's bucket was last created (-1: never)

vars == <<buckets, now, view, seenAt>>

Never == -1

NoRequest == [application |-> 0, demand |-> 0, reported |-> 0, cached |-> 0]

Init ==
    /\ buckets = <<>>
    /\ now = 0
    /\ view = NoRequest
    /\ seenAt = [a \in Applications |-> [m \in Machines |-> Never]]

Holds(bs, a) == BucketsOf(bs, a) # {}

\* A granted request of a machine for an application.
ObserveRequest(a, m, n) ==
    LET answer == View(buckets, a, m, n, now)
        after  == Observe(buckets, a, m, now)
    IN  /\ buckets' = after
        /\ view' = [application |-> a, demand |-> n,
                    reported |-> answer.reported, cached |-> answer.cached]
        /\ seenAt' = [b \in Applications |-> [c \in Machines |->
                        IF b = a /\ c = m THEN now
                        ELSE IF Holds(buckets, b) /\ Holds(after, b) THEN seenAt[b][c]
                        ELSE Never]]
        /\ UNCHANGED now

\* The monotonic clock moves on between requests.
Tick(d) ==
    /\ now + d =< MaxTime
    /\ now' = now + d
    /\ UNCHANGED <<buckets, view, seenAt>>

Next ==
    \/ \E a \in Applications, m \in Machines, n \in Demands : ObserveRequest(a, m, n)
    \/ \E d \in 1..Expiry : Tick(d)

Spec == Init /\ [][Next]_vars

-----------------------------------------------------------------------------
\* What a genuine host could say: an ordinary demand is met, never with more than
\* twice what was asked; past the cap nothing is invented.
Plausible(v) ==
    IF v.demand > MaxTracked THEN v.reported =< v.cached
    ELSE v.reported >= v.demand /\ v.reported =< 2 * Most2(1, v.demand)

\* The reference definition of the count: after a request, the machines held
\* for its application are those seen within the expiry period since the
\* bucket was created, capped; nobody live is forgotten below the cap and
\* nobody expired or held twice is counted, and what is reported is plausible.
CountIsExact ==
    view' # view /\ now' = now =>
        LET a == view'.application
            live == {m \in Machines : seenAt'[a][m] # Never /\ now - seenAt'[a][m] < Expiry}
        IN  /\ view'.cached = Least2(Cardinality(live), MaxCached)
            /\ Plausible(view')

\* When the newest entry of an application was made.
NewestOf(bs, a) ==
    LET entries == bs[Min(BucketsOf(bs, a))].entries
    IN  entries[Len(entries)].seen

\* A burst of unknown applications displaces a bucket only when the table is
\* full, and never one that was used more recently than another that stays.
StaleBucketDisplaced ==
    \A a, b \in Applications :
        Holds(buckets, a) /\ ~Holds(buckets', a) /\ Holds(buckets, b) /\ Holds(buckets', b)
            => Len(buckets) = MaxApplications /\ NewestOf(buckets, a) =< NewestOf(buckets, b)

\* The table forgets what it must and nothing else, and says what it holds.
CountsKept == [][CountIsExact /\ StaleBucketDisplaced]_vars
=============================================================================
