------------------------------ MODULE EventLog ------------------------------
(***************************************************************************)
(* The event log of kmsrs-policy/events.rs: bounded in number and in age,  *)
(* every event numbered, every loss counted; and the fleet view over it.   *)
(*                                                                         *)
(* An event is a record with a sequence number, an instant, and what the   *)
(* request was; names, peers and license states are carried along by the   *)
(* code and left out.  Sequence numbers are u64 and saturate out of reach. *)
(***************************************************************************)
EXTENDS Integers, Sequences, FiniteSetsExt

CONSTANTS
    Requests,    \* what an event says of its request: a set of records with
                 \* the fields cmid, sku, application and activated
    Capacity,    \* DEFAULT_CAPACITY
    Retention,   \* DEFAULT_RETENTION
    MaxRecorded, \* bound: events recorded
    MaxTime      \* bound: the last instant explored

ASSUME LogAssumption ==
    /\ Capacity \in Nat \ {0}
    /\ Retention \in Nat \ {0}
    /\ MaxRecorded \in Nat
    /\ MaxTime \in Nat

VARIABLES
    events,          \* oldest first
    next_sequence,
    by_capacity,     \* dropped because the log was full
    by_retention,    \* dropped because they were too old
    now              \* the monotonic clock

log == <<events, next_sequence, by_capacity, by_retention>>
log_vars == <<log, now>>

(***************************************************************************)
(* EventLog::expire: drop from the front up to the first event in the      *)
(* window.                                                                 *)
(***************************************************************************)
\* Mutant: an event is kept for one instant too long.
InWindowAtEnd(event, at) == at - event.at =< Retention

InWindow(event, at) == at - event.at < Retention

Aged(es, at) ==
    Min({i \in 1..Len(es) : InWindow(es[i], at)} \cup {Len(es) + 1}) - 1

Kept(es, at) == SubSeq(es, Aged(es, at) + 1, Len(es))

\* pop_front, when there is no room for one more.
WithRoom(es) == IF Len(es) >= Capacity THEN SubSeq(es, 2, Len(es)) ELSE es

Event(sequence, at, request) ==
    [sequence |-> sequence, at |-> at, request |-> request]

LogInit ==
    /\ events = <<>>
    /\ next_sequence = 0
    /\ by_capacity = 0
    /\ by_retention = 0
    /\ now = 0

\* Mutant: expiry is not counted.
RecordUncounted(request) ==
    LET kept == Kept(events, now)
    IN  /\ next_sequence < MaxRecorded
        /\ next_sequence' = next_sequence + 1
        /\ by_capacity' = by_capacity + (IF Len(kept) >= Capacity THEN 1 ELSE 0)
        /\ events' = Append(WithRoom(kept), Event(next_sequence, now, request))
        /\ UNCHANGED <<now, by_retention>>

Record(request) ==
    LET kept == Kept(events, now)
    IN  /\ next_sequence < MaxRecorded
        /\ by_retention' = by_retention + Aged(events, now)
        /\ next_sequence' = next_sequence + 1
        /\ by_capacity' = by_capacity + (IF Len(kept) >= Capacity THEN 1 ELSE 0)
        /\ events' = Append(WithRoom(kept), Event(next_sequence, now, request))
        /\ UNCHANGED now

LogTick(d) ==
    /\ now + d =< MaxTime
    /\ now' = now + d
    /\ UNCHANGED log

LogNext ==
    \/ \E request \in Requests : Record(request)
    \/ \E d \in 1..Retention : LogTick(d)

LogSpec == LogInit /\ [][LogNext]_log_vars

(***************************************************************************)
(* EventLog::clients: one row per (machine, SKU), newest first, and        *)
(* EventLog::distinct_machines.                                            *)
(***************************************************************************)
Key(event) == <<event.request.cmid, event.request.sku>>

About(es, i) == {j \in 1..Len(es) : Key(es[j]) = Key(es[i])}

\* Mutant: the oldest event of a key, not the newest.
Oldest(es) == {i \in 1..Len(es) : \A j \in About(es, i) : i =< j}

\* The events that are the newest of their key, which is what the rows show.
Newest(es) == {i \in 1..Len(es) : \A j \in About(es, i) : j =< i}

Row(es, i) ==
    [key            |-> Key(es[i]),
     first_seen     |-> es[Min(About(es, i))].at,
     last_seen      |-> es[i].at,
     last_sequence  |-> es[i].sequence,
     requests       |-> Cardinality(About(es, i)),
     activations    |-> Cardinality({j \in About(es, i) : es[j].request.activated}),
     activated_last |-> es[i].request.activated]

\* The k-th row: rows are sorted by descending sequence number.
NthRow(es, k) ==
    Row(es, CHOOSE i \in Newest(es) : Cardinality({j \in Newest(es) : j >= i}) = k)

Clients(es, limit) ==
    LET rows == Cardinality(Newest(es))
    IN  [k \in 1..(IF rows =< limit THEN rows ELSE limit) |-> NthRow(es, k)]

ActivatedMachines(es, application) ==
    {es[i].request.cmid : i \in {j \in 1..Len(es) : /\ es[j].request.application = application
                                                    /\ es[j].request.activated}}

DistinctMachines(es, application) == Cardinality(ActivatedMachines(es, application))

-----------------------------------------------------------------------------
LoggedEvent == [sequence : Nat, at : Nat, request : Requests]

\* Type and capacity of the log.
TypeOK ==
    /\ events \in Seq(LoggedEvent)
    /\ Len(events) =< Capacity
    /\ next_sequence \in Nat
    /\ by_capacity \in Nat
    /\ by_retention \in Nat
    /\ now \in Nat

\* Nothing is lost silently: what was recorded is held or counted as dropped.
NothingLost == next_sequence = Len(events) + by_capacity + by_retention

\* The events held are the newest ones, without a gap: a reader who asks for
\* everything since a sequence number gets exactly that.
Contiguous ==
    \A i \in 1..Len(events) : events[i].sequence = next_sequence - Len(events) + i - 1

\* The log is the newest part of everything recorded, and says how much the rest
\* is.
HoldsTheNewest == NothingLost /\ Contiguous

\* Timestamps never go back along the log, which is what lets expire stop at
\* the first event in the window.
InOrder ==
    /\ \A i, j \in 1..Len(events) : i =< j => events[i].at =< events[j].at
    /\ \A i \in 1..Len(events) : events[i].at =< now

\* Recording brings the log up to date with the window: no event it keeps is
\* older than the retention period, and none in the window is dropped by age.
InStepWithWindow ==
    next_sequence' # next_sequence =>
        /\ \A i \in 1..Len(events') : now - events'[i].at < Retention
        /\ by_retention' - by_retention
             = Cardinality({i \in 1..Len(events) : now - events[i].at >= Retention})

\* Expiry at the front is expiry of everything that is old: every recording
\* keeps exactly what the retention period says (EventLog::expire).
WindowKept == [][InStepWithWindow]_log_vars
=============================================================================
