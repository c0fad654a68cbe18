-------------------------------- MODULE Host --------------------------------
(***************************************************************************)
(* The activation decision: Host::activate with the product gate           *)
(* (kmsrs-policy/gate.rs), composed with the client counts and the event   *)
(* log, and the part of Server::handle that turns events into log lines.   *)
(*                                                                         *)
(* A request is a record [application, cmid, sku, product, demand, skewed]:*)
(* `product' is a member of Products, `skewed' says whether the client's   *)
(* clock is more than CLOCK_SKEW_TOLERANCE from the host's.                *)
(***************************************************************************)
EXTENDS Integers, Sequences, FiniteSetsExt

CONSTANTS
    Applications, Machines, Demands, MaxApplications, MaxTracked, MaxCached,
    Expiry, MaxTime,       \* see ClientCounts
    Capacity, Retention, MaxRecorded,   \* see EventLog
    Products,        \* [known, volume, preview, application]: what the database
                     \* says of a counted ID; application 0 when it names none
    Skus,            \* SKU identifiers clients send
    RefuseNonVolume, \* REFUSE_NON_VOLUME
    RefusePreview,   \* REFUSE_PREVIEW
    RefuseSkew,      \* REFUSE_CLOCK_SKEW
    ClockKnown,      \* does the host have a wall clock
    MaxPerHandle     \* bound: requests one call of Server::handle decodes

ASSUME HostAssumption ==
    /\ {MaxPerHandle, MaxApplications, MaxTracked, MaxCached, Expiry, Capacity, Retention}
          \subseteq Nat \ {0}
    /\ {MaxTime, MaxRecorded} \subseteq Nat /\ Demands \subseteq Nat /\ IsFiniteSet(Machines)
    /\ {RefuseNonVolume, RefusePreview, RefuseSkew, ClockKnown} \subseteq BOOLEAN

VARIABLES
    buckets, view, seenAt,                              \* the counts
    events, next_sequence, by_capacity, by_retention,   \* the log
    now,
    handling,   \* requests decoded by the current call of handle, 0 if none
    through,    \* logged_through: the next sequence number when it began
    lines       \* log lines written by the last call

Requests == [cmid : Machines, sku : Skus, application : Applications,
             activated : BOOLEAN]

Counts == INSTANCE ClientCounts WITH
    Applications <- Applications, Machines <- Machines, Demands <- Demands,
    MaxApplications <- MaxApplications, MaxTracked <- MaxTracked, MaxCached <- MaxCached,
    Expiry <- Expiry, MaxTime <- MaxTime,
    buckets <- buckets, view <- view, seenAt <- seenAt, now <- now
Log == INSTANCE EventLog

counts == <<buckets, view, seenAt>>
log == <<events, next_sequence, by_capacity, by_retention>>
vars == <<counts, log, now, handling, through, lines>>

KmsRequest == [application : Applications, cmid : Machines, sku : Skus,
               product : Products, demand : Demands, skewed : BOOLEAN]

(***************************************************************************)
(* gate::evaluate: the gates in their order.  A product the database does  *)
(* not know passes the first three.                                        *)
(***************************************************************************)
Evaluate(r) ==
    IF RefuseNonVolume /\ r.product.known /\ ~r.product.volume THEN "non_volume_product"
    ELSE IF RefusePreview /\ r.product.known /\ r.product.preview THEN "preview_product"
    ELSE IF r.product.known /\ r.product.application \notin {0, r.application}
      THEN "application_mismatch"
    ELSE IF RefuseSkew /\ ClockKnown /\ r.skewed THEN "clock_skew"
    ELSE "grant"

Init ==
    /\ Counts!Init
    /\ Log!LogInit
    /\ handling = 0
    /\ through = 0
    /\ lines = <<>>

\* Host::activate, with what is counted, what the log says of it, and where this
\* call of handle is taken to begin.
ActivateWith(r, counting, activated, start) ==
    /\ handling < MaxPerHandle
    /\ handling' = handling + 1
    /\ through' = start
    /\ \/ counting /\ Counts!ObserveRequest(r.application, r.cmid, r.demand)
       \/ ~counting /\ UNCHANGED counts
    /\ Log!Record([cmid |-> r.cmid, sku |-> r.sku, application |-> r.application,
                   activated |-> activated])
    /\ UNCHANGED lines

\* logged_through, read once when handle begins.
Through == IF handling = 0 THEN next_sequence ELSE through

Granted(r) == Evaluate(r) = "grant"

\* Mutants: a refusal is counted too; logged_through is read for each request;
\* a grant is counted in a copy of the table, which is then dropped.
ActivateCountingAll(r) == ActivateWith(r, TRUE, Granted(r), Through)

ActivateLate(r) == ActivateWith(r, Granted(r), Granted(r), next_sequence)

ActivateInACopy(r) ==
    /\ handling < MaxPerHandle
    /\ handling' = handling + 1
    /\ through' = Through
    /\ LET answer == Counts!View(buckets, r.application, r.cmid, r.demand, now)
       IN  view' = IF ~Granted(r) THEN view
                   ELSE [application |-> r.application, demand |-> r.demand,
                         reported |-> answer.reported, cached |-> answer.cached]
    /\ Log!Record([cmid |-> r.cmid, sku |-> r.sku, application |-> r.application,
                   activated |-> Granted(r)])
    /\ UNCHANGED <<lines, buckets, seenAt>>

\* Host::activate: decide, count a grant, log either way.
Activate(r) == ActivateWith(r, Granted(r), Granted(r), Through)

\* The events numbered n and on: numbers grow along the log, so the filter of
\* the code keeps all from the first such event.
Since(es, n) ==
    SubSeq(es, Min({i \in 1..Len(es) : es[i].sequence >= n} \cup {Len(es) + 1}), Len(es))

\* The end of Server::handle: a line for every event since it began.
EndHandle ==
    /\ handling > 0
    /\ handling' = 0
    /\ lines' = Since(events, through)
    /\ UNCHANGED <<counts, log, now, through>>

\* Time passes between calls: one reading of the clock serves a whole call.
Tick(d) ==
    /\ handling = 0
    /\ now + d =< MaxTime
    /\ now' = now + d
    /\ UNCHANGED <<counts, log, handling, through, lines>>

Next ==
    \/ \E r \in KmsRequest : Activate(r)
    \/ EndHandle
    \/ \E d \in 1..Expiry : Tick(d)

Spec == Init /\ [][Next]_vars

-----------------------------------------------------------------------------
\* The table moves only with a granted request for the application that asked:
\* a refused one never enters or refreshes it.
GrantsDrive ==
    [][ buckets' # buckets =>
          LET newest == events'[Len(events')].request
          IN  newest.activated /\ newest.application = view'.application ]_vars

\* The host's counts are the counts of module ClientCounts, driven by granted
\* requests only.
CountsRefined == Counts!Spec /\ GrantsDrive

\* One line per decided request: whatever expired or was evicted while it ran,
\* a call of handle that stays within the log's capacity logs every request it
\* decided, each once, and nothing from before.
EveryRequestLogged ==
    [][ handling > 0 /\ handling' = 0 =>
          /\ Len(lines') = IF handling =< Capacity THEN handling ELSE Capacity
          /\ \A i \in 1..Len(lines') :
                lines'[i].sequence = next_sequence - Len(lines') + i - 1 ]_vars

\* The log explains the counts: while nothing has been dropped for want of room,
\* every machine held as live was granted, at the very instant it is held since,
\* by an event the log still shows.  A refused request therefore never counts a
\* machine and never keeps one from expiring.
LogExplainsCounts ==
    by_capacity = 0 /\ Retention >= Expiry =>
        \A b \in 1..Len(buckets) : \A i \in 1..Len(buckets[b].entries) :
            LET entry == buckets[b].entries[i]
            IN  Counts!Live(entry, now) =>
                  \E k \in 1..Len(events) :
                      /\ events[k].at = entry.seen
                      /\ events[k].request.cmid = entry.cmid
                      /\ events[k].request.application = buckets[b].application
                      /\ events[k].request.activated
=============================================================================
