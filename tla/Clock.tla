-------------------------------- MODULE Clock --------------------------------
(***************************************************************************)
(* The clock discipline of kmsrs-os/net/sntp.rs: where the servers come    *)
(* from, one exchange at a time, when the machine's clock is stepped and   *)
(* the anchor of kmsrs-server/clock.rs with it.                            *)
(*                                                                         *)
(* A clock is kept as its error: how far it is ahead of true time.  What   *)
(* depends on the date (the era of a timestamp, the fraction of a second   *)
(* that is cut off) is worked out from the instant of the exchange, which  *)
(* is any of Instants, since POLL or RETRY pass between two rounds.        *)
(***************************************************************************)
EXTENDS Integers, Sequences

CONSTANTS
    Second,        \* NANOS: ticks to a second
    Fractions,     \* 2^32 as the divisor of an NTP fraction
    EraSeconds,    \* ERA: 2^32 as the width of an era
    NtpToUnix,     \* NTP_TO_UNIX, in seconds
    StepThreshold, \* STEP_THRESHOLD, in ticks
    Instants,      \* true time in ticks at which an exchange may begin
    BootErrors,    \* how wrong the machine's clock may be when it starts
    Drifts,        \* what it may gain while nothing is asked
    MaxError,      \* the bound on its error, which keeps it within 1970 and 2104
    ServerErrors,  \* how wrong a time server may be
    Delays,        \* one-way delays that fit TIMEOUT
    Replies,       \* what a datagram may be: [late, synchronised], where `late'
                   \* is how long before this request the one it answers was
                   \* made, and 0 is this one
    Leases,        \* what option 42 and option 6 of a lease may say
    Answers        \* address lists the pool may resolve to

ASSUME ClockAssumption ==
    /\ Second \in Nat \ {0}
    /\ Fractions \in Nat \ {0} /\ Fractions >= Second
    /\ EraSeconds \in Nat \ {0} /\ EraSeconds % 2 = 0
    /\ NtpToUnix \in Nat
    /\ StepThreshold \in Nat
    /\ MaxError \in Nat
    /\ Instants \subseteq Nat /\ Delays \subseteq Nat
    /\ Replies \subseteq [late : Nat, synchronised : BOOLEAN]
    /\ BootErrors \subseteq Int /\ Drifts \subseteq Int /\ ServerErrors \subseteq Int

VARIABLES
    sources,           \* the watch channel: Sources as last published
    stage,             \* where discipline is
    addresses,         \* servers of this round not asked yet
    complained, ever_synchronised,
    realtime,          \* error of CLOCK_REALTIME
    wall,              \* error of what WallClock::now projects
    reference,         \* observer: the error of the server last believed, and
                       \* empty once the clock has been on its own since
    complaints         \* observer: lines said since a server last answered

task == <<stage, addresses, complained, ever_synchronised, complaints>>
clocks == <<realtime, wall, reference>>
vars == <<sources, task, clocks>>

Magnitude(n) == IF n < 0 THEN -n ELSE n

(***************************************************************************)
(* Timestamps: seconds of an era and a binary fraction, rounded down.      *)
(***************************************************************************)
ntp_timestamp(t) ==
    [seconds |-> ((t \div Second) + NtpToUnix) % EraSeconds,
     fraction |-> ((t % Second) * Fractions) \div Second]

\* Mutant: every timestamp is read in era 0.
unix_nanos_era0(stamp) ==
    (stamp.seconds - NtpToUnix) * Second + (stamp.fraction * Second) \div Fractions

\* The high bit of the seconds says which era: clear is the one after 2036.
unix_nanos(stamp) ==
    LET era_seconds == IF stamp.seconds < EraSeconds \div 2
                         THEN stamp.seconds + EraSeconds ELSE stamp.seconds
    IN  (era_seconds - NtpToUnix) * Second + (stamp.fraction * Second) \div Fractions

\* The instants a timestamp tells apart: from the middle of the era that began in
\* 1900 to the middle of the next.
Readable(t) ==
    /\ (t \div Second) + NtpToUnix >= EraSeconds \div 2
    /\ (t \div Second) + NtpToUnix < EraSeconds + EraSeconds \div 2

\* Integer division by two, towards zero.
Halved(n) == IF n < 0 THEN -((-n) \div 2) ELSE n \div 2

\* The checks of `reading' a reply has to pass.
usable(reply, sent) ==
    /\ reply.synchronised
    /\ reply.originate = sent
    /\ reply.receive # [seconds |-> 0, fraction |-> 0]
    /\ reply.transmit # [seconds |-> 0, fraction |-> 0]

\* offset_nanos of a reading: T1 is `sent', T4 is `received'.
offset(reply, sent, received) ==
    Halved((unix_nanos(reply.receive) - unix_nanos(sent))
            + (unix_nanos(reply.transmit) - unix_nanos(received)))

(***************************************************************************)
(* The two clocks.                                                         *)
(***************************************************************************)
\* The fraction of a second FileTime::from_unix_seconds leaves out.
BelowSecond(t) == t % Second

\* Mutant: only the machine's clock is stepped.
apply_realtime(now, by, error, settable) ==
    /\ realtime' = IF Magnitude(by) >= StepThreshold /\ settable THEN realtime + by ELSE realtime
    /\ reference' = IF settable \/ Magnitude(by) < StepThreshold THEN {error} ELSE {}
    /\ UNCHANGED wall

\* apply: a small offset is left alone; otherwise CLOCK_REALTIME is set, if the
\* kernel lets it be, and then WallClock is anchored to the same reading.
apply(now, by, error, settable) ==
    \/ /\ Magnitude(by) < StepThreshold
       /\ reference' = {error}
       /\ UNCHANGED <<realtime, wall>>
    \/ /\ Magnitude(by) >= StepThreshold
       /\ settable
       /\ realtime' = realtime + by
       /\ wall' = realtime' - BelowSecond(now + realtime')
       /\ reference' = {error}
    \/ /\ Magnitude(by) >= StepThreshold
       /\ ~settable
       /\ reference' = {}
       /\ UNCHANGED <<realtime, wall>>

\* build_server reads the clock once, to the second.
Init ==
    /\ sources = [ntp |-> << >>, dns |-> FALSE]
    /\ stage = "round"
    /\ addresses = << >>
    /\ complained = FALSE /\ ever_synchronised = FALSE
    /\ realtime \in BootErrors
    /\ \E now \in Instants : wall = realtime - BelowSecond(now + realtime)
    /\ reference = {}
    /\ complaints = 0

\* The lease task's publish, on a new configuration or on losing it.
Publish(lease) ==
    /\ lease # sources
    /\ sources' = lease
    /\ UNCHANGED <<task, clocks>>

(***************************************************************************)
(* discipline.                                                             *)
(***************************************************************************)
\* The top of the loop and `servers': option 42 as it stands, else the pool if
\* there is a resolver to ask.
BeginRound ==
    /\ stage = "round"
    /\ addresses' = sources.ntp
    /\ stage' = IF sources.ntp = << >> /\ sources.dns THEN "resolving" ELSE "asking"
    /\ UNCHANGED <<sources, complained, ever_synchronised, complaints, clocks>>

\* resolve_pool: an error and a timeout are an empty list.
Resolved(answer) ==
    /\ stage = "resolving"
    /\ addresses' = answer
    /\ stage' = "asking"
    /\ UNCHANGED <<sources, complained, ever_synchronised, complaints, clocks>>

\* No answer in time, or a socket error: `best' goes on to the next server.
AskFails ==
    /\ stage = "asking" /\ addresses # << >>
    /\ addresses' = Tail(addresses)
    /\ UNCHANGED <<sources, stage, complained, ever_synchronised, complaints, clocks>>

\* `ask' and what `discipline' does with its answer.  The transmit timestamp is
\* the clock at departure with up to a second of noise added.  A reply is to
\* this request, or to an earlier one.
Answered(departs, noise, there, back, error, kind, settable) ==
    /\ LET arrives == departs + there + back
           sent == ntp_timestamp(departs + realtime + noise)
           received == ntp_timestamp(arrives + realtime)
           served == ntp_timestamp(departs - kind.late + there + error)
           reply == [originate |-> IF kind.late = 0 THEN sent
                                   ELSE ntp_timestamp(departs - kind.late + realtime + noise),
                     receive |-> served, transmit |-> served,
                     synchronised |-> kind.synchronised]
       IN  \/ /\ usable(reply, sent)
              /\ apply(arrives, offset(reply, sent, received), error, settable)
              /\ complained' = FALSE /\ ever_synchronised' = TRUE /\ complaints' = 0
              /\ stage' = "sleeping"
              /\ addresses' = << >>
           \/ /\ ~usable(reply, sent)
              /\ addresses' = Tail(addresses)
              /\ UNCHANGED <<stage, complained, ever_synchronised, complaints, clocks>>
    /\ UNCHANGED sources

NothingAnswered ==
    /\ stage = "asking" /\ addresses = << >>
    /\ complaints' = IF complained THEN complaints ELSE complaints + 1
    /\ complained' = TRUE
    /\ stage' = "sleeping"
    /\ UNCHANGED <<sources, addresses, ever_synchronised, clocks>>

\* POLL or RETRY has passed.
Wake ==
    /\ stage = "sleeping"
    /\ stage' = "round"
    /\ UNCHANGED <<sources, addresses, complained, ever_synchronised, complaints, clocks>>

\* The machine's oscillator runs fast or slow, or its hypervisor stopped it for
\* a while: CLOCK_REALTIME and the monotonic clock WallClock counts on move
\* alike.  (They would part over a suspend, which the image does not do.)
Drift(by) ==
    /\ Magnitude(realtime + by) =< MaxError
    /\ realtime' = realtime + by
    /\ wall' = wall + by
    /\ reference' = {}
    /\ UNCHANGED <<sources, task>>

Exchange ==
  /\ stage = "asking" /\ addresses # << >>
  /\ \E departs \in Instants, noise \in 0..(Second - 1), there \in Delays, back \in Delays,
       error \in ServerErrors, kind \in Replies, settable \in BOOLEAN :
        Answered(departs, noise, there, back, error, kind, settable)

discipline ==
    \/ BeginRound
    \/ \E answer \in Answers \cup {<< >>} : Resolved(answer)
    \/ AskFails \/ Exchange \/ NothingAnswered \/ Wake

Next ==
    \/ discipline
    \/ \E lease \in Leases : Publish(lease)
    \/ \E by \in Drifts : Drift(by)

Spec == Init /\ [][Next]_vars

-----------------------------------------------------------------------------
\* How far a reading can be off: half the noise in the transmit timestamp, half
\* the difference of the two delays, and rounding.
Worst == ((Second - 1) + (CHOOSE d \in Delays : \A e \in Delays : e =< d)) \div 2 + 2

\* The clocks are never so wrong that the date leaves 1968 to 2104, which is what
\* MaxError stands for.
ASSUME EraAssumption ==
    /\ \E d \in Delays : \A e \in Delays : e =< d
    /\ \A e \in BootErrors : Magnitude(e) =< MaxError
    /\ \A e \in ServerErrors : Magnitude(e) + Worst =< MaxError
    /\ \A t \in Instants, kind \in Replies, there \in Delays, back \in Delays,
         e \in (-MaxError)..MaxError, noise \in 0..(Second - 1) :
            /\ Readable(t + e + noise) /\ Readable(t - kind.late + e + noise)
            /\ Readable(t + there + back + e) /\ Readable(t - kind.late + there + e)

\* Types; the lists are those the lease and the resolver gave, or a rest of one.
TypeOK ==
    /\ stage \in {"round", "resolving", "asking", "sleeping"}
    /\ complained \in BOOLEAN /\ ever_synchronised \in BOOLEAN
    /\ realtime \in Int /\ wall \in Int
    /\ complaints \in Nat

\* The clock the skew gate reads is the machine's clock, to the second, through
\* every step, every step the kernel refuses, and any drift (apply and
\* WallClock::discipline).
ClocksAgree == realtime - wall \in 0..(Second - 1)

\* When a server has answered and the kernel let its answer be applied, the
\* machine's clock is the server's to within the threshold and what a reading
\* can be off by, also across the turn of an era and from a clock that started
\* in 1970 (reading, unix_nanos, apply).
SynchronisedWithin ==
    \A error \in reference : Magnitude(realtime - error) =< StepThreshold + Worst

\* One line per outage, however long it lasts (`complained' in discipline).
ComplainsOnce ==
    /\ complaints =< 1
    /\ complaints = 1 <=> complained

\* A host that lost every server goes on asking, so a lease that brings one is
\* made use of (the loop of discipline).
PollsForEver == []<>(stage = "round")
=============================================================================
