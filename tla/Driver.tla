------------------------------- MODULE Driver -------------------------------
(***************************************************************************)
(* The connection driver of kmsrs-server/net/driver.rs: accept loops, the  *)
(* permit budget and the web UI's share of it, one task per connection     *)
(* with its deadlines, the entropy watch, and the shutdown that joins and  *)
(* drains them all.                                                        *)
(*                                                                         *)
(* The runtime has one thread, so an action is what a task does between    *)
(* two awaits.  ShutdownHandle::request runs on the signal handler's       *)
(* thread, and its two stores are two actions.  What Server::handle and    *)
(* serve_web do with the bytes is in modules Connection and Host; here a   *)
(* read is decoded to the application it was about, if any.                *)
(*                                                                         *)
(* Ages are kept instead of instants, each capped where it stops mattering.*)
(***************************************************************************)
EXTENDS Integers, FiniteSets

CONSTANTS
    Listeners,       \* the bound sockets
    WebListeners,    \* those with Role::Web
    Conns,           \* client connections that may exist at once
    Limit,           \* MAX_CONNECTIONS
    ReadTimeout,     \* READ_TIMEOUT
    TotalDeadline,   \* CONNECTION_DEADLINE
    Applications     \* applications clients ask about

ASSUME DriverAssumption ==
    /\ WebListeners \subseteq Listeners
    /\ "none" \notin Listeners
    /\ IsFiniteSet(Conns)
    /\ Limit \in Nat \ {0}
    /\ ReadTimeout \in Nat \ {0}
    /\ TotalDeadline \in Nat \ {0}

\* Driver::web_limit.
WebLimit == IF Limit \div 4 = 0 THEN 1 ELSE Limit \div 4

Zero == "zero"   \* Guid::ZERO, and an event log with nothing in it

VARIABLES
    requested,    \* the flag ShutdownHandle::request sets
    sent,         \* has its watch channel been written to
    signals,      \* 0, 1 or 2 signals so far
    stage,        \* where Driver::run is
    loop,         \* per listener: "unborn", "spawned", "select" or "ended"
    heard,        \* per listener: was the channel written before it subscribed
    watcher,      \* the entropy watch: "unborn", "spawned", "select" or "ended"
    permits, web_permits, in_flight,
    conn,         \* per connection: [state, listener, age, quiet, last_application]
    newest,       \* the application of the newest event in the host's log
    own,          \* observer: the application of a connection's last request
    late          \* observer: per listener, connections taken on after the flag

control == <<requested, sent, signals, stage, loop, heard, watcher>>
budget == <<permits, web_permits, in_flight>>
observed == <<own, late>>
driver_vars == <<control, budget, conn, newest, observed>>

Live == {c \in Conns : conn[c].state \in {"reading", "writing", "last_write", "closing"}}

IsWeb(c) == conn[c].listener \in WebListeners

\* A connection nothing has been read from.
Untouched(state, listener) ==
    [state |-> state, listener |-> listener, age |-> 0, quiet |-> 0,
     last_application |-> Zero]

Gone == Untouched("free", "none")

DriverInit ==
    /\ requested = FALSE
    /\ sent = FALSE
    /\ signals = 0
    /\ stage = "starting"
    /\ loop = [l \in Listeners |-> "unborn"]
    /\ heard = [l \in Listeners |-> FALSE]
    /\ watcher = "unborn"
    /\ permits = Limit
    /\ web_permits = WebLimit
    /\ in_flight = 0
    /\ conn = [c \in Conns |-> Gone]
    /\ newest = Zero
    /\ own = [c \in Conns |-> Zero]
    /\ late = [l \in Listeners |-> 0]

(***************************************************************************)
(* The signal handler: the first signal asks for a drain, in two stores;   *)
(* the second exits the process without one.                               *)
(***************************************************************************)
Running == stage \notin {"returned", "failed", "exited"}

FirstSignal ==
    /\ Running
    /\ signals = 0
    /\ signals' = 1
    /\ requested' = TRUE
    /\ UNCHANGED <<sent, stage, loop, heard, watcher,
                   budget, conn, newest, observed>>

SendReplace ==
    /\ Running
    /\ requested
    /\ ~sent
    /\ sent' = TRUE
    /\ UNCHANGED <<requested, signals, stage, loop, heard, watcher, budget, conn, newest, observed>>

\* The handler holds a lock while it runs, so a second one waits for the first.
SecondSignal ==
    /\ Running
    /\ signals = 1
    /\ sent
    /\ signals' = 2
    /\ stage' = "exited"
    /\ UNCHANGED <<requested, sent, loop, heard, watcher,
                   budget, conn, newest, observed>>

(***************************************************************************)
(* Driver::run.                                                            *)
(***************************************************************************)
\* Each accept loop's receiver is subscribed before its task starts: it will
\* see a change made after that, and only after that.
SpawnLoop(l) ==
    /\ stage = "starting"
    /\ loop[l] = "unborn"
    /\ loop' = [loop EXCEPT ![l] = "spawned"]
    /\ heard' = [heard EXCEPT ![l] = sent]
    /\ UNCHANGED <<requested, sent, signals, stage, watcher,
                   budget, conn, newest, observed>>

\* from_std: the runtime will not take the listener, and run returns the error.
\* The loops spawned before it go with the runtime, never polled.
SpawnFails(l) ==
    /\ stage = "starting"
    /\ loop[l] = "unborn"
    /\ stage' = "failed"
    /\ UNCHANGED <<requested, sent, signals, loop, heard, watcher, budget, conn,
                   newest, observed>>

\* run subscribes, then tests the flag: a request made by now is seen in the
\* flag, a later one through the channel.
SpawnWatcher ==
    /\ stage = "starting"
    /\ \A l \in Listeners : loop[l] # "unborn"
    /\ watcher = "unborn"
    /\ watcher' = "spawned"
    /\ stage' = IF requested THEN "joining" ELSE "waiting"
    /\ UNCHANGED <<requested, sent, signals, loop, heard, budget, conn,
                   newest, observed>>

\* changed() returns, and the flag is set by then.
StopWaiting ==
    /\ stage = "waiting"
    /\ sent
    /\ stage' = "joining"
    /\ UNCHANGED <<requested, sent, signals, loop, heard, watcher, budget, conn, newest, observed>>

Join ==
    /\ stage = "joining"
    /\ \A l \in Listeners : loop[l] = "ended"
    /\ watcher = "ended"
    /\ stage' = "draining"
    /\ UNCHANGED <<requested, sent, signals, loop, heard, watcher, budget, conn, newest, observed>>

\* acquire_many(limit): every permit is back.
Drained ==
    /\ stage = "draining"
    /\ permits = Limit
    /\ stage' = "returned"
    /\ UNCHANGED <<requested, sent, signals, loop, heard, watcher, budget, conn, newest, observed>>

(***************************************************************************)
(* entropy_watch.  The value it reads at the top of its loop, and the      *)
(* change it waits for, are both the channel's.  What it finds out goes to *)
(* /healthz and to nothing here.                                           *)
(***************************************************************************)
\* The runtime polls tasks once run has reached its first await.
Polling == stage \in {"waiting", "joining", "draining"}

WatcherAgain == watcher' = IF sent THEN "ended" ELSE "select"

WatcherStarts ==
    /\ Polling
    /\ watcher = "spawned"
    /\ WatcherAgain
    /\ UNCHANGED <<requested, sent, signals, stage, loop, heard, budget, conn, newest,
                   observed>>

WatcherHears ==
    /\ Polling
    /\ watcher = "select"
    /\ sent
    /\ watcher' = "ended"
    /\ UNCHANGED <<requested, sent, signals, stage, loop, heard, budget, conn, newest,
                   observed>>

Recheck ==
    /\ Polling
    /\ watcher = "select"
    /\ WatcherAgain
    /\ UNCHANGED <<requested, sent, signals, stage, loop, heard, budget, conn, newest,
                   observed>>

(***************************************************************************)
(* accept_loop.                                                            *)
(***************************************************************************)
\* Mutant: the flag is not tested before the wait.
AgainBlindly(l) == loop' = [loop EXCEPT ![l] = "select"]

\* The top of the loop: test the flag, then wait.  Nothing is awaited between
\* the end of one turn and the wait of the next.
Again(l) == loop' = [loop EXCEPT ![l] = IF requested THEN "ended" ELSE "select"]

LoopStarts(l) ==
    /\ Polling
    /\ loop[l] = "spawned"
    /\ Again(l)
    /\ UNCHANGED <<requested, sent, signals, stage, heard, watcher, budget, conn, newest,
                   observed>>

\* shutdown.changed(): the channel was written after this loop subscribed.
LoopHears(l) ==
    /\ Polling
    /\ loop[l] = "select"
    /\ sent /\ ~heard[l]
    /\ loop' = [loop EXCEPT ![l] = "ended"]
    /\ UNCHANGED <<requested, sent, signals, stage, heard, watcher, budget, conn, newest,
                   observed>>

AcceptFails(l) ==
    /\ Polling
    /\ loop[l] = "select"
    /\ Again(l)
    /\ UNCHANGED <<requested, sent, signals, stage, heard, watcher, budget, conn, newest,
                   observed>>

Accepting(c) ==
    /\ Polling
    /\ conn[c].state = "backlog"
    /\ loop[conn[c].listener] = "select"
    /\ Again(conn[c].listener)
    /\ UNCHANGED <<requested, sent, signals, stage, heard, watcher, newest>>

NoRoom(c) == permits = 0 \/ (IsWeb(c) /\ web_permits = 0)

\* Mutant: the permit taken before the web share was found exhausted is kept.
TurnAwayLeaking(c, denied) ==
    /\ Accepting(c)
    /\ denied \/ NoRoom(c)
    /\ conn' = [conn EXCEPT ![c] = Gone]
    /\ permits' = IF ~denied /\ permits > 0 THEN permits - 1 ELSE permits
    /\ UNCHANGED <<web_permits, in_flight, observed>>

\* The peer is denied by the ACL, or there is no permit for it: a permit taken
\* before the web share is found exhausted goes straight back.
TurnAway(c, denied) ==
    /\ Accepting(c)
    /\ denied \/ NoRoom(c)
    /\ conn' = [conn EXCEPT ![c] = Gone]
    /\ UNCHANGED <<budget, observed>>

TakeOn(c) ==
    /\ Accepting(c)
    /\ ~NoRoom(c)
    /\ permits' = permits - 1
    /\ web_permits' = IF IsWeb(c) THEN web_permits - 1 ELSE web_permits
    /\ in_flight' = in_flight + 1
    /\ conn' = [conn EXCEPT ![c].state = "reading"]
    /\ own' = [own EXCEPT ![c] = Zero]
    /\ late' = IF requested THEN [late EXCEPT ![conn[c].listener] = @ + 1] ELSE late

(***************************************************************************)
(* serve.                                                                  *)
(***************************************************************************)
\* serve returns: in_flight falls and the permits are dropped.
End(c) ==
    /\ conn' = [conn EXCEPT ![c] = Gone]
    /\ permits' = permits + 1
    /\ web_permits' = IF IsWeb(c) THEN web_permits + 1 ELSE web_permits
    /\ in_flight' = in_flight - 1
    /\ UNCHANGED <<control, newest, observed>>

Reading(c) == Polling /\ conn[c].state = "reading"

\* Mutant: only the idle deadline, which every read pushes back.
ExpireIdleOnly(c) ==
    /\ Reading(c)
    /\ conn[c].quiet >= ReadTimeout
    /\ End(c)

\* sleep_until(min(idle, total)).
Expire(c) ==
    /\ Reading(c)
    /\ conn[c].age >= TotalDeadline \/ conn[c].quiet >= ReadTimeout
    /\ End(c)

\* The peer closes, the socket fails, the rate limiter says no, or the response
\* is over its ceiling.
ReadEnds(c) == Reading(c) /\ End(c)

\* An interrupted read starts the loop again, and the idle clock with it.
ReadInterrupted(c) ==
    /\ Reading(c)
    /\ conn' = [conn EXCEPT ![c].quiet = 0]
    /\ UNCHANGED <<control, budget, newest, observed>>

\* Bytes arrive, are admitted and handled.  `about' is the application of the
\* last request they decode to, if any; then the connection's next rate-limit
\* key is taken from the newest event of the whole host.
Handle(c, about, after) ==
    /\ Reading(c)
    /\ about # Zero => ~IsWeb(c)
    /\ newest' = IF about = Zero THEN newest ELSE about
    /\ conn' = [conn EXCEPT ![c] = [@ EXCEPT !.state = after, !.quiet = 0,
                                              !.last_application = newest']]
    /\ own' = IF about = Zero THEN own ELSE [own EXCEPT ![c] = about]
    /\ UNCHANGED <<control, budget, late>>

\* write_all: takes as long as the peer takes to read.
Written(c) ==
    /\ Polling
    /\ conn[c].state \in {"writing", "last_write"}
    /\ conn' = [conn EXCEPT ![c].state = IF @ = "writing" THEN "reading" ELSE "closing"]
    /\ UNCHANGED <<control, budget, newest, observed>>

WriteFails(c) ==
    /\ Polling
    /\ conn[c].state \in {"writing", "last_write"}
    /\ End(c)

\* stream.shutdown.
Closed(c) ==
    /\ Polling
    /\ conn[c].state = "closing"
    /\ End(c)

\* A client connects; the kernel queues it.
Connect(c, l) ==
    /\ Running
    /\ conn[c].state = "free"
    /\ conn' = [conn EXCEPT ![c] = Untouched("backlog", l)]
    /\ UNCHANGED <<control, budget, newest, observed>>

Capped(n, cap) == IF n < cap THEN n + 1 ELSE cap

\* A connection's clocks: `quiet' only runs while it waits to read.
Tick ==
    /\ Running
    /\ conn' = [c \in Conns |->
         IF c \notin Live THEN conn[c]
         ELSE [conn[c] EXCEPT !.age = Capped(@, TotalDeadline),
                              !.quiet = IF conn[c].state = "reading"
                                          THEN Capped(@, ReadTimeout) ELSE 0]]
    /\ UNCHANGED <<control, budget, newest, observed>>

AfterHandle == {"reading", "writing", "last_write", "closing"}

Serve(c) ==
    \/ Expire(c) \/ ReadEnds(c) \/ ReadInterrupted(c)
    \/ \E about \in Applications \cup {Zero}, after \in AfterHandle : Handle(c, about, after)
    \/ Written(c) \/ WriteFails(c) \/ Closed(c)

Run == StopWaiting \/ Join \/ Drained

Watcher == SpawnWatcher \/ WatcherStarts \/ WatcherHears \/ Recheck

AcceptLoop(l) == SpawnLoop(l) \/ SpawnFails(l) \/ LoopStarts(l) \/ LoopHears(l) \/ AcceptFails(l)

DriverNext ==
    \/ FirstSignal \/ SendReplace \/ SecondSignal
    \/ Run \/ Watcher
    \/ \E l \in Listeners : AcceptLoop(l)
    \/ \E c \in Conns, denied \in BOOLEAN : TurnAway(c, denied)
    \/ \E c \in Conns : TakeOn(c) \/ Serve(c)
    \/ \E c \in Conns, l \in Listeners : Connect(c, l)
    \/ Tick

(***************************************************************************)
(* Fairness: the runtime polls every task that can go on, time passes, the *)
(* signal handler finishes what it started.  select! tries its branches in *)
(* random order, so a deadline that keeps being ready is taken in the end  *)
(* even if there is always something to read.  No peer is obliged to send, *)
(* to read or to close.                                                    *)
(***************************************************************************)
Fairness ==
    /\ WF_driver_vars(SendReplace) /\ WF_driver_vars(Run) /\ WF_driver_vars(Tick)
    /\ WF_driver_vars(SpawnWatcher) /\ WF_driver_vars(WatcherStarts) /\ WF_driver_vars(WatcherHears)
    /\ \A l \in Listeners : WF_driver_vars(SpawnLoop(l)) /\ WF_driver_vars(LoopStarts(l)) /\ WF_driver_vars(LoopHears(l))
    /\ \A c \in Conns : SF_driver_vars(Expire(c)) /\ WF_driver_vars(Closed(c))

DriverSpec == DriverInit /\ [][DriverNext]_driver_vars

DriverFairSpec == DriverSpec /\ Fairness

-----------------------------------------------------------------------------
ConnState == [state : {"free", "backlog", "reading", "writing", "last_write", "closing"},
              listener : Listeners \cup {"none"}, age : 0..TotalDeadline,
              quiet : 0..ReadTimeout, last_application : Applications \cup {Zero}]

\* Types, and the two semaphores within their initial number of permits.
DriverTypeOK ==
    /\ requested \in BOOLEAN /\ sent \in BOOLEAN
    /\ stage \in {"starting", "waiting", "joining", "draining", "returned", "failed", "exited"}
    /\ loop \in [Listeners -> {"unborn", "spawned", "select", "ended"}]
    /\ permits \in 0..Limit
    /\ web_permits \in 0..WebLimit
    /\ in_flight \in 0..Limit
    /\ conn \in [Conns -> ConnState]
    /\ newest \in Applications \cup {Zero}
    /\ late \in [Listeners -> Nat]

\* The budget is conserved: a permit is out for every live connection and for
\* nothing else, whichever way a connection was refused or ended.
BudgetConserved ==
    /\ permits + Cardinality(Live) = Limit
    /\ web_permits + Cardinality({c \in Live : IsWeb(c)}) = WebLimit
    /\ in_flight = Cardinality(Live)

\* The web UI cannot starve the KMS listener: a KMS client is only turned away
\* for want of room when KMS clients hold all that is not the web's share.
WebNeverStarvesKms ==
    permits = 0 => Cardinality({c \in Live : ~IsWeb(c)}) >= Limit - WebLimit

\* A drain abandons nobody: run returns, drained or with a listener's error, only
\* when no connection is live, and none is accepted after that.
DrainIsComplete == stage \in {"returned", "failed"} => Live = {} /\ in_flight = 0

\* After a shutdown is requested a listener takes on at most the one connection
\* its accept was already waiting for.
AtMostOneMore == \A l \in Listeners : late[l] =< 1

\* No shutdown request is lost, whenever it arrives, before the tasks have
\* subscribed or between the flag and the channel: if peers keep reading what
\* they are sent, run returns (or a second signal ends the process).
ShutdownEnds ==
    (\A c \in Conns : []<>(conn[c].state \notin {"writing", "last_write"}))
        => (requested ~> ~Running)

\* A connection that is not being written to ends, however slowly and however
\* regularly its peer feeds it.
SlowPeerEnds ==
    \A c \in Conns :
        ([]<>(conn[c].state \notin {"writing", "last_write"}))
            => (c \in Live ~> c \notin Live \/ ~Running)

\* serve's comment: the rate-limit key is what this connection's previous
\* request was about.
KeyIsOwn == \A c \in Live : conn[c].last_application \in {Zero, own[c]}
=============================================================================
