---------------------------- MODULE DriverProofs ----------------------------
(***************************************************************************)
(* The permit budget, for every number of permits, every set of listeners  *)
(* and every finite set of connections: no way of refusing, serving or     *)
(* dropping a connection loses or invents a permit, the web UI keeps       *)
(* within its share, and a drain leaves nobody behind.                     *)
(***************************************************************************)
EXTENDS Driver, FiniteSetTheorems, TLAPS

LiveStates == {"reading", "writing", "last_write", "closing"}

WebLive == {c \in Live : IsWeb(c)}

\* A listener that has taken a connection on since the request has stopped.
LateIsLast ==
    \A l \in Listeners :
        /\ late[l] =< 1
        /\ late[l] = 1 => requested /\ loop[l] = "ended"

\* Nobody is served while listeners are still being handed to the runtime.
NobodyYet == stage = "starting" => permits = Limit

\* The inductive invariant.
DriverInv == DriverTypeOK /\ BudgetConserved /\ LateIsLast /\ NobodyYet /\ DrainIsComplete

\* The web UI's share is a positive number of permits.
LEMMA ShareIsPositive == WebLimit \in Nat \ {0}
BY DriverAssumption DEF DriverAssumption, WebLimit

\* The sets the budget counts are finite.
LEMMA LiveIsFinite ==
    /\ IsFiniteSet(Live) /\ Cardinality(Live) \in Nat
    /\ IsFiniteSet(WebLive) /\ Cardinality(WebLive) \in Nat
<1>1. Live \subseteq Conns /\ WebLive \subseteq Conns
  BY DEF Live, WebLive
<1>2. IsFiniteSet(Live) /\ IsFiniteSet(WebLive)
  BY <1>1, FS_Subset, DriverAssumption DEF DriverAssumption
<1> QED
  BY <1>2, FS_CardinalityType

\* A step that leaves every connection as live as it was, and the listeners of
\* the live ones alone, leaves the two counts alone.
LEMMA SameLive ==
    ASSUME \A c \in Conns : /\ conn'[c].state \in LiveStates <=> conn[c].state \in LiveStates
                            /\ c \in Live => conn'[c].listener = conn[c].listener
    PROVE  Live' = Live /\ WebLive' = WebLive
<1>1. Live' = Live
  BY DEF Live, LiveStates
<1>2. \A c \in Live : IsWeb(c)' <=> IsWeb(c)
  BY DEF Live, IsWeb
<1> QED
  BY <1>1, <1>2 DEF WebLive

\* A connection that becomes live adds one to the first count and, if it came
\* in through a web listener, to the second.
LEMMA OneMoreLive ==
    ASSUME NEW c \in Conns, conn[c].state \notin LiveStates,
           conn'[c].state = "reading", conn'[c].listener = conn[c].listener,
           \A d \in Conns : d # c => conn'[d] = conn[d]
    PROVE  /\ Cardinality(Live') = Cardinality(Live) + 1
           /\ Cardinality(WebLive') = IF IsWeb(c) THEN Cardinality(WebLive) + 1
                                                  ELSE Cardinality(WebLive)
<1>3. c \notin Live /\ c \notin WebLive
  BY DEF Live, WebLive, LiveStates
<1>4. Live' = Live \cup {c}
  BY DEF Live
<1>5. IsWeb(c)' <=> IsWeb(c)
  BY DEF IsWeb
<1>6. \A d \in Live : IsWeb(d)' <=> IsWeb(d)
  BY <1>3 DEF IsWeb, Live
<1>7. WebLive' = IF IsWeb(c) THEN WebLive \cup {c} ELSE WebLive
  BY <1>4, <1>5, <1>6 DEF WebLive
<1>8. Cardinality(Live \cup {c}) = Cardinality(Live) + 1
  BY <1>3, LiveIsFinite, FS_AddElement
<1>9. Cardinality(WebLive \cup {c}) = Cardinality(WebLive) + 1
  BY <1>3, LiveIsFinite, FS_AddElement
<1> QED
  BY <1>4, <1>7, <1>8, <1>9

\* A connection that ends takes one off the same counts.
LEMMA OneLessLive ==
    ASSUME NEW c \in Live, conn \in [Conns -> ConnState],
           conn' = [conn EXCEPT ![c] = Gone]
    PROVE  /\ Cardinality(Live') = Cardinality(Live) - 1
           /\ Cardinality(WebLive') = IF IsWeb(c) THEN Cardinality(WebLive) - 1
                                                  ELSE Cardinality(WebLive)
<1>1. c \in Conns /\ conn'[c].state = "free" /\ \A d \in Conns : d # c => conn'[d] = conn[d]
  BY DEF Live, Gone, Untouched
<1>2. Live' = Live \ {c}
  BY <1>1 DEF Live
<1>3. \A d \in Live' : IsWeb(d)' <=> IsWeb(d)
  BY <1>1, <1>2 DEF IsWeb, Live
<1>4. WebLive' = WebLive \ {c}
  BY <1>2, <1>3 DEF WebLive
<1>5. c \in WebLive <=> IsWeb(c)
  BY DEF WebLive
<1>6. Cardinality(Live \ {c}) = Cardinality(Live) - 1
  BY LiveIsFinite, FS_RemoveElement
<1>7. CASE IsWeb(c)
  <2>1. Cardinality(WebLive \ {c}) = Cardinality(WebLive) - 1
    BY <1>5, <1>7, LiveIsFinite, FS_RemoveElement
  <2> QED
    BY <1>2, <1>4, <1>6, <1>7, <2>1
<1>8. CASE ~IsWeb(c)
  <2>1. WebLive \ {c} = WebLive
    BY <1>5, <1>8
  <2> QED
    BY <1>2, <1>4, <1>6, <1>8, <2>1
<1> QED
  BY <1>7, <1>8

(***************************************************************************)
(* What the kinds of step preserve.                                        *)
(***************************************************************************)
\* A step of the accept loops, the watcher, the signal handler or run itself
\* that touches no connection.
LEMMA ControlStep ==
    ASSUME DriverInv,
           UNCHANGED <<permits, web_permits, in_flight, conn, newest, late>>,
           requested' \in BOOLEAN, sent' \in BOOLEAN,
           stage' \in {"starting", "waiting", "joining", "draining", "returned", "failed", "exited"},
           loop' \in [Listeners -> {"unborn", "spawned", "select", "ended"}],
           requested => requested',
           \A l \in Listeners : loop[l] = "ended" => loop'[l] = "ended",
           stage' = "starting" => stage = "starting",
           stage' \in {"returned", "failed"} => stage \in {"returned", "failed"} \/ permits = Limit
    PROVE  DriverInv'
<1>1. Live' = Live /\ WebLive' = WebLive
  BY SameLive
<1>2. DriverTypeOK'
  BY DEF DriverInv, DriverTypeOK
<1>3. BudgetConserved'
  BY <1>1 DEF DriverInv, BudgetConserved, WebLive
<1>4. LateIsLast'
  BY DEF DriverInv, LateIsLast, DriverTypeOK
<1>5. permits = Limit => Live = {} /\ in_flight = 0
  <2>1. permits = Limit => Cardinality(Live) = 0 /\ in_flight = 0
    BY LiveIsFinite, DriverAssumption DEF DriverInv, BudgetConserved, DriverAssumption
  <2> QED
    BY <2>1, LiveIsFinite, FS_EmptySet
<1>6. DrainIsComplete' /\ NobodyYet'
  BY <1>1, <1>5 DEF DriverInv, DrainIsComplete, NobodyYet
<1> QED
  BY <1>2, <1>3, <1>4, <1>6 DEF DriverInv

\* A step of one connection's task, or of time, that neither begins nor ends a
\* connection's life.
LEMMA ConnStep ==
    ASSUME DriverInv,
           UNCHANGED <<requested, sent, stage, loop, permits, web_permits, in_flight, late>>,
           conn' \in [Conns -> ConnState],
           newest' \in Applications \cup {Zero},
           \A c \in Conns : /\ conn'[c].state \in LiveStates <=> conn[c].state \in LiveStates
                            /\ c \in Live => conn'[c].listener = conn[c].listener
    PROVE  DriverInv'
<1>1. Live' = Live /\ WebLive' = WebLive
  BY SameLive
<1>2. DriverTypeOK'
  BY DEF DriverInv, DriverTypeOK
<1>3. BudgetConserved'
  BY <1>1 DEF DriverInv, BudgetConserved, WebLive
<1>4. LateIsLast' /\ NobodyYet' /\ DrainIsComplete'
  BY <1>1 DEF DriverInv, LateIsLast, NobodyYet, DrainIsComplete
<1> QED
  BY <1>2, <1>3, <1>4 DEF DriverInv

\* serve returns: what TakeOn took goes back.
LEMMA EndStep ==
    ASSUME DriverInv, NEW c \in Live, Polling, End(c)
    PROVE  DriverInv'
<1> USE DEF DriverInv
<1>1. conn \in [Conns -> ConnState] /\ c \in Conns
  BY DEF DriverTypeOK, Live
<1>2. conn' = [conn EXCEPT ![c] = Gone] /\ UNCHANGED <<requested, sent, stage, loop, newest, late>>
  BY DEF End, control, observed
<1>3. /\ Cardinality(Live') = Cardinality(Live) - 1
      /\ Cardinality(WebLive') = IF IsWeb(c) THEN Cardinality(WebLive) - 1
                                             ELSE Cardinality(WebLive)
  BY <1>1, <1>2, OneLessLive
<1>4. /\ Cardinality(Live) \in Nat /\ Cardinality(Live') \in Nat
      /\ Cardinality(WebLive) \in Nat /\ Cardinality(WebLive') \in Nat
  <2>1. c \in Live /\ IsFiniteSet(Live) /\ (IsWeb(c) => c \in WebLive)
    BY LiveIsFinite DEF WebLive
  <2>2. Cardinality(Live) # 0 /\ (IsWeb(c) => Cardinality(WebLive) # 0)
    BY <2>1, LiveIsFinite, FS_EmptySet
  <2> QED
    BY <1>3, <2>2, LiveIsFinite
<1>5. BudgetConserved'
  <2>1. /\ permits + Cardinality(Live) = Limit
        /\ web_permits + Cardinality(WebLive) = WebLimit
        /\ in_flight = Cardinality(Live)
    BY DEF BudgetConserved, WebLive
  <2>2. permits \in Nat /\ web_permits \in Nat /\ in_flight \in Nat
    BY ShareIsPositive, DriverAssumption DEF DriverTypeOK, DriverAssumption
  <2>3. /\ permits' + Cardinality(Live') = Limit
        /\ web_permits' + Cardinality(WebLive') = WebLimit
        /\ in_flight' = Cardinality(Live')
    BY <1>3, <1>4, <2>1, <2>2 DEF End
  <2> QED
    BY <2>3 DEF BudgetConserved, WebLive
<1>6. DriverTypeOK'
  <2>1. Gone \in ConnState
    BY DriverAssumption DEF Gone, Untouched, ConnState, DriverAssumption
  <2>2. conn' \in [Conns -> ConnState]
    BY <1>1, <1>2, <2>1
  <2>3. permits' \in Int /\ web_permits' \in Int /\ in_flight' \in Int
    BY ShareIsPositive, DriverAssumption DEF DriverTypeOK, End, DriverAssumption
  <2>4. permits' >= 0 /\ web_permits' >= 0
    BY ShareIsPositive, DriverAssumption DEF DriverTypeOK, End, DriverAssumption
  <2>5. permits' \in 0..Limit /\ web_permits' \in 0..WebLimit /\ in_flight' \in 0..Limit
    BY <1>4, <1>5, <2>3, <2>4, ShareIsPositive, DriverAssumption
       DEF BudgetConserved, WebLive, DriverAssumption
  <2> QED
    BY <1>2, <2>2, <2>5 DEF DriverTypeOK
<1>7. LateIsLast'
  BY <1>2 DEF LateIsLast
<1>8. DrainIsComplete' /\ NobodyYet'
  BY <1>2 DEF DrainIsComplete, NobodyYet, Polling
<1> QED
  BY <1>5, <1>6, <1>7, <1>8

\* The top of an accept loop only ever ends it or waits again.
LEMMA AgainStep ==
    ASSUME DriverInv, NEW l \in Listeners, loop[l] # "ended", Again(l)
    PROVE  /\ loop' \in [Listeners -> {"unborn", "spawned", "select", "ended"}]
           /\ \A k \in Listeners : loop[k] = "ended" => loop'[k] = "ended"
           /\ requested => loop'[l] = "ended"
BY DEF DriverInv, DriverTypeOK, Again

\* accept_loop takes a connection on: a permit, and a web permit if it is the
\* web's, leave the budget as the connection becomes live.
LEMMA TakeOnStep ==
    ASSUME DriverInv, NEW c \in Conns, TakeOn(c)
    PROVE  DriverInv'
<1> USE DEF DriverInv
<1> DEFINE l == conn[c].listener
<1>1. /\ conn \in [Conns -> ConnState] /\ conn[c].state = "backlog"
      /\ loop[l] = "select" /\ Again(l) /\ ~NoRoom(c)
      /\ stage \in {"waiting", "joining", "draining"}
      /\ UNCHANGED <<requested, sent, stage, newest>>
  BY DEF DriverTypeOK, TakeOn, Accepting, Polling
<1>2. conn' = [conn EXCEPT ![c].state = "reading"]
  BY DEF TakeOn
<1>3. /\ conn' \in [Conns -> ConnState]
      /\ conn'[c].state = "reading" /\ conn'[c].listener = l
      /\ \A d \in Conns : d # c => conn'[d] = conn[d]
  BY <1>1, <1>2 DEF ConnState
<1>4. /\ Cardinality(Live') = Cardinality(Live) + 1
      /\ Cardinality(WebLive') = IF IsWeb(c) THEN Cardinality(WebLive) + 1
                                             ELSE Cardinality(WebLive)
  BY <1>1, <1>3, OneMoreLive DEF LiveStates
<1>5. /\ permits \in 0..Limit /\ web_permits \in 0..WebLimit
      /\ permits # 0 /\ (IsWeb(c) => web_permits # 0)
      /\ in_flight \in 0..Limit
  BY <1>1 DEF DriverTypeOK, NoRoom
<1>6. BudgetConserved'
  <2>1. /\ permits + Cardinality(Live) = Limit
        /\ web_permits + Cardinality(WebLive) = WebLimit
        /\ in_flight = Cardinality(Live)
    BY DEF BudgetConserved, WebLive
  <2>2. /\ permits' + Cardinality(Live') = Limit
        /\ web_permits' + Cardinality(WebLive') = WebLimit
        /\ in_flight' = Cardinality(Live')
    BY <1>4, <1>5, <2>1, LiveIsFinite, ShareIsPositive, DriverAssumption
       DEF TakeOn, DriverAssumption
  <2> QED
    BY <2>2 DEF BudgetConserved, WebLive
<1>7. permits' \in 0..Limit /\ web_permits' \in 0..WebLimit /\ in_flight' \in 0..Limit
  <2>1. permits' \in 0..Limit /\ web_permits' \in 0..WebLimit
    BY <1>5, ShareIsPositive, DriverAssumption DEF TakeOn, DriverAssumption
  <2>2. in_flight' = Limit - permits'
    BY <1>4, <1>6, <2>1, LiveIsFinite, DriverAssumption DEF BudgetConserved, DriverAssumption
  <2>3. ASSUME NEW n \in Nat, NEW m \in 0..n PROVE n - m \in 0..n
    OBVIOUS
  <2>4. Limit \in Nat
    BY DriverAssumption DEF DriverAssumption
  <2>5. Limit - permits' \in 0..Limit
    BY <2>1, <2>3, <2>4, Zenon
  <2> QED
    BY <2>1, <2>2, <2>5, Zenon
<1>8. l \in Listeners \cup {"none"}
  BY <1>1 DEF ConnState
<1>9. loop' = [loop EXCEPT ![l] = IF requested THEN "ended" ELSE "select"]
  BY <1>1 DEF Again
<1>10. loop' \in [Listeners -> {"unborn", "spawned", "select", "ended"}]
  BY <1>9 DEF DriverTypeOK
<1>11. late' \in [Listeners -> Nat]
  <2>1. late \in [Listeners -> Nat]
    BY DEF DriverTypeOK
  <2>2. CASE requested /\ l \in Listeners
    <3>1. late' = [late EXCEPT ![l] = late[l] + 1] /\ late[l] + 1 \in Nat
      BY <2>1, <2>2 DEF TakeOn
    <3> QED
      BY <2>1, <3>1
  <2>3. CASE requested /\ l \notin Listeners
    BY <2>1, <2>3 DEF TakeOn
  <2>4. CASE ~requested
    BY <2>1, <2>4 DEF TakeOn
  <2> QED
    BY <2>2, <2>3, <2>4
<1>12. LateIsLast'
  <2> SUFFICES ASSUME NEW k \in Listeners
               PROVE  late'[k] =< 1 /\ (late'[k] = 1 => requested' /\ loop'[k] = "ended")
    BY DEF LateIsLast
  <2>1. late[k] \in Nat /\ late[k] =< 1 /\ (late[k] = 1 => requested /\ loop[k] = "ended")
    BY DEF LateIsLast, DriverTypeOK
  <2>2. CASE k = l
    <3>1. late[k] = 0
      BY <1>1, <2>1, <2>2
    <3>2. loop'[k] = IF requested THEN "ended" ELSE "select"
      BY <1>9, <2>2 DEF DriverTypeOK
    <3>3. late'[k] = IF requested THEN late[k] + 1 ELSE late[k]
      BY <2>2 DEF TakeOn, DriverTypeOK
    <3> QED
      BY <1>1, <3>1, <3>2, <3>3
  <2>3. CASE k # l
    <3>1. loop'[k] = loop[k]
      BY <1>9, <2>3 DEF DriverTypeOK
    <3>2. late'[k] = late[k]
      BY <2>3 DEF TakeOn, DriverTypeOK
    <3> QED
      BY <1>1, <2>1, <3>1, <3>2
  <2> QED
    BY <2>2, <2>3
<1>13. DriverTypeOK'
  BY <1>1, <1>3, <1>7, <1>10, <1>11 DEF DriverTypeOK
<1>14. DrainIsComplete' /\ NobodyYet'
  BY <1>1 DEF DrainIsComplete, NobodyYet
<1> QED
  BY <1>6, <1>12, <1>13, <1>14

\* A connection turned away was never live and takes nothing with it.
LEMMA TurnAwayStep ==
    ASSUME DriverInv, NEW c \in Conns, NEW denied \in BOOLEAN, TurnAway(c, denied)
    PROVE  DriverInv'
<1> USE DEF DriverInv
<1> DEFINE l == conn[c].listener
<1>1. /\ conn \in [Conns -> ConnState] /\ conn[c].state = "backlog"
      /\ loop[l] = "select" /\ Again(l)
      /\ UNCHANGED <<requested, sent, stage, newest, permits, web_permits, in_flight, late>>
  BY DEF DriverTypeOK, TurnAway, Accepting, budget, observed
<1>2. conn' = [conn EXCEPT ![c] = Gone]
  BY DEF TurnAway
<1>3. Gone \in ConnState /\ Gone.state = "free"
  BY DriverAssumption DEF Gone, Untouched, ConnState, DriverAssumption
<1>4. conn' \in [Conns -> ConnState] /\ \A d \in Conns : d # c => conn'[d] = conn[d]
  BY <1>1, <1>2, <1>3
<1>5. conn'[c].state = "free"
  BY <1>1, <1>2, <1>3
<1>6. c \notin Live
  BY <1>1 DEF Live
<1>7. Live' = Live /\ WebLive' = WebLive
  BY <1>1, <1>4, <1>5, <1>6, SameLive DEF LiveStates
<1>8. loop' = [loop EXCEPT ![l] = IF requested THEN "ended" ELSE "select"]
  BY <1>1 DEF Again
<1>9. DriverTypeOK'
  BY <1>1, <1>4, <1>8 DEF DriverTypeOK
<1>10. BudgetConserved'
  BY <1>1, <1>7 DEF BudgetConserved, WebLive
<1>11. LateIsLast'
  BY <1>1, <1>8 DEF LateIsLast, DriverTypeOK
<1>12. DrainIsComplete' /\ NobodyYet'
  BY <1>1, <1>7 DEF DrainIsComplete, NobodyYet
<1> QED
  BY <1>9, <1>10, <1>11, <1>12

\* The state Driver::run starts from: every permit in, nobody live.
LEMMA DriverInvInit == DriverInit => DriverInv
<1> SUFFICES ASSUME DriverInit PROVE DriverInv
  OBVIOUS
<1> USE DEF DriverInit
<1>1. Gone \in ConnState /\ Gone.state = "free"
  BY DriverAssumption DEF Gone, Untouched, ConnState, DriverAssumption
<1>2. Live = {} /\ WebLive = {}
  BY <1>1 DEF Live, WebLive
<1>3. Cardinality(Live) = 0 /\ Cardinality(WebLive) = 0
  BY <1>2, FS_EmptySet
<1>4. BudgetConserved
  BY <1>3, ShareIsPositive, DriverAssumption DEF BudgetConserved, WebLive, DriverAssumption
<1>5. permits \in 0..Limit /\ in_flight \in 0..Limit
  BY DriverAssumption DEF DriverAssumption
<1>6. web_permits \in 0..WebLimit
  BY ShareIsPositive
<1>7. conn \in [Conns -> ConnState]
  BY <1>1
<1>8. DriverTypeOK
  BY <1>5, <1>6, <1>7 DEF DriverTypeOK
<1>9. LateIsLast /\ NobodyYet /\ DrainIsComplete
  BY DEF LateIsLast, NobodyYet, DrainIsComplete
<1> QED
  BY <1>4, <1>8, <1>9 DEF DriverInv

\* One step per action of DriverNext.
LEMMA DriverInvNext == DriverInv /\ [DriverNext]_driver_vars => DriverInv'
<1> SUFFICES ASSUME DriverInv, [DriverNext]_driver_vars PROVE DriverInv'
  OBVIOUS
<1>t. DriverTypeOK
  BY DEF DriverInv
<1>1. CASE FirstSignal \/ SendReplace \/ SecondSignal
  <2>1. /\ UNCHANGED <<permits, web_permits, in_flight, conn, newest, late, loop>>
        /\ requested => requested'
        /\ stage' \in {stage, "exited"}
    BY <1>1 DEF FirstSignal, SendReplace, SecondSignal, budget, observed
  <2>2. requested' \in BOOLEAN /\ sent' \in BOOLEAN
    BY <1>1, <1>t, Zenon DEF FirstSignal, SendReplace, SecondSignal, DriverTypeOK
  <2>3. /\ stage' \in {"starting", "waiting", "joining", "draining", "returned", "failed",
                      "exited"}
        /\ loop' \in [Listeners -> {"unborn", "spawned", "select", "ended"}]
        /\ stage' = "starting" => stage = "starting"
        /\ stage' \in {"returned", "failed"} => stage \in {"returned", "failed"}
    BY <1>t, <2>1 DEF DriverTypeOK
  <2> QED
    BY <2>1, <2>2, <2>3, ControlStep
<1>2. CASE Run
  BY <1>2, <1>t, ControlStep DEF Run, StopWaiting, Join, Drained, DriverTypeOK, budget, observed
<1>3. CASE Watcher
  BY <1>3, <1>t, ControlStep
     DEF Watcher, SpawnWatcher, WatcherStarts, WatcherHears, Recheck, DriverTypeOK, budget, observed
<1>4. ASSUME NEW l \in Listeners, AcceptLoop(l) PROVE DriverInv'
  <2>1. CASE SpawnLoop(l)
    BY <2>1, <1>t, ControlStep DEF SpawnLoop, DriverTypeOK, budget, observed
  <2>f. CASE SpawnFails(l)
    <3>1. permits = Limit
      BY <2>f DEF SpawnFails, DriverInv, NobodyYet
    <3> QED
      BY <2>f, <3>1, <1>t, ControlStep DEF SpawnFails, DriverTypeOK, budget, observed
  <2>2. CASE LoopStarts(l) \/ AcceptFails(l)
    <3>1. loop[l] # "ended" /\ Again(l)
      BY <2>2 DEF LoopStarts, AcceptFails
    <3>2. /\ loop' \in [Listeners -> {"unborn", "spawned", "select", "ended"}]
          /\ \A k \in Listeners : loop[k] = "ended" => loop'[k] = "ended"
      BY <3>1, AgainStep
    <3> QED
      BY <2>2, <3>2, <1>t, ControlStep DEF LoopStarts, AcceptFails, DriverTypeOK, budget, observed
  <2>3. CASE LoopHears(l)
    BY <2>3, <1>t, ControlStep DEF LoopHears, DriverTypeOK, budget, observed
  <2> QED
    BY <1>4, <2>1, <2>f, <2>2, <2>3 DEF AcceptLoop
<1>5. ASSUME NEW c \in Conns, NEW denied \in BOOLEAN, TurnAway(c, denied) PROVE DriverInv'
  BY <1>5, TurnAwayStep
<1>6. ASSUME NEW c \in Conns, TakeOn(c) PROVE DriverInv'
  BY <1>6, TakeOnStep
<1>7. ASSUME NEW c \in Conns, Serve(c) PROVE DriverInv'
  <2>1. CASE Expire(c) \/ ReadEnds(c) \/ WriteFails(c) \/ Closed(c)
    <3>1. c \in Live /\ Polling /\ End(c)
      BY <2>1 DEF Expire, ReadEnds, WriteFails, Closed, Reading, Live
    <3> QED
      BY <3>1, EndStep
  <2>2. CASE ReadInterrupted(c)
    <3>1. conn' = [conn EXCEPT ![c].quiet = 0]
      BY <2>2 DEF ReadInterrupted
    <3>2. 0 \in 0..ReadTimeout
      BY DriverAssumption DEF DriverAssumption
    <3>3. conn' \in [Conns -> ConnState]
      BY <1>t, <3>1, <3>2 DEF DriverTypeOK, ConnState
    <3>4. \A d \in Conns : conn'[d].state = conn[d].state /\ conn'[d].listener = conn[d].listener
      BY <1>t, <3>1 DEF DriverTypeOK, ConnState
    <3> QED
      BY <1>t, <2>2, <3>3, <3>4, ConnStep
         DEF ReadInterrupted, DriverTypeOK, control, budget, observed
  <2>3. ASSUME NEW about \in Applications \cup {Zero}, NEW after \in AfterHandle,
               Handle(c, about, after)
        PROVE  DriverInv'
    <3>1. newest' \in Applications \cup {Zero}
      BY <1>t, <2>3 DEF Handle, DriverTypeOK
    <3> DEFINE after_c == [conn[c] EXCEPT !.state = after, !.quiet = 0,
                                          !.last_application = newest']
    <3>2. conn' = [conn EXCEPT ![c] = after_c] /\ conn[c].state = "reading"
      BY <2>3 DEF Handle, Reading
    <3>3. 0 \in 0..ReadTimeout
      BY DriverAssumption DEF DriverAssumption
    <3>a. conn \in [Conns -> ConnState] /\ conn[c] \in ConnState
      BY <1>t DEF DriverTypeOK
    <3>b. after_c \in ConnState /\ after_c.state = after /\ after_c.listener = conn[c].listener
      BY <3>1, <3>3, <3>a DEF ConnState, AfterHandle
    <3> HIDE DEF after_c
    <3>4. conn' \in [Conns -> ConnState]
      BY <3>a, <3>b, <3>2
    <3>5. /\ conn[c].state = "reading" /\ conn'[c].state = after
          /\ conn'[c].listener = conn[c].listener
          /\ \A d \in Conns : d # c => conn'[d] = conn[d]
      BY <3>2, <3>a, <3>b
    <3> QED
      BY <2>3, <3>1, <3>4, <3>5, ConnStep
         DEF Handle, control, budget, AfterHandle, LiveStates
  <2>4. CASE Written(c)
    <3>1. conn' = [conn EXCEPT ![c].state =
                     IF conn[c].state = "writing" THEN "reading" ELSE "closing"]
      BY <2>4 DEF Written
    <3>2. conn' \in [Conns -> ConnState]
      BY <1>t, <3>1 DEF DriverTypeOK, ConnState
    <3>3. /\ conn[c].state \in LiveStates /\ conn'[c].state \in LiveStates
          /\ conn'[c].listener = conn[c].listener
          /\ \A d \in Conns : d # c => conn'[d] = conn[d]
      BY <1>t, <2>4, <3>1 DEF DriverTypeOK, ConnState, Written, LiveStates
    <3> QED
      BY <1>t, <2>4, <3>2, <3>3, ConnStep DEF Written, DriverTypeOK, control, budget, observed
  <2> QED
    BY <1>7, <2>1, <2>2, <2>3, <2>4 DEF Serve
<1>8. ASSUME NEW c \in Conns, NEW l \in Listeners, Connect(c, l) PROVE DriverInv'
  <2> DEFINE queued == Untouched("backlog", l)
  <2>1. conn' = [conn EXCEPT ![c] = queued]
    BY <1>8 DEF Connect
  <2>b. 0 \in 0..TotalDeadline /\ 0 \in 0..ReadTimeout
    BY DriverAssumption DEF DriverAssumption
  <2>2. queued \in ConnState /\ queued.state = "backlog"
    BY <2>b DEF ConnState, Untouched
  <2>3. conn[c].state = "free"
    BY <1>8 DEF Connect
  <2> HIDE DEF queued
  <2>4. conn' \in [Conns -> ConnState] /\ conn'[c] = queued
        /\ \A d \in Conns : d # c => conn'[d] = conn[d]
    BY <1>t, <2>1, <2>2 DEF DriverTypeOK
  <2> QED
    BY <1>t, <1>8, <2>2, <2>3, <2>4, ConnStep
       DEF Connect, DriverTypeOK, LiveStates, Live, control, budget, observed
<1>9. CASE Tick
  <2>1. \A d \in Conns : /\ conn'[d] \in ConnState
                         /\ conn'[d].state = conn[d].state
                         /\ conn'[d].listener = conn[d].listener
    <3> SUFFICES ASSUME NEW d \in Conns
                 PROVE  /\ conn'[d] \in ConnState
                        /\ conn'[d].state = conn[d].state
                        /\ conn'[d].listener = conn[d].listener
      OBVIOUS
    <3>1. conn[d] \in ConnState
      BY <1>t DEF DriverTypeOK
    <3>2. CASE d \notin Live
      BY <1>9, <3>1, <3>2 DEF Tick
    <3>3. CASE d \in Live
      <4> DEFINE q == IF conn[d].state = "reading" THEN Capped(conn[d].quiet, ReadTimeout) ELSE 0
      <4>1. conn'[d] = [conn[d] EXCEPT !.age = Capped(conn[d].age, TotalDeadline), !.quiet = q]
        BY <1>9, <3>3 DEF Tick
      <4>2. Capped(conn[d].age, TotalDeadline) \in 0..TotalDeadline
        BY <3>1, DriverAssumption DEF ConnState, Capped, DriverAssumption
      <4>3. q \in 0..ReadTimeout
        BY <3>1, DriverAssumption DEF ConnState, Capped, DriverAssumption
      <4> HIDE DEF q
      <4> QED
        BY <3>1, <4>1, <4>2, <4>3 DEF ConnState
    <3> QED
      BY <3>2, <3>3
  <2>2. conn' \in [Conns -> ConnState]
    BY <1>9, <2>1 DEF Tick
  <2> QED
    BY <1>t, <1>9, <2>1, <2>2, ConnStep DEF Tick, DriverTypeOK, control, budget, observed
<1>10. CASE UNCHANGED driver_vars
  BY <1>10, <1>t, ControlStep DEF driver_vars, control, budget, observed, DriverTypeOK, DriverInv
<1> QED
  BY <1>1, <1>2, <1>3, <1>4, <1>5, <1>6, <1>7, <1>8, <1>9, <1>10 DEF DriverNext

\* The inductive invariant holds whatever the listeners, the connections, the
\* signal handler and the clock do (Driver::run and its tasks).
THEOREM DriverInvHolds == DriverSpec => []DriverInv
BY DriverInvInit, DriverInvNext, PTL DEF DriverSpec

\* The permits out are the live connections, whichever way connections are
\* refused, served or dropped (accept_loop and serve).
THEOREM DriverBudgetConserved == DriverSpec => []BudgetConserved
<1>1. DriverInv => BudgetConserved
  BY DEF DriverInv
<1> QED
  BY DriverInvHolds, <1>1, PTL

\* When no permit is left, KMS clients hold all that is not the web's share
\* (Driver::web_limit).
THEOREM DriverWebNeverStarvesKms == DriverSpec => []WebNeverStarvesKms
<1>1. DriverInv => WebNeverStarvesKms
  <2> SUFFICES ASSUME DriverInv, permits = 0
               PROVE  Cardinality({c \in Live : ~IsWeb(c)}) >= Limit - WebLimit
    BY DEF WebNeverStarvesKms
  <2> DEFINE kms == {c \in Live : ~IsWeb(c)}
  <2>1. kms = Live \ WebLive /\ WebLive \subseteq Live
    BY DEF WebLive
  <2>2. Cardinality(Live \ WebLive) = Cardinality(Live) - Cardinality(Live \cap WebLive)
    BY LiveIsFinite, FS_Difference
  <2>3. Live \cap WebLive = WebLive
    BY <2>1
  <2>4. Cardinality(Live) = Limit /\ Cardinality(WebLive) =< WebLimit
    BY LiveIsFinite, ShareIsPositive, DriverAssumption
       DEF DriverInv, BudgetConserved, WebLive, DriverTypeOK, DriverAssumption
  <2> HIDE DEF kms
  <2>5. Cardinality(kms) = Limit - Cardinality(WebLive)
    BY <2>1, <2>2, <2>3, <2>4
  <2>6. Cardinality(kms) >= Limit - WebLimit
    BY <2>4, <2>5, LiveIsFinite, ShareIsPositive, DriverAssumption DEF DriverAssumption
  <2> QED
    BY <2>6 DEF kms
<1> QED
  BY DriverInvHolds, <1>1, PTL

\* run returns only when no connection is live (acquire_many of every permit).
THEOREM DriverDrainIsComplete == DriverSpec => []DrainIsComplete
<1>1. DriverInv => DrainIsComplete
  BY DEF DriverInv
<1> QED
  BY DriverInvHolds, <1>1, PTL

\* A listener takes on at most one connection after the flag is set.
THEOREM DriverAtMostOneMore == DriverSpec => []AtMostOneMore
<1>1. DriverInv => AtMostOneMore
  BY DEF DriverInv, LateIsLast, AtMostOneMore
<1> QED
  BY DriverInvHolds, <1>1, PTL
=============================================================================
