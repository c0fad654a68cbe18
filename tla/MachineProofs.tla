--------------------------- MODULE MachineProofs ---------------------------
(***************************************************************************)
(* That the machine stops cleanly and the service manager is told the      *)
(* truth (ProcessInv, about the process), and that a synchronised client   *)
(* of the guest agent gets its own reply (TalkInv, about the conversation).*)
(* The two invariants share no variable and are proved apart.              *)
(***************************************************************************)
EXTENDS Machine, OrderFacts, SequenceTheorems, TLAPS

\* Where `run' and the boot before it can be.
Steps == {"mount", "watch", "agent", "args", "config", "observe", "bind", "bind web",
          "entropy", "arrange", "sandbox", "start", "spawn", "serving", "draining",
          "returned", "killed"}

\* The types of what the process and the machine keep.
ProcessType ==
    /\ host \in Hosts
    /\ pc \in Steps
    /\ handler \in BOOLEAN /\ signals \in BOOLEAN /\ asked \in BOOLEAN
    /\ inflight \in Nat /\ stops \in Nat
    /\ restricted \in {{}, {"main"}}
    /\ scm \in {"none", "StartPending", "Running", "Stopped", "Failed", "Died"}
    /\ power \in {"on", "off", "panic"} /\ refused \in BOOLEAN

\* Connections are taken or drained.
Serving == {"serving", "draining"}

\* The host has been announced and `run' of the driver has been called.
Announced == Serving \cup {"spawn"}

\* Connections only while serving; confined only after everything was bound,
\* and never process 1; the service manager's state and the event log fit where
\* `run' is.
ProcessInv ==
    /\ ProcessType
    /\ asked => stops >= 1
    /\ inflight # 0 => pc \in Serving \cup {"killed"}
    /\ restricted # {} => pc \in Announced \cup {"start", "returned", "killed"}
    /\ host.platform = "init" => restricted = {} /\ pc # "sandbox"
    /\ scm = "Running" => pc \in Announced
    /\ pc \in Announced => scm \in {"none", "Running"} /\ "Started" \in entries
    /\ pc \notin {"returned", "killed"} => scm \in {"none", "StartPending", "Running"}
    /\ scm # "none" => host.platform = "service"
    /\ "Started" \in entries => pc \in Announced \cup {"returned", "killed"}
    /\ "Stopped" \in entries => pc \in {"returned", "killed"}
    /\ exit # {} => pc \in {"returned", "killed"}
    /\ scm \in {"Stopped", "Failed"} => pc = "returned"
    /\ CleanStop /\ ServiceTold

\* ProcessInv holds before anything has run.
LEMMA ProcessInvInit == Init => ProcessInv
<1> SUFFICES ASSUME Init PROVE ProcessInv
  OBVIOUS
<1>1. pc \in {"mount", "args"} /\ scm \in {"StartPending", "none"}
  BY DEF Init, StartupInit
<1>2. scm # "none" => host.platform = "service"
  BY DEF Init, StartupInit
<1> QED
  BY <1>1, <1>2 DEF Init, StartupInit, ProcessInv, ProcessType, Serving, Announced, Steps, CleanStop,
                    ServiceTold

\* The handler: the first request only sets the flag, the second ends the
\* process, which the machine survives only when it is not process 1's.
LEMMA HandleKeeps ==
    ASSUME ProcessInv, Handle, pc # "killed", UNCHANGED refused,
           power' = Becomes \/ (host.platform # "init" /\ power' = power)
    PROVE  ProcessInv'
<1>1. CASE ~asked
  <2>1. UNCHANGED <<host, pc, exit, scm, inflight, handler, signals, restricted, entries>>
        /\ asked' = TRUE /\ stops' = stops + 1
    BY <1>1 DEF Handle
  <2>2. power' = power
    BY <2>1 DEF Becomes
  <2>3. ProcessType'
    BY <2>1, <2>2 DEF ProcessInv, ProcessType
  <2>4. CleanStop'
    BY <2>1, <2>2 DEF ProcessInv, ProcessType, CleanStop
  <2>5. ServiceTold'
    BY <2>1 DEF ProcessInv, ServiceTold
  <2>6. stops' >= 1
    BY <2>1 DEF ProcessInv, ProcessType
  <2> QED
    BY <2>1, <2>3, <2>4, <2>5, <2>6 DEF ProcessInv
<1>2. CASE asked
  <2>1. /\ UNCHANGED <<host, asked, inflight, handler, signals, restricted, entries>>
        /\ pc' = "killed" /\ stops' = stops + 1 /\ scm' \in {"none", "Died"}
        /\ stops >= 1 /\ (scm' # "none" => scm # "none")
    BY <1>2 DEF Handle, ProcessInv
  <2>2. power' \in {"panic", power}
    BY DEF Becomes
  <2>3. ProcessType'
    <3>1. /\ power' \in {"on", "off", "panic"}
          /\ scm' \in {"none", "StartPending", "Running", "Stopped", "Failed", "Died"}
      BY <2>1, <2>2 DEF ProcessInv, ProcessType
    <3>2. pc' \in Steps
      BY <2>1 DEF Steps
    <3> QED
      BY <2>1, <3>1, <3>2 DEF ProcessInv, ProcessType
  <2>4. CleanStop'
    BY <2>1, <2>2 DEF ProcessInv, ProcessType, CleanStop
  <2>5. ServiceTold'
    <3>1. exit' = {130} /\ {130} # {0}
      BY <1>2 DEF Handle, EXIT_INTERRUPTED
    <3> QED
      BY <2>1, <3>1 DEF ServiceTold
  <2>6. stops' >= 1
    BY <2>1 DEF ProcessInv, ProcessType
  <2> QED
    BY <2>1, <2>3, <2>4, <2>5, <2>6 DEF ProcessInv, Serving, Announced
<1> QED
  BY <1>1, <1>2

\* A start that is given up: nothing was served, and the exit code says so.
LEMMA RefuseKeeps ==
    ASSUME ProcessInv, UNCHANGED <<power, refused>>, power = "on",
           pc \notin {"spawn", "serving", "draining", "returned", "killed"},
           NEW code \in Nat \ {0},
           NEW told \in SUBSET {"ConfigInvalid", "BindFailed", "EntropyFailed"},
           Refuse(code, told)
    PROVE  ProcessInv'
<1> USE DEF ProcessInv, ProcessType, Serving, Announced, Steps, CleanStop, ServiceTold, Refuse, Return
<1>1. scm' \in {"none", "Failed"} /\ (scm' # "none" => scm # "none") /\ inflight' = 0
  BY DEF ServiceEnd
<1>2. exit' # {0} /\ "Started" \notin entries'
  BY Zenon
<1> QED
  BY <1>1, <1>2

\* The driver's error: nothing was served, and Stopped is set all the same.
LEMMA SpawnKeeps ==
    ASSUME ProcessInv, UNCHANGED <<power, refused>>, power = "on", SpawnLoops
    PROVE  ProcessInv'
<1>0. pc = "spawn" /\ "Started" \in entries /\ "Stopped" \notin entries /\ inflight = 0
  BY DEF SpawnLoops, ProcessInv, Serving, Announced
<1>1. CASE Refuse(EXIT_UNAVAILABLE, {})
  <2>1. /\ exit' = {69} /\ entries' = entries /\ inflight' = 0 /\ pc' = "returned"
        /\ UNCHANGED <<host, handler, signals, asked, restricted, stops>>
        /\ scm' \in {"none", "Stopped"} /\ (scm' # "none" => scm # "none")
    BY <1>0, <1>1 DEF Refuse, Return, EXIT_UNAVAILABLE, ServiceEnd, ProcessInv, Announced
  <2>2. {69} # {0}
    OBVIOUS
  <2>3. ServiceTold'
    BY <1>0, <2>1, <2>2 DEF ServiceTold, EXIT_UNAVAILABLE
  <2>4. ProcessType' /\ CleanStop'
    BY <2>1 DEF ProcessInv, ProcessType, CleanStop, Steps
  <2> QED
    BY <2>1, <2>3, <2>4 DEF ProcessInv, Serving, Announced
<1>2. CASE Proceed("serving") /\ UNCHANGED <<handler, signals, restricted>>
  BY <1>0, <1>2 DEF Proceed, ProcessInv, ProcessType, Serving, Announced, Steps, CleanStop,
                    ServiceTold
<1> QED
  BY <1>1, <1>2 DEF SpawnLoops

\* Every step of `run', from its arguments to its return, keeps ProcessInv.
LEMMA MainKeeps ==
    ASSUME ProcessInv, MainStep, UNCHANGED <<power, refused>>, power = "on"
    PROVE  ProcessInv'
<1> DEFINE told == {{}, {"ConfigInvalid"}, {"BindFailed"}, {"EntropyFailed"}}
           goes == /\ pc' \in {"config", "observe", "bind", "bind web", "entropy", "arrange"}
                   /\ UNCHANGED <<host, scm, entries, exit, stops, asked, inflight, handler,
                                  signals, restricted>>
           early == pc \in {"args", "config", "observe", "bind", "entropy"}
<1>0. \A code \in {64, 69, 78}, t \in told : early /\ Refuse(code, t) => ProcessInv'
  BY RefuseKeeps
<1>1. CASE early /\ \E code \in {64, 69, 78}, t \in told : Refuse(code, t)
  BY <1>0, <1>1
<1>2. CASE early /\ goes
  BY <1>2 DEF ProcessInv, ProcessType, Serving, Announced, Steps, CleanStop, ServiceTold
<1> USE DEF Proceed, EXIT_BAD_CONFIG, EXIT_BAD_USAGE, EXIT_UNAVAILABLE
<1>3. CASE TakesNoArguments
  BY <1>1, <1>2, <1>3 DEF TakesNoArguments
<1>4. CASE ReadConfig
  BY <1>1, <1>2, <1>4 DEF ReadConfig
<1>4a. CASE BuildServer
  <2>1. CASE \E code \in {64, 69} : Refuse(code, {})
    <3>1. PICK code \in {64, 69} : Refuse(code, {})
      BY <2>1
    <3> QED
      BY <1>0, <1>4a, <3>1 DEF BuildServer
  <2> QED
    BY <1>2, <1>4a, <2>1 DEF BuildServer
<1>4b. CASE BindKms
  BY <1>1, <1>2, <1>4b DEF BindKms
<1>4c. CASE SelfTest
  BY <1>1, <1>2, <1>4c DEF SelfTest
<1> USE DEF ProcessInv, ProcessType, Serving, Announced, Steps, CleanStop, ServiceTold
<1>5. CASE BindWeb
  BY <1>5 DEF BindWeb
<1>7. CASE Arrange
  BY <1>7 DEF Arrange
<1>8. CASE Sandbox
  BY <1>8 DEF Sandbox
<1>9. CASE Start
  <2>1. exit' = {} /\ "Stopped" \notin entries'
    BY <1>9 DEF Start, report
  <2>2. ServiceTold'
    BY <1>9, <2>1 DEF Start, report
  <2> QED
    BY <1>9, <2>1, <2>2 DEF Start, report
<1>9a. CASE SpawnLoops
  BY <1>9a, SpawnKeeps
<1>10. CASE StopAccepting
  BY <1>10 DEF StopAccepting
<1>11. CASE ReturnDrained
  <2>1. /\ exit' = {0} /\ entries' = entries \cup {"Stopped"} /\ inflight' = 0
        /\ pc' = "returned" /\ "Started" \in entries
        /\ UNCHANGED <<host, handler, signals, asked, restricted, stops>>
        /\ scm' \in {"none", "Stopped"} /\ (scm' # "none" => scm # "none")
    BY <1>11 DEF ReturnDrained, Return, report, ServiceEnd
  <2>2. ServiceTold'
    BY <2>1
  <2> QED
    BY <2>1, <2>2
<1> QED
  BY <1>3, <1>4, <1>4a, <1>4b, <1>4c, <1>5, <1>7, <1>8, <1>9, <1>9a, <1>10, <1>11 DEF MainStep

\* Every step of the machine keeps ProcessInv.
LEMMA ProcessInvNext ==
    ASSUME ProcessInv, [Next]_vars
    PROVE  ProcessInv'
<1>1. ASSUME UNCHANGED <<process, power, refused>> PROVE ProcessInv'
  <2>1. ProcessType' /\ CleanStop' /\ ServiceTold'
    BY <1>1 DEF process, ProcessInv, ProcessType, CleanStop, ServiceTold
  <2> QED
    BY <1>1, <2>1 DEF process, ProcessInv
<1>2. CASE UNCHANGED vars
  BY <1>1, <1>2 DEF vars
<1>3. CASE power = "on" /\ BootStep
  <2>1. /\ pc \in {"mount", "watch", "agent"}
        /\ \E step \in {"watch", "agent", "args"} : Boot(step)
    BY <1>3 DEF BootStep, MountAndTee, WatchButtons, ServeAgent
  <2>2. UNCHANGED <<power, refused>>
    BY <1>3 DEF BootStep, MountAndTee, WatchButtons, ServeAgent
  <2>3. /\ pc' \in {"watch", "agent", "args"}
        /\ UNCHANGED <<host, handler, signals, asked, inflight, restricted, scm, entries,
                       exit, stops>>
    BY <2>1 DEF Boot
  <2>4. pc' \in Steps
    BY <2>3 DEF Steps
  <2>5. ProcessType' /\ CleanStop' /\ ServiceTold'
    BY <2>2, <2>3, <2>4 DEF ProcessInv, ProcessType, CleanStop, ServiceTold
  <2> QED
    BY <2>1, <2>3, <2>5 DEF ProcessInv, Serving, Announced
<1>4. CASE power = "on" /\ ServeStep
  BY <1>4, MainKeeps DEF ServeStep
<1>5. CASE power = "on" /\ PowerOff
  <2>1. /\ UNCHANGED process /\ pc = "returned"
        /\ \/ power' = "panic" /\ refused' = TRUE
           \/ power' = "off" /\ refused' = FALSE
    <3>1. PICK failed \in BOOLEAN : /\ power' = IF failed THEN "panic" ELSE "off"
                                    /\ refused' = failed
      BY <1>5 DEF PowerOff, MayFail
    <3>2. CASE failed = TRUE
      BY <1>5, <3>1, <3>2 DEF PowerOff
    <3>3. CASE failed = FALSE
      BY <1>5, <3>1, <3>3 DEF PowerOff
    <3> QED
      BY <3>2, <3>3
  <2>2. ProcessType' /\ CleanStop' /\ ServiceTold'
    BY <2>1 DEF process, ProcessInv, ProcessType, Serving, CleanStop, ServiceTold
  <2> QED
    BY <2>1, <2>2 DEF process, ProcessInv
<1>6. CASE power = "on" /\ (Connections \/ ConnectionEnds)
  <2>1. /\ pc \in Serving /\ inflight' \in Nat
        /\ UNCHANGED <<host, pc, settings, listeners, handler, signals, asked, restricted,
                       scm, entries, exit, stops, power, refused>>
    BY <1>6 DEF Connections, ConnectionEnds, AcceptConnection, EndConnection, Serving,
                ProcessInv, ProcessType
  <2> QED
    BY <1>6, <2>1 DEF ProcessInv, ProcessType, Steps, Serving, CleanStop, ServiceTold
<1>7. CASE HandleSignal
  BY <1>7, HandleKeeps DEF HandleSignal
<1>8. CASE Interrupt \/ Control
  <2>1. pc # "killed" /\ host.platform # "init" /\ Handle /\ UNCHANGED <<power, refused>>
    BY <1>8 DEF Interrupt, Control, ServiceStop, ProcessInv, Serving, Announced, Ended
  <2> QED
    BY <2>1, HandleKeeps
<1>9. CASE Next /\ UNCHANGED <<process, power, refused>>
  BY <1>1, <1>9
<1>10. CASE /\ power = "on"
            /\ Pump \/ AgentStep \/ AgentDies \/ Press \/ \E n \in Nodes : WatcherStep(n)
  BY <1>1, <1>10 DEF Pump, AgentStep, AgentAnswers, AgentSignals, AgentDies, Press,
                     WatcherStep, ReadPress, SignalPress
<1>11. CASE Hypervisor
  BY <1>1, <1>11 DEF Hypervisor
<1> QED
  BY <1>2, <1>3, <1>4, <1>5, <1>6, <1>7, <1>8, <1>10, <1>11 DEF Next

\* ProcessInv is an invariant of the machine.
LEMMA MachineProcess == Spec => []ProcessInv
  BY ProcessInvInit, ProcessInvNext, PTL DEF Spec

\* However many presses, agents and signals ask, process 1 ends under a kernel
\* only when reboot(2) was refused or a second request reached the handler, and
\* the machine is off only with every connection ended (power.rs, entry.rs).
THEOREM MachineCleanStop == Spec => []CleanStop
<1>1. ProcessInv => CleanStop
  BY DEF ProcessInv
<1> QED
  BY <1>1, MachineProcess, PTL

\* What service.rs tells the service manager, and what it leaves to the exit code:
\* Failed only of a run that never announced itself; Stopped only with no connection
\* left, of a run that drained or of one whose listeners the runtime refused, which
\* exits unavailable and has no Stopped in the event log (entry.rs, driver.rs).
THEOREM MachineServiceTold == Spec => []ServiceTold
<1>1. ProcessInv => ServiceTold
  BY DEF ProcessInv
<1> QED
  BY <1>1, MachineProcess, PTL

\* After sandbox::apply the serving thread opens no socket, and process 1 is
\* never confined, in any step.
THEOREM MachineNothingNeededGivenUp == Spec => NothingNeededGivenUp
<1> DEFINE Kept == /\ "main" \in restricted => listeners' \subseteq listeners
                   /\ host.platform = "init" => restricted' = {}
<1>1. ProcessInv /\ ProcessInv' /\ [Next]_vars => [Kept]_vars
  <2> SUFFICES ASSUME ProcessInv, ProcessInv', Next PROVE Kept
    OBVIOUS
  <2>1. host' = host
    BY DEF Next, BootStep, MountAndTee, WatchButtons, ServeAgent, Boot, ServeStep, MainStep,
           TakesNoArguments, ReadConfig, BuildServer, BindKms, BindWeb, SelfTest, Arrange,
           Sandbox, Start, SpawnLoops, StopAccepting, ReturnDrained, Proceed, Refuse, Return, PowerOff,
           Pump, Connections, ConnectionEnds, AcceptConnection, EndConnection, AgentStep,
           AgentAnswers, AgentSignals, AgentDies, WatcherStep, ReadPress, SignalPress, Press,
           HandleSignal, Interrupt, Control, ServiceStop, Handle, Hypervisor, process
  <2>2. ASSUME "main" \in restricted PROVE listeners' \subseteq listeners
    <3>1. pc \in {"start", "spawn", "serving", "draining", "returned", "killed"}
      BY <2>2 DEF ProcessInv, Serving, Announced
    <3>2. listeners' \in {listeners, {}}
      BY <3>1
         DEF Next, BootStep, MountAndTee, WatchButtons, ServeAgent, Boot, ServeStep, MainStep,
             TakesNoArguments, ReadConfig, BuildServer, BindKms, BindWeb, SelfTest, Arrange,
             Sandbox, Start, SpawnLoops, StopAccepting, ReturnDrained, Proceed, Refuse, Return, PowerOff,
             Pump, Connections, ConnectionEnds, AcceptConnection, EndConnection, AgentStep,
             AgentAnswers, AgentSignals, AgentDies, WatcherStep, ReadPress, SignalPress, Press,
             HandleSignal, Interrupt, Control, ServiceStop, Handle, Hypervisor, process
    <3> QED
      BY <3>2
  <2> QED
    BY <2>1, <2>2 DEF ProcessInv
<1> QED
  BY <1>1, MachineProcess, PTL DEF Spec, NothingNeededGivenUp

-----------------------------------------------------------------------------
(***************************************************************************)
(* The guest agent's conversation.                                         *)
(***************************************************************************)
\* What the channel carries.
Token == {Newline} \cup [execute : Syncs \cup Asked, id : Nat]

Reply == [return : COMMANDS \cup {"GenericError", "CommandNotFound"}, id : Nat,
          lead : {<<>>, utf8(255)}]

\* What the guest has still to make lines of.
Stream == pending \o channel

\* A text that gets a reply.
Answerable(t) == t.execute \notin {"\n", "guest-shutdown"}

NothingToAnswer == \A i \in 1..Len(Stream) : ~Answerable(Stream[i])

TalkType ==
    /\ pending \in Seq(Token) /\ channel \in Seq(Token) /\ replies \in Seq(Reply)
    /\ clients \in Nat /\ client \in {"away", "syncing", "synced", "waiting"}

\* Every text is followed by its newline, and none is of a client still to come.
StreamInv ==
    \A i \in 1..Len(Stream) :
        /\ Stream[i] # Newline => i < Len(Stream) /\ Stream[i + 1] = Newline
        /\ Stream[i].id =< clients

\* No reply is to a client still to come.
RepliesInv == \A k \in 1..Len(replies) : replies[k].id =< clients

\* The present client's sync is the last text sent, and its reply the last reply.
SyncingInv ==
    /\ clients > 0
    /\ \A i \in 1..Len(Stream) :
          Stream[i].execute \in Syncs /\ Stream[i].id = clients => i = Len(Stream) - 1
    /\ \A k \in 1..Len(replies) :
          replies[k].return \in Syncs /\ replies[k].id = clients
             => k = Len(replies) /\ Len(Stream) < 1

\* What is waited for is either still to be answered, or answered and to be read.
WaitingInv ==
    /\ want \in Asked \ {"guest-shutdown"}
    /\ \/ /\ Len(replies) = 0
          /\ \A i \in 1..Len(Stream) :
                Answerable(Stream[i]) => Stream[i].execute = want /\ i = Len(Stream) - 1
       \/ /\ Len(replies) = 1 /\ replies[1].return \in Expected(want)
          /\ NothingToAnswer

\* A synchronised client finds nothing that is not its own on either side.
TalkInv ==
    /\ TalkType
    /\ StreamInv /\ RepliesInv
    /\ client = "syncing" => SyncingInv
    /\ client = "synced" => Len(replies) = 0 /\ NothingToAnswer
    /\ client = "waiting" => WaitingInv
    /\ OwnReply

\* The front of the stream is dropped: what is left is still texts and newlines.
LEMMA DropStream ==
    ASSUME TalkInv, NEW m \in 0..Len(Stream),
           Len(Stream') = Len(Stream) - m,
           \A i \in 1..(Len(Stream) - m) : Stream'[i] = Stream[i + m],
           UNCHANGED clients
    PROVE  StreamInv'
<1>0. Len(Stream) \in Nat
  BY DEF TalkInv, TalkType, Stream
<1>1. ASSUME NEW i \in 1..Len(Stream')
      PROVE  /\ Stream'[i] # Newline => i < Len(Stream') /\ Stream'[i + 1] = Newline
             /\ Stream'[i].id =< clients
  <2>1. i + m \in 1..Len(Stream) /\ Stream'[i] = Stream[i + m]
    BY <1>0
  <2>2. Stream[i + m].id =< clients
    BY <2>1 DEF TalkInv, StreamInv
  <2>3. ASSUME Stream[i + m] # Newline
        PROVE  i < Len(Stream') /\ Stream'[i + 1] = Newline
    <3>1. i + m < Len(Stream) /\ Stream[i + m + 1] = Newline
      BY <2>1, <2>3 DEF TalkInv, StreamInv
    <3>2. i + 1 \in 1..(Len(Stream) - m) /\ (i + 1) + m = i + m + 1
      BY <1>0, <3>1
    <3>3. Stream'[i + 1] = Stream[(i + 1) + m]
      BY <3>2
    <3> QED
      BY <1>0, <3>1, <3>2, <3>3
  <2> QED
    BY <2>1, <2>2, <2>3
<1> QED
  BY <1>1 DEF StreamInv

\* A sync that was the last text is the last text of what is left.
LEMMA DropSync ==
    ASSUME TalkInv, SyncingInv, NEW m \in 0..Len(Stream),
           Len(Stream') = Len(Stream) - m,
           \A i \in 1..(Len(Stream) - m) : Stream'[i] = Stream[i + m]
    PROVE  \A i \in 1..Len(Stream') :
              Stream'[i].execute \in Syncs /\ Stream'[i].id = clients => i = Len(Stream') - 1
<1>0. Len(Stream) \in Nat
  BY DEF TalkInv, TalkType, Stream
<1> TAKE i \in 1..Len(Stream')
<1> HAVE Stream'[i].execute \in Syncs /\ Stream'[i].id = clients
<1>1. i + m \in 1..Len(Stream) /\ Stream'[i] = Stream[i + m]
  BY <1>0
<1>2. i + m = Len(Stream) - 1
  BY <1>1 DEF SyncingInv
<1>3. i \in Int /\ m \in Int
  BY <1>0
<1>4. Len(Stream') = Len(Stream) - m
  OBVIOUS
<1> QED
  BY ONLY <1>0, <1>2, <1>3, <1>4

\* The front of the stream is dropped, answered or not, and nobody is told.
LEMMA DropKeeps ==
    ASSUME TalkInv, NEW m \in 0..Len(Stream),
           pending' \in Seq(Token), channel' \in Seq(Token),
           Len(Stream') = Len(Stream) - m,
           \A i \in 1..(Len(Stream) - m) : Stream'[i] = Stream[i + m],
           UNCHANGED <<replies, client, clients, want, strayed>>
    PROVE  TalkInv'
<1>0. Len(Stream) \in Nat
  BY DEF TalkInv, TalkType, Stream
<1>1. TalkType'
  BY DEF TalkInv, TalkType
<1>2. StreamInv' /\ RepliesInv'
  BY DropStream DEF TalkInv, RepliesInv
<1>3. ASSUME client = "syncing" PROVE SyncingInv'
  <2>1. SyncingInv
    BY <1>3 DEF TalkInv
  <2>2. \A i \in 1..Len(Stream') :
           Stream'[i].execute \in Syncs /\ Stream'[i].id = clients => i = Len(Stream') - 1
    BY <2>1, DropSync
  <2>3. Len(Stream) < 1 => Len(Stream') < 1
    <3>1. Len(Stream') = Len(Stream) - m /\ m \in 0..Len(Stream)
      OBVIOUS
    <3> QED
      BY ONLY <1>0, <3>1
  <2> QED
    BY <2>1, <2>2, <2>3 DEF SyncingInv
<1>4. NothingToAnswer => NothingToAnswer'
  BY <1>0 DEF NothingToAnswer
<1>5. client' = "waiting" => WaitingInv'
  BY <1>0, <1>4 DEF TalkInv, WaitingInv
<1> QED
  BY <1>1, <1>2, <1>3, <1>4, <1>5 DEF TalkInv, OwnReply

\* When a line is complete it is empty or one text: the first newline is the
\* first token or follows the first token.
LEMMA LineShape ==
    ASSUME TalkInv, Newlines(pending) # {}
    PROVE  LET f == FirstOf(Newlines(pending))
           IN  /\ f \in Newlines(pending)
               /\ \/ f = 1 /\ NextLine = <<>>
                  \/ f = 2 /\ NextLine = <<pending[1]>> /\ pending[1] # Newline
<1> DEFINE f == FirstOf(Newlines(pending))
<1>1. Newlines(pending) \subseteq Nat /\ pending \in Seq(Token)
  BY DEF Newlines, TalkInv, TalkType
<1>2. PICK least \in Newlines(pending) : \A j \in Newlines(pending) : least =< j
  BY <1>1, LeastExists
<1>3. f \in Newlines(pending) /\ \A j \in Newlines(pending) : f =< j
  BY <1>2 DEF FirstOf
<1>4. CASE pending[1] = Newline
  <2>1. 1 \in Newlines(pending)
    BY <1>1, <1>3, <1>4 DEF Newlines
  <2>2. f = 1
    BY <1>1, <1>3, <2>1 DEF Newlines
  <2>3. NextLine = SubSeq(pending, 1, 0)
    BY <2>2 DEF NextLine
  <2>4. NextLine = <<>>
    BY <1>1, <2>3, SubSeqEmpty
  <2> QED
    BY <1>3, <2>2, <2>4
<1>5. CASE pending[1] # Newline
  <2>1. f \in 2..Len(pending)
    BY <1>1, <1>3, <1>5 DEF Newlines
  <2>2. Stream[1] = pending[1] /\ Stream[2] = pending[2] /\ 1 \in 1..Len(Stream)
    BY <1>1, <2>1 DEF Stream, TalkInv, TalkType
  <2>3. 2 \in Newlines(pending)
    <3>1. Stream[1 + 1] = Newline
      BY <1>5, <2>2 DEF TalkInv, StreamInv
    <3> QED
      BY <1>1, <2>1, <2>2, <3>1 DEF Newlines
  <2>4. f = 2
    BY <1>3, <2>1, <2>3
  <2>5. NextLine = SubSeq(pending, 1, 1)
    BY <2>4 DEF NextLine
  <2>6. NextLine = <<pending[1]>>
    <3>1. <<pending[1]>> \in Seq(Token) /\ Len(<<pending[1]>>) = 1
      BY <1>1, <2>1
    <3>2. /\ NextLine \in Seq(Token) /\ Len(NextLine) = 1
          /\ \A i \in 1..1 : NextLine[i] = pending[i]
      BY <1>1, <2>1, <2>5, PrefixFacts
    <3> QED
      BY <3>1, <3>2, SeqEqual
  <2> QED
    BY <1>3, <1>5, <2>4, <2>6
<1> QED
  BY <1>4, <1>5

\* What a line of one text is answered with.
LEMMA AnswerShape ==
    ASSUME NEW t \in Token, t # Newline, t.execute # "\n", NEW listed \in BOOLEAN
    PROVE  LET told == answer(<<t>>, listed)
           IN  /\ told = {} <=> ~Answerable(t)
               /\ \A r \in told : /\ r \in Reply
                                  /\ r.id \in {0, t.id}
                                  /\ r.return \in Syncs => r.return = t.execute /\ r.id = t.id
                                  /\ r.return \in Expected(t.execute)
               /\ told # {} => (CHOOSE r \in told : TRUE) \in told
<1> DEFINE line == <<t>>
           told == answer(line, listed)
<1>1. Len(line) = 1 /\ line[1] = t /\ line # <<>>
  OBVIOUS
<1>2. command(line) = IF t.execute # "not a request" THEN t.execute ELSE ""
  BY <1>1 DEF command
<1>3. t.execute # "" /\ t.execute \in Syncs \cup Asked /\ t.id \in Nat
  BY AgentAssumption DEF Token, Syncs
<1>4. silent(line) <=> t.execute = "guest-shutdown"
  BY <1>1, <1>2 DEF silent
<1>5. told # {} => (CHOOSE r \in told : TRUE) \in told
  <2> HIDE DEF told
  <2> QED
    BY Zenon
<1> DEFINE Shape(r) == /\ r \in Reply
                       /\ r.id \in {0, t.id}
                       /\ r.return \in Syncs => r.return = t.execute /\ r.id = t.id
                       /\ r.return \in Expected(t.execute)
<1> SUFFICES (told = {} <=> ~Answerable(t)) /\ \A r \in told : Shape(r)
  BY <1>5
<1> HIDE DEF line
<1>6. CASE t.execute = "guest-shutdown"
  <2>1. told = {}
    BY <1>4, <1>6 DEF answer
  <2> QED
    BY <2>1, <1>6 DEF Answerable
<1>7. CASE t.execute = "not a request"
  <2>1. told = {error_reply("GenericError")}
    BY <1>2, <1>4, <1>7 DEF answer
  <2>2. Shape(error_reply("GenericError"))
    BY <1>7 DEF error_reply, Reply, Expected, Syncs
  <2> QED
    BY <2>1, <2>2, <1>7 DEF Answerable
<1>8. CASE t.execute \notin COMMANDS \cup {"not a request"}
  <2>1. told = {error_reply("CommandNotFound")}
    BY <1>2, <1>3, <1>4, <1>8 DEF answer, COMMANDS
  <2>2. Shape(error_reply("CommandNotFound"))
    BY <1>8 DEF error_reply, Reply, Expected, Syncs
  <2> QED
    BY <2>1, <2>2, <1>8 DEF Answerable, COMMANDS
<1>9. CASE t.execute = "guest-network-get-interfaces" /\ ~listed
  <2>1. told = {error_reply("GenericError")}
    BY <1>2, <1>4, <1>9 DEF answer, COMMANDS
  <2>2. Shape(error_reply("GenericError"))
    BY <1>9 DEF error_reply, Reply, Expected, Syncs, COMMANDS
  <2> QED
    BY <2>1, <2>2, <1>9 DEF Answerable
<1>10. CASE /\ t.execute \in COMMANDS \ {"guest-shutdown"}
            /\ ~(t.execute = "guest-network-get-interfaces" /\ ~listed)
  <2> DEFINE own == [return |-> t.execute,
                     id     |-> IF t.execute \in Syncs THEN t.id ELSE 0,
                     lead   |-> IF t.execute = "guest-sync-delimited" THEN utf8(255) ELSE <<>>]
  <2>1. told = {own}
    BY <1>1, <1>2, <1>3, <1>4, <1>10 DEF answer, sync_id, COMMANDS
  <2>2. Shape(own)
    BY <1>3, <1>10 DEF Reply, Expected, COMMANDS
  <2> QED
    BY <2>1, <2>2, <1>10 DEF Answerable, COMMANDS
<1> QED
  BY <1>6, <1>7, <1>8, <1>9, <1>10 DEF COMMANDS

\* A read moves tokens along or drops the front of the stream: the overflow of
\* MAX_LINE, the reset when nobody is there and the end of the thread included.
LEMMA ReadKeeps ==
    ASSUME TalkInv, ReadSome \/ ReadNobody \/ AgentFails
    PROVE  TalkInv'
<1>0. pending \in Seq(Token) /\ channel \in Seq(Token)
  BY DEF TalkInv, TalkType
<1>1. /\ Len(Stream) = Len(pending) + Len(channel)
      /\ \A i \in 1..Len(pending) : Stream[i] = pending[i]
      /\ \A i \in 1..Len(channel) : Stream[i + Len(pending)] = channel[i]
  BY <1>0, ConcatFacts DEF Stream
<1>2. CASE ReadSome
  <2>1. PICK n \in 1..Chunk :
          /\ n =< Len(channel)
          /\ channel' = SubSeq(channel, n + 1, Len(channel))
          /\ pending' = IF Len(pending) + n > MaxLine THEN <<>>
                        ELSE pending \o SubSeq(channel, 1, n)
    BY <1>2 DEF ReadSome
  <2>2. n \in 0..Len(channel)
    <3>1. Chunk \in Nat
      BY AgentAssumption
    <3> QED
      BY <1>0, <2>1, <3>1
  <2>3. /\ channel' \in Seq(Token) /\ Len(channel') = Len(channel) - n
        /\ \A i \in 1..(Len(channel) - n) : channel'[i] = channel[i + n]
    BY <1>0, <2>1, <2>2, SuffixFacts
  <2> DEFINE front == SubSeq(channel, 1, n)
  <2>4. /\ front \in Seq(Token) /\ Len(front) = n
        /\ \A i \in 1..n : front[i] = channel[i]
    BY <1>0, <2>2, PrefixFacts
  <2> HIDE DEF front
  <2>5. UNCHANGED <<replies, client, clients, want, strayed>>
    BY <1>2 DEF ReadSome
  <2>6. CASE pending' = <<>>
    <3>1. Len(Stream') = Len(channel') /\ \A i \in 1..Len(channel') : Stream'[i] = channel'[i]
      BY <2>3, <2>6 DEF Stream
    <3> DEFINE m == Len(pending) + n
    <3>2. m \in 0..Len(Stream) /\ Len(Stream') = Len(Stream) - m
      BY <1>0, <1>1, <2>2, <2>3, <3>1
    <3>3. ASSUME NEW i \in 1..(Len(Stream) - m) PROVE Stream'[i] = Stream[i + m]
      <4>1. i \in 1..(Len(channel) - n) /\ i + n \in 1..Len(channel)
        BY <1>0, <1>1, <2>2
      <4>2. Stream'[i] = channel[i + n]
        BY <2>3, <3>1, <4>1
      <4>3. Stream[(i + n) + Len(pending)] = channel[i + n]
        BY <1>1, <4>1
      <4>4. (i + n) + Len(pending) = i + m
        BY <1>0
      <4> QED
        BY <4>2, <4>3, <4>4
    <3>4. pending' \in Seq(Token)
      BY <2>6
    <3> HIDE DEF m
    <3> QED
      BY <2>3, <2>5, <3>2, <3>3, <3>4, DropKeeps
  <2>7. CASE pending' = pending \o front
    <3>1. /\ pending' \in Seq(Token) /\ Len(pending') = Len(pending) + n
          /\ \A i \in 1..Len(pending) : pending'[i] = pending[i]
          /\ \A i \in 1..n : pending'[i + Len(pending)] = front[i]
      <4>0. pending \in Seq(Token) /\ front \in Seq(Token)
        BY <1>0, <2>4
      <4>1. /\ pending \o front \in Seq(Token)
            /\ Len(pending \o front) = Len(pending) + Len(front)
            /\ \A i \in 1..Len(pending) : (pending \o front)[i] = pending[i]
            /\ \A i \in 1..Len(front) : (pending \o front)[i + Len(pending)] = front[i]
        BY ONLY <4>0, ConcatFacts
      <4> QED
        BY <2>4, <2>7, <4>1
    <3>2. /\ Len(Stream') = Len(pending') + Len(channel')
          /\ \A i \in 1..Len(pending') : Stream'[i] = pending'[i]
          /\ \A i \in 1..Len(channel') : Stream'[i + Len(pending')] = channel'[i]
      <4> DEFINE p == pending'
                 c == channel'
      <4>1. p \in Seq(Token) /\ c \in Seq(Token)
        BY <2>3, <3>1
      <4>2. Stream' = p \o c
        BY DEF Stream
      <4> HIDE DEF p, c
      <4>3. /\ Len(p \o c) = Len(p) + Len(c)
            /\ \A i \in 1..Len(p) : (p \o c)[i] = p[i]
            /\ \A i \in 1..Len(c) : (p \o c)[i + Len(p)] = c[i]
        BY <4>1, ConcatFacts
      <4> QED
        BY <4>2, <4>3 DEF p, c
    <3>3. Len(Stream') = Len(Stream) - 0 /\ 0 \in 0..Len(Stream)
      BY <1>0, <1>1, <2>2, <2>3, <3>1, <3>2
    <3>4. ASSUME NEW i \in 1..(Len(Stream) - 0) PROVE Stream'[i] = Stream[i + 0]
      <4>1. CASE i =< Len(pending)
        BY <1>0, <1>1, <2>2, <3>1, <3>2, <4>1
      <4>2. CASE i > Len(pending) /\ i =< Len(pending) + n
        <5>1. i - Len(pending) \in 1..n /\ (i - Len(pending)) + Len(pending) = i
          BY <1>0, <4>2
        <5>2. Stream'[i] = front[i - Len(pending)]
          BY <1>0, <2>2, <3>1, <3>2, <4>2, <5>1
        <5>3. front[i - Len(pending)] = channel[i - Len(pending)]
          BY <2>4, <5>1
        <5>4. Stream[i] = channel[i - Len(pending)]
          BY <1>0, <1>1, <2>2, <5>1
        <5> QED
          BY <5>2, <5>3, <5>4
      <4>3. CASE i > Len(pending) + n
        <5> DEFINE k == i - (Len(pending) + n)
        <5>1. /\ k \in 1..(Len(channel) - n) /\ k + n \in 1..Len(channel)
              /\ k + Len(pending') = i /\ (k + n) + Len(pending) = i
          <6>1. Len(pending) \in Nat /\ Len(channel) \in Nat
            BY <1>0
          <6>2. i \in 1..(Len(pending) + Len(channel)) /\ n \in 0..Len(channel)
            BY <1>1, <2>2, <6>1
          <6>3. Len(pending') = Len(pending) + n
            BY <3>1
          <6> QED
            BY <4>3, <6>1, <6>2, <6>3
        <5>2. Stream'[i] = channel'[k]
          <6>1. k \in 1..Len(channel')
            BY <2>3, <5>1
          <6>2. Stream'[k + Len(pending')] = channel'[k]
            BY <3>2, <6>1
          <6> QED
            BY <5>1, <6>2
        <5>3. channel'[k] = channel[k + n]
          BY <2>3, <5>1
        <5>4. Stream[i] = channel[k + n]
          BY <1>1, <5>1
        <5> QED
          BY <5>2, <5>3, <5>4
      <4> QED
        BY <1>0, <2>2, <4>1, <4>2, <4>3
    <3> QED
      BY <2>3, <2>5, <3>1, <3>3, <3>4, DropKeeps
  <2> QED
    BY <2>1, <2>6, <2>7 DEF front
<1>3. CASE ReadNobody \/ AgentFails
  <2>1. /\ pending' = <<>> /\ channel' = channel
        /\ UNCHANGED <<replies, client, clients, want, strayed>>
    BY <1>3 DEF ReadNobody, AgentFails
  <2>2. Len(Stream') = Len(channel) /\ \A i \in 1..Len(channel) : Stream'[i] = channel[i]
    BY <1>0, <2>1 DEF Stream
  <2>3. /\ Len(pending) \in 0..Len(Stream) /\ Len(Stream') = Len(Stream) - Len(pending)
        /\ \A i \in 1..(Len(Stream) - Len(pending)) : Stream'[i] = Stream[i + Len(pending)]
    BY <1>0, <1>1, <2>2
  <2>4. pending' \in Seq(Token) /\ channel' \in Seq(Token)
    BY <1>0, <2>1
  <2> QED
    BY <2>1, <2>3, <2>4, DropKeeps
<1> QED
  BY <1>2, <1>3

\* A line is answered, or needs no answer.
LEMMA AnswerKeeps ==
    ASSUME TalkInv, AnswerLine
    PROVE  TalkInv'
<1> DEFINE f == FirstOf(Newlines(pending))
<1>0. pending \in Seq(Token) /\ channel \in Seq(Token) /\ replies \in Seq(Reply)
  BY DEF TalkInv, TalkType
<1>1. /\ Len(Stream) = Len(pending) + Len(channel)
      /\ \A i \in 1..Len(pending) : Stream[i] = pending[i]
      /\ \A i \in 1..Len(channel) : Stream[i + Len(pending)] = channel[i]
  BY <1>0, ConcatFacts DEF Stream
<1>2. /\ f \in Newlines(pending)
      /\ \/ f = 1 /\ NextLine = <<>>
         \/ f = 2 /\ NextLine = <<pending[1]>> /\ pending[1] # Newline
  BY LineShape DEF AnswerLine
<1>3. f \in 1..Len(pending) /\ f \in 0..Len(pending) /\ f \in 0..Len(Stream)
  BY <1>0, <1>1, <1>2 DEF Newlines
<1> HIDE DEF f
<1>4. /\ pending' = SubSeq(pending, f + 1, Len(pending))
      /\ UNCHANGED <<channel, client, clients, want, strayed>>
  BY DEF AnswerLine, f
<1>5. /\ pending' \in Seq(Token) /\ Len(pending') = Len(pending) - f
      /\ \A i \in 1..(Len(pending) - f) : pending'[i] = pending[i + f]
  BY <1>0, <1>3, <1>4, SuffixFacts
<1>6. /\ Len(Stream') = Len(Stream) - f
      /\ \A i \in 1..(Len(Stream) - f) : Stream'[i] = Stream[i + f]
  <2> DEFINE p == pending'
  <2>1. Stream' = p \o channel
    BY <1>4 DEF Stream
  <2>2. /\ p \in Seq(Token) /\ Len(p) = Len(pending) - f
        /\ \A i \in 1..(Len(pending) - f) : p[i] = pending[i + f]
    BY <1>5
  <2> HIDE DEF p
  <2>3. /\ Len(p \o channel) = Len(p) + Len(channel)
        /\ \A i \in 1..Len(p) : (p \o channel)[i] = p[i]
        /\ \A i \in 1..Len(channel) : (p \o channel)[i + Len(p)] = channel[i]
    <3>1. p \in Seq(Token)
      BY <2>2
    <3> QED
      BY <1>0, <3>1, ConcatFacts
  <2>4. Len(pending) \in Nat /\ Len(channel) \in Nat
    BY <1>0
  <2>5. ASSUME NEW i \in 1..(Len(Stream) - f) PROVE Stream'[i] = Stream[i + f]
    <3>1. CASE i =< Len(p)
      <4>1. i \in 1..Len(p) /\ i \in 1..(Len(pending) - f) /\ i + f \in 1..Len(pending)
        BY <1>3, <2>2, <2>4, <3>1
      <4> QED
        BY <1>1, <2>1, <2>2, <2>3, <4>1
    <3>2. CASE i > Len(p)
      <4> DEFINE k == i - Len(p)
      <4>1. k \in 1..Len(channel) /\ k + Len(p) = i /\ k + Len(pending) = i + f
        BY <1>1, <1>3, <2>2, <2>4, <3>2
      <4>2. (p \o channel)[k + Len(p)] = channel[k] /\ Stream[k + Len(pending)] = channel[k]
        BY <1>1, <2>3, <4>1
      <4> QED
        BY <2>1, <4>1, <4>2
    <3> QED
      BY <1>3, <2>2, <2>4, <3>1, <3>2
  <2>6. Len(Stream') = Len(Stream) - f
    BY <1>1, <1>3, <2>1, <2>2, <2>3, <2>4
  <2> QED
    BY <2>5, <2>6
<1>7. channel' \in Seq(Token)
  BY <1>0, <1>4
<1>8. CASE replies' = replies
  BY <1>3, <1>4, <1>5, <1>6, <1>7, <1>8, DropKeeps
<1>9. CASE replies' # replies
  <2>1. PICK listed \in BOOLEAN :
           replies' = IF answer(NextLine, listed) = {} THEN replies
                      ELSE Append(replies, CHOOSE r \in answer(NextLine, listed) : TRUE)
    BY DEF AnswerLine
  <2> DEFINE t == pending[1]
             told == answer(<<t>>, listed)
             r == CHOOSE x \in told : TRUE
  <2>2. f = 2 /\ NextLine = <<t>> /\ t # Newline
    <3>1. answer(<<>>, listed) = {}
      BY DEF answer, silent
    <3> QED
      BY <1>2, <1>9, <2>1, <3>1
  <2>3. t \in Token /\ 1 \in 1..Len(Stream) /\ Stream[1] = t /\ Stream[1].id =< clients
    BY <1>0, <1>1, <1>3, <2>2 DEF TalkInv, StreamInv
  <2>4. t.execute # "\n"
    BY <2>2, <2>3, AgentAssumption DEF Token, Syncs
  <2>5. told # {} /\ replies' = Append(replies, r)
    BY <1>9, <2>1, <2>2
  <2>6. /\ Answerable(t)
        /\ r \in Reply
        /\ r.id \in {0, t.id}
        /\ r.return \in Syncs => r.return = t.execute /\ r.id = t.id
        /\ r.return \in Expected(t.execute)
    BY <2>2, <2>3, <2>4, <2>5, AnswerShape
  <2> HIDE DEF t, r
  <2>7. /\ replies' \in Seq(Reply) /\ Len(replies') = Len(replies) + 1
        /\ \A k \in 1..Len(replies) : replies'[k] = replies[k]
        /\ replies'[Len(replies) + 1] = r
        /\ Len(replies) \in Nat /\ Len(Stream) \in Nat
    BY <1>0, <1>1, <2>5, <2>6
  <2>6a. Len(Stream) \in Nat
    BY <2>7
  <2>7a. 1 = Len(Stream) - 1 => Len(Stream') < 1
    <3>1. \A n \in Nat : 1 = n - 1 => n - 2 < 1
      OBVIOUS
    <3>2. Len(Stream') = Len(Stream) - 2
      BY <1>6, <2>2
    <3> QED
      BY ONLY <2>6a, <3>1, <3>2
  <2>8. TalkType' /\ StreamInv'
    BY <1>3, <1>4, <1>5, <1>6, <1>7, <2>7, DropStream DEF TalkInv, TalkType
  <2>9. r.id =< clients
    BY <2>3, <2>6 DEF TalkInv, TalkType, Token
  <2>10. RepliesInv'
    BY <1>4, <2>7, <2>9 DEF TalkInv, RepliesInv
  <2>11. ASSUME client = "syncing" PROVE SyncingInv'
    <3>1. /\ clients' > 0
          /\ \A i \in 1..Len(Stream') :
                Stream'[i].execute \in Syncs /\ Stream'[i].id = clients'
                   => i = Len(Stream') - 1
      <4>1. SyncingInv
        BY <2>11 DEF TalkInv
      <4>2. \A i \in 1..Len(Stream') :
              Stream'[i].execute \in Syncs /\ Stream'[i].id = clients => i = Len(Stream') - 1
        BY <1>3, <1>6, <4>1, DropSync
      <4> QED
        BY <1>4, <4>1, <4>2 DEF SyncingInv
    <3>2. ASSUME NEW k \in 1..Len(replies'),
                 replies'[k].return \in Syncs, replies'[k].id = clients
          PROVE  k = Len(replies') /\ Len(Stream') < 1
      <4>1. k \notin 1..Len(replies)
        BY <2>3, <2>7, <2>11, <3>2 DEF TalkInv, SyncingInv
      <4>2. k = Len(replies) + 1
        BY <2>7, <4>1
      <4>3. t.execute \in Syncs /\ t.id = clients
        BY <2>6, <2>7, <3>2, <4>2
      <4>4. 1 = Len(Stream) - 1
        BY <2>3, <2>11, <4>3 DEF TalkInv, SyncingInv
      <4> QED
        <5>1. Len(Stream') < 1
          BY <2>7a, <4>4
        <5> QED
          BY <2>7, <4>2, <5>1
    <3> QED
      BY <1>4, <3>1, <3>2 DEF SyncingInv
  <2>12. client # "synced"
    BY <2>3, <2>6 DEF TalkInv, NothingToAnswer
  <2>13. ASSUME client = "waiting" PROVE WaitingInv'
    <3>1. /\ want \in Asked \ {"guest-shutdown"} /\ Len(replies) = 0
          /\ t.execute = want /\ 1 = Len(Stream) - 1
      BY <2>3, <2>6, <2>13 DEF TalkInv, WaitingInv, NothingToAnswer
    <3>2. Len(Stream') < 1
      BY <2>7a, <3>1
    <3>3. Len(replies') = 1 /\ replies'[1].return \in Expected(want)
      BY <2>6, <2>7, <3>1
    <3> QED
      BY <1>4, <3>1, <3>2, <3>3 DEF WaitingInv, NothingToAnswer
  <2> QED
    BY <1>4, <2>8, <2>10, <2>11, <2>12, <2>13 DEF TalkInv, OwnReply
<1> QED
  BY <1>8, <1>9

\* A client sends a text and its newline.
LEMMA SendKeeps ==
    ASSUME TalkInv, NEW execute \in Syncs \cup Asked, NEW id \in Nat, Send(execute, id),
           UNCHANGED pending, clients' \in Nat, clients' >= clients, id =< clients'
    PROVE  /\ channel' \in Seq(Token)
           /\ Len(Stream) \in Nat /\ Len(Stream') = Len(Stream) + 2
           /\ \A i \in 1..Len(Stream) : Stream'[i] = Stream[i]
           /\ Stream'[Len(Stream) + 1] = [execute |-> execute, id |-> id]
           /\ Stream'[Len(Stream) + 2] = Newline
           /\ StreamInv'
<1> DEFINE text == [execute |-> execute, id |-> id]
           more == <<text, Newline>>
           old  == pending \o channel
<1>0. pending \in Seq(Token) /\ channel \in Seq(Token) /\ clients \in Nat
  BY DEF TalkInv, TalkType
<1>1. text \in Token /\ Newline \in Token /\ text.id = id /\ Newline.id = 0
  BY DEF Token, Newline
<1> HIDE DEF text
<1>2. more \in Seq(Token) /\ Len(more) = 2 /\ more[1] = text /\ more[2] = Newline
  BY <1>1
<1> HIDE DEF more
<1>3. channel' = channel \o more /\ channel \o more \in Seq(Token)
  BY <1>0, <1>2, ConcatFacts DEF Send, more, text
<1>4. old \in Seq(Token) /\ Stream = old
  BY <1>0, ConcatFacts DEF Stream
<1>5. Stream' = old \o more
  <2>1. Stream' = pending \o (channel \o more)
    BY <1>3 DEF Stream
  <2>2. (pending \o channel) \o more = pending \o (channel \o more)
    BY ONLY <1>0, <1>2, ConcatAssociative
  <2> QED
    BY <2>1, <2>2
<1> HIDE DEF old
<1>6. /\ Len(old \o more) = Len(old) + 2 /\ Len(old) \in Nat
      /\ \A i \in 1..Len(old) : (old \o more)[i] = old[i]
      /\ \A i \in 1..2 : (old \o more)[i + Len(old)] = more[i]
  <2>0. old \in Seq(Token) /\ more \in Seq(Token)
    BY <1>2, <1>4
  <2>1. /\ Len(old \o more) = Len(old) + Len(more)
        /\ \A i \in 1..Len(old) : (old \o more)[i] = old[i]
        /\ \A i \in 1..Len(more) : (old \o more)[i + Len(old)] = more[i]
    BY ONLY <2>0, ConcatFacts
  <2> QED
    BY ONLY <1>2, <1>4, <2>1
<1>7. (old \o more)[Len(old) + 1] = text /\ (old \o more)[Len(old) + 2] = Newline
  BY <1>2, <1>6
<1>8. \A i \in 1..Len(old) : /\ old[i] # Newline => i < Len(old) /\ old[i + 1] = Newline
                             /\ old[i].id =< clients /\ old[i].id \in Nat
  <2>1. \A i \in 1..Len(old) : old[i].id \in Nat
    BY <1>4 DEF Token, Newline
  <2> QED
    BY <1>4, <2>1 DEF TalkInv, StreamInv
<1>9. ASSUME NEW i \in 1..(Len(old) + 2)
      PROVE  /\ (old \o more)[i] # Newline
                   => i < Len(old) + 2 /\ (old \o more)[i + 1] = Newline
             /\ (old \o more)[i].id =< clients'
  <2>1. CASE i \in 1..Len(old)
    <3>1. (old \o more)[i].id =< clients'
      BY <1>0, <1>6, <1>8, <2>1
    <3>2. ASSUME old[i] # Newline PROVE i < Len(old) + 2 /\ (old \o more)[i + 1] = Newline
      <4>1. i < Len(old) /\ old[i + 1] = Newline
        BY <1>8, <2>1, <3>2
      <4>2. i + 1 \in 1..Len(old)
        BY <1>6, <2>1, <4>1
      <4> QED
        BY <1>6, <2>1, <4>1, <4>2
    <3> QED
      BY <1>6, <2>1, <3>1, <3>2
  <2>2. CASE i = Len(old) + 1
    <3>1. i + 1 = Len(old) + 2
      BY <1>6, <2>2
    <3> QED
      BY <1>1, <1>6, <1>7, <2>2, <3>1
  <2>3. CASE i = Len(old) + 2
    BY <1>0, <1>1, <1>6, <1>7, <2>3
  <2> QED
    BY <1>6, <2>1, <2>2, <2>3
<1>10. StreamInv'
  BY <1>5, <1>6, <1>9 DEF StreamInv
<1> QED
  BY <1>3, <1>4, <1>5, <1>6, <1>7, <1>10 DEF text

\* The hypervisor's clients keep TalkInv: a sync makes every earlier text and
\* reply another client's, and the reply to it leaves nothing behind.
LEMMA HypervisorKeeps ==
    ASSUME TalkInv, HypervisorNext
    PROVE  TalkInv'
<1>0. /\ pending \in Seq(Token) /\ channel \in Seq(Token) /\ replies \in Seq(Reply)
      /\ clients \in Nat /\ Len(Stream) \in Nat
  BY DEF TalkInv, TalkType, Stream
<1>1. CASE Connect
  <2> DEFINE id == clients + 1
  <2>1. /\ clients < MaxClients /\ clients' = clients + 1 /\ client' = "syncing"
        /\ Send(Opens[id], id) /\ UNCHANGED <<pending, replies, want, strayed>>
    BY <1>1 DEF Connect
  <2>2. id \in Nat /\ id > 0 /\ Opens[id] \in Syncs
    <3>1. MaxClients \in Nat /\ Opens \in [1..MaxClients -> Syncs]
      BY AgentAssumption DEF Syncs
    <3>2. id \in 1..MaxClients
      BY <1>0, <2>1, <3>1
    <3> QED
      BY <1>0, <3>1, <3>2
  <2>3. /\ channel' \in Seq(Token)
        /\ Len(Stream') = Len(Stream) + 2
        /\ \A i \in 1..Len(Stream) : Stream'[i] = Stream[i]
        /\ Stream'[Len(Stream) + 1] = [execute |-> Opens[id], id |-> id]
        /\ Stream'[Len(Stream) + 2] = Newline
        /\ StreamInv'
    BY <1>0, <2>1, <2>2, SendKeeps
  <2>4. TalkType' /\ RepliesInv'
    <3>1. ASSUME NEW k \in 1..Len(replies) PROVE replies[k].id =< clients + 1
      <4>0. replies[k] \in Reply
        BY <1>0
      <4>1. replies[k].id \in Nat
        BY ONLY <4>0 DEF Reply
      <4>2. replies[k].id =< clients
        BY DEF TalkInv, RepliesInv
      <4> QED
        BY <1>0, <4>1, <4>2
    <3> QED
      BY <1>0, <2>1, <2>3, <3>1 DEF TalkInv, TalkType, RepliesInv
  <2>5. ASSUME NEW i \in 1..Len(Stream'), Stream'[i].execute \in Syncs, Stream'[i].id = id
        PROVE  i = Len(Stream') - 1
    <3>1. i \notin 1..Len(Stream)
      BY <1>0, <2>3, <2>5 DEF TalkInv, StreamInv
    <3>2. i # Len(Stream) + 2
      BY <2>3, <2>5 DEF Newline, Syncs
    <3>3. Len(Stream) \in Nat /\ Len(Stream') = Len(Stream) + 2 /\ i \in 1..(Len(Stream) + 2)
      BY <1>0, <2>3
    <3> QED
      BY ONLY <3>1, <3>2, <3>3
  <2>6. \A k \in 1..Len(replies') : replies'[k].id # id
    BY <1>0, <2>1 DEF TalkInv, RepliesInv
  <2>7. SyncingInv'
    BY <2>1, <2>2, <2>5, <2>6 DEF SyncingInv
  <2> QED
    BY <2>1, <2>3, <2>4, <2>7 DEF TalkInv, OwnReply
<1>2. CASE TakeReply
  <2>1. /\ replies # <<>> /\ replies' = Tail(replies)
        /\ UNCHANGED <<channel, pending, clients>> /\ Stream' = Stream
    BY <1>2 DEF TakeReply, Stream
  <2>2. /\ replies' \in Seq(Reply) /\ Len(replies') = Len(replies) - 1
        /\ \A k \in 1..Len(replies') : replies'[k] = replies[k + 1]
        /\ Len(replies) \in Nat /\ Len(replies) > 0 /\ Head(replies) = replies[1]
    BY <1>0, <2>1
  <2>3. StreamInv' /\ RepliesInv'
    BY <2>1, <2>2 DEF TalkInv, StreamInv, RepliesInv
  <2>4. CASE client = "syncing"
    <3>1. /\ client' = IF replies[1].return \in Syncs /\ replies[1].id = clients
                       THEN "synced" ELSE client
          /\ UNCHANGED <<want, strayed>>
      BY <1>2, <2>2, <2>4 DEF TakeReply
    <3>2. TalkType'
      BY <2>1, <2>2, <2>4, <3>1 DEF TalkInv, TalkType
    <3>3. CASE replies[1].return \in Syncs /\ replies[1].id = clients
      <4>1. 1 = Len(replies) /\ Len(Stream) < 1
        BY <2>2, <2>4, <3>3 DEF TalkInv, SyncingInv
      <4>2. Len(replies') = 0 /\ NothingToAnswer'
        BY <1>0, <2>1, <2>2, <4>1 DEF NothingToAnswer
      <4> QED
        BY <2>3, <3>1, <3>2, <3>3, <4>2 DEF TalkInv, OwnReply
    <3>4. CASE ~(replies[1].return \in Syncs /\ replies[1].id = clients)
      <4>1. SyncingInv'
        <5>1. SyncingInv
          BY <2>4 DEF TalkInv
        <5>2. ASSUME NEW k \in 1..Len(replies'),
                     replies'[k].return \in Syncs, replies'[k].id = clients
              PROVE  k = Len(replies') /\ Len(Stream) < 1
          <6>1. k + 1 \in 1..Len(replies) /\ replies'[k] = replies[k + 1]
            BY <2>2
          <6>2. k + 1 = Len(replies) /\ Len(Stream) < 1
            BY <5>1, <5>2, <6>1 DEF SyncingInv
          <6> QED
            BY <2>2, <6>2
        <5> QED
          BY <2>1, <5>1, <5>2 DEF SyncingInv
      <4> QED
        BY <2>3, <2>4, <3>1, <3>2, <3>4, <4>1 DEF TalkInv, OwnReply
    <3> QED
      BY <3>3, <3>4
  <2>5. CASE client = "waiting"
    <3>1. /\ client' = "synced"
          /\ strayed' = (strayed \/ replies[1].return \notin Expected(want))
      BY <1>2, <2>2, <2>5 DEF TakeReply
    <3>2. Len(replies) = 1 /\ replies[1].return \in Expected(want) /\ NothingToAnswer
      BY <2>2, <2>5 DEF TalkInv, WaitingInv
    <3>3. TalkType'
      BY <2>1, <2>2, <3>1 DEF TalkInv, TalkType
    <3>4. Len(replies') = 0 /\ NothingToAnswer'
      BY <2>1, <2>2, <3>2 DEF NothingToAnswer
    <3>5. OwnReply'
      BY <3>1, <3>2 DEF TalkInv, OwnReply
    <3> QED
      BY <2>3, <3>1, <3>3, <3>4, <3>5 DEF TalkInv
  <2> QED
    BY <1>2, <2>4, <2>5 DEF TakeReply
<1>3. CASE Disconnect
  <2>1. /\ client' = "away" /\ Stream' = Stream
        /\ UNCHANGED <<channel, pending, replies, clients, strayed>>
    BY <1>3 DEF Disconnect, Stream
  <2> QED
    BY <2>1 DEF TalkInv, TalkType, StreamInv, RepliesInv, OwnReply
<1>4. ASSUME NEW execute \in Asked, Command(execute) PROVE TalkInv'
  <2>1. /\ client = "synced" /\ Send(execute, 0)
        /\ client' = IF execute = "guest-shutdown" THEN "synced" ELSE "waiting"
        /\ want' = IF execute = "guest-shutdown" THEN "" ELSE execute
        /\ UNCHANGED <<pending, replies, clients, strayed>>
    BY <1>4 DEF Command
  <2>2. Len(replies) = 0 /\ NothingToAnswer
    BY <2>1 DEF TalkInv
  <2>3. /\ channel' \in Seq(Token)
        /\ Len(Stream') = Len(Stream) + 2
        /\ \A i \in 1..Len(Stream) : Stream'[i] = Stream[i]
        /\ Stream'[Len(Stream) + 1] = [execute |-> execute, id |-> 0]
        /\ Stream'[Len(Stream) + 2] = Newline
        /\ StreamInv'
    <3>0. clients' = clients /\ clients \in Nat /\ execute \in Asked
      BY <1>0, <2>1, <1>4
    <3>1. 0 \in Nat /\ clients' \in Nat /\ clients' >= clients /\ 0 =< clients'
          /\ execute \in Syncs \cup Asked
      BY ONLY <3>0
    <3>2. Send(execute, 0) /\ UNCHANGED pending /\ TalkInv
      BY <2>1
    <3> DEFINE none == 0
    <3>3. none \in Nat /\ Send(execute, none) /\ none =< clients'
      BY <3>1, <3>2
    <3> HIDE DEF none
    <3>4. /\ channel' \in Seq(Token)
          /\ Len(Stream') = Len(Stream) + 2
          /\ \A i \in 1..Len(Stream) : Stream'[i] = Stream[i]
          /\ Stream'[Len(Stream) + 1] = [execute |-> execute, id |-> none]
          /\ Stream'[Len(Stream) + 2] = Newline
          /\ StreamInv'
      BY ONLY <3>1, <3>2, <3>3, SendKeeps
    <3> QED
      BY <3>4 DEF none
  <2>4. TalkType' /\ RepliesInv'
    BY <1>0, <2>1, <2>3 DEF TalkInv, TalkType, RepliesInv
  <2>5. ASSUME NEW i \in 1..Len(Stream'), Answerable(Stream'[i])
        PROVE  /\ execute # "guest-shutdown" /\ Stream'[i].execute = execute
               /\ i = Len(Stream') - 1
    <3>1. i \notin 1..Len(Stream)
      BY <1>0, <2>2, <2>3, <2>5 DEF NothingToAnswer
    <3>2. i # Len(Stream) + 2
      BY <2>3, <2>5 DEF Newline, Answerable
    <3>3. i = Len(Stream) + 1
      <4>1. Len(Stream) \in Nat /\ i \in 1..(Len(Stream) + 2)
        BY <1>0, <2>3
      <4> QED
        BY ONLY <3>1, <3>2, <4>1
    <3> QED
      BY <1>0, <2>3, <2>5, <3>3 DEF Answerable
  <2>6. CASE execute = "guest-shutdown"
    <3>1. NothingToAnswer'
      BY <2>5, <2>6 DEF NothingToAnswer
    <3> QED
      BY <2>1, <2>2, <2>3, <2>4, <2>6, <3>1 DEF TalkInv, OwnReply
  <2>7. CASE execute # "guest-shutdown"
    <3>1. WaitingInv'
      BY <2>1, <2>2, <2>5, <2>7 DEF WaitingInv
    <3> QED
      BY <2>1, <2>3, <2>4, <2>7, <3>1 DEF TalkInv, OwnReply
  <2> QED
    BY <2>6, <2>7
<1> QED
  BY <1>1, <1>2, <1>3, <1>4 DEF HypervisorNext

\* TalkInv holds on a channel nobody has used.
LEMMA TalkInvInit == Init => TalkInv
<1> SUFFICES ASSUME Init PROVE TalkInv
  OBVIOUS
<1>1. /\ channel = <<>> /\ pending = <<>> /\ replies = <<>> /\ client = "away"
      /\ clients = 0 /\ strayed = FALSE
  BY DEF Init, AgentInit
<1>2. Stream = <<>>
  BY <1>1 DEF Stream
<1> QED
  BY <1>1, <1>2 DEF TalkInv, TalkType, StreamInv, RepliesInv, OwnReply

\* Every step of the machine keeps TalkInv.
LEMMA TalkInvNext ==
    ASSUME TalkInv, [Next]_vars
    PROVE  TalkInv'
<1>1. ASSUME UNCHANGED <<channel, pending, replies, client, clients, want, strayed>>
      PROVE  TalkInv'
  <2>1. Stream' = Stream
    BY <1>1 DEF Stream
  <2>2. TalkType' /\ StreamInv' /\ RepliesInv' /\ OwnReply'
    BY <1>1, <2>1 DEF TalkInv, TalkType, StreamInv, RepliesInv, OwnReply
  <2>3. /\ SyncingInv => SyncingInv'
        /\ WaitingInv => WaitingInv'
        /\ NothingToAnswer => NothingToAnswer'
    BY <1>1, <2>1 DEF SyncingInv, WaitingInv, NothingToAnswer
  <2> QED
    BY <1>1, <2>2, <2>3 DEF TalkInv
<1>2. CASE AgentStep \/ AgentDies
  <2>1. CASE ReadSome \/ ReadNobody \/ AgentFails
    BY <2>1, ReadKeeps
  <2>2. CASE AnswerLine
    BY <2>2, AnswerKeeps
  <2>3. CASE UNCHANGED talk
    BY <1>1, <2>3 DEF talk
  <2> QED
    BY <1>2, <2>1, <2>2, <2>3 DEF AgentStep, AgentAnswers, AgentSignals, AgentDies
<1>3. CASE Hypervisor
  BY <1>3, HypervisorKeeps DEF Hypervisor
<1>4. CASE BootStep
  BY <1>1, <1>4 DEF BootStep, MountAndTee, WatchButtons, ServeAgent, talk
<1>5. CASE UNCHANGED talk
  BY <1>1, <1>5 DEF talk
<1>6. CASE ServeStep \/ PowerOff \/ Pump \/ Connections \/ ConnectionEnds \/ Press
  BY <1>5, <1>6 DEF ServeStep, PowerOff, Pump, Connections, ConnectionEnds, Press
<1>7. CASE \E n \in Nodes : WatcherStep(n)
  BY <1>5, <1>7 DEF WatcherStep, ReadPress, SignalPress
<1>8. CASE HandleSignal \/ Interrupt \/ Control \/ UNCHANGED vars
  BY <1>5, <1>8 DEF HandleSignal, Interrupt, Control, vars
<1> QED
  BY <1>2, <1>3, <1>4, <1>6, <1>7, <1>8 DEF Next

\* No client of agent.rs that synchronised is handed a reply to something else,
\* whatever earlier clients left on the channel, for every size of read, length
\* of line, number of clients and set of commands.
THEOREM MachineOwnReply == Spec => []OwnReply
<1>1. TalkInv => OwnReply
  BY DEF TalkInv
<1> QED
  BY <1>1, TalkInvInit, TalkInvNext, PTL DEF Spec
=============================================================================
