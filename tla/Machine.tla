------------------------------ MODULE Machine ------------------------------
(***************************************************************************)
(* The program as a machine sees it: process 1 of the bare-metal image     *)
(* (kmsrs-os main.rs, console.rs, power.rs, with module Agent), or a       *)
(* service or console program of a host, around the run of module Startup. *)
(*                                                                         *)
(* On the image, everything printed goes through a pipe to a thread that   *)
(* writes it to the consoles; the power button, the guest agent and main   *)
(* are threads that print and that may ask the process to stop by sending  *)
(* it a signal, which the kernel discards while process 1 has no handler   *)
(* and merges with one already waiting.                                    *)
(***************************************************************************)
EXTENDS Startup, Agent

CONSTANTS
    Nodes,       \* input devices that claim KEY_POWER
    Consoles,    \* consoles the kernel registered
    PipeRoom,    \* lines the pipe holds
    MaxPresses,  \* bound: presses of the button
    Faults       \* may a thread fail to start, a node fail to open, an agent die

ASSUME MachineAssumption ==
    /\ PipeRoom \in Nat \ {0} /\ MaxPresses \in Nat
    /\ Faults \in BOOLEAN

VARIABLES
    mounted,    \* which of /dev, /proc, /sys are mounted, while main boots
    pump,       \* is there a thread reading the pipe
    teed,       \* are fds 1 and 2 the pipe
    pipe,       \* lines in the pipe
    watcher,    \* per node: "none", "reading", "printed", "done"
    asking,     \* is the agent between printing and signalling
    presses,    \* presses waiting in each node
    pressed,    \* how many presses there have been
    signal,     \* is a SIGTERM pending for process 1
    power,      \* "on", "off", "panic"
    refused     \* observer: did reboot(2) fail

consoles == <<pump, teed, pipe>>
buttons == <<watcher, asking, presses, pressed>>
vars == <<process, talk, mounted, consoles, buttons, signal, power, refused>>

Init ==
    /\ StartupInit
    /\ AgentInit
    /\ mounted = {} /\ pump = FALSE /\ teed = FALSE /\ pipe = 0
    /\ watcher = [n \in Nodes |-> "none"] /\ asking = FALSE
    /\ presses = [n \in Nodes |-> 0] /\ pressed = 0
    /\ signal = FALSE
    /\ power = "on" /\ refused = FALSE

MayFail == IF Faults THEN BOOLEAN ELSE {FALSE}

\* A line to stdout or stderr: through the pipe, which blocks when it is full.
Prints == IF teed THEN pipe < PipeRoom /\ pipe' = pipe + 1 ELSE UNCHANGED pipe

Boot(step) ==
    /\ pc' = step
    /\ UNCHANGED <<host, settings, listeners, handler, signals, asked, inflight,
                   restricted, scm, entries, exit, stops>>

\* main: the mounts; one that fails is noted and done without.
MountAll == IF Faults THEN SUBSET {"/dev", "/proc", "/sys"} ELSE {{"/dev", "/proc", "/sys"}}

\* Mutant: the redirect comes before the pump.
tee_stdio_first(opened, failed, dup) ==
    /\ teed' = (opened # {})
    /\ pump' = (opened # {} /\ ~failed)

\* tee_stdio: the consoles that open, then the pump, and only then the redirect,
\* which may itself fail: the pump then finds the pipe closed and is gone.
tee_stdio(opened, failed, dup) ==
    /\ pump' = (opened # {} /\ ~failed /\ dup)
    /\ teed' = pump'

MountAndTee ==
    /\ pc = "mount"
    /\ mounted' \in MountAll
    /\ \E opened \in SUBSET Consoles, failed \in MayFail, dup \in BOOLEAN :
          /\ ~Faults => opened = Consoles /\ dup
          /\ {"/proc", "/dev"} \subseteq mounted' \/ opened = {}
          /\ tee_stdio(opened, failed, dup)
    /\ Boot("watch")
    /\ UNCHANGED <<pipe, talk, buttons, signal, power, refused>>

\* watch_power_button: a thread for every candidate that opens.  A thread that
\* will not start ends the search, with the ones before it running.
WatchButtons ==
    /\ pc = "watch"
    /\ \E armed \in SUBSET Nodes :
          /\ ~Faults => armed = Nodes
          /\ {"/sys", "/dev"} \subseteq mounted \/ armed = {}
          /\ watcher' = [n \in Nodes |-> IF n \in armed THEN "reading" ELSE "none"]
    /\ Prints
    /\ Boot("agent")
    /\ UNCHANGED <<asking, presses, pressed, pump, teed, talk, mounted, signal,
                   power, refused>>

\* agent::serve: the channel is found by name in /sys and opened in /dev.
ServeAgent ==
    /\ pc = "agent"
    /\ \E absent \in MayFail :
          agent' = IF absent \/ ~({"/sys", "/dev"} \subseteq mounted) THEN "absent" ELSE "reading"
    /\ mounted' = {}    \* not looked at again
    /\ Prints
    /\ Boot("args")
    /\ UNCHANGED <<channel, pending, replies, client, clients, want, given, strayed, pump, teed,
                   buttons, signal, power, refused>>

BootStep == MountAndTee \/ WatchButtons \/ ServeAgent

\* Tee::write: everything read goes to every console still written to.  One that
\* fails, or stalls more than MAX_STALLS times, is given up, and with none left
\* the pipe is still read; which ones are left shows only in where lines appear.
Pump ==
    /\ pump /\ pipe > 0
    /\ pipe' = 0
    /\ UNCHANGED <<process, talk, mounted, pump, teed, buttons, signal, power, refused>>

(***************************************************************************)
(* Asking process 1 to stop.                                               *)
(***************************************************************************)
\* kill(getpid(), SIGTERM): nothing, unless there is a handler.
Kill == signal' = (signal \/ signals)

\* The hypervisor presses the button: an event on the node that is its own.
Press ==
    /\ host.platform = "init" /\ pressed < MaxPresses
    /\ pressed' = pressed + 1
    /\ \E n \in Nodes : presses' = [presses EXCEPT ![n] = @ + 1]
    /\ UNCHANGED <<process, talk, mounted, consoles, watcher, asking, signal, power, refused>>

\* watch: a press read, the line printed, the signal sent, and nothing more.
ReadPress(n) ==
    /\ watcher[n] = "reading" /\ presses[n] > 0
    /\ Prints
    /\ presses' = [presses EXCEPT ![n] = 0]
    /\ watcher' = [watcher EXCEPT ![n] = "printed"]
    /\ UNCHANGED <<process, talk, mounted, pump, teed, asking, pressed, signal, power,
                   refused>>

SignalPress(n) ==
    /\ watcher[n] = "printed"
    /\ Kill
    /\ watcher' = [watcher EXCEPT ![n] = "done"]
    /\ UNCHANGED <<process, talk, mounted, consoles, asking, presses, pressed, power, refused>>

WatcherStep(n) == ReadPress(n) \/ SignalPress(n)

\* The agent's lines: guest-shutdown prints, then signals, then the next line.
AgentAnswers ==
    /\ ~asking
    /\ AnswerLine
    /\ IF Stops(NextLine) THEN Prints /\ asking' = TRUE ELSE UNCHANGED <<pipe, asking>>
    /\ UNCHANGED <<process, mounted, pump, teed, watcher, presses, pressed, signal,
                   power, refused>>

AgentSignals ==
    /\ asking
    /\ Kill
    /\ asking' = FALSE
    /\ UNCHANGED <<process, talk, mounted, consoles, watcher, presses, pressed, power, refused>>

AgentStep ==
    \/ AgentAnswers
    \/ AgentSignals
    \/ /\ ~asking
       /\ ReadSome \/ ReadNobody
       /\ UNCHANGED <<process, mounted, consoles, buttons, signal, power, refused>>

AgentDies ==
    /\ Faults /\ ~asking
    /\ AgentFails
    /\ UNCHANGED <<process, mounted, consoles, buttons, signal, power, refused>>

(***************************************************************************)
(* The process and what becomes of the machine.                            *)
(***************************************************************************)
\* A second request ends the process, and process 1 ending is a panic.
Becomes == IF pc' = "killed" /\ host.platform = "init" THEN "panic" ELSE power

HandleSignal ==
    /\ signal /\ power = "on" /\ pc # "killed"
    /\ signal' = FALSE
    /\ Handle
    /\ Prints
    /\ power' = Becomes
    /\ UNCHANGED <<talk, mounted, pump, teed, buttons, refused>>

\* Outside the image: the terminal, the service manager.
Interrupt ==
    /\ host.platform = "console" /\ signals /\ ~Ended
    /\ Handle
    /\ UNCHANGED <<talk, mounted, consoles, buttons, signal, power, refused>>

Control ==
    /\ ServiceStop
    /\ UNCHANGED <<talk, mounted, consoles, buttons, signal, power, refused>>

ServeStep ==
    /\ MainStep
    /\ IF host.platform = "init" THEN Prints ELSE UNCHANGED pipe
    /\ UNCHANGED <<talk, mounted, pump, teed, buttons, signal, power, refused>>

Connections ==
    /\ AcceptConnection
    /\ UNCHANGED <<talk, mounted, consoles, buttons, signal, power, refused>>

ConnectionEnds ==
    /\ EndConnection
    /\ UNCHANGED <<talk, mounted, consoles, buttons, signal, power, refused>>

\* main, after serve_with: reboot(2), and if that fails the panic of returning.
PowerOff ==
    /\ pc = "returned" /\ host.platform = "init" /\ power = "on"
    /\ Prints
    /\ \E failed \in MayFail :
          /\ power' = IF failed THEN "panic" ELSE "off"
          /\ refused' = failed
    /\ UNCHANGED <<process, talk, mounted, pump, teed, buttons, signal>>

Running == host.platform = "init" /\ power = "on"

Hypervisor ==
    /\ Running
    /\ HypervisorNext
    /\ UNCHANGED <<process, mounted, consoles, buttons, signal, power, refused>>

Next ==
    \/ power = "on" /\ (BootStep \/ ServeStep \/ PowerOff \/ Pump)
    \/ power = "on" /\ (Connections \/ ConnectionEnds)
    \/ power = "on" /\ (AgentStep \/ AgentDies)
    \/ power = "on" /\ \E n \in Nodes : WatcherStep(n)
    \/ power = "on" /\ Press
    \/ HandleSignal
    \/ Interrupt
    \/ Control
    \/ Hypervisor

\* Every thread runs on and a signal sent is delivered.  Nobody need press,
\* connect, ask or interrupt, and no connection need end: a response is written
\* with no deadline, for as long as its peer takes to read it.
Fairness ==
    /\ WF_vars(power = "on" /\ (BootStep \/ ServeStep \/ PowerOff))
    /\ WF_vars(power = "on" /\ Pump)
    /\ WF_vars(power = "on" /\ AgentStep)
    /\ \A n \in Nodes : WF_vars(power = "on" /\ WatcherStep(n))
    /\ WF_vars(HandleSignal)

Spec == Init /\ [][Next]_vars /\ Fairness

-----------------------------------------------------------------------------
\* The machine never crashes on its own: process 1 ends under a kernel only
\* when reboot(2) was refused or when a second request to stop reached a host
\* already asked; a press, a guest-shutdown or both arriving while it starts,
\* serves or drains are otherwise one clean stop with every connection ended.
CleanStop ==
    /\ power = "panic" => refused \/ stops >= 2
    /\ power = "off" => inflight = 0

\* Nothing given up is needed later: once the serving thread is confined no
\* socket is opened, and process 1, which mounts, speaks netlink and powers the
\* machine off, is never confined.
NothingNeededGivenUp ==
    [][ /\ "main" \in restricted => listeners' \subseteq listeners
        /\ host.platform = "init" => restricted' = {} ]_vars

\* What the service manager is told: of a failed start, that it failed, and never
\* of a host that came to serve; of a stop, only once no connection is left, after
\* the drain the event log tells of, or else of a run whose listeners the runtime
\* refused after Running was announced, which no status tells from a clean stop
\* and only the exit code and the event log do.
ServiceTold ==
    /\ scm = "Stopped" => /\ inflight = 0 /\ "Started" \in entries
                          /\ IF "Stopped" \in entries THEN exit = {0} ELSE exit = {EXIT_UNAVAILABLE}
    /\ scm = "Failed" => "Started" \notin entries /\ exit # {0}
    /\ exit = {0} => scm \in {"none", "Stopped"}

\* A client of the agent that synchronised first is never handed a reply to
\* something else, whatever earlier clients left half read or unread.
OwnReply == ~strayed

\* The machine comes up and, whoever asks, stops: booting ends in serving or in
\* an exit, a request that got as far as its line on the console while the
\* handler was there ends the serving, and once no connection is left the machine
\* goes off, with consoles stalling, dying or never opened and whatever threads
\* failed.  How long a drain lasts is its peers' affair: a response is written
\* with no deadline.
StopHonoured ==
    LET off == power # "on"
        stopping == off \/ pc = "draining"
    IN  /\ (pc = "mount") ~> (pc = "serving" \/ Ended)
        /\ \A n \in Nodes : (watcher[n] = "printed" /\ signals) ~> stopping
        /\ (asking /\ signals) ~> stopping
        /\ (host.platform = "init" /\ pc = "draining" /\ inflight = 0) ~> off

\* A client that scans the channel for the byte 0xFF finds where the reply to
\* its guest-sync-delimited begins.
DelimiterFound ==
    \A i \in 1..Len(replies) :
        replies[i].return = "guest-sync-delimited" => replies[i].lead = <<255>>
=============================================================================
