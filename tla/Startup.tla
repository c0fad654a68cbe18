------------------------------ MODULE Startup ------------------------------
(***************************************************************************)
(* One run of the server process, from its arguments to its exit: what     *)
(* entry.rs does in order, with the configuration it reads                 *)
(* (config/operational.rs, config/discovered.rs), the sockets it binds     *)
(* (net/listener.rs, net/addr.rs), the handler it leaves behind for a stop *)
(* request (platform.rs), what it gives up before it serves (sandbox.rs),  *)
(* and what it tells the Windows service manager and event log             *)
(* (service.rs, eventlog.rs).                                              *)
(*                                                                         *)
(* Serving itself is Driver's and appears here as connections that come    *)
(* and go; Driver shows that a request to stop is acted on, that run       *)
(* returns only when no connection is left, and that it then does return   *)
(* if every peer reads what it is sent.                                    *)
(***************************************************************************)
EXTENDS Integers, FiniteSets

CONSTANTS
    Hosts,           \* where it runs: [platform, documents, shared]: "init",
                     \* "service" or "console"; what KMSRSOS_CONFIG may hold; may
                     \* another program hold a port or a stack be missing
    MaxCapacity,     \* MAX_EVENT_LOG_CAPACITY
    MaxDays,         \* MAX_RETENTION_DAYS
    Defaults,        \* Operational::default
    MaxInFlight      \* bound: connections at a time

ASSUME StartupAssumption ==
    /\ \A h \in Hosts : /\ h.platform \in {"init", "service", "console"}
                        /\ h.shared \in BOOLEAN
    /\ MaxCapacity \in Nat \ {0} /\ MaxDays \in Nat \ {0} /\ MaxInFlight \in Nat \ {0}

VARIABLES
    host,
    pc,         \* the next thing `run' does
    settings,   \* the Operational in force; Defaults until one is read
    listeners,  \* <<stack, port>>: sockets open
    handler,    \* is there a handler in ASKED_TO_STOP
    signals,    \* is it also the operating system's
    asked,      \* already_asked
    inflight,   \* connections being served
    restricted, \* threads that can neither open a file nor bind a port
    scm,        \* "none", or the ServiceState last set
    entries,    \* what the event log was told
    exit,       \* {} or {code}
    stops       \* observer: how many requests to stop reached the handler

process == <<host, pc, settings, listeners, handler, signals, asked, inflight,
             restricted, scm, entries, exit, stops>>

EXIT_BAD_USAGE == 64
EXIT_UNAVAILABLE == 69
EXIT_BAD_CONFIG == 78
EXIT_INTERRUPTED == 130
EXIT_STARTUP_FAILED == 1067

KMS_PORT == 1688
Stacks == {"v6", "v4"}
bind_addresses == Stacks \X {KMS_PORT}
web_addresses(port) == Stacks \X {port}

(***************************************************************************)
(* Operational::from_env.  A document is [form, capacity, days, port, web]:*)
(* the last four hold what was written, {} for a key that is absent.       *)
(***************************************************************************)
Given(field, default) == IF field = {} THEN default ELSE CHOOSE x \in field : TRUE

from_env(d) ==
    LET capacity == Given(d.capacity, Defaults.capacity)
        days     == Given(d.days, Defaults.days)
        port     == Given(d.port, Defaults.port)
    IN  IF d.form = "absent" THEN {Defaults}
        ELSE IF \/ d.form \in {"not unicode", "malformed"}
                \/ capacity \notin 1..MaxCapacity
                \/ days \notin 1..MaxDays
                \/ port = 0
          THEN {}
        ELSE {[capacity |-> capacity, days |-> days, port |-> port,
               web |-> Given(d.web, Defaults.web)]}

-----------------------------------------------------------------------------
StartupInit ==
    /\ host \in Hosts
    /\ pc = IF host.platform = "init" THEN "mount" ELSE "args"
    /\ settings = Defaults
    /\ listeners = {} /\ restricted = {}
    /\ handler = FALSE /\ signals = FALSE /\ asked = FALSE
    /\ inflight = 0
    \* run_service: StartPending is set before anything else happens.
    /\ scm = IF host.platform = "service" THEN "StartPending" ELSE "none"
    /\ entries = {} /\ exit = {} /\ stops = 0

\* eventlog::report: only Windows has an event log; it is harmless elsewhere.
report(event) == entries' = entries \cup {event}

\* The end of run_service: a run that never reached Running is a failed start, any
\* other a stop without an error, for the exit code is not looked at.
ServiceEnd == IF scm = "none" THEN "none" ELSE IF scm = "Running" THEN "Stopped" ELSE "Failed"

\* `run' returns: everything it opened goes with it.
Return(code) ==
    /\ pc' = "returned"
    /\ exit' = {code}
    /\ listeners' = {}
    /\ scm' = ServiceEnd
    /\ UNCHANGED <<host, settings, handler, signals, asked, inflight, restricted, stops>>

\* One step of `run': it goes wrong and the process ends with a code, having
\* told the event log something or nothing, or it goes on.
Refuse(code, told) == Return(code) /\ entries' = entries \cup told

Proceed(step) ==
    /\ pc' = step
    /\ UNCHANGED <<host, scm, entries, exit, stops, asked, inflight>>

\* serve_inner: no arguments are taken.
TakesNoArguments ==
    /\ pc = "args"
    /\ \/ Refuse(EXIT_BAD_USAGE, {})
       \/ /\ Proceed("config")
          /\ UNCHANGED <<settings, listeners, handler, signals, restricted>>

\* serve_inner: the configuration is read whole or the process does not start.
ReadConfig ==
    /\ pc = "config"
    /\ \E d \in host.documents :
          \/ from_env(d) = {} /\ Refuse(EXIT_BAD_CONFIG, {"ConfigInvalid"})
          \/ /\ from_env(d) # {}
             /\ settings' \in from_env(d)
             /\ Proceed("observe")
             /\ UNCHANGED <<listeners, handler, signals, restricted>>

\* Mutant: given up before there is anything to serve on.
ConfinedFirst ==
    /\ pc = "observe"
    /\ restricted' = {"main"}
    /\ Proceed("bind")
    /\ UNCHANGED <<settings, listeners, handler, signals>>

\* run: inherited sockets are refused; an unusable clock or no entropy for the
\* identity ends it, with nothing in the event log.
BuildServer ==
    /\ pc = "observe"
    /\ \/ \E code \in {EXIT_BAD_USAGE, EXIT_UNAVAILABLE} : Refuse(code, {})
       \/ /\ Proceed("bind")
          /\ UNCHANGED <<settings, listeners, handler, signals, restricted>>

\* bind_each: every address is tried; nothing bound is the only failure.
bind_each(addresses, open, ok) == (addresses \ open) \cap ok

Bindable(addresses) == IF host.shared THEN SUBSET addresses ELSE {addresses, {}}

BindKms ==
    /\ pc = "bind"
    /\ \E ok \in Bindable(bind_addresses) :
          \/ /\ bind_each(bind_addresses, {}, ok) = {}
             /\ Refuse(EXIT_UNAVAILABLE, {"BindFailed"})
          \/ /\ bind_each(bind_addresses, {}, ok) # {}
             /\ listeners' = bind_each(bind_addresses, {}, ok)
             /\ Proceed(IF settings.web THEN "bind web" ELSE "entropy")
             /\ UNCHANGED <<settings, handler, signals, restricted>>

\* The web UI's port: a socket already open there is in the way, and binding
\* nothing is only warned of.
BindWeb ==
    /\ pc = "bind web"
    /\ \E ok \in Bindable(web_addresses(settings.port)) :
          listeners' = listeners \cup bind_each(web_addresses(settings.port), listeners, ok)
    /\ Proceed("entropy")
    /\ UNCHANGED <<settings, handler, signals, restricted>>

\* refuse_without_entropy, and the runtime and driver after it.
SelfTest ==
    /\ pc = "entropy"
    /\ \/ Refuse(EXIT_UNAVAILABLE, {"EntropyFailed"})
       \/ Refuse(EXIT_UNAVAILABLE, {})
       \/ /\ Proceed("arrange")
          /\ UNCHANGED <<settings, listeners, handler, signals, restricted>>

\* arrange_to_stop_politely: the slot first, then the operating system, which
\* may refuse; either way the host goes on to serve.
Arrange ==
    /\ pc = "arrange"
    /\ handler' = TRUE
    /\ signals' \in BOOLEAN
    /\ Proceed(IF host.platform = "init" THEN "start" ELSE "sandbox")
    /\ UNCHANGED <<settings, listeners, restricted>>

\* sandbox::apply: Landlock needs no_new_privs, and both are the calling
\* thread's, as are the threads it starts later: the signal handler's own
\* thread is older.  Every refusal is reported and tolerated.  Windows has
\* process mitigations instead, which take nothing away that is used here.
Sandbox ==
    /\ pc = "sandbox"
    /\ \E no_new_privs, landlock \in BOOLEAN :
          /\ landlock => host.platform # "service"
          /\ restricted' = IF no_new_privs /\ landlock THEN {"main"} ELSE {}
    /\ Proceed("start")
    /\ UNCHANGED <<settings, listeners, handler, signals>>

\* The event log hears Started, then housekeeping tells the service manager
\* Running or starts the network's tasks, then the driver is run.
Start ==
    /\ pc = "start"
    /\ pc' = "spawn"
    /\ report("Started")
    /\ scm' = IF host.platform = "service" THEN "Running" ELSE scm
    /\ UNCHANGED <<host, settings, listeners, handler, signals, asked, inflight,
                   restricted, exit, stops>>

\* Driver::run, by what Driver shows of it.  First each listener is handed to the
\* runtime: one that it will not take ends the run with an error, after all that
\* Start has announced and before any connection.
SpawnLoops ==
    /\ pc = "spawn"
    /\ \/ Refuse(EXIT_UNAVAILABLE, {})
       \/ /\ Proceed("serving")
          /\ UNCHANGED <<settings, listeners, handler, signals, restricted>>

AcceptConnection ==
    /\ pc = "serving" /\ ~asked
    /\ inflight < MaxInFlight
    /\ inflight' = inflight + 1
    /\ UNCHANGED <<host, pc, settings, listeners, handler, signals, asked, restricted,
                   scm, entries, exit, stops>>

EndConnection ==
    /\ pc \in {"serving", "draining"}
    /\ inflight > 0
    /\ inflight' = inflight - 1
    /\ UNCHANGED <<host, pc, settings, listeners, handler, signals, asked, restricted,
                   scm, entries, exit, stops>>

StopAccepting ==
    /\ pc = "serving" /\ asked
    /\ pc' = "draining"
    /\ listeners' = {}
    /\ UNCHANGED <<host, settings, handler, signals, asked, inflight, restricted,
                   scm, entries, exit, stops>>

\* Mutant: the process ends with connections open.
ReturnUndrained == pc = "draining" /\ Return(0) /\ report("Stopped")

ReturnDrained ==
    /\ pc = "draining" /\ inflight = 0
    /\ Return(0)
    /\ report("Stopped")

\* Mutant: the flag is set before it is looked at.
HandleAtOnce ==
    /\ handler
    /\ stops' = stops + 1
    /\ asked' = TRUE
    /\ pc' = "killed" /\ exit' = {EXIT_INTERRUPTED}
    /\ scm' = IF scm = "none" THEN "none" ELSE "Died"
    /\ listeners' = {}
    /\ UNCHANGED <<host, settings, handler, signals, inflight, restricted, entries>>

\* The handler, on the signal thread or the service manager's: the first call
\* asks the driver to drain, the second ends the process where it stands.
Handle ==
    /\ handler
    /\ stops' = stops + 1
    /\ \/ ~asked /\ asked' = TRUE /\ UNCHANGED <<pc, exit, scm, listeners>>
       \/ /\ asked
          /\ pc' = "killed" /\ exit' = {EXIT_INTERRUPTED}
          /\ scm' = IF scm = "none" THEN "none" ELSE "Died"
          /\ listeners' = {}
          /\ UNCHANGED asked
    /\ UNCHANGED <<host, settings, handler, signals, inflight, restricted, entries>>

\* service.rs: a control is accepted once Running has been set, and until
\* Stopped has: there is no StopPending in between.
ServiceStop == scm = "Running" /\ Handle

Ended == pc \in {"returned", "killed"}

\* The start-up and the drain are the main thread's.
MainStep ==
    \/ TakesNoArguments \/ ReadConfig \/ BuildServer \/ BindKms \/ BindWeb
    \/ SelfTest \/ Arrange \/ Sandbox \/ Start \/ SpawnLoops
    \/ StopAccepting \/ ReturnDrained
=============================================================================
