------------------------------- MODULE MCWeb --------------------------------
(***************************************************************************)
(* Two machines, two SKUs and two applications, a log of three events and  *)
(* a window of two; pages of two rows; heads of at most fourteen units,    *)
(* with every way a request line or a header can be wrong, at and just     *)
(* past each limit.                                                        *)
(*                                                                         *)
(* Or the driver that serves it, with one KMS and one web listener and a   *)
(* budget the web share is half of: which of the two is chosen at the      *)
(* start, and the other stands still.                                      *)
(***************************************************************************)
EXTENDS Web, Driver

VARIABLE driving    \* which of the two is driven

everything == <<driving, vars, driver_vars>>

MCInit == driving \in BOOLEAN /\ Init /\ DriverInit

MCRequests ==
    {[cmid |-> "m1", sku |-> "s1", application |-> "windows", activated |-> TRUE],
     [cmid |-> "m1", sku |-> "s1", application |-> "windows", activated |-> FALSE],
     [cmid |-> "m1", sku |-> "s2", application |-> "office", activated |-> TRUE],
     [cmid |-> "m2", sku |-> "s1", application |-> "windows", activated |-> TRUE]}

RequestLine == [len |-> 2, utf8 |-> TRUE, parts |-> TRUE, version |-> TRUE,
                method |-> "GET", path |-> "/healthz", named |-> FALSE,
                declares_a_body |-> FALSE, host |-> "absent"]
Header == [len |-> 1, utf8 |-> TRUE, parts |-> FALSE, named |-> TRUE,
           declares_a_body |-> FALSE, host |-> "absent"]

Get(path) == [RequestLine EXCEPT !.path = path]
HostHeader(value) == [Header EXCEPT !.host = value]
HeadOf(lines) == [lines |-> lines, bare |-> FALSE, finished |-> TRUE, after |-> 0]

Plain == {HeadOf(<<Get(path)>>) : path \in {"/", "/events", "/healthz", "/metrics"}}

WrongRequestLines ==
    {[RequestLine EXCEPT !.len = 4], [RequestLine EXCEPT !.len = 3],
     [RequestLine EXCEPT !.parts = FALSE], [RequestLine EXCEPT !.version = FALSE],
     [RequestLine EXCEPT !.method = "HEAD"], [RequestLine EXCEPT !.method = "POST"],
     [RequestLine EXCEPT !.method = "POST", !.version = FALSE],
     [RequestLine EXCEPT !.utf8 = FALSE]}

WrongHeaders ==
    {[Header EXCEPT !.len = 2], [Header EXCEPT !.len = 3], [Header EXCEPT !.named = FALSE],
     [Header EXCEPT !.declares_a_body = TRUE], [Header EXCEPT !.utf8 = FALSE]}

\* Heads cut up into reads in every way.
MCTorn ==
    {HeadOf(<<line>>) : line \in WrongRequestLines}
    \cup {HeadOf(<<RequestLine, header>>) : header \in WrongHeaders}
    \cup {HeadOf(<<Get("/instructions"), HostHeader(a), HostHeader(b)>>) :
              a, b \in {"kms.example", "localhost", "implausible", "absent"}}
    \cup {HeadOf(<<Get("/products"), Header, [Header EXCEPT !.declares_a_body = TRUE]>>),
          HeadOf(<<[RequestLine EXCEPT !.parts = FALSE], [Header EXCEPT !.named = FALSE]>>),
          HeadOf(<<RequestLine, Header, Header, Header>>),
          HeadOf(<<[RequestLine EXCEPT !.len = 3], [Header EXCEPT !.len = 2],
                 [Header EXCEPT !.len = 2]>>),
          HeadOf(<<Get("/elsewhere")>>), HeadOf(<<Blank>>)}
    \cup {[HeadOf(<<RequestLine>>) EXCEPT !.after = n] : n \in {1, 8, 9, 12}}
    \cup {[HeadOf(<<[RequestLine EXCEPT !.parts = FALSE]>>) EXCEPT !.finished = FALSE, !.after = n] :
              n \in {0, 9, 10, 11}}
    \cup {[HeadOf(<<RequestLine, Header>>) EXCEPT !.bare = TRUE, !.after = n] : n \in {0, 9}}

MCHttpRequests == Plain \cup MCTorn

MCNetworks == {[domains |-> <<>>, address |-> "none"],
               [domains |-> <<"corp.example", "example">>, address |-> "192.0.2.7"]}
MCAnswering == <<3, 1, 3>>
MCKmsPorts == <<1688>>

-----------------------------------------------------------------------------
(* Bounds of the web UI's part: heads are cut up only while nothing has been *)
(* logged; the entropy source and the network turn only until the log and the*)
(* clock move; and both wait for an answered connection to be over.          *)
Fresh == next_sequence = 0 /\ now = 0
Sound == source = "good" /\ entropy_healthy

Within ==
    /\ request \in MCTorn => Fresh /\ Sound
    /\ request \notin MCTorn => taken \in {0, Len(Wire(request))}
    /\ ~Fresh => Sound /\ network.domains = <<>>

Serves ==
    /\ ~driving /\ UNCHANGED <<driving, driver_vars>>
    /\ Within'
    /\ phase = "closed" => UNCHANGED <<log, now, source, network>>

Drives == driving /\ UNCHANGED <<driving, vars>>

MCNext == (Next /\ Serves) \/ (DriverNext /\ Drives)

\* The fairness of Web and of Driver, each where it is the one driven.
MCSpec ==
    /\ MCInit /\ [][MCNext]_everything
    /\ WF_everything(entropy_watch /\ Serves)
    /\ WF_everything(SendReplace /\ Drives) /\ WF_everything(Run /\ Drives)
    /\ WF_everything(Tick /\ Drives) /\ WF_everything(SpawnWatcher /\ Drives)
    /\ WF_everything(WatcherStarts /\ Drives) /\ WF_everything(WatcherHears /\ Drives)
    /\ \A l \in Listeners : /\ WF_everything(SpawnLoop(l) /\ Drives)
                            /\ WF_everything(LoopStarts(l) /\ Drives)
                            /\ WF_everything(LoopHears(l) /\ Drives)
    /\ \A c \in Conns : /\ SF_everything(Expire(c) /\ Drives)
                        /\ WF_everything(Closed(c) /\ Drives)
=============================================================================
