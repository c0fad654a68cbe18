-------------------------------- MODULE Web --------------------------------
(***************************************************************************)
(* The web UI of kmsrs-server: a request head is accumulated over reads    *)
(* (serve_web in net/driver.rs), parsed (web/request.rs), routed and       *)
(* answered from a snapshot of the running host (web/routes.rs), and the   *)
(* connection closed.  The event log it shows is module EventLog; the      *)
(* entropy watch and the lease task change what it shows meanwhile.        *)
(*                                                                         *)
(* The stream is a sequence of units: a carriage return, a line feed or a  *)
(* piece of text that knows the line it is of.  What a line says is a      *)
(* record; a page is a record of what it shows.  Escaping, markup and the  *)
(* constant response headers are left out.                                 *)
(***************************************************************************)
EXTENDS EventLog, SequencesExt

CONSTANTS
    MAX_REQUEST, MAX_REQUEST_LINE, MAX_HEADER_LINE, MAX_HEADERS,
    EVENTS_PER_PAGE, MACHINES_PER_PAGE,
    ReadSize,     \* the read buffer of serve
    HttpRequests, \* what browsers send: see Wire
    Networks,     \* what the lease task publishes in Facts
    Sources,      \* what two draws from the entropy source look like
    KmsPorts,     \* the ports of the KMS listeners
    Answering     \* the host key that answers for each counted ID

ASSUME WebAssumption ==
    /\ {MAX_REQUEST, MAX_REQUEST_LINE, MAX_HEADER_LINE, MAX_HEADERS, EVENTS_PER_PAGE,
        MACHINES_PER_PAGE, ReadSize} \subseteq Nat \ {0}

VARIABLES
    phase,           \* of the one connection followed: idle, open or closed
    request,         \* what its peer sends
    taken,           \* how many units of it have been read
    inbound,         \* Session::Web
    reply,           \* what was written
    source,          \* the entropy source, one of Sources
    entropy_healthy, \* Shared
    network          \* Facts

connection == <<phase, request, taken, inbound, reply>>
host == <<source, entropy_healthy, network>>
vars == <<log, now, connection, host>>

-----------------------------------------------------------------------------
(* What is on the wire. *)

\* What an empty line says, which is not a request line and no header.
Blank == [len |-> 0, utf8 |-> TRUE, parts |-> FALSE, named |-> FALSE]

Unit(ch) == [ch |-> ch, of |-> Blank]
Text(line) == [k \in 1..line.len |-> [ch |-> "text", of |-> line]]
Break(req) == IF req.bare THEN <<Unit("lf")>> ELSE <<Unit("cr"), Unit("lf")>>

\* A request as its peer sends it: its lines, the blank one if it gets that
\* far, and whatever follows the head.
Wire(req) ==
    FlattenSeq([i \in 1..Len(req.lines) |-> Text(req.lines[i]) \o Break(req)])
    \o (IF req.finished THEN Break(req) ELSE <<>>)
    \o [k \in 1..req.after |-> Unit("text")]

\* What a peer sends is a finite stream.
ASSUME WireAssumption == \A req \in HttpRequests : Wire(req) \in Seq(Range(Wire(req)))

-----------------------------------------------------------------------------
(* request.rs *)

\* head_end: just past the first CR LF CR LF in the first MAX_REQUEST units,
\* or 0.
head_end(buffer) ==
    LET limit == Min({Len(buffer), MAX_REQUEST})
        Four(i) == <<buffer[i].ch, buffer[i + 1].ch, buffer[i + 2].ch, buffer[i + 3].ch>>
        ends == {i + 3 : i \in {j \in 1..(limit - 3) : Four(j) = <<"cr", "lf", "cr", "lf">>}}
    IN  IF ends = {} THEN 0 ELSE Min(ends)

\* The head split at CR LF, up to the empty line that ends it.
Lines(head) ==
    LET breaks == {i \in 1..(Len(head) - 1) : head[i].ch = "cr" /\ head[i + 1].ch = "lf"}
        at == SetToSortSeq(breaks, <)
        From(k) == IF k = 1 THEN 1 ELSE at[k - 1] + 2
        Line(k) == SubSeq(head, From(k), at[k] - 1)
    IN  [k \in 1..Len(at) |-> Line(k)]

\* What a line of the head says.
Says(line) == IF line = <<>> THEN Blank ELSE line[1].of

Refused(error) == [outcome |-> "refused", error |-> error]

\* parse_request_line, and the length it is allowed.
RequestLineError(line) ==
    CASE Len(line) > MAX_REQUEST_LINE        -> "RequestLineTooLong"
      [] ~Says(line).parts                   -> "MalformedRequestLine"
      [] ~Says(line).version                 -> "UnsupportedVersion"
      [] Says(line).method \notin {"GET", "HEAD"} -> "UnsupportedMethod"
      [] OTHER                               -> "none"

\* What is wrong with the k-th header.
HeaderError(line, k) ==
    CASE k > MAX_HEADERS             -> "TooManyHeaders"
      [] Len(line) > MAX_HEADER_LINE -> "HeaderTooLong"
      [] ~Says(line).named           -> "MalformedHeader"
      [] Says(line).declares_a_body  -> "BodyNotAllowed"
      [] OTHER                       -> "none"

\* The first Host header plausible_host accepts.
FirstHost(hosts) == hosts[1]

Parsed(head) ==
    LET lines   == Lines(head)
        headers == Front(Tail(lines))
        bad     == {k \in DOMAIN headers : HeaderError(headers[k], k) # "none"}
        hosts   == SelectSeq([k \in DOMAIN headers |-> Says(headers[k]).host],
                             LAMBDA h : h \notin {"absent", "implausible"})
    IN  IF \E i \in DOMAIN head : ~head[i].of.utf8 THEN Refused("NotText")
        ELSE IF RequestLineError(lines[1]) # "none" THEN Refused(RequestLineError(lines[1]))
        ELSE IF bad # {} THEN Refused(HeaderError(headers[Min(bad)], Min(bad)))
        ELSE [outcome |-> "complete",
              method  |-> Says(lines[1]).method,
              path    |-> Says(lines[1]).path,
              host    |-> IF hosts = <<>> THEN "absent" ELSE FirstHost(hosts)]

\* Mutant: an end split over two reads is not found: only the last four units
\* are looked at.
parse_at_end(buffer) ==
    LET end == head_end(buffer)
    IN  IF end # Len(buffer)
        THEN IF Len(buffer) >= MAX_REQUEST THEN Refused("HeadTooLong")
             ELSE [outcome |-> "incomplete"]
        ELSE Parsed(SubSeq(buffer, 1, end))

parse(buffer) ==
    LET end == head_end(buffer)
    IN  IF end = 0
        THEN IF Len(buffer) >= MAX_REQUEST THEN Refused("HeadTooLong")
             ELSE [outcome |-> "incomplete"]
        ELSE Parsed(SubSeq(buffer, 1, end))

-----------------------------------------------------------------------------
(* response.rs *)

\* Status::for_request_error and Status::code.
for_request_error(error) ==
    CASE error = "RequestLineTooLong" -> 414
      [] error \in {"HeaderTooLong", "TooManyHeaders", "HeadTooLong"} -> 431
      [] error = "UnsupportedMethod" -> 405
      [] error = "UnsupportedVersion" -> 505
      [] error = "BodyNotAllowed" -> 413
      [] error \in {"MalformedRequestLine", "MalformedHeader", "NotText"} -> 400

Response(status, page) == [status |-> status, page |-> page]
Nothing == [of |-> "nothing"]
ErrorResponse(status) == Response(status, [of |-> "reason"])

-----------------------------------------------------------------------------
(* routes.rs *)

listening == KmsPorts # <<>>

\* Snapshot::healthy and health.
healthy == listening /\ entropy_healthy

health ==
    IF healthy THEN Response(200, [of |-> "/healthz", complaints |-> {}])
    ELSE Response(503, [of |-> "/healthz",
                        complaints |-> (IF listening THEN {} ELSE {"listener"})
                                       \cup (IF entropy_healthy THEN {} ELSE {"entropy"})])

\* The rows of "What this host answers with": a host key and how many counted
\* IDs it answers for, in the order the keys are first met.
answered ==
    LET firsts == SelectSeq([i \in DOMAIN Answering |-> i],
                            LAMBDA i : \A j \in 1..(i - 1) : Answering[j] # Answering[i])
    IN  [k \in DOMAIN firsts |->
            [index |-> Answering[firsts[k]],
             count |-> Cardinality({j \in DOMAIN Answering : Answering[j] = Answering[firsts[k]]})]]

machines_table == Clients(events, MACHINES_PER_PAGE)

status_page ==
    [of |-> "/", listening |-> listening, ports |-> KmsPorts, entropy |-> entropy_healthy,
     requests |-> next_sequence, held |-> Len(events), answered |-> answered,
     machines |-> machines_table]

\* Mutant: the first page of the log.
Earliest(es, limit) == Reverse(SubSeq(es, 1, Min({limit, Len(es)})))

\* EventLog::recent: newest first.
recent(es, limit) == Reverse(SubSeq(es, Max({0, Len(es) - limit}) + 1, Len(es)))

\* The page reverses what recent returns.
events_page ==
    [of |-> "/events", held |-> Len(events), recorded |-> next_sequence,
     showing |-> Min({EVENTS_PER_PAGE, Len(events)}),
     by_retention |-> by_retention, by_capacity |-> by_capacity,
     rows |-> Reverse(recent(events, EVENTS_PER_PAGE))]

\* The page names the address the browser used, unless it is a loopback one,
\* and the zone the lease told of.
instructions_page(address) ==
    [of |-> "/instructions",
     port     |-> IF KmsPorts = <<>> THEN 1688 ELSE KmsPorts[1],
     address  |-> IF address = "absent" THEN "KMS-HOST" ELSE address,
     loopback |-> address = "localhost",
     leased   |-> IF address = "localhost" THEN network.address ELSE "unsaid",
     zone     |-> IF network.domains = <<>> THEN "EXAMPLE.COM" ELSE network.domains[1],
     further  |-> IF network.domains = <<>> THEN <<>> ELSE Tail(network.domains),
     to_substitute |-> network.domains = <<>>]

metrics ==
    [of |-> "/metrics", requests_total |-> next_sequence,
     activations |-> Cardinality({i \in DOMAIN events : events[i].request.activated}),
     events_held |-> Len(events), by_capacity_total |-> by_capacity,
     by_retention_total |-> by_retention, listener_up |-> listening,
     entropy_healthy |-> entropy_healthy]

route(parsed) ==
    CASE parsed.path = "/"             -> Response(200, status_page)
      [] parsed.path = "/events"       -> Response(200, events_page)
      [] parsed.path = "/instructions" -> Response(200, instructions_page(parsed.host))
      [] parsed.path = "/products"     -> Response(200, [of |-> "/products"])
      [] parsed.path = "/healthz"      -> health
      [] parsed.path = "/metrics"      -> Response(200, metrics)
      [] OTHER                         -> ErrorResponse(404)

\* web::answer on a buffer it can answer: the response, the body only when
\* the method wants one, and the verdict.
answer(parsed) ==
    IF parsed.outcome = "refused"
    THEN [verdict |-> parsed.error, written |-> ErrorResponse(for_request_error(parsed.error))]
    ELSE LET response == route(parsed)
         IN  [verdict |-> "none",
              written |-> IF parsed.method = "HEAD" THEN Response(response.status, Nothing)
                          ELSE response]

-----------------------------------------------------------------------------
Unanswered == [verdict |-> "unanswered", written |-> Response(0, Nothing)]
NoRequest == [lines |-> <<>>, bare |-> FALSE, finished |-> FALSE, after |-> 0]

Idle ==
    /\ phase' = "idle"
    /\ request' = NoRequest
    /\ taken' = 0
    /\ inbound' = <<>>
    /\ reply' = Unanswered

Init ==
    /\ LogInit
    /\ phase = "idle"
    /\ request = NoRequest
    /\ taken = 0
    /\ inbound = <<>>
    /\ reply = Unanswered
    /\ source = "good"
    /\ entropy_healthy = TRUE
    /\ network \in {n \in Networks : n.domains = <<>>}

\* A browser connects, with the request it is going to send.
Open(req) ==
    /\ phase = "idle"
    /\ phase' = "open"
    /\ request' = req
    /\ UNCHANGED <<taken, inbound, reply, log, now, host>>

\* One read of n units, handed to serve_web.
serve_web(n) ==
    LET input == SubSeq(Wire(request), taken + 1, taken + n)
    IN  /\ phase = "open"
        /\ taken + n =< Len(Wire(request))
        /\ taken' = taken + n
        /\ UNCHANGED <<request, log, now, host>>
        /\ IF Len(inbound) + n > MAX_REQUEST
           THEN /\ reply' = [verdict |-> "HeadTooLong", written |-> ErrorResponse(431)]
                /\ phase' = "closed"
                /\ UNCHANGED inbound
           ELSE LET parsed == parse(inbound \o input)
                IN  /\ inbound' = inbound \o input
                    /\ IF parsed.outcome = "incomplete"
                       THEN UNCHANGED <<phase, reply>>
                       ELSE /\ reply' = answer(parsed)
                            /\ phase' = "closed"

\* The connection is over: answered, or given up by its peer or its deadline.
Over ==
    /\ phase # "idle"
    /\ Idle
    /\ UNCHANGED <<log, now, host>>

\* The KMS side records a request, or time passes.
Log ==
    /\ LogNext
    /\ UNCHANGED <<connection, host>>

\* Facts::publish.
publish(n) ==
    /\ network' = n
    /\ network' # network
    /\ UNCHANGED <<log, now, connection, source, entropy_healthy>>

\* The entropy source breaks or recovers.
SourceTurns(s) ==
    /\ source' = s
    /\ source' # source
    /\ UNCHANGED <<log, now, connection, entropy_healthy, network>>

\* Mutant: a source that recovered is not trusted again, and one that broke
\* is not distrusted: the state of the last change is kept.
RetestOnce == source \in {"good", "second zero"} \/ entropy_healthy

\* What entropy_watch's two draws say: it looks for zeros only in the first.
Retest == source \in {"good", "second zero"}

\* entropy_watch: the source is tested again.
entropy_watch ==
    /\ entropy_healthy' = Retest
    /\ UNCHANGED <<log, now, connection, source, network>>

Next ==
    \/ \E req \in HttpRequests : Open(req)
    \/ \E n \in 1..ReadSize : serve_web(n)
    \/ Over
    \/ Log
    \/ \E n \in Networks : publish(n)
    \/ \E s \in Sources : SourceTurns(s)
    \/ entropy_watch

\* The watch is a timer of the runtime; nothing else here is owed a turn.
Spec == Init /\ [][Next]_vars /\ WF_vars(entropy_watch)

-----------------------------------------------------------------------------
\* RequestError::status: the table request.rs keeps beside response.rs's.
status_of(error) ==
    CASE error = "RequestLineTooLong" -> 414
      [] error \in {"HeaderTooLong", "TooManyHeaders", "HeadTooLong"} -> 431
      [] error = "UnsupportedMethod" -> 405
      [] error = "UnsupportedVersion" -> 505
      [] error = "BodyNotAllowed" -> 413
      [] OTHER -> 400

\* What is wrong with a request, read off the lines it was made of: the first
\* complaint, in the order of the head.
Verdict(req) ==
    LET line == req.lines[1]
        headers == Tail(req.lines)
        Wrong(k) == \/ k > MAX_HEADERS \/ headers[k].len > MAX_HEADER_LINE
                    \/ ~headers[k].named \/ headers[k].declares_a_body
        k == Min({i \in DOMAIN headers : Wrong(i)})
    IN  CASE \E i \in DOMAIN req.lines : ~req.lines[i].utf8 -> "NotText"
          [] line.len > MAX_REQUEST_LINE -> "RequestLineTooLong"
          [] ~line.parts -> "MalformedRequestLine"
          [] ~line.version -> "UnsupportedVersion"
          [] line.method \notin {"GET", "HEAD"} -> "UnsupportedMethod"
          [] \E i \in DOMAIN headers : Wrong(i) ->
                CASE k > MAX_HEADERS -> "TooManyHeaders"
                  [] headers[k].len > MAX_HEADER_LINE -> "HeaderTooLong"
                  [] ~headers[k].named -> "MalformedHeader"
                  [] OTHER -> "BodyNotAllowed"
          [] OTHER -> "none"

Finished(req) == req.finished /\ ~req.bare

\* However its bytes are cut up into reads, a request that fits is answered by
\* what its lines say and by nothing that follows them, with the status
\* request.rs has for it; one that is not finished is not answered; one too
\* long may only be refused for that besides (serve_web, parse, head_end).
CutsDoNotMatter ==
    LET fits == Len(Wire(request)) =< MAX_REQUEST
        tooLong == Len(Wire(request)) >= MAX_REQUEST
    IN  /\ phase = "closed" =>
              \/ Finished(request) /\ reply.verdict = Verdict(request)
              \/ reply.verdict = "HeadTooLong" /\ tooLong /\ ~(Finished(request) /\ fits)
        /\ phase = "closed" /\ reply.verdict # "none" =>
              reply.written.status = status_of(reply.verdict)
        /\ phase = "open" /\ taken = Len(Wire(request)) => ~Finished(request) /\ ~tooLong

\* The fleet view agrees with the log it is made from: newest first, one row
\* per key, the newest event on top and told as it happened, and the rows that
\* were ever activated name exactly the machines distinct_machines counts, for
\* one application or another (EventLog::clients).
FleetView ==
    /\ LET rows == Clients(events, Capacity)
           machines == {rows[i].key[1] : i \in {j \in DOMAIN rows : rows[j].activations > 0}}
       IN  /\ machines = UNION {ActivatedMachines(events, r.application) : r \in Requests}
           /\ \A r \in Requests :
                 DistinctMachines(events, r.application) =< Cardinality(machines)
    /\ \A limit \in {1, MACHINES_PER_PAGE, Capacity} :
      LET rows == Clients(events, limit)
      IN  /\ \A i, j \in DOMAIN rows : i < j => rows[i].last_sequence > rows[j].last_sequence
          /\ \A i, j \in DOMAIN rows : rows[i].key = rows[j].key => i = j
          /\ \A i \in DOMAIN rows : rows[i].activations =< rows[i].requests
          /\ events # <<>> =>
                /\ rows[1].last_sequence = next_sequence - 1
                /\ rows[1].activated_last = events[Len(events)].request.activated

\* What the events page lists is the newest page of the log, every event of it
\* and each once, under a heading whose numbers add up, however events expire and
\* are evicted between two pages (events_page, recent).
PageIsRecent ==
    [][reply' # reply /\ reply'.written.page.of = "/events" =>
         LET page == reply'.written.page
         IN  /\ Len(page.rows) = page.showing
             /\ page.recorded = page.held + page.by_retention + page.by_capacity
             /\ {page.rows[i].sequence : i \in DOMAIN page.rows}
                   = (page.recorded - page.showing)..(page.recorded - 1)]_vars

\* events_page's comment and the reference documentation: the rows of the page
\* are in order, the newest first.
NewestFirst ==
    [][reply' # reply /\ reply'.written.page.of = "/events" =>
         LET rows == reply'.written.page.rows
         IN  \A i, j \in DOMAIN rows : i < j => rows[i].sequence > rows[j].sequence]_vars

\* An entropy source that breaks for good makes /healthz say so in the end,
\* and one that recovers for good is believed again (entropy_watch, health).
BreakageShows ==
    /\ <>[](source \in {"unavailable", "repeating"}) => <>[](health.status = 503)
    /\ <>[](source = "good") => <>[](health.status = 200)
=============================================================================
