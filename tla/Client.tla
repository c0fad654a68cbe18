------------------------------- MODULE Client -------------------------------
(***************************************************************************)
(* The diagnostic client under load: the workers of kmsrs-client/load.rs,  *)
(* each with a Session of session.rs (connect, bind, activate) over the    *)
(* association of kmsrs-proto/wire/client.rs.                              *)
(*                                                                         *)
(* Workers are threads: an action is one of their atomic updates, one lock *)
(* or one wait on the socket.  The host is whatever answers: it negotiates *)
(* as module Bind does, answers requests in order and as late as it likes, *)
(* may not echo call identifiers, and may hang up.  A request is its       *)
(* number in the plan, and a reply says which request it is really about,  *)
(* which the client has no way of seeing.                                  *)
(***************************************************************************)
EXTENDS Bind, FiniteSets

CONSTANTS
    Workers,     \* Soak.concurrency
    Requests     \* Soak.requests

ASSUME ClientAssumption ==
    /\ IsFiniteSet(Workers) /\ Workers # {}
    /\ Requests \in Nat

FIRST_CALL_ID == 2

VARIABLES
    reconnect,   \* Soak.reconnect
    host,        \* the host speaks "ndr32", "both" syntaxes, or "neither"
    remaining,   \* the count of requests nobody has taken
    drawn,       \* how far the iterator over the plans has got
    at,          \* per worker: where it is
    holding,     \* per worker: the request it is busy with
    session,     \* per worker: its Session, as a set of at most one
    wire,        \* per worker: replies on its stream
    asked,       \* per worker: what the host has received on it and not answered
    report,      \* SoakReport
    exchanged    \* observer: <<request, what its answer was about>>

queue == <<remaining, drawn>>
stream == <<wire, asked>>
options == <<reconnect, host>>
soak_vars == <<options, queue, at, holding, session, stream, report, exchanged>>

(***************************************************************************)
(* The association (wire/client.rs; its bind and bind_ack are in Bind).    *)
(***************************************************************************)
\* What the host does with it: this one as module Bind says, or another that
\* accepts nothing.
HostDecision ==
    IF host = "neither"
      THEN [results |-> [i \in 1..3 |-> "reject_transfer_syntax"], accepted_context |-> {}]
      ELSE Decide(Parse(BindBody(TRUE)), host = "both")

\* The results as the bind_ack carries them, with the syntax each names.
BindAck ==
    [i \in DOMAIN HostDecision.results |->
       [result |-> HostDecision.results[i],
        syntax |-> IF HostDecision.results[i] = "accept"
                     THEN Preferred(Parse(BindBody(TRUE)), host = "both") ELSE "unknown"]]

\* The host answers with the identifier it was given, or with 1 as Wine does.
CallIds(sent) == {sent, 1}

\* What read_reply does to the association: a wrong identifier is warned of
\* once and is not an error.
Noticed(s, received) ==
    [s EXCEPT !.call_id_warned = @ \/ received # s.next_call_id - 1]

(***************************************************************************)
(* Soak.                                                                   *)
(***************************************************************************)
SoakInit ==
    /\ reconnect \in BOOLEAN
    /\ host \in {"ndr32", "both", "neither"}
    /\ remaining = Requests
    /\ drawn = 0
    /\ at = [w \in Workers |-> "take"]
    /\ holding = [w \in Workers |-> 0]
    /\ session = [w \in Workers |-> {}]
    /\ wire = [w \in Workers |-> << >>]
    /\ asked = [w \in Workers |-> << >>]
    /\ report = [completed |-> 0, failed |-> 0, first_failure |-> FALSE, epids |-> {}]
    /\ exchanged = {}

Goto(w, place) == at' = [at EXCEPT ![w] = place]

\* remaining.fetch_update.
Take(w) ==
    /\ at[w] = "take"
    /\ remaining' = IF remaining = 0 THEN 0 ELSE remaining - 1
    /\ Goto(w, IF remaining = 0 THEN "done" ELSE "draw")
    /\ UNCHANGED <<options, drawn, holding, session, stream, report, exchanged>>

Closed(w) ==
    /\ session' = [session EXCEPT ![w] = {}]
    /\ wire' = [wire EXCEPT ![w] = << >>]
    /\ asked' = [asked EXCEPT ![w] = << >>]

\* plans.next(): at its end the worker returns; else the session is dropped,
\* opened or used.
Draw(w) ==
    /\ at[w] = "draw"
    /\ LET fields == drawn + 1
           ended == drawn = Requests
           open == reconnect \/ session[w] = {}
       IN  /\ drawn' = IF ended THEN drawn ELSE fields
           /\ holding' = IF ended THEN holding ELSE [holding EXCEPT ![w] = fields]
           /\ Goto(w, CASE ended -> "done" [] ~ended /\ open -> "open" [] OTHER -> "send")
           /\ IF reconnect THEN Closed(w) ELSE UNCHANGED <<session, stream>>
    /\ UNCHANGED <<options, remaining, report, exchanged>>

\* Mutant: the association is kept after a failed exchange.
FailureKept(w) ==
    /\ report' = [report EXCEPT !.failed = @ + 1, !.first_failure = TRUE]
    /\ Goto(w, "take")
    /\ UNCHANGED <<options, queue, holding, session, stream, exchanged>>

\* record_failure; the association is dropped with its stream.
Failure(w) ==
    /\ report' = [report EXCEPT !.failed = @ + 1, !.first_failure = TRUE]
    /\ Closed(w)
    /\ Goto(w, "take")
    /\ UNCHANGED <<options, queue, holding, exchanged>>

\* Mutant: a session that cannot be opened is not a failed request.
OpenFailsUncounted(w) ==
    /\ at[w] \in {"open", "binding"}
    /\ Closed(w)
    /\ Goto(w, "take")
    /\ UNCHANGED <<options, queue, holding, report, exchanged>>

\* Session::open fails: no connection, no answer in time, a bind_nak or fault.
OpenFails(w) == at[w] \in {"open", "binding"} /\ Failure(w)

\* Session::open connects and sends its bind.
Connect(w) ==
    /\ at[w] = "open"
    /\ Goto(w, "binding")
    /\ UNCHANGED <<options, queue, holding, session, stream, report, exchanged>>

\* The bind_ack arrives.  The caller of read_reply is told what was accepted;
\* nothing accepted is a failed open.
Bound(w, received) ==
    /\ at[w] = "binding"
    /\ \/ /\ read_bind_ack(BindAck) # {}
          /\ session' = [session EXCEPT ![w] =
                {Noticed([next_call_id |-> FIRST_CALL_ID + 1, call_id_warned |-> FALSE,
                          accepted |-> accepted], received) : accepted \in read_bind_ack(BindAck)}]
          /\ Goto(w, "send")
          /\ UNCHANGED <<options, queue, holding, stream, report, exchanged>>
       \/ /\ read_bind_ack(BindAck) = {}
          /\ Failure(w)

\* activate fails before anything is sent: the fields make no body, entropy
\* fails, or the socket does.
SendFails(w) == at[w] = "send" /\ Failure(w)

Send(w) ==
    /\ at[w] = "send"
    /\ session' = [session EXCEPT ![w] = {[s EXCEPT !.next_call_id = @ + 1] : s \in @}]
    /\ asked' = [asked EXCEPT ![w] = Append(@, [about |-> holding[w],
                     call_id |-> (CHOOSE s \in session[w] : TRUE).next_call_id])]
    /\ Goto(w, "reading")
    /\ UNCHANGED <<options, queue, holding, wire, report, exchanged>>

\* The host answers the oldest request it has, in time or not: with a response,
\* or with a fault or something that does not decode.
HostAnswers(w, received, good) ==
    /\ asked[w] # << >>
    /\ received \in CallIds(Head(asked[w]).call_id)
    /\ wire' = [wire EXCEPT ![w] = Append(@, [call_id |-> received, good |-> good,
                                              about |-> Head(asked[w]).about])]
    /\ asked' = [asked EXCEPT ![w] = Tail(@)]
    /\ UNCHANGED <<options, queue, at, holding, session, report, exchanged>>

\* read_pdu, read_reply and decode: record_success takes the report's lock.
ReadGood(w) ==
    /\ at[w] = "reading" /\ wire[w] # << >>
    /\ Head(wire[w]).good
    /\ wire' = [wire EXCEPT ![w] = Tail(@)]
    /\ session' = [session EXCEPT ![w] = {Noticed(s, Head(wire[w]).call_id) : s \in @}]
    /\ report' = [report EXCEPT !.completed = @ + 1]
    /\ exchanged' = exchanged \cup {<<holding[w], Head(wire[w]).about>>}
    /\ Goto(w, "epid")
    /\ UNCHANGED <<options, queue, holding, asked>>

ReadBad(w) ==
    /\ at[w] = "reading" /\ wire[w] # << >>
    /\ ~Head(wire[w]).good
    /\ Failure(w)

\* The read timeout passes, or the host hangs up.
ReadFails(w) == at[w] = "reading" /\ Failure(w)

\* record_success again, under the other lock.
SeeEpid(w) ==
    /\ at[w] = "epid"
    /\ report' = [report EXCEPT !.epids = @ \cup {"the host's"}]
    /\ Goto(w, "take")
    /\ UNCHANGED <<options, queue, holding, session, stream, exchanged>>

worker(w) ==
    \/ Take(w) \/ Draw(w)
    \/ OpenFails(w) \/ Connect(w) \/ \E received \in CallIds(FIRST_CALL_ID) : Bound(w, received)
    \/ SendFails(w) \/ Send(w) \/ ReadGood(w) \/ ReadBad(w) \/ ReadFails(w) \/ SeeEpid(w)

SoakNext ==
    \E w \in Workers :
        \/ worker(w)
        \/ \E good \in BOOLEAN, received \in 1..(FIRST_CALL_ID + Requests) :
              HostAnswers(w, received, good)
-----------------------------------------------------------------------------
Done == \A w \in Workers : at[w] = "done"

\* No answer is taken for another request's, although identifiers are not
\* relied on and a reply may come after its timeout (worker drops the session).
OwnAnswer == \A pair \in exchanged : pair[1] = pair[2]
=============================================================================
