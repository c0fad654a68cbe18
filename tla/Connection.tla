----------------------------- MODULE Connection -----------------------------
(***************************************************************************)
(* One KMS connection as the server runs it: the sans-io state machine of  *)
(* kmsrs-proto (wire/connection.rs) driven by Server::handle               *)
(* (kmsrs-server/server.rs).                                               *)
(*                                                                         *)
(* A byte stream is a sequence of units [pdu, at]: unit number `at' of the *)
(* PDU record `pdu'.  Every byte stream is some sequence of frames as the  *)
(* server cuts it, so the client is modelled as sending whole PDUs, and    *)
(* the network as delivering the units in pieces of any size.              *)
(*                                                                         *)
(* A PDU is a record                                                       *)
(*   type      "bind", "alter_context", "request" or "other"               *)
(*   declared  FragLength                                                  *)
(*   units     units really on the wire (differs from `declared' only when *)
(*             FragLength is out of range)                                 *)
(*   version_ok, auth    RPC version 5.0; a nonzero AuthLength             *)
(*   call      call_id                                                     *)
(*   body      of a bind or alter_context, see module Bind                 *)
(*   first, last         FIRST_FRAG, LAST_FRAG                             *)
(*   context_id          what a first fragment names                       *)
(*   stub      what the call's whole stub is: [op, len, syntax, payload]   *)
(*                                                                         *)
(* The clock-driven field `deadline' is set by `step' and read by nothing  *)
(* in the server, so it is left out; module Driver has the deadlines that  *)
(* are enforced.                                                           *)
(***************************************************************************)
EXTENDS Bind

CONSTANTS
    HeaderLen,      \* HEADER_LEN, in units
    MaxPduLen,      \* MAX_PDU_LEN, in units
    EventCap,       \* capacity of the connection's event ring (8)
    MaxContexts,    \* capacity of Bound.contexts (2)
    Available,      \* bytes in Server::handle's scratch buffer (MAX_RESPONSE_LEN)
    Port,           \* the accepting port
    Ndr64Enabled,   \* does this host's build advertise NDR64
    MaxRead,        \* units one read may deliver
    Clients,        \* the kinds of client: for each, the set of PDUs it may send
    MaxSent         \* bound: PDUs one client sends

ASSUME ConnectionAssumption ==
    /\ HeaderLen \in Nat \ {0}
    /\ MaxPduLen \in Nat /\ MaxPduLen > HeaderLen
    /\ EventCap \in Nat \ {0}
    /\ MaxContexts \in Nat \ {0}
    /\ Available \in Nat
    /\ Port \in 1..65535
    /\ Ndr64Enabled \in BOOLEAN
    /\ MaxRead \in Nat \ {0}
    /\ MaxSent \in Nat

ASSUME ClientsAssumption ==
    \A p \in UNION Clients :
        /\ p.declared \in Nat /\ p.units \in Nat \ {0}
        /\ p.declared \in HeaderLen..MaxPduLen => p.units = p.declared
        /\ p.context_id \in Nat
        /\ p.body \in [declared : Nat, items : Seq(ContextItem)]

MaxStubLen == MaxPduLen - HeaderLen

VARIABLES
    phase,                 \* "unbound" or "bound"
    contexts,              \* accepted contexts, oldest first
    inbound,               \* units received and not yet framed
    reassembly,            \* stub units of the call being reassembled
    reassembling_context,  \* {} or {context id} of that call
    events,                \* the event ring, oldest first
    lost_events,           \* events the ring evicted since the last drain
    control,               \* where Server::handle is
    response,              \* replies accumulated by this call of handle
    wire,                  \* units sent by the client and not yet read
    client,                \* the kind of client at the other end
    sent,                  \* PDUs the client has sent
    taken, replies, recorded, logged, granted   \* an observer's record

machine == <<phase, contexts, inbound, reassembly, reassembling_context,
             events, lost_events>>
history == <<taken, replies, recorded, logged, granted>>
peer == <<client, sent>>
vars == <<machine, control, response, wire, peer, history>>

(***************************************************************************)
(* The observer influences nothing:                                        *)
(*   taken     the PDUs consumed, in order, without the fragments that     *)
(*             were put aside                                              *)
(*   replies   replies delivered to the driver, in order                   *)
(*   recorded  events ever recorded                                        *)
(*   logged    events accounted for in the log, singly or in a Lost line   *)
(*   granted   grants the host decided (and counted)                       *)
(***************************************************************************)

LastOf(s) == s[Len(s)]

\* push_evicting, for the elements of t in turn: the oldest entries make room.
PushEvicting(s, t, cap) ==
    LET all == s \o t
    IN  IF Len(all) =< cap THEN all ELSE SubSeq(all, Len(all) - cap + 1, Len(all))

Units(p) == [i \in 1..p.units |-> [pdu |-> p, at |-> i]]

\* The units of a PDU behind its header.
Body(p) == [i \in 1..(p.declared - HeaderLen) |-> [pdu |-> p, at |-> HeaderLen + i]]

Init ==
    /\ phase = "unbound"
    /\ contexts = <<>>
    /\ inbound = <<>>
    /\ reassembly = <<>>
    /\ reassembling_context = {}
    /\ events = <<>>
    /\ lost_events = 0
    /\ control = "reading"
    /\ response = <<>>
    /\ wire = <<>>
    /\ client \in Clients
    /\ sent = 0
    /\ taken = <<>>
    /\ replies = <<>>
    /\ recorded = 0
    /\ logged = 0
    /\ granted = 0

(***************************************************************************)
(* The environment: a client that sends PDUs without waiting for replies.  *)
(***************************************************************************)
ClientSend(p) ==
    /\ control # "closed"
    /\ sent < MaxSent
    /\ sent' = sent + 1
    /\ wire' = wire \o Units(p)
    /\ UNCHANGED <<machine, control, response, client, history>>

(***************************************************************************)
(* Server::handle, first part: Connection::receive.  An overflow returns   *)
(* at once, with nothing answered and nothing drained.                     *)
(***************************************************************************)
Receive(k) ==
    /\ control = "reading"
    /\ k \in 1..Smaller(MaxRead, Len(wire))
    /\ wire' = SubSeq(wire, k + 1, Len(wire))
    /\ IF Len(inbound) + k =< MaxPduLen
         THEN /\ inbound' = inbound \o SubSeq(wire, 1, k)
              /\ control' = "stepping"
         ELSE /\ control' = "closed"
              /\ UNCHANGED inbound
    /\ response' = <<>>
    /\ UNCHANGED <<phase, contexts, reassembly, reassembling_context, events,
                   lost_events, peer, history>>

(***************************************************************************)
(* The parts of a step.                                                    *)
(***************************************************************************)
\* Connection::record, for each of the events es: an eviction is counted.
Record(es) ==
    /\ events' = PushEvicting(events, es, EventCap)
    /\ lost_events' = IF Len(events) + Len(es) =< EventCap THEN lost_events
                      ELSE lost_events + Len(events) + Len(es) - EventCap
    /\ recorded' = recorded + Len(es)

\* The header at the front of the buffer, once it is there.
Front == Head(inbound).pdu

HeaderHere == Len(inbound) >= HeaderLen

InRange(p) == p.declared >= HeaderLen /\ p.declared =< MaxPduLen

\* has_complete_pdu, for a length in range.
CompletePdu == HeaderHere /\ InRange(Front) /\ Len(inbound) >= Front.declared

\* Mutant: only the header is taken off.
ConsumedHeader == SubSeq(inbound, HeaderLen + 1, Len(inbound))

Consumed == SubSeq(inbound, Front.declared + 1, Len(inbound))

\* A reply names its call; an ack or a grant also names the context and its
\* syntax, a fault or a refusal its status.
Reply(kind, p, context_id, detail) ==
    [kind |-> kind, call |-> p.call, context_id |-> context_id, detail |-> detail]

Event(kind, detail) == [kind |-> kind, detail |-> detail]

\* What the observer notes of a PDU that leaves the buffer for good.
Take == taken' = Append(taken, Front)

\* Step::Send: the reply joins the response and the loop goes on.
Send(r, es) ==
    /\ response' = Append(response, r)
    /\ control' = "stepping"
    /\ Record(es)
    /\ Take
    /\ UNCHANGED <<replies, logged>>

\* Step::Close or Step::SendThenClose: the loop ends and the events are drained.
Leave(rs, es) ==
    /\ response' = response \o rs
    /\ control' = "closing"
    /\ Record(es)
    /\ Take
    /\ UNCHANGED <<replies, logged>>

\* Connection::fault: the call fails and the association survives.
Fault(p, context_id, status, before) ==
    Send(Reply("fault", p, context_id, status),
         Append(before, Event("faulted", status)))

\* Connection::refuse: a well-formed response that carries only an HRESULT.
Refuse(p, context_id, result) ==
    Send(Reply("response", p, context_id, result),
         <<Event("refused", result)>>)

(***************************************************************************)
(* Connection::step, before anything is consumed.                          *)
(***************************************************************************)
\* Fewer units than a header, or than the header declares.
NeedMore ==
    /\ control = "stepping"
    /\ \/ ~HeaderHere
       \/ HeaderHere /\ InRange(Front) /\ Len(inbound) < Front.declared
    /\ control' = "draining"
    /\ UNCHANGED <<machine, response, wire, peer, history>>

\* Mutant: a FragLength below the header's own length is let through.
RejectTooLong ==
    /\ control = "stepping"
    /\ HeaderHere
    /\ Front.declared > MaxPduLen
    /\ inbound' = <<>>
    /\ Leave(<<>>, <<Event("rejected", "fragment_length")>>)
    /\ UNCHANGED <<phase, contexts, reassembly, reassembling_context, wire, peer, granted>>

\* FragmentTooShort and FragmentTooLong.
RejectLength ==
    /\ control = "stepping"
    /\ HeaderHere
    /\ ~InRange(Front)
    /\ inbound' = <<>>
    /\ Leave(<<>>, <<Event("rejected", "fragment_length")>>)
    /\ UNCHANGED <<phase, contexts, reassembly, reassembling_context, wire, peer, granted>>

(***************************************************************************)
(* Connection::step, after the PDU has been taken off the buffer.          *)
(***************************************************************************)
Framed == control = "stepping" /\ CompletePdu

\* Connection::nak.
BadVersion ==
    /\ Framed
    /\ ~Front.version_ok
    /\ inbound' = <<>>
    /\ Leave(<<Reply("bind_nak", Front, 0, "protocol_version_not_supported")>>,
             <<Event("rejected", "unsupported_rpc_version")>>)
    /\ UNCHANGED <<phase, contexts, reassembly, reassembling_context, wire, peer, granted>>

Authenticated ==
    /\ Framed
    /\ Front.version_ok
    /\ Front.auth
    /\ inbound' = Consumed
    /\ Fault(Front, 0, "protocol_error",
             <<Event("rejected", "authentication_attempted")>>)
    /\ UNCHANGED <<phase, contexts, reassembly, reassembling_context, wire, peer, granted>>

Ordinary == Framed /\ Front.version_ok /\ ~Front.auth

\* Connection::reject of a PDU that cannot be parsed or is not for a server.
RejectPdu ==
    /\ Ordinary
    /\ \/ Front.type = "other"
       \/ Front.type \in {"bind", "alter_context"} /\ ~ParseOk(Front.body)
    /\ inbound' = <<>>
    /\ Leave(<<>>, <<Event("rejected", "unexpected_packet_type")>>)
    /\ UNCHANGED <<phase, contexts, reassembly, reassembling_context, wire, peer, granted>>

(***************************************************************************)
(* Connection::handle_bind.  A bind on a bound association is treated as   *)
(* an alter_context, and an alter_context on an unbound one as a bind;     *)
(* only the type of the answer follows the PDU.                            *)
(***************************************************************************)
\* The retain of Association::alter_context.  No two contexts have the same
\* syntax (OnePerSyntax), so it takes away one element at most.
Without(syntax) ==
    LET same == { i \in DOMAIN contexts : contexts[i].syntax = syntax }
    IN  IF same = {} THEN contexts
        ELSE SubSeq(contexts, 1, Min(same) - 1)
               \o SubSeq(contexts, Min(same) + 1, Len(contexts))

\* Association::alter_context, and Association::bind on an empty list.
AddContext(accepted) ==
    PushEvicting(Without(accepted.syntax), <<accepted>>, MaxContexts)

AckDigits(p) == IF p.type = "alter_context" THEN 0 ELSE PortDigits(Port)

AckKind(p) == IF p.type = "alter_context" THEN "alter_context_response" ELSE "bind_ack"

HandleBind(entropy_ok) ==
    /\ Ordinary
    /\ Front.type \in {"bind", "alter_context"}
    /\ ParseOk(Front.body)
    /\ LET decision == Decide(Parse(Front.body), Ndr64Enabled)
           writable == AckWritable(AckDigits(Front), Len(decision.results),
                                   Available, entropy_ok)
       IN  \/ /\ decision.accepted_context = {}
              /\ UNCHANGED <<phase, contexts>>
              /\ IF writable THEN Send(Reply(AckKind(Front), Front, 0, "none"), <<>>)
                             ELSE Leave(<<>>, <<>>)
           \/ \E accepted \in decision.accepted_context :
                LET es == <<Event(IF phase = "unbound" THEN "bound" ELSE "context_added",
                                  accepted.syntax)>>
                IN  /\ phase' = "bound"
                    /\ contexts' = AddContext(accepted)
                    /\ IF writable
                         THEN Send(Reply(AckKind(Front), Front, accepted.context_id,
                                         accepted.syntax), es)
                         ELSE Leave(<<>>, es)
    /\ inbound' = Consumed
    /\ UNCHANGED <<reassembly, reassembling_context, wire, peer, granted>>

(***************************************************************************)
(* Connection::handle_request.                                             *)
(***************************************************************************)
\* Association::syntax_for: the first context with that identifier.
Matching(context_id) == { i \in DOMAIN contexts : contexts[i].context_id = context_id }

\* Mutant: the newest context's syntax, whatever context is named.
SyntaxForNewest(context_id) == LastOf(contexts).syntax

SyntaxFor(context_id) == contexts[Min(Matching(context_id))].syntax

ARequest == Ordinary /\ Front.type = "request"

RequestUnbound ==
    /\ ARequest
    /\ phase = "unbound"
    /\ inbound' = Consumed
    /\ Fault(Front, 0, "unknown_interface", <<>>)
    /\ UNCHANGED <<phase, contexts, reassembly, reassembling_context, wire, peer, granted>>

\* Mutant: a stray continuation is dropped in silence.
StrayIgnored ==
    /\ ARequest
    /\ phase = "bound"
    /\ ~Front.first
    /\ reassembling_context = {}
    /\ inbound' = Consumed
    /\ Take
    /\ UNCHANGED <<phase, contexts, reassembly, reassembling_context, events, lost_events,
                   control, response, wire, peer, replies, recorded, logged, granted>>

\* A continuation with nothing to continue.
StrayContinuation ==
    /\ ARequest
    /\ phase = "bound"
    /\ ~Front.first
    /\ reassembling_context = {}
    /\ inbound' = Consumed
    /\ Fault(Front, 0, "protocol_error", <<>>)
    /\ UNCHANGED <<phase, contexts, reassembly, reassembling_context, wire, peer, granted>>

\* The context this fragment is about; a first fragment too short to name one
\* names context 0.
FragmentContext ==
    IF Front.first
      THEN IF Front.declared = HeaderLen THEN 0 ELSE Front.context_id
      ELSE CHOOSE c \in reassembling_context : TRUE

Continued ==
    /\ ARequest
    /\ phase = "bound"
    /\ Front.first \/ reassembling_context # {}

\* Association::service refuses a context that was never accepted, or that a
\* later alter_context displaced.
UnknownContext ==
    /\ Continued
    /\ Matching(FragmentContext) = {}
    /\ inbound' = Consumed
    /\ Fault(Front, FragmentContext, "unknown_interface", <<>>)
    /\ UNCHANGED <<phase, contexts, reassembly, reassembling_context, wire, peer, granted>>

Served == Continued /\ Matching(FragmentContext) # {}

\* What the reassembly buffer would hold with this fragment.
Extended == (IF Front.first THEN <<>> ELSE reassembly) \o Body(Front)

ReassemblyOverflow ==
    /\ Served
    /\ Len(Extended) > MaxStubLen
    /\ inbound' = Consumed
    /\ reassembly' = <<>>
    /\ reassembling_context' = {}
    /\ Fault(Front, FragmentContext, "protocol_error",
             <<Event("rejected", "reassembly_overflow")>>)
    /\ UNCHANGED <<phase, contexts, wire, peer, granted>>

\* Not the last fragment: the step answers NeedMore, which ends the loop of
\* Server::handle whatever else is buffered.
HoldFragment ==
    /\ Served
    /\ Len(Extended) =< MaxStubLen
    /\ ~Front.last
    /\ inbound' = Consumed
    /\ reassembly' = Extended
    /\ reassembling_context' = {FragmentContext}
    /\ control' = "draining"
    /\ UNCHANGED <<phase, contexts, events, lost_events, response, wire, peer, history>>

(***************************************************************************)
(* stub::parse_request and framing::decode on an assembled stub.  The      *)
(* first unit carries the stub's prefix.  A stub put together from the     *)
(* pieces of different calls, but of the declared length, may decode to    *)
(* anything.                                                               *)
(***************************************************************************)
ParseRequest(assembled, syntax) ==
    LET stub == Head(assembled).pdu.stub
        mixed == \E u \in Range(assembled) : u.pdu.stub # stub
    IN  IF assembled = <<>> THEN {"truncated"}
        ELSE IF stub.op # "activate" THEN {"unknown_operation"}
        ELSE IF stub.len # Len(assembled) \/ stub.syntax # syntax THEN {"inconsistent_length"}
        ELSE IF mixed THEN {stub.payload, "garbled"}
        ELSE {stub.payload}

Complete ==
    /\ Served
    /\ Len(Extended) =< MaxStubLen
    /\ Front.last

\* The machine after a complete call, whatever the answer.
CallDone ==
    /\ inbound' = Consumed
    /\ reassembly' = <<>>
    /\ reassembling_context' = {}
    /\ UNCHANGED <<phase, contexts, wire, peer>>

Parsed == ParseRequest(Extended, SyntaxFor(FragmentContext))

BadStub ==
    /\ Complete
    /\ \E outcome \in Parsed \cap {"truncated", "unknown_operation",
                                   "inconsistent_length", "garbled"} :
          Fault(Front, FragmentContext,
                IF outcome = "unknown_operation" THEN "unknown_interface"
                                                 ELSE "protocol_error", <<>>)
    /\ CallDone
    /\ UNCHANGED granted

\* Connection::answer: a KMS version or length this host does not speak.
UnsupportedKms ==
    /\ Complete
    /\ "bad_version" \in Parsed
    /\ Refuse(Front, FragmentContext, "invalid_data")
    /\ CallDone
    /\ UNCHANGED granted

\* Decision::Refuse.
PolicyRefuses ==
    /\ Complete
    /\ Parsed \cap {"v4", "v5", "v6"} # {}
    /\ Refuse(Front, FragmentContext, "policy")
    /\ CallDone
    /\ UNCHANGED granted

\* Mutant: without entropy the call faults and the connection goes on.
PolicyGrantsFaulting(entropy_ok) ==
    /\ Complete
    /\ \E version \in Parsed \cap {"v4", "v5", "v6"} :
          IF version # "v4" /\ ~entropy_ok
            THEN Fault(Front, FragmentContext, "protocol_error", <<>>)
            ELSE Send(Reply("response", Front, FragmentContext,
                            SyntaxFor(FragmentContext)), <<Event("activated", version)>>)
    /\ granted' = granted + 1
    /\ CallDone

\* Decision::Grant.  The host has counted and logged the grant by the time
\* the response is built; a v5 or v6 response needs entropy.
PolicyGrants(entropy_ok) ==
    /\ Complete
    /\ \E version \in Parsed \cap {"v4", "v5", "v6"} :
          IF version # "v4" /\ ~entropy_ok
            THEN Leave(<<>>, <<>>)
            ELSE Send(Reply("response", Front, FragmentContext,
                            SyntaxFor(FragmentContext)),
                      <<Event("activated", version)>>)
    /\ granted' = granted + 1
    /\ CallDone

(***************************************************************************)
(* Server::handle, last part: the ring is drained into the log, the Lost   *)
(* count last, and the response goes to the driver.                        *)
(***************************************************************************)
Drain ==
    /\ control \in {"draining", "closing"}
    /\ control' = IF control = "draining" THEN "reading" ELSE "closed"
    /\ events' = <<>>
    /\ lost_events' = 0
    /\ logged' = logged + Len(events) + lost_events
    /\ replies' = replies \o response
    /\ response' = <<>>
    /\ UNCHANGED <<phase, contexts, inbound, reassembly, reassembling_context,
                   wire, peer, taken, recorded, granted>>

\* The driver drops a connection whose peer is gone or whose time is up.
Disconnect ==
    /\ control = "reading"
    /\ control' = "closed"
    /\ UNCHANGED <<machine, response, wire, peer, history>>

Step ==
    \/ NeedMore \/ RejectLength \/ BadVersion \/ Authenticated \/ RejectPdu
    \/ \E ok \in BOOLEAN : HandleBind(ok)
    \/ RequestUnbound \/ StrayContinuation \/ UnknownContext
    \/ ReassemblyOverflow \/ HoldFragment
    \/ BadStub \/ UnsupportedKms \/ PolicyRefuses
    \/ \E ok \in BOOLEAN : PolicyGrants(ok)

Next ==
    \/ \E p \in client : ClientSend(p)
    \/ \E k \in 1..MaxRead : Receive(k)
    \/ Step
    \/ Drain
    \/ Disconnect

\* handle is one synchronous call: once it has the input it runs to its end.
Spec == Init /\ [][Next]_vars /\ WF_vars(Step \/ Drain)

-----------------------------------------------------------------------------
(***************************************************************************)
(* Properties.                                                             *)
(***************************************************************************)
Unit == [pdu : UNION Clients, at : Nat]

Context == [context_id : Nat, syntax : DataSyntax]

\* alter_context replaces the context of a syntax it accepts again.
OnePerSyntax ==
    \A i, j \in DOMAIN contexts : contexts[i].syntax = contexts[j].syntax => i = j

\* Type and capacity: the three fixed buffers and the context list of
\* struct Connection never exceed their ArrayVec capacities.
TypeOK ==
    /\ phase \in {"unbound", "bound"}
    /\ contexts \in Seq(Context) /\ Len(contexts) =< MaxContexts /\ OnePerSyntax
    /\ inbound \in Seq(Unit) /\ Len(inbound) =< MaxPduLen
    /\ reassembly \in Seq(Unit) /\ Len(reassembly) =< MaxStubLen
    /\ reassembling_context \in SUBSET Nat
    /\ Len(events) =< EventCap
    /\ lost_events \in Nat
    /\ control \in {"reading", "stepping", "draining", "closing", "closed"}
    /\ wire \in Seq(Unit)
    /\ sent \in 0..MaxSent
    /\ recorded \in Nat /\ logged \in Nat /\ granted \in Nat

\* The stream never goes out of frame: however the network cuts it up, the
\* fixed buffers hold it and what they start with is the start of a PDU (step
\* consumes exactly FragLength bytes).
InFrame == TypeOK /\ (inbound # <<>> => Head(inbound).at = 1)

\* Everything record() was given is either still in the ring, counted as
\* lost, or in the log: an overrun of the ring is reported, never silent.
EventsAccounted == recorded = logged + Len(events) + lost_events

AllReplies == replies \o response

Acks == {"bind_ack", "alter_context_response"}

\* The replies that carry a grant; a refusal's detail is its HRESULT.
IsGrant(r) == r.kind = "response" /\ r.detail \in DataSyntax

\* A call is only served on a context and in a syntax that an earlier reply on
\* this connection acknowledged, whatever was altered in between.
ServedOnAcknowledged ==
    \A j \in DOMAIN AllReplies :
        IsGrant(AllReplies[j])
        => \E i \in 1..(j - 1) :
              /\ AllReplies[i].kind \in Acks
              /\ AllReplies[i].context_id = AllReplies[j].context_id
              /\ AllReplies[i].detail = AllReplies[j].detail

\* Every PDU taken off the stream, except a fragment put aside, gets exactly
\* one reply, with its own call id and in order; only the PDU that closes the
\* connection may go without.
EveryPduAnswered ==
    /\ Len(AllReplies) =< Len(taken)
    /\ \A i \in DOMAIN AllReplies : AllReplies[i].call = taken[i].call
    /\ control \notin {"closing", "closed"} => Len(AllReplies) = Len(taken)
    /\ Len(AllReplies) >= Len(taken) - 1

\* A grant the host counted reaches the client, unless the connection is
\* closed over it (a failed entropy source), and then it is the only one.
GrantsDelivered ==
    LET answered == Cardinality({ j \in DOMAIN AllReplies : IsGrant(AllReplies[j]) })
    IN  /\ granted - answered \in {0, 1}
        /\ granted # answered => control \in {"closing", "closed"}

\* What a connection did is accounted for, to its client and to the log: no grant
\* and no event is lost without a trace.
Accounted == GrantsDelivered /\ EventsAccounted

\* Server::handle comes to an end: every input is stepped through to NeedMore
\* or to the close of the connection.
HandleEnds == control = "stepping" ~> control \in {"reading", "closed"}

\* Step::NeedMore's documentation: the loop of handle only stops for input
\* when no complete PDU is buffered.
NeedMoreMeansIncomplete ==
    [][ control = "stepping" /\ control' = "draining" => ~CompletePdu' ]_vars
=============================================================================
