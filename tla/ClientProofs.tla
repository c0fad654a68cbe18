----------------------------- MODULE ClientProofs -----------------------------
(***************************************************************************)
(* The diagnostic client, for every number of workers and requests, every  *)
(* command line, every zone and every host: no answer is taken for another *)
(* request's, and what the program reports is true of the hosts it met.    *)
(* And one association, for every bind, version, clock and ePID: one usable*)
(* context is accepted, this host passes the client's checks, and a host   *)
(* that gets one thing wrong fails the checks that are about it.           *)
(***************************************************************************)
EXTENDS ClientTool, Exchange, OrderFacts, FiniteSetTheorems, SequenceTheorems

(***************************************************************************)
(* The soak.  Identifiers are not relied on, and so what keeps answers     *)
(* apart is that a stream holds nothing but the one request under way: it  *)
(* is empty wherever a worker is not reading, because every failure drops  *)
(* it.                                                                     *)
(***************************************************************************)
SoakPlaces == {"take", "draw", "open", "binding", "send", "reading", "epid", "done"}

SessionState ==
    [next_call_id : Nat, call_id_warned : BOOLEAN,
     accepted : [context_id : Int, syntax : TransferSyntax]]

Asked == [about : Nat, call_id : Nat]

Answered == [call_id : Nat, good : BOOLEAN, about : Nat]

SoakTypeOK ==
    /\ drawn \in Nat
    /\ at \in [Workers -> SoakPlaces]
    /\ holding \in [Workers -> Nat]
    /\ session \in [Workers -> SUBSET SessionState]
    /\ asked \in [Workers -> Seq(Asked)]
    /\ wire \in [Workers -> Seq(Answered)]

\* Nothing is under way unless the worker waits for it, and then one thing is:
\* its request, or the answer to it.
OneUnderWay ==
    \A w \in Workers :
        IF at[w] # "reading" THEN asked[w] = <<>> /\ wire[w] = <<>>
        ELSE \/ /\ Len(asked[w]) = 1 /\ asked[w][1].about = holding[w]
                /\ wire[w] = <<>>
             \/ /\ Len(wire[w]) = 1 /\ wire[w][1].about = holding[w]
                /\ asked[w] = <<>>

SendHasSession == \A w \in Workers : at[w] = "send" => session[w] # {}

SoakInv == SoakTypeOK /\ OneUnderWay /\ SendHasSession /\ OwnAnswer

\* What a client makes of a bind_ack is an identifier and a syntax.
LEMMA AckTyped ==
    read_bind_ack(BindAck) \subseteq [context_id : Int, syntax : TransferSyntax]
<1>1. DOMAIN BindAck = DOMAIN HostDecision.results
  BY DEF BindAck
<1>2. \A i \in DOMAIN BindAck : BindAck[i].syntax \in TransferSyntax
  BY DEF BindAck, Preferred, TransferSyntax
<1>3. DOMAIN HostDecision.results \subseteq Nat
  <2>1. CASE host = "neither"
    BY <2>1 DEF HostDecision
  <2>2. CASE host # "neither"
    <3>1. \A n : 1..n \subseteq Nat
      OBVIOUS
    <3> QED
      BY <2>2, <3>1 DEF HostDecision, Decide, Results
  <2> QED
    BY <2>1, <2>2
<1>4. AcceptedResults(BindAck) \in SUBSET Nat /\ AcceptedResults(BindAck) \subseteq DOMAIN BindAck
  BY <1>1, <1>3 DEF AcceptedResults
<1>5. CASE AcceptedResults(BindAck) = {}
  BY <1>5 DEF read_bind_ack
<1>6. CASE AcceptedResults(BindAck) # {}
  <2>1. Min(AcceptedResults(BindAck)) \in AcceptedResults(BindAck)
    BY <1>4, <1>6, MinIsLeast
  <2> QED
    BY <1>2, <1>4, <1>6, <2>1 DEF read_bind_ack
<1> QED
  BY <1>5, <1>6

\* A sequence of one element.
LEMMA OnlyOne ==
    ASSUME NEW T, NEW s \in Seq(T), Len(s) = 1
    PROVE  Head(s) = s[1] /\ s[1] \in T /\ Tail(s) = <<>>
<1>1. s # <<>>
  <2>1. 0 # 1
    OBVIOUS
  <2> QED
    BY <2>1, EmptySeq, Zenon
<1>2. Tail(s) = <<>>
  <2>1. Tail(s) \in Seq(T) /\ Len(Tail(s)) = Len(s) - 1
    BY <1>1, HeadTailProperties, Zenon
  <2>2. Len(s) - 1 = 0 /\ 0 \notin Nat \ {0}
    OBVIOUS
  <2> QED
    BY <2>1, <2>2, EmptySeq, Zenon
<1>3. Head(s) = s[1] /\ s[1] \in T
  OBVIOUS
<1> QED
  BY <1>2, <1>3

\* Noticing an identifier leaves the association what it is.
LEMMA NoticedTyped ==
    ASSUME NEW s \in SessionState, NEW received
    PROVE  Noticed(s, received) \in SessionState
<1> DEFINE warned == s.call_id_warned \/ received # s.next_call_id - 1
<1>1. warned \in BOOLEAN
  OBVIOUS
<1>2. Noticed(s, received) = [s EXCEPT !.call_id_warned = warned]
  BY DEF Noticed
<1> HIDE DEF warned
<1> QED
  BY <1>1, <1>2 DEF SessionState

LEMMA SoakInvInit == SoakInit => SoakInv
BY ClientAssumption DEF ClientAssumption, SoakInit, SoakInv, SoakTypeOK, SoakPlaces, OneUnderWay,
                        SendHasSession, OwnAnswer

\* A failure leaves the worker with nothing under way.
LEMMA FailureKeeps ==
    ASSUME SoakInv, NEW w \in Workers, Failure(w)
    PROVE  SoakInv'
<1>1. /\ at' = [at EXCEPT ![w] = "take"]
      /\ session' = [session EXCEPT ![w] = {}]
      /\ wire' = [wire EXCEPT ![w] = << >>]
      /\ asked' = [asked EXCEPT ![w] = << >>]
      /\ UNCHANGED <<drawn, holding, exchanged>>
  BY DEF Failure, Closed, Goto, queue
<1>2. SoakTypeOK'
  BY <1>1 DEF SoakInv, SoakTypeOK, SoakPlaces
<1>3. OneUnderWay'
  BY <1>1 DEF SoakInv, SoakTypeOK, OneUnderWay
<1>4. SendHasSession' /\ OwnAnswer'
  BY <1>1 DEF SoakInv, SoakTypeOK, SendHasSession, OwnAnswer
<1> QED
  BY <1>2, <1>3, <1>4 DEF SoakInv

LEMMA SoakInvNext == SoakInv /\ SoakNext => SoakInv'
<1> SUFFICES ASSUME SoakInv, NEW w \in Workers,
                    \/ worker(w)
                    \/ \E good \in BOOLEAN, received \in 1..(FIRST_CALL_ID + Requests) :
                          HostAnswers(w, received, good)
             PROVE  SoakInv'
  BY DEF SoakNext
<1> USE DEF SoakInv
<1>1. CASE Take(w)
  <2>1. \E p \in {"done", "draw"} : at[w] = "take" /\ at' = [at EXCEPT ![w] = p]
    BY <1>1 DEF Take, Goto
  <2>2. UNCHANGED <<drawn, holding, session, wire, asked, exchanged>>
    BY <1>1 DEF Take, stream
  <2>3. SoakTypeOK'
    BY <2>1, <2>2 DEF SoakTypeOK, SoakPlaces
  <2>4. OneUnderWay'
    BY <2>1, <2>2 DEF SoakTypeOK, OneUnderWay
  <2>5. SendHasSession' /\ OwnAnswer'
    BY <2>1, <2>2 DEF SoakTypeOK, SendHasSession, OwnAnswer
  <2> QED
    BY <2>3, <2>4, <2>5
<1>2. CASE Draw(w)
  <2>1. at[w] = "draw" /\ asked[w] = <<>> /\ wire[w] = <<>>
    BY <1>2 DEF Draw, OneUnderWay
  <2>2. PICK p \in {"done", "open", "send"} : at' = [at EXCEPT ![w] = p]
    BY <1>2 DEF Draw, Goto
  <2>3. /\ drawn' \in Nat
        /\ holding' = holding \/ holding' = [holding EXCEPT ![w] = drawn + 1]
        /\ exchanged' = exchanged
    BY <1>2 DEF Draw, SoakTypeOK
  <2>4. /\ \/ session' = session
           \/ session' = [session EXCEPT ![w] = {}]
        /\ asked' = asked /\ wire' = wire
    <3>1. CASE reconnect
      <4>1. /\ session' = [session EXCEPT ![w] = {}]
            /\ wire' = [wire EXCEPT ![w] = << >>]
            /\ asked' = [asked EXCEPT ![w] = << >>]
        BY <1>2, <3>1 DEF Draw, Closed
      <4> QED
        BY <4>1, <2>1 DEF SoakTypeOK
    <3>2. CASE ~reconnect
      BY <1>2, <3>2 DEF Draw, stream
    <3> QED
      BY <3>1, <3>2
  <2>5. p = "send" => session[w] # {} /\ session' = session
    <3>1. at'[w] = p
      BY <2>2 DEF SoakTypeOK
    <3>2. p = "send" => drawn # Requests /\ ~(reconnect \/ session[w] = {})
      BY <1>2, <3>1 DEF Draw, Goto, SoakTypeOK
    <3> QED
      BY <1>2, <3>2 DEF Draw
  <2>6. SoakTypeOK'
    <3>1. holding' \in [Workers -> Nat]
      BY <2>3 DEF SoakTypeOK
    <3>2. session' \in [Workers -> SUBSET SessionState]
      BY <2>4 DEF SoakTypeOK
    <3> QED
      BY <2>2, <2>3, <2>4, <3>1, <3>2 DEF SoakTypeOK, SoakPlaces
  <2>7. OneUnderWay'
    BY <2>1, <2>2, <2>3, <2>4 DEF SoakTypeOK, OneUnderWay
  <2>8. SendHasSession' /\ OwnAnswer'
    BY <2>2, <2>3, <2>4, <2>5 DEF SoakTypeOK, SendHasSession, OwnAnswer
  <2> QED
    BY <2>6, <2>7, <2>8
<1>3. CASE OpenFails(w) \/ SendFails(w) \/ ReadBad(w) \/ ReadFails(w)
  BY <1>3, FailureKeeps DEF OpenFails, SendFails, ReadBad, ReadFails
<1>4. CASE Connect(w)
  <2>1. at[w] = "open" /\ at' = [at EXCEPT ![w] = "binding"]
    BY <1>4 DEF Connect, Goto
  <2>2. UNCHANGED <<drawn, holding, session, wire, asked, exchanged>>
    BY <1>4 DEF Connect, stream, queue
  <2>3. SoakTypeOK'
    BY <2>1, <2>2 DEF SoakTypeOK, SoakPlaces
  <2>4. OneUnderWay' /\ SendHasSession' /\ OwnAnswer'
    BY <2>1, <2>2 DEF SoakTypeOK, OneUnderWay, SendHasSession, OwnAnswer
  <2> QED
    BY <2>3, <2>4
<1>5. CASE \E received \in CallIds(FIRST_CALL_ID) : Bound(w, received)
  <2>1. PICK received \in CallIds(FIRST_CALL_ID) : Bound(w, received)
    BY <1>5
  <2>2. CASE read_bind_ack(BindAck) = {}
    BY <2>1, <2>2, FailureKeeps DEF Bound
  <2>3. CASE read_bind_ack(BindAck) # {}
    <3> DEFINE Fresh(c) == Noticed([next_call_id |-> FIRST_CALL_ID + 1, call_id_warned |-> FALSE,
                                    accepted |-> c], received)
               opened == {Fresh(c) : c \in read_bind_ack(BindAck)}
    <3>1. /\ at[w] = "binding" /\ at' = [at EXCEPT ![w] = "send"]
          /\ session' = [session EXCEPT ![w] = opened]
          /\ UNCHANGED <<drawn, holding, wire, asked, exchanged>>
      BY <2>1, <2>3 DEF Bound, Goto, stream, queue
    <3>2. opened \in SUBSET SessionState /\ opened # {}
      <4>1. ASSUME NEW c \in read_bind_ack(BindAck)
            PROVE  Fresh(c) \in SessionState
        <5>1. c \in [context_id : Int, syntax : TransferSyntax]
          BY AckTyped
        <5>2. [next_call_id |-> FIRST_CALL_ID + 1, call_id_warned |-> FALSE, accepted |-> c]
                \in SessionState
          BY <5>1 DEF SessionState, FIRST_CALL_ID
        <5> QED
          BY <5>2, NoticedTyped
      <4> HIDE DEF Fresh
      <4> QED
        BY <4>1, <2>3
    <3> HIDE DEF opened
    <3>3. SoakTypeOK'
      BY <3>1, <3>2 DEF SoakTypeOK, SoakPlaces
    <3>4. OneUnderWay' /\ OwnAnswer'
      BY <3>1 DEF SoakTypeOK, OneUnderWay, OwnAnswer
    <3>5. SendHasSession'
      BY <3>1, <3>2 DEF SoakTypeOK, SendHasSession
    <3> QED
      BY <3>3, <3>4, <3>5
  <2> QED
    BY <2>2, <2>3
<1>6. CASE Send(w)
  <2> DEFINE sender == CHOOSE s \in session[w] : TRUE
             asking == [about |-> holding[w], call_id |-> sender.next_call_id]
             counted == {[s EXCEPT !.next_call_id = @ + 1] : s \in session[w]}
  <2>1. /\ at[w] = "send" /\ at' = [at EXCEPT ![w] = "reading"]
        /\ asked' = [asked EXCEPT ![w] = Append(asked[w], asking)]
        /\ session' = [session EXCEPT ![w] = counted]
        /\ UNCHANGED <<drawn, holding, wire, exchanged>>
    BY <1>6 DEF Send, Goto, queue, SoakTypeOK
  <2>2. asked[w] = <<>> /\ wire[w] = <<>>
    BY <2>1 DEF OneUnderWay
  <2>3. sender \in session[w] /\ session[w] \subseteq SessionState
    BY <2>1 DEF SendHasSession, SoakTypeOK
  <2>4. asking \in Asked
    <3> HIDE DEF sender
    <3> QED
      BY <2>3 DEF Asked, SessionState, SoakTypeOK
  <2>5. counted \subseteq SessionState
    BY <2>3 DEF SessionState
  <2>6. asking.about = holding[w]
    OBVIOUS
  <2> HIDE DEF sender, asking, counted
  <2>7. Append(asked[w], asking) \in Seq(Asked) /\ Append(asked[w], asking) = <<asking>>
    BY <2>2, <2>4
  <2>8. asked' = [asked EXCEPT ![w] = <<asking>>] /\ <<asking>> \in Seq(Asked)
    BY <2>1, <2>7
  <2>9. SoakTypeOK'
    BY <2>1, <2>5, <2>8 DEF SoakTypeOK, SoakPlaces
  <2>10. OneUnderWay'
    BY <2>1, <2>2, <2>6, <2>8 DEF SoakTypeOK, OneUnderWay
  <2>11. SendHasSession' /\ OwnAnswer'
    BY <2>1 DEF SoakTypeOK, SendHasSession, OwnAnswer
  <2> QED
    BY <2>9, <2>10, <2>11
<1>7. CASE \E good \in BOOLEAN, received \in 1..(FIRST_CALL_ID + Requests) :
              HostAnswers(w, received, good)
  <2>1. PICK good \in BOOLEAN, received \in 1..(FIRST_CALL_ID + Requests) :
               HostAnswers(w, received, good)
    BY <1>7
  <2> DEFINE answered == [call_id |-> received, good |-> good, about |-> Head(asked[w]).about]
  <2>2. /\ asked[w] # <<>>
        /\ wire' = [wire EXCEPT ![w] = Append(wire[w], answered)]
        /\ asked' = [asked EXCEPT ![w] = Tail(asked[w])]
        /\ UNCHANGED <<drawn, at, holding, session, exchanged>>
    BY <2>1 DEF HostAnswers, queue, SoakTypeOK
  <2>3. /\ at[w] = "reading" /\ Len(asked[w]) = 1 /\ asked[w][1].about = holding[w]
        /\ wire[w] = <<>> /\ asked[w] \in Seq(Asked)
    BY <2>2 DEF OneUnderWay, SoakTypeOK
  <2>4. Head(asked[w]) = asked[w][1] /\ asked[w][1] \in Asked /\ Tail(asked[w]) = <<>>
    BY <2>3, OnlyOne
  <2>5. answered \in Answered /\ answered.about = holding[w]
    BY <2>3, <2>4 DEF Answered, Asked
  <2> HIDE DEF answered
  <2>6. wire' = [wire EXCEPT ![w] = <<answered>>] /\ <<answered>> \in Seq(Answered)
    BY <2>2, <2>3, <2>5
  <2>7. asked' = [asked EXCEPT ![w] = <<>>]
    BY <2>2, <2>4
  <2>8. SoakTypeOK'
    BY <2>2, <2>6, <2>7 DEF SoakTypeOK
  <2>9. OneUnderWay'
    BY <2>2, <2>3, <2>5, <2>6, <2>7 DEF SoakTypeOK, OneUnderWay
  <2>10. SendHasSession' /\ OwnAnswer'
    BY <2>2 DEF SendHasSession, OwnAnswer
  <2> QED
    BY <2>8, <2>9, <2>10
<1>8. CASE ReadGood(w)
  <2> DEFINE noticed == {Noticed(s, Head(wire[w]).call_id) : s \in session[w]}
  <2>1. /\ at[w] = "reading" /\ wire[w] # <<>>
        /\ wire' = [wire EXCEPT ![w] = Tail(wire[w])]
        /\ session' = [session EXCEPT ![w] = noticed]
        /\ exchanged' = exchanged \cup {<<holding[w], Head(wire[w]).about>>}
        /\ at' = [at EXCEPT ![w] = "epid"]
        /\ UNCHANGED <<drawn, holding, asked>>
    BY <1>8 DEF ReadGood, Goto, queue, SoakTypeOK
  <2>2. /\ Len(wire[w]) = 1 /\ wire[w][1].about = holding[w]
        /\ asked[w] = <<>> /\ wire[w] \in Seq(Answered)
    BY <2>1 DEF OneUnderWay, SoakTypeOK
  <2>3. Head(wire[w]) = wire[w][1] /\ Tail(wire[w]) = <<>>
    BY <2>2, OnlyOne
  <2>4. noticed \subseteq SessionState
    BY NoticedTyped DEF SoakTypeOK
  <2> HIDE DEF noticed
  <2>5. wire' = [wire EXCEPT ![w] = <<>>]
    BY <2>1, <2>3
  <2>6. SoakTypeOK'
    BY <2>1, <2>4, <2>5 DEF SoakTypeOK, SoakPlaces
  <2>7. OneUnderWay'
    BY <2>1, <2>2, <2>5 DEF SoakTypeOK, OneUnderWay
  <2>8. SendHasSession'
    BY <2>1 DEF SoakTypeOK, SendHasSession
  <2>9. OwnAnswer'
    BY <2>1, <2>2, <2>3 DEF OwnAnswer
  <2> QED
    BY <2>6, <2>7, <2>8, <2>9
<1>9. CASE SeeEpid(w)
  <2>1. at[w] = "epid" /\ at' = [at EXCEPT ![w] = "take"]
    BY <1>9 DEF SeeEpid, Goto
  <2>2. UNCHANGED <<drawn, holding, session, wire, asked, exchanged>>
    BY <1>9 DEF SeeEpid, stream, queue
  <2>3. SoakTypeOK'
    BY <2>1, <2>2 DEF SoakTypeOK, SoakPlaces
  <2>4. OneUnderWay' /\ SendHasSession' /\ OwnAnswer'
    BY <2>1, <2>2 DEF SoakTypeOK, OneUnderWay, SendHasSession, OwnAnswer
  <2> QED
    BY <2>3, <2>4
<1> QED
  BY <1>1, <1>2, <1>3, <1>4, <1>5, <1>6, <1>7, <1>8, <1>9 DEF worker

\* Nothing else the program or the world does touches the soak.
LEMMA SoakInvStep == SoakInv /\ [Next]_vars => SoakInv'
<1> SUFFICES ASSUME SoakInv, [Next]_vars PROVE SoakInv'
  OBVIOUS
<1>1. CASE SoakNext
  BY <1>1, SoakInvNext
<1>2. CASE UNCHANGED soak_vars
  BY <1>2 DEF SoakInv, SoakTypeOK, OneUnderWay, SendHasSession, OwnAnswer, soak_vars, queue,
              stream
<1>3. SoakNext \/ UNCHANGED soak_vars
  BY DEF Next, vars, MainStep, Soaking, Break, ComeUp, OthersCome, Expires, Usage, PrintCatalog,
         TargetGiven, Resolve, Order, Try, Start, Pair, Fail, CompareGroups, Ndr32Alone, Absurd,
         Verdict, HealthCheck, ChargeOnce, ChargeSpent, plan, Soaked
<1> QED
  BY <1>1, <1>2, <1>3

\* No answer is taken for another request's, although identifiers are not relied
\* on and a reply may come after its timeout (worker and Session::activate).
THEOREM ClientOwnAnswer == Spec => []OwnAnswer
<1>1. Init => SoakInv
  BY SoakInvInit DEF Init
<1>2. SoakInv => OwnAnswer
  BY DEF SoakInv
<1> QED
  BY <1>1, <1>2, SoakInvStep, PTL DEF Spec

(***************************************************************************)
(* One run of the program.  First where it can be, given what it was asked *)
(* to do, and the types.                                                   *)
(***************************************************************************)
Asking == {"usage", "help", "list", "resolve", "order", "try", "start"}

Probing == {"pair", "ndr32", "absurd", "verdict"}

ToolTypeOK ==
    /\ run \in Arguments /\ traits \in Trait
    /\ up \subseteq Addresses
    /\ place \in Asking \cup Probing \cup {"health", "charge", "soak", "done"}
    /\ address = {} \/ \E a \in Addresses : address = {a}
    /\ zone \in Seq(SrvRecord) /\ records \in Seq(SrvRecord) /\ ordered \in Seq(SrvRecord)
    /\ held \in Nat /\ best \in Nat /\ stalled \in Nat /\ count \in Nat
    /\ verdict \in {"none", "Reached", "Saturated"}

ModeInv ==
    /\ place = "help" => run.help
    /\ place = "list" => run.mode = "List"
    /\ place \notin {"usage", "help", "list", "done"} => run.mode # "List"
    /\ place \in Probing => run.mode = "Probe"
    /\ place = "health" => run.mode = "HealthCheck"
    /\ place = "charge" => run.mode = "Charge"
    /\ place = "soak" => run.mode = "Soak"

ToolInv == ToolTypeOK /\ ModeInv

(***************************************************************************)
(* Discovery: every record of the zone is among those to be ordered, or    *)
(* those to be tried with every address not tried yet, or was tried; and   *)
(* what is ordered is sorted and comes before what is not.                 *)
(***************************************************************************)
\* The candidate still has every address of the record that was not tried.
Keeps(candidate, record) ==
    /\ candidate.priority = record.priority
    /\ \A k \in DOMAIN record.at :
          record.at[k] \in tried \/ \E m \in DOMAIN candidate.at : candidate.at[m] = record.at[k]

NothingLost ==
    \A i \in DOMAIN zone :
        \/ AllTried(zone[i])
        \/ \E j \in DOMAIN records : records[j] = zone[i]
        \/ \E j \in DOMAIN ordered : Keeps(ordered[j], zone[i])

InOrder ==
    /\ \A i, j \in DOMAIN ordered : i < j => ordered[i].priority =< ordered[j].priority
    /\ \A i \in DOMAIN ordered, j \in DOMAIN records : ordered[i].priority =< records[j].priority

DiscoveryPlaces ==
    /\ place \in {"usage", "help", "list", "resolve", "order", "try"} => address = {}
    /\ place \notin {"order", "try"} /\ address = {} => ordered = <<>>
    /\ place = "try" => records = <<>>
    /\ run.discover /\ address # {} => records = <<>> /\ ordered # <<>>

DiscoveryInv == NothingLost /\ InOrder /\ DiscoveryPlaces

(***************************************************************************)
(* The probe: what it has found gives the host away, and it has found all  *)
(* that its stage looks for.                                               *)
(***************************************************************************)
FoundIsTold ==
    findings \ Tells \subseteq (IF broken # {} THEN {"Ndr32NotSupported", "ProbeRefused"} ELSE {})

\* An activation went through, so the host was there and bound.
Met == groups > 0 \/ round = 1 \/ place # "pair"

StageInv ==
    /\ pending \subseteq run.versions
    /\ groups = Cardinality(run.versions \ pending)
    /\ round \in {0, 1}
    /\ held = 0
    /\ FoundIsTold
    /\ Met => Binds(TRUE) /\ (broken = {} => Works) /\ Judged \subseteq findings
    /\ groups > 0 => (traits.epid = "fresh" => "EpidNotStable" \in findings)
    /\ place # "pair" => pending = {}
    /\ place # "pair" /\ traits.group = "constant" /\ Cardinality(run.versions) > 1
         => "AssociationGroupConstant" \in findings
    /\ place \in {"absurd", "verdict"} /\ broken = {} /\ "ndr32" \notin traits.syntaxes
         => "Ndr32NotSupported" \in findings
    /\ place = "verdict" /\ broken = {} => Tells \subseteq findings

ProbeInv ==
    /\ place \in Asking =>
         pending = run.versions /\ round = 0 /\ groups = 0 /\ findings = {}
    /\ place \in Probing => StageInv
    /\ VerdictEarned

(***************************************************************************)
(* Charging: a host that has not been charged yet is one that counts, or   *)
(* this one with a demand past what it tracks; and a host that counts has  *)
(* counted every machine sent.                                             *)
(***************************************************************************)
ChargeInv ==
    /\ place \notin {"charge", "done"} => held = 0 /\ best = 0 /\ stalled = 0 /\ count = 0
    /\ verdict # "none" => place = "done"
    /\ place = "charge" =>
         /\ count = 0 => best = 0
         /\ count > 0 => \/ traits.count = "this" /\ run.threshold > MaxTracked
                         \/ traits.count = "genuine" /\ best < run.threshold
         /\ traits.count = "genuine" /\ ~expired /\ run.threshold =< MaxCached
              => count =< best /\ best =< held /\ stalled = 0
    /\ ChargeReaches

\* The running sums are what their recursive definition says, and naturals.
LEMMA RunningSteps ==
    ASSUME NEW s \in Seq(SrvRecord)
    PROVE  /\ Running(s)[0] = 0
           /\ \A i \in 1..Len(s) :
                 Running(s)[i] =
                   Running(s)[i - 1] + (IF i \in Group(s) THEN s[i].weight ELSE 0)
           /\ Running(s) \in [0..Len(s) -> Nat]
<1> DEFINE W == [i \in 1..Len(s) |-> IF i \in Group(s) THEN s[i].weight ELSE 0]
           Eqn(f) == f = [i \in 0..Len(s) |->
                            IF i = 0 THEN 0
                            ELSE f[i - 1] + (IF i \in Group(s) THEN s[i].weight ELSE 0)]
<1>1. \A i \in 1..Len(s) : s[i].weight \in Nat
  <2>1. \A i \in 1..Len(s) : s[i] \in SrvRecord
    OBVIOUS
  <2> QED
    BY <2>1 DEF SrvRecord
<1>2. W \in [1..Len(s) -> Nat] /\ Len(s) \in Nat
  BY <1>1
<1>3. PICK g \in [0..Len(s) -> Nat] :
             g[0] = 0 /\ \A i \in 1..Len(s) : g[i] = g[i - 1] + W[i]
  BY <1>2, SumsExist
<1>4. Eqn(g)
  BY <1>2, <1>3
<1>5. Running(s) = CHOOSE f : Eqn(f)
  BY DEF Running
<1> DEFINE f == Running(s)
<1>6. Eqn(f)
  <2> HIDE DEF Eqn
  <2> QED
    BY <1>4, <1>5
<1> HIDE DEF f
<1>7. \A i \in 0..Len(s) :
        f[i] = IF i = 0 THEN 0
               ELSE f[i - 1] + (IF i \in Group(s) THEN s[i].weight ELSE 0)
  BY <1>6
<1>8. f[0] = 0 /\ \A i \in 1..Len(s) : f[i] = f[i - 1] + W[i]
  BY <1>2, <1>7
<1>9. f \in [0..Len(s) -> Nat]
  BY <1>2, <1>6, <1>8, SumsTyped
<1> QED
  BY <1>8, <1>9 DEF f

\* The drawn number is reached by a record of the lowest priority.
LEMMA ChosenIsLowest ==
    ASSUME NEW s \in Seq(SrvRecord), s # <<>>,
           NEW n \in draw_below(Running(s)[Len(s)] + 1)
    PROVE  /\ Chosen(s, n) \in 1..Len(s)
           /\ \A j \in 1..Len(s) : s[Chosen(s, n)].priority =< s[j].priority
<1>1. Len(s) \in Nat /\ Len(s) # 0 /\ DOMAIN s = 1..Len(s)
  BY EmptySeq
<1>2. \A i \in 1..Len(s) : s[i].priority \in Nat /\ s[i].weight \in Nat
  <2>1. \A i \in 1..Len(s) : s[i] \in SrvRecord
    OBVIOUS
  <2> QED
    BY <2>1 DEF SrvRecord
<1> DEFINE f == Running(s)
<1>3. f \in [0..Len(s) -> Nat]
  BY RunningSteps
<1>4. /\ f[0] = 0
      /\ \A i \in 1..Len(s) : f[i] = f[i - 1] + (IF i \in Group(s) THEN s[i].weight ELSE 0)
  BY RunningSteps
<1>5. n \in Nat /\ n =< f[Len(s)]
  BY <1>1, <1>3 DEF draw_below
<1> HIDE DEF f
<1> DEFINE reaching == {i \in Group(s) : f[i] >= n}
<1>6. Group(s) # {} /\ Group(s) \subseteq 1..Len(s)
  <2> DEFINE priorities == {s[i].priority : i \in 1..Len(s)}
  <2>1. priorities \in SUBSET Nat /\ priorities # {}
    BY <1>1, <1>2
  <2>2. PICK p \in priorities : \A q \in priorities : p =< q
    BY <2>1, LeastExists
  <2>3. PICK i \in 1..Len(s) : s[i].priority = p
    OBVIOUS
  <2>4. i \in Group(s)
    BY <1>1, <2>2, <2>3 DEF Group
  <2> QED
    BY <1>1, <2>4 DEF Group
<1>7. reaching # {}
  <2> DEFINE far == {i \in 0..Len(s) : f[i] >= n}
  <2>1. far \in SUBSET Nat /\ far # {}
    BY <1>1, <1>3, <1>5
  <2>2. PICK j \in far : \A i \in far : j =< i
    BY <2>1, LeastExists
  <2>3. CASE j = 0
    <3>1. n = 0
      BY <1>4, <1>5, <2>3
    <3>2. PICK i \in Group(s) : TRUE
      BY <1>6
    <3>3. f[i] \in Nat
      BY <1>1, <1>3, <1>6
    <3> QED
      BY <3>1, <3>3
  <2>4. CASE j # 0
    <3>1. j \in 1..Len(s) /\ j - 1 \in 0..Len(s) /\ j - 1 \notin far
      <4>1. j \in 1..Len(s) /\ j - 1 \in 0..Len(s)
        BY <1>1, <2>4
      <4> HIDE DEF far
      <4> QED
        BY <2>2, <4>1
    <3>2. f[j - 1] < n /\ f[j] >= n /\ f[j - 1] \in Nat
      BY <1>3, <1>5, <3>1
    <3>3. j \in Group(s)
      BY <1>4, <1>5, <3>1, <3>2
    <3> QED
      BY <3>2, <3>3
  <2> QED
    BY <2>3, <2>4
<1>8. Chosen(s, n) = Min(reaching)
  BY DEF Chosen, f
<1>9. reaching \in SUBSET Nat /\ reaching \subseteq Group(s)
  BY <1>1, <1>6
<1>10. Chosen(s, n) \in Group(s)
  <2> HIDE DEF reaching
  <2> QED
    BY <1>7, <1>8, <1>9, MinIsLeast
<1> QED
  BY <1>1, <1>6, <1>10 DEF Group

\* One element is taken out, and the others are left.
LEMMA WithoutNthFacts ==
    ASSUME NEW T, NEW s \in Seq(T), NEW n \in 1..Len(s)
    PROVE  /\ WithoutNth(s, n) \in Seq(T)
           /\ Len(WithoutNth(s, n)) = Len(s) - 1
           /\ \A i \in 1..Len(WithoutNth(s, n)) :
                 \E j \in 1..Len(s) : WithoutNth(s, n)[i] = s[j]
           /\ \A j \in 1..Len(s) : j # n =>
                 \E i \in 1..Len(WithoutNth(s, n)) : WithoutNth(s, n)[i] = s[j]
<1> DEFINE r == WithoutNth(s, n)
<1>1. Len(s) \in Nat /\ Len(s) - 1 \in Nat
  OBVIOUS
<1>2. \A i \in 1..(Len(s) - 1) : i \in 1..Len(s) /\ i + 1 \in 1..Len(s)
  BY <1>1
<1>3. r = [i \in 1..(Len(s) - 1) |-> IF i < n THEN s[i] ELSE s[i + 1]]
  BY DEF WithoutNth
<1>4. \A i \in 1..(Len(s) - 1) : r[i] \in T
  BY <1>2, <1>3
<1>5. r \in Seq(T) /\ Len(r) = Len(s) - 1
  BY <1>1, <1>3, <1>4
<1>6. \A i \in 1..(Len(s) - 1) : \E j \in 1..Len(s) : r[i] = s[j]
  BY <1>2, <1>3
<1>7. ASSUME NEW j \in 1..Len(s), j # n
      PROVE  \E i \in 1..(Len(s) - 1) : r[i] = s[j]
  <2>1. CASE j < n
    <3>1. j \in 1..(Len(s) - 1) /\ r[j] = s[j]
      BY <1>1, <1>3, <2>1
    <3> QED
      BY <3>1
  <2>2. CASE j > n
    <3>1. j - 1 \in 1..(Len(s) - 1) /\ ~(j - 1 < n) /\ (j - 1) + 1 = j
      BY <1>1, <2>2
    <3>2. r[j - 1] = s[j]
      BY <1>3, <3>1
    <3> QED
      BY <3>1, <3>2
  <2> QED
    BY <1>7, <2>1, <2>2
<1> HIDE DEF r
<1>8. /\ r \in Seq(T) /\ Len(r) = Len(s) - 1
      /\ \A i \in 1..Len(r) : \E j \in 1..Len(s) : r[i] = s[j]
      /\ \A j \in 1..Len(s) : j # n => \E i \in 1..Len(r) : r[i] = s[j]
  BY <1>5, <1>6, <1>7
<1> QED
  BY <1>8 DEF r

LEMMA ToolInvInit == Init => ToolInv
<1> SUFFICES ASSUME Init PROVE ToolInv
  OBVIOUS
<1> USE DEF Init
<1>1. run \in Arguments
  BY CommandLineAssumption
<1>2. traits \in Trait /\ zone \in Seq(SrvRecord) /\ up \subseteq Addresses
  BY ClientToolAssumption DEF ClientToolAssumption
<1>3. records \in Seq(SrvRecord) /\ ordered \in Seq(SrvRecord)
  BY <1>2
<1>4. run.error \in BOOLEAN /\ run.help \in BOOLEAN
  BY <1>1 DEF Arguments
<1>5. /\ place \in {"usage", "help", "list", "resolve"}
      /\ place = "help" => run.help
      /\ place = "list" => run.mode = "List"
      /\ place = "resolve" => run.mode # "List"
  BY <1>4
<1> QED
  BY <1>1, <1>2, <1>3, <1>5 DEF ToolInv, ToolTypeOK, ModeInv, Asking, Probing

\* The run, the host and the zone are given once.
LEMMA Given == [Next]_vars => UNCHANGED <<run, traits, zone>>
BY DEF Next, vars, tool, discovery, MainStep, Soaking, Break, ComeUp, OthersCome, Expires, Usage,
       PrintCatalog, TargetGiven, Resolve, Order, Try, Start, Pair, Fail, CompareGroups,
       Ndr32Alone, Absurd, Verdict, HealthCheck, ChargeOnce, ChargeSpent, plan, Soaked

\* Each mode has a place to start at.
LEMMA StartGoes ==
    ASSUME ToolInv, Start
    PROVE  /\ place = "start"
           /\ \/ run.mode = "Probe" /\ place' = "pair"
              \/ run.mode = "HealthCheck" /\ place' = "health"
              \/ run.mode = "Charge" /\ place' = "charge"
<1>1. run.mode \in {"Probe", "HealthCheck", "Charge"} /\ place = "start"
  BY DEF Start, ToolInv, ToolTypeOK, Arguments, ModeInv
<1>2. place' = CASE run.mode = "Probe" -> "pair" [] run.mode = "HealthCheck" -> "health"
                 [] run.mode = "Charge" -> "charge"
  BY DEF Start
<1> QED
  BY <1>1, <1>2

LEMMA ToolInvNext == ToolInv /\ [Next]_vars => ToolInv'
<1> SUFFICES ASSUME ToolInv, [Next]_vars PROVE ToolInv'
  OBVIOUS
<1> USE DEF ToolInv
<1>0. UNCHANGED <<run, traits, zone>>
  BY Given
<1>1. CASE Order
  <2>1. UNCHANGED <<up, address, held, best, stalled, count, verdict>>
    BY <1>1 DEF Order, world, charging
  <2>2. place' \in {"order", "try"} /\ place = "order"
    BY <1>1 DEF Order
  <2>3. records' \in Seq(SrvRecord) /\ ordered' \in Seq(SrvRecord)
    <3>1. CASE records = <<>>
      BY <1>1, <3>1 DEF Order, ToolTypeOK
    <3>2. CASE records # <<>>
      <4>1. PICK n \in draw_below(Running(records)[Len(records)] + 1) :
                   /\ ordered' = Append(ordered, records[Chosen(records, n)])
                   /\ records' = WithoutNth(records, Chosen(records, n))
        BY <1>1, <3>2 DEF Order
      <4>2. Chosen(records, n) \in 1..Len(records) /\ records \in Seq(SrvRecord)
        BY <3>2, ChosenIsLowest DEF ToolTypeOK
      <4>3. records[Chosen(records, n)] \in SrvRecord
        BY <4>2
      <4> QED
        BY <4>1, <4>2, <4>3, WithoutNthFacts DEF ToolTypeOK
    <3> QED
      BY <3>1, <3>2
  <2> QED
    BY <1>0, <2>1, <2>2, <2>3 DEF ToolTypeOK, ModeInv, Asking, Probing
<1>2. CASE Try
  <2>1. UNCHANGED <<up, records, held, best, stalled, count, verdict>>
    BY <1>2 DEF Try, world, charging
  <2>2. place = "try" /\ place' \in {"try", "start", "done"}
    BY <1>2 DEF Try, Exit
  <2>3. address' = {} \/ \E a \in Addresses : address' = {a}
    BY <1>2 DEF Try, Exit, Reachable, ToolTypeOK
  <2>4. ordered' \in Seq(SrvRecord)
    <3>1. \/ ordered' = ordered
          \/ ordered # <<>> /\ ordered' = Tail(ordered)
          \/ /\ ordered # <<>> /\ ordered[1].at # <<>>
             /\ ordered' = [ordered EXCEPT ![1].at = Tail(ordered[1].at)]
      <4>1. CASE ordered = <<>>
        BY <1>2, <4>1 DEF Try
      <4>2. CASE ordered # <<>>
        <5>1. ordered \in Seq(SrvRecord) /\ Head(ordered) = ordered[1] /\ 1 \in DOMAIN ordered
          BY <4>2 DEF ToolTypeOK
        <5> QED
          BY <1>2, <4>2, <5>1 DEF Try, addresses
      <4> QED
        BY <4>1, <4>2
    <3>2. ordered \in Seq(SrvRecord)
      BY DEF ToolTypeOK
    <3>3. CASE ordered # <<>> /\ ordered' = Tail(ordered)
      BY <3>2, <3>3
    <3>4. CASE /\ ordered # <<>> /\ ordered[1].at # <<>>
               /\ ordered' = [ordered EXCEPT ![1].at = Tail(ordered[1].at)]
      <4>1. ordered[1] \in SrvRecord
        BY <3>2, <3>4
      <4>2. Tail(ordered[1].at) \in Seq(Addresses \cup {"."})
        BY <3>4, <4>1 DEF SrvRecord
      <4>3. [ordered[1] EXCEPT !.at = Tail(ordered[1].at)] \in SrvRecord
        BY <4>1, <4>2 DEF SrvRecord
      <4>4. ordered' = [ordered EXCEPT ![1] = [ordered[1] EXCEPT !.at = Tail(ordered[1].at)]]
        BY <3>2, <3>4
      <4>5. 1 \in 1..Len(ordered)
        BY <3>2, <3>4
      <4> QED
        BY <3>2, <4>3, <4>4, <4>5, ExceptSeq
    <3> QED
      BY <3>1, <3>2, <3>3, <3>4
  <2> QED
    BY <1>0, <2>1, <2>2, <2>3, <2>4 DEF ToolTypeOK, ModeInv, Asking, Probing
<1>3. CASE TargetGiven
  <2>1. \E a \in Addresses : address' = {a}
    BY <1>3, ClientToolAssumption DEF TargetGiven, ClientToolAssumption
  <2> QED
    BY <1>0, <1>3, <2>1
       DEF TargetGiven, world, charging, ToolTypeOK, ModeInv, Asking, Probing
<1>4. CASE Start
  <2>1. /\ place = "start"
        /\ \/ run.mode = "Probe" /\ place' = "pair"
           \/ run.mode = "HealthCheck" /\ place' = "health"
           \/ run.mode = "Charge" /\ place' = "charge"
    BY <1>4, StartGoes
  <2>2. UNCHANGED <<up, address, records, ordered, held, best, stalled, count, verdict>>
    BY <1>4 DEF Start, world, discovery, charging
  <2> QED
    BY <1>0, <2>1, <2>2 DEF ToolTypeOK, ModeInv, Asking, Probing
<1>5. CASE ChargeOnce
  <2>1. CASE Fail
    BY <1>0, <2>1 DEF Fail, Exit, world, discovery, charging, ToolTypeOK, ModeInv, Asking, Probing
  <2>2. CASE ~Fail
    <3>1. /\ place = "charge" /\ held' = HeldAfter /\ count' = count + 1
          /\ UNCHANGED <<up, address, records, ordered>>
          /\ best' = best \/ best' = CountFor(held', run.threshold)
          /\ stalled' = 0 \/ stalled' = stalled + 1
          /\ verdict' \in {"none", "Reached", "Saturated"}
          /\ place' = "charge" \/ place' = "done"
      BY <1>5, <2>2 DEF ChargeOnce, Exit, discovery
    <3>2. held' \in Nat
      BY <3>1, ClientToolAssumption
         DEF HeldAfter, Counts!Least2, ToolTypeOK, ClientToolAssumption
    <3>3. CountFor(held', run.threshold) \in Nat
      <4>1. run.threshold \in Nat /\ traits.count \in {"this", "genuine", "floored", "doubled"}
        BY ClientToolAssumption DEF ToolTypeOK, Trait, Arguments, ClientToolAssumption
      <4>2. ASSUME NEW a \in Nat, NEW b \in Nat
            PROVE  Counts!Least2(a, b) \in Nat /\ Counts!Most2(a, b) \in Nat /\ 2 * b \in Nat
        BY DEF Counts!Least2, Counts!Most2
      <4>3. ASSUME NEW a \in Nat, NEW b \in Nat PROVE Counts!Reported(a, b) \in Nat
        <5> DEFINE tracked == Counts!Most2(1, Counts!Least2(b, MaxTracked))
                   known == Counts!Least2(a, 2 * tracked)
        <5>1. MaxTracked \in Nat
          BY ClientToolAssumption DEF ClientToolAssumption
        <5>2. tracked \in Nat
          BY <4>2, <5>1
        <5> HIDE DEF tracked
        <5>3. known \in Nat
          BY <4>2, <5>2
        <5> HIDE DEF known
        <5>4. Counts!Reported(a, b) = IF b > MaxTracked THEN known ELSE Counts!Most2(known, b)
          BY DEF Counts!Reported, known, tracked
        <5> QED
          BY <4>2, <5>3, <5>4
      <4> QED
        BY <1>0, <3>2, <4>1, <4>2, <4>3 DEF CountFor
    <3> QED
      BY <1>0, <3>1, <3>2, <3>3 DEF ToolTypeOK, ModeInv, Asking, Probing
  <2> QED
    BY <2>1, <2>2
<1>6. CASE \/ Usage \/ PrintCatalog \/ Resolve \/ Verdict \/ HealthCheck \/ plan \/ Soaked
           \/ Soaking \/ UNCHANGED vars
  <2>1. UNCHANGED <<up, address, records, ordered, held, best, stalled, count, verdict>>
    BY <1>6 DEF Usage, PrintCatalog, Resolve, Verdict, HealthCheck, plan, Soaked, Soaking, tool,
                vars, world, discovery, charging
  <2>2. \/ place' = place \/ place' = "done"
        \/ place = "resolve" /\ place' = "order"
        \/ place = "start" /\ run.mode = "Soak" /\ place' = "soak"
    BY <1>6 DEF Usage, PrintCatalog, Resolve, Verdict, HealthCheck, plan, Soaked, Soaking, tool,
                vars, Exit
  <2> QED
    BY <1>0, <2>1, <2>2 DEF ToolTypeOK, ModeInv, Asking, Probing
<1>7. CASE Pair \/ CompareGroups \/ Ndr32Alone \/ Absurd
  <2>1. UNCHANGED <<up, address, records, ordered, held, best, stalled, count, verdict>>
    BY <1>7 DEF Pair, Fail, CompareGroups, Ndr32Alone, Absurd, world, discovery, charging
  <2>2. place \in Probing /\ place' \in {place, "ndr32", "absurd", "verdict", "done"}
    BY <1>7 DEF Pair, Fail, CompareGroups, Ndr32Alone, Absurd, Exit, Probing
  <2> QED
    BY <1>0, <2>1, <2>2 DEF ToolTypeOK, ModeInv, Asking, Probing
<1>8. CASE ChargeSpent
  BY <1>0, <1>8 DEF ChargeSpent, Exit, world, discovery, ToolTypeOK, ModeInv, Asking, Probing
<1>9. CASE ComeUp \/ OthersCome \/ Expires \/ \E a \in Addresses : Break(a)
  <2>1. UNCHANGED <<place, address, records, ordered, best, stalled, count, verdict>>
    BY <1>9 DEF ComeUp, OthersCome, Expires, Break, discovery, charging
  <2>2. up' \subseteq Addresses
    BY <1>9 DEF ComeUp, OthersCome, Expires, Break, ToolTypeOK
  <2>3. held' \in Nat
    <3>1. held \in Nat
      BY DEF ToolTypeOK
    <3>2. held' = held \/ held' = held + 1 \/ (held > 0 /\ held' = held - 1)
      BY <1>9 DEF ComeUp, OthersCome, Expires, Break
    <3> QED
      BY <3>1, <3>2
  <2> QED
    BY <1>0, <2>1, <2>2, <2>3 DEF ToolTypeOK, ModeInv
<1> QED
  BY <1>1, <1>2, <1>3, <1>4, <1>5, <1>6, <1>7, <1>8, <1>9 DEF Next, MainStep

LEMMA DiscoveryInvInit == Init => DiscoveryInv
BY DEF Init, DiscoveryInv, NothingLost, InOrder, DiscoveryPlaces

\* What is left as it is stays in order and complete.
LEMMA SameDiscovery ==
    ASSUME DiscoveryInv, UNCHANGED <<zone, records, ordered, tried>>
    PROVE  NothingLost' /\ InOrder'
BY DEF DiscoveryInv, NothingLost, InOrder, Keeps, AllTried

\* One more record is put in order.
LEMMA OrderKeeps ==
    ASSUME ToolInv, DiscoveryInv, Order, records # <<>>
    PROVE  NothingLost' /\ InOrder'
<1>1. PICK n \in draw_below(Running(records)[Len(records)] + 1) :
             /\ ordered' = Append(ordered, records[Chosen(records, n)])
             /\ records' = WithoutNth(records, Chosen(records, n))
  BY DEF Order
<1> DEFINE m == Chosen(records, n)
           c == records[m]
<1>2. records \in Seq(SrvRecord) /\ ordered \in Seq(SrvRecord)
  BY DEF ToolInv, ToolTypeOK
<1>3. m \in 1..Len(records) /\ \A j \in 1..Len(records) : c.priority =< records[j].priority
  BY <1>2, ChosenIsLowest
<1> HIDE DEF m
<1>4. c \in SrvRecord
  BY <1>2, <1>3
<1>5. /\ records' \in Seq(SrvRecord)
      /\ \A i \in DOMAIN records' : \E j \in DOMAIN records : records'[i] = records[j]
      /\ \A j \in DOMAIN records : j # m => \E i \in DOMAIN records' : records'[i] = records[j]
  <2>1. records' = WithoutNth(records, m)
    BY <1>1 DEF m
  <2> DEFINE r == WithoutNth(records, m)
  <2>2. /\ r \in Seq(SrvRecord)
        /\ \A i \in 1..Len(r) : \E j \in 1..Len(records) : r[i] = records[j]
        /\ \A j \in 1..Len(records) : j # m => \E i \in 1..Len(r) : r[i] = records[j]
    BY <1>2, <1>3, WithoutNthFacts
  <2> HIDE DEF r
  <2>3. DOMAIN r = 1..Len(r) /\ DOMAIN records = 1..Len(records)
    BY <1>2, <2>2
  <2> QED
    BY <2>1, <2>2, <2>3 DEF r
<1>6. ordered' = Append(ordered, c)
  BY <1>1 DEF m
<1> HIDE DEF c
<1>7. /\ DOMAIN ordered = 1..Len(ordered) /\ DOMAIN ordered' = 1..(Len(ordered) + 1)
      /\ Len(ordered) \in Nat
      /\ ordered'[Len(ordered) + 1] = c
      /\ \A i \in DOMAIN ordered : ordered'[i] = ordered[i]
  BY <1>2, <1>4, <1>6
<1>8. UNCHANGED <<zone, tried>>
  BY DEF Order
<1>9. NothingLost'
  <2> SUFFICES ASSUME NEW i \in DOMAIN zone
               PROVE  \/ AllTried(zone[i])'
                      \/ \E j \in DOMAIN records' : records'[j] = zone[i]
                      \/ \E j \in DOMAIN ordered' : Keeps(ordered[j], zone[i])'
    BY <1>8 DEF NothingLost
  <2>1. CASE AllTried(zone[i])
    BY <1>8, <2>1 DEF AllTried
  <2>2. ASSUME NEW j \in DOMAIN records, records[j] = zone[i]
        PROVE  \/ \E k \in DOMAIN records' : records'[k] = zone[i]
               \/ \E k \in DOMAIN ordered' : Keeps(ordered[k], zone[i])'
    <3>1. CASE j # m
      BY <1>5, <2>2, <3>1
    <3>2. CASE j = m
      <4>1. zone[i] = c
        BY <2>2, <3>2 DEF c
      <4>2. Len(ordered) + 1 \in DOMAIN ordered' /\ ordered'[Len(ordered) + 1] = zone[i]
        BY <1>7, <4>1
      <4>3. \A k \in DOMAIN ordered' : ordered'[k] = zone[i] => Keeps(ordered[k], zone[i])'
        BY <1>8 DEF Keeps
      <4> QED
        BY <4>2, <4>3
    <3> QED
      BY <3>1, <3>2
  <2>3. ASSUME NEW j \in DOMAIN ordered, Keeps(ordered[j], zone[i])
        PROVE  \E k \in DOMAIN ordered' : Keeps(ordered[k], zone[i])'
    <3>1. j \in DOMAIN ordered' /\ ordered'[j] = ordered[j]
      BY <1>7
    <3>2. Keeps(ordered[j], zone[i])'
      BY <1>8, <2>3, <3>1 DEF Keeps
    <3> QED
      BY <3>1, <3>2
  <2> QED
    BY <2>1, <2>2, <2>3 DEF DiscoveryInv, NothingLost
<1>10. InOrder'
  <2>1. \A i \in DOMAIN ordered : ordered[i].priority =< c.priority
    BY <1>2, <1>3 DEF DiscoveryInv, InOrder, c
  <2>2. \A i, j \in DOMAIN ordered' : i < j => ordered'[i].priority =< ordered'[j].priority
    <3> SUFFICES ASSUME NEW i \in DOMAIN ordered', NEW j \in DOMAIN ordered', i < j
                 PROVE  ordered'[i].priority =< ordered'[j].priority
      OBVIOUS
    <3>1. i \in DOMAIN ordered
      BY <1>7
    <3>2. CASE j = Len(ordered) + 1
      BY <1>7, <2>1, <3>1, <3>2
    <3>3. CASE j # Len(ordered) + 1
      <4>1. j \in DOMAIN ordered
        BY <1>7, <3>3
      <4> QED
        BY <1>7, <3>1, <4>1 DEF DiscoveryInv, InOrder
    <3> QED
      BY <3>2, <3>3
  <2>3. \A i \in DOMAIN ordered', j \in DOMAIN records' :
           ordered'[i].priority =< records'[j].priority
    <3> SUFFICES ASSUME NEW i \in DOMAIN ordered', NEW j \in DOMAIN records'
                 PROVE  ordered'[i].priority =< records'[j].priority
      OBVIOUS
    <3>1. PICK k \in DOMAIN records : records'[j] = records[k]
      BY <1>5
    <3>2. CASE i = Len(ordered) + 1
      <4>1. k \in 1..Len(records)
        BY <1>2
      <4> QED
        BY <1>3, <1>7, <3>1, <3>2, <4>1
    <3>3. CASE i # Len(ordered) + 1
      <4>1. i \in DOMAIN ordered
        BY <1>7, <3>3
      <4> QED
        BY <1>7, <3>1, <4>1 DEF DiscoveryInv, InOrder
    <3> QED
      BY <3>2, <3>3
  <2> QED
    BY <2>2, <2>3 DEF InOrder
<1> QED
  BY <1>9, <1>10

\* A candidate without addresses left is passed over: all of its records' were
\* tried.
LEMMA PassOverKeeps ==
    ASSUME ToolInv, DiscoveryInv, ordered # <<>>, ordered[1].at = <<>>, ordered' = Tail(ordered),
           UNCHANGED <<zone, records, tried>>
    PROVE  NothingLost' /\ InOrder'
<1>1. ordered \in Seq(SrvRecord)
  BY DEF ToolInv, ToolTypeOK
<1>2. /\ DOMAIN ordered = 1..Len(ordered) /\ DOMAIN ordered' = 1..(Len(ordered) - 1)
      /\ Len(ordered) \in Nat \ {0}
      /\ \A i \in 1..(Len(ordered) - 1) : ordered'[i] = ordered[i + 1]
  BY <1>1
<1>3. NothingLost'
  <2> SUFFICES ASSUME NEW i \in DOMAIN zone
               PROVE  \/ AllTried(zone[i])'
                      \/ \E j \in DOMAIN records' : records'[j] = zone[i]
                      \/ \E j \in DOMAIN ordered' : Keeps(ordered[j], zone[i])'
    BY DEF NothingLost
  <2>1. CASE AllTried(zone[i]) \/ \E j \in DOMAIN records : records[j] = zone[i]
    BY <2>1 DEF AllTried
  <2>2. ASSUME NEW j \in DOMAIN ordered, Keeps(ordered[j], zone[i])
        PROVE  AllTried(zone[i])' \/ \E k \in DOMAIN ordered' : Keeps(ordered[k], zone[i])'
    <3>1. CASE j = 1
      <4>1. DOMAIN ordered[1].at = {}
        OBVIOUS
      <4> QED
        BY <2>2, <3>1, <4>1 DEF Keeps, AllTried
    <3>2. CASE j # 1
      <4>1. j - 1 \in DOMAIN ordered' /\ (j - 1) + 1 = j
        BY <1>2, <3>2
      <4>2. ordered'[j - 1] = ordered[j]
        BY <1>2, <4>1
      <4>3. \A k \in DOMAIN ordered' : ordered'[k] = ordered[j] => Keeps(ordered[k], zone[i])'
        BY <2>2 DEF Keeps
      <4> QED
        BY <4>1, <4>2, <4>3
    <3> QED
      BY <3>1, <3>2
  <2> QED
    BY <2>1, <2>2 DEF DiscoveryInv, NothingLost
<1>4. InOrder'
  <2>1. \A i \in DOMAIN ordered' : i \in 1..(Len(ordered) - 1) /\ i + 1 \in DOMAIN ordered
    BY <1>2
  <2>2. \A i, j \in DOMAIN ordered' : i < j => ordered'[i].priority =< ordered'[j].priority
    <3> SUFFICES ASSUME NEW i \in DOMAIN ordered', NEW j \in DOMAIN ordered', i < j
                 PROVE  ordered'[i].priority =< ordered'[j].priority
      OBVIOUS
    <3>1. i + 1 < j + 1
      BY <1>2
    <3> QED
      BY <1>2, <2>1, <3>1 DEF DiscoveryInv, InOrder
  <2>3. \A i \in DOMAIN ordered', j \in DOMAIN records' :
           ordered'[i].priority =< records'[j].priority
    BY <1>2, <2>1 DEF DiscoveryInv, InOrder
  <2> QED
    BY <2>2, <2>3 DEF InOrder
<1> QED
  BY <1>3, <1>4

\* An address that does not answer is taken off its candidate, and noted.
LEMMA NoAnswerKeeps ==
    ASSUME ToolInv, DiscoveryInv, ordered # <<>>, ordered[1].at # <<>>,
           tried' = tried \cup {ordered[1].at[1]},
           ordered' = [ordered EXCEPT ![1].at = Tail(@)],
           UNCHANGED <<zone, records>>
    PROVE  NothingLost' /\ InOrder'
<1>1. ordered \in Seq(SrvRecord) /\ ordered[1] \in SrvRecord
  BY DEF ToolInv, ToolTypeOK
<1> DEFINE s == ordered[1].at
<1>2. s \in Seq(Addresses \cup {"."}) /\ s # <<>>
  BY <1>1 DEF SrvRecord
<1>3. /\ DOMAIN s = 1..Len(s) /\ Len(s) \in Nat \ {0} /\ DOMAIN Tail(s) = 1..(Len(s) - 1)
      /\ \A k \in 1..(Len(s) - 1) : Tail(s)[k] = s[k + 1]
  BY <1>2
<1>4. /\ DOMAIN ordered' = DOMAIN ordered /\ 1 \in DOMAIN ordered
      /\ \A i \in DOMAIN ordered : i # 1 => ordered'[i] = ordered[i]
      /\ \A i \in DOMAIN ordered : ordered'[i].priority = ordered[i].priority
      /\ ordered'[1].at = Tail(s)
  BY <1>1 DEF SrvRecord
<1> HIDE DEF s
<1>5. \A x : (\E l \in DOMAIN s : s[l] = x) =>
        x \in tried' \/ \E l \in DOMAIN Tail(s) : Tail(s)[l] = x
  <2> SUFFICES ASSUME NEW l \in DOMAIN s, l # 1
               PROVE  \E k \in DOMAIN Tail(s) : Tail(s)[k] = s[l]
    BY DEF s
  <2>1. l - 1 \in DOMAIN Tail(s) /\ (l - 1) + 1 = l
    BY <1>3
  <2> QED
    BY <1>3, <2>1
<1>6. tried \subseteq tried'
  OBVIOUS
<1>7. NothingLost'
  <2> SUFFICES ASSUME NEW i \in DOMAIN zone
               PROVE  \/ AllTried(zone[i])'
                      \/ \E j \in DOMAIN records' : records'[j] = zone[i]
                      \/ \E j \in DOMAIN ordered' : Keeps(ordered[j], zone[i])'
    BY DEF NothingLost
  <2>1. CASE AllTried(zone[i]) \/ \E j \in DOMAIN records : records[j] = zone[i]
    BY <1>6, <2>1 DEF AllTried
  <2>2. ASSUME NEW j \in DOMAIN ordered, Keeps(ordered[j], zone[i])
        PROVE  Keeps(ordered[j], zone[i])'
    <3>1. CASE j = 1
      <4>1. ordered'[1].priority = zone'[i].priority
        BY <1>4, <2>2, <3>1 DEF Keeps
      <4>2. ASSUME NEW k \in DOMAIN zone[i].at
            PROVE  \/ zone[i].at[k] \in tried'
                   \/ \E l \in DOMAIN Tail(s) : Tail(s)[l] = zone[i].at[k]
        <5>1. zone[i].at[k] \in tried \/ \E l \in DOMAIN s : s[l] = zone[i].at[k]
          BY <2>2, <3>1 DEF Keeps, s
        <5> QED
          BY <1>5, <1>6, <5>1
      <4>3. \A k \in DOMAIN zone'[i].at :
              \/ zone'[i].at[k] \in tried'
              \/ \E l \in DOMAIN ordered'[1].at : ordered'[1].at[l] = zone'[i].at[k]
        <5>1. zone' = zone /\ ordered'[1].at = Tail(s)
          BY <1>4
        <5> QED
          BY ONLY <4>2, <5>1
      <4>4. Keeps(ordered[1], zone[i])'
        BY <4>1, <4>3 DEF Keeps
      <4> QED
        BY <3>1, <4>4
    <3>2. CASE j # 1
      BY <1>4, <1>6, <2>2, <3>2 DEF Keeps
    <3> QED
      BY <3>1, <3>2
  <2> QED
    BY <1>4, <2>1, <2>2 DEF DiscoveryInv, NothingLost
<1>8. InOrder'
  BY <1>4 DEF DiscoveryInv, InOrder
<1> QED
  BY <1>7, <1>8

LEMMA DiscoveryInvNext == ToolInv /\ DiscoveryInv /\ [Next]_vars => DiscoveryInv'
<1> SUFFICES ASSUME ToolInv, DiscoveryInv, [Next]_vars PROVE DiscoveryInv'
  OBVIOUS
<1>0. UNCHANGED <<run, traits, zone>>
  BY Given
<1>1. CASE Order
  <2>1. CASE records = <<>>
    <3>1. UNCHANGED <<records, ordered, tried, address>> /\ place = "order" /\ place' = "try"
      BY <1>1, <2>1 DEF Order
    <3> QED
      BY <1>0, <2>1, <3>1, SameDiscovery DEF DiscoveryInv, DiscoveryPlaces
  <2>2. CASE records # <<>>
    <3>1. place = "order" /\ UNCHANGED <<place, address>>
      BY <1>1, <2>2 DEF Order
    <3> QED
      BY <1>0, <1>1, <2>2, <3>1, OrderKeeps DEF DiscoveryInv, DiscoveryPlaces
  <2> QED
    BY <2>1, <2>2
<1>2. CASE Try
  <2>1. place = "try" /\ UNCHANGED records /\ records = <<>> /\ address = {}
    BY <1>2 DEF Try, DiscoveryInv, DiscoveryPlaces
  <2>2. CASE ordered = <<>>
    <3>1. UNCHANGED <<ordered, tried, address>> /\ place' = "done"
      BY <1>2, <2>2 DEF Try, Exit
    <3> QED
      BY <1>0, <2>1, <2>2, <3>1, SameDiscovery DEF DiscoveryInv, DiscoveryPlaces
  <2>3. CASE ordered # <<>>
    <3>1. ordered \in Seq(SrvRecord) /\ Head(ordered) = ordered[1] /\ ordered[1] \in SrvRecord
      BY <2>3 DEF ToolInv, ToolTypeOK
    <3>2. ordered[1].at \in Seq(Addresses \cup {"."})
      BY <3>1 DEF SrvRecord
    <3>3. CASE ordered[1].at = <<>>
      <4>1. ordered' = Tail(ordered) /\ UNCHANGED <<address, tried, place>>
        BY <1>2, <2>3, <3>1, <3>3 DEF Try, addresses
      <4> QED
        BY <1>0, <2>1, <2>3, <3>3, <4>1, PassOverKeeps DEF DiscoveryInv, DiscoveryPlaces
    <3>4. CASE ordered[1].at # <<>>
      <4>1. Head(ordered[1].at) = ordered[1].at[1]
        BY <3>2, <3>4
      <4>2. CASE Reachable(ordered[1].at[1])
        <5>1. /\ address' = {ordered[1].at[1]} /\ place' = "start"
              /\ UNCHANGED <<ordered, tried>>
          BY <1>2, <2>3, <3>1, <3>4, <4>1, <4>2 DEF Try, addresses
        <5> QED
          BY <1>0, <2>1, <2>3, <5>1, SameDiscovery DEF DiscoveryInv, DiscoveryPlaces
      <4>3. CASE ~Reachable(ordered[1].at[1])
        <5>1. /\ tried' = tried \cup {ordered[1].at[1]}
              /\ ordered' = [ordered EXCEPT ![1].at = Tail(@)]
              /\ UNCHANGED <<address, place>>
          BY <1>2, <2>3, <3>1, <3>4, <4>1, <4>3 DEF Try, addresses
        <5> QED
          BY <1>0, <2>1, <2>3, <3>4, <5>1, NoAnswerKeeps DEF DiscoveryInv, DiscoveryPlaces
      <4> QED
        BY <4>2, <4>3
    <3> QED
      BY <3>3, <3>4
  <2> QED
    BY <2>2, <2>3
<1>3. CASE TargetGiven
  <2>1. /\ ~run.discover /\ place' = "start" /\ place = "resolve" /\ address' # {}
        /\ UNCHANGED <<zone, records, ordered, tried>>
    BY <1>3 DEF TargetGiven
  <2> QED
    BY <1>0, <2>1, SameDiscovery DEF DiscoveryInv, DiscoveryPlaces
<1>4. CASE ~Order /\ ~Try /\ ~TargetGiven
  <2>1. UNCHANGED <<zone, records, ordered, address, tried>>
    BY <1>4 DEF Next, vars, tool, discovery, MainStep, Soaking, Break, ComeUp, OthersCome, Expires,
         Usage, PrintCatalog, Resolve, Start, Pair, Fail, CompareGroups, Ndr32Alone, Absurd,
         Verdict, HealthCheck, ChargeOnce, ChargeSpent, plan, Soaked
  <2>2. \/ place' = place
        \/ /\ place \notin {"order", "try"}
           /\ place' \notin {"usage", "help", "list", "resolve", "order", "try"}
        \/ place = "resolve" /\ place' = "order"
    <3>1. CASE Start
      <4>1. place' \in {"pair", "health", "charge"} /\ place = "start"
        BY <3>1, StartGoes
      <4> QED
        BY <4>1
    <3>2. CASE ~Start
      BY <1>4, <3>2 DEF Next, vars, tool, MainStep, Soaking, Break, ComeUp, OthersCome, Expires,
           Usage, PrintCatalog, Resolve, Pair, Fail, CompareGroups, Ndr32Alone, Absurd,
           Verdict, HealthCheck, ChargeOnce, ChargeSpent, plan, Soaked, Exit
    <3> QED
      BY <3>1, <3>2
  <2> QED
    BY <1>0, <2>1, <2>2, SameDiscovery DEF DiscoveryInv, DiscoveryPlaces
<1> QED
  BY <1>1, <1>2, <1>3, <1>4

LEMMA DiscoveryInvMeans == ToolInv /\ DiscoveryInv => FirstWorking
<1> SUFFICES ASSUME ToolInv, DiscoveryInv, run.discover PROVE FirstWorking
  BY DEF FirstWorking
<1>1. ordered \in Seq(SrvRecord)
  BY DEF ToolInv, ToolTypeOK
<1>2. ASSUME address # {}, NEW i \in DOMAIN zone, zone[i].priority < Head(ordered).priority
      PROVE  AllTried(zone[i])
  <2>1. records = <<>> /\ ordered # <<>>
    BY <1>2 DEF DiscoveryInv, DiscoveryPlaces
  <2>2. Head(ordered) = ordered[1] /\ 1 \in DOMAIN ordered /\ DOMAIN ordered \subseteq Nat \ {0}
    BY <1>1, <2>1
  <2>3. \A j \in DOMAIN ordered : ordered[j].priority \in Nat
    <3>1. \A j \in DOMAIN ordered : ordered[j] \in SrvRecord
      BY <1>1
    <3> QED
      BY <3>1 DEF SrvRecord
  <2>4. \A j \in DOMAIN ordered : ordered[1].priority =< ordered[j].priority
    <3> SUFFICES ASSUME NEW j \in DOMAIN ordered
                 PROVE  ordered[1].priority =< ordered[j].priority
      OBVIOUS
    <3>1. CASE j = 1
      BY <2>3, <3>1
    <3>2. CASE j # 1
      BY <2>2, <3>2 DEF DiscoveryInv, InOrder
    <3> QED
      BY <3>1, <3>2
  <2>5. ASSUME NEW j \in DOMAIN ordered, Keeps(ordered[j], zone[i])
        PROVE  FALSE
    <3>1. ordered[j].priority = zone[i].priority
      BY <2>5 DEF Keeps
    <3> QED
      BY <1>2, <2>2, <2>3, <2>4, <3>1
  <2> QED
    BY <2>1, <2>5 DEF DiscoveryInv, NothingLost
<1>3. ASSUME place = "done", address = {}, records = <<>>, NEW i \in DOMAIN zone
      PROVE  AllTried(zone[i])
  <2>1. ordered = <<>>
    BY <1>3 DEF DiscoveryInv, DiscoveryPlaces
  <2> QED
    BY <1>3, <2>1 DEF DiscoveryInv, NothingLost
<1> QED
  BY <1>2, <1>3 DEF FirstWorking

\* What gives a host away, one by one.
LEMMA TellsAre ==
    /\ Judged \subseteq Tells
    /\ "EpidNotStable" \in Tells \ Judged <=> traits.epid = "fresh"
    /\ "AssociationGroupConstant" \in Tells \ Judged
         <=> traits.group = "constant" /\ Cardinality(run.versions) > 1
    /\ "Ndr32NotSupported" \in Tells \ Judged <=> "ndr32" \notin traits.syntaxes
    /\ "ProbeRefused" \in Tells \ Judged <=> traits.refuses
    /\ "AbsurdCountReflected" \in Tells \ Judged
         <=> ~traits.refuses /\ traits.count \in {"floored", "doubled"}
    /\ Tells \ Judged \subseteq {"EpidNotStable", "AssociationGroupConstant", "Ndr32NotSupported",
                                 "ProbeRefused", "AbsurdCountReflected"}
BY DEF Tells, Judged

LEMMA SameTells ==
    ASSUME UNCHANGED <<run, traits>>
    PROVE  Tells' = Tells /\ Judged' = Judged /\ Binds(TRUE)' = Binds(TRUE)
BY DEF Tells, Judged, Binds

\* With no machine held but the probe's own, only a host that floors or doubles
\* the count reflects the absurd demand.
LEMMA AbsurdCount ==
    ASSUME ToolInv, held = 0
    PROVE  CountFor(held + 1, AbsurdDemand) >= AbsurdDemand
             <=> traits.count \in {"floored", "doubled"}
<1>1. traits.count \in {"this", "genuine", "floored", "doubled"}
  BY DEF ToolInv, ToolTypeOK, Trait
<1>2. /\ MaxTracked \in Nat \ {0} /\ AbsurdDemand \in Nat /\ AbsurdDemand > 1
      /\ AbsurdDemand > MaxTracked
  BY ClientToolAssumption DEF ClientToolAssumption
<1>3. held + 1 = 1
  OBVIOUS
<1>4. CASE traits.count = "this"
  <2>1. CountFor(1, AbsurdDemand) = Counts!Reported(1, AbsurdDemand)
    BY <1>4 DEF CountFor
  <2>2. Counts!Reported(1, AbsurdDemand) =< 1
    BY <1>2 DEF Counts!Reported, Counts!Least2, Counts!Most2
  <2>3. Counts!Reported(1, AbsurdDemand) \in Int
    BY <1>2 DEF Counts!Reported, Counts!Least2, Counts!Most2
  <2> QED
    BY <1>2, <1>3, <1>4, <2>1, <2>2, <2>3
<1>5. CASE traits.count = "genuine"
  BY <1>2, <1>3, <1>5 DEF CountFor, Counts!Least2
<1>6. CASE traits.count = "floored"
  BY <1>2, <1>3, <1>6 DEF CountFor, Counts!Most2
<1>7. CASE traits.count = "doubled"
  BY <1>2, <1>3, <1>7 DEF CountFor
<1> QED
  BY <1>1, <1>4, <1>5, <1>6, <1>7

\* The first round of a version's two activations, and then the second.
LEMMA PairKeeps ==
    ASSUME ToolInv, StageInv, Pair, place' = "pair"
    PROVE  StageInv'
<1>1. /\ place = "pair" /\ pending # {} /\ Works /\ Binds(TRUE)
      /\ round' = 1 - round
      /\ findings' = findings \cup Judged
           \cup (IF round = 1 /\ traits.epid = "fresh" THEN {"EpidNotStable"} ELSE {})
      /\ IF round = 1
           THEN /\ pending' = pending \ {CHOOSE v \in pending : TRUE}
                /\ groups' = groups + 1
           ELSE UNCHANGED <<pending, groups>>
      /\ UNCHANGED <<run, traits, up, held, broken, address>>
  BY DEF Pair, Fail, Exit, world, discovery
<1>2. Tells' = Tells /\ Judged' = Judged /\ Binds(TRUE)' = Binds(TRUE)
  BY <1>1, SameTells
<1>3. pending' \subseteq run.versions /\ groups' = Cardinality(run.versions \ pending')
  <2>1. CASE round = 1
    <3> DEFINE v == CHOOSE v \in pending : TRUE
    <3>1. v \in pending
      BY <1>1
    <3>2. pending' = pending \ {v} /\ groups' = groups + 1
      BY <1>1, <2>1
    <3> HIDE DEF v
    <3>3. run.versions \ pending' = (run.versions \ pending) \cup {v}
          /\ v \notin run.versions \ pending
      BY <3>1, <3>2 DEF StageInv
    <3>4. IsFiniteSet(run.versions \ pending)
      <4>1. run.versions \subseteq AllVersions
        BY DEF ToolInv, ToolTypeOK, Arguments
      <4>2. run.versions \ pending \subseteq AllVersions
        BY <4>1
      <4> QED
        BY <4>2, FS_Subset, ClientToolAssumption DEF ClientToolAssumption
    <3>5. Cardinality((run.versions \ pending) \cup {v}) = Cardinality(run.versions \ pending) + 1
      BY <3>3, <3>4, FS_AddElement
    <3> QED
      BY <3>2, <3>3, <3>5 DEF StageInv
  <2>2. CASE round # 1
    BY <1>1, <2>2 DEF StageInv
  <2> QED
    BY <2>1, <2>2
<1>4. round' \in {0, 1} /\ held' = 0
  BY <1>1 DEF StageInv
<1>5. Works' /\ Binds(TRUE)' /\ Judged' \subseteq findings'
  BY <1>1, <1>2 DEF Works
<1>6. FoundIsTold'
  <2>1. findings' \ Tells \subseteq findings \ Tells
    BY <1>1, TellsAre
  <2> QED
    BY <1>1, <1>2, <2>1 DEF StageInv, FoundIsTold
<1>7. groups' > 0 => (traits'.epid = "fresh" => "EpidNotStable" \in findings')
  <2>1. CASE round = 1
    BY <1>1, <2>1
  <2>2. CASE round # 1
    BY <1>1, <2>2 DEF StageInv
  <2> QED
    BY <2>1, <2>2
<1> QED
  BY <1>1, <1>3, <1>4, <1>5, <1>6, <1>7 DEF StageInv, Met

LEMMA ProbeInvInit == Init => ProbeInv
<1> SUFFICES ASSUME Init PROVE ProbeInv
  OBVIOUS
<1>1. run \in Arguments
  BY CommandLineAssumption DEF Init
<1>2. run.error \in BOOLEAN /\ run.help \in BOOLEAN
  BY <1>1 DEF Arguments
<1>3. place \in {"usage", "help", "list", "resolve"}
  BY <1>2 DEF Init
<1> QED
  BY <1>3 DEF Init, ProbeInv, VerdictEarned, Asking, Probing

\* A host that goes away or comes back while it is probed.
LEMMA WorldKeeps ==
    ASSUME ToolInv, StageInv, UNCHANGED <<run, traits, place, address, held, probing>>,
           \/ up' = Addresses /\ UNCHANGED broken
           \/ \E a \in Addresses : Break(a)
    PROVE  StageInv'
<1>1. UNCHANGED <<pending, round, groups, findings>>
  BY DEF probing
<1>2. Tells' = Tells /\ Judged' = Judged /\ Binds(TRUE)' = Binds(TRUE)
  BY SameTells
<1>3. broken' = {} => broken = {}
  BY DEF Break
<1>4. broken' = {} /\ Works => Works'
  <2>1. CASE up' = Addresses
    <3>1. address \subseteq Addresses
      BY DEF ToolInv, ToolTypeOK
    <3> QED
      BY <2>1, <3>1 DEF Works
  <2>2. CASE \E a \in Addresses : Break(a)
    BY <2>2 DEF Break, Works, ToolInv, ToolTypeOK
  <2> QED
    BY <2>1, <2>2
<1>5. FoundIsTold'
  BY <1>1, <1>2, <1>3 DEF StageInv, FoundIsTold
<1>6. Met' = Met
  BY <1>1 DEF Met
<1> QED
  BY <1>1, <1>2, <1>3, <1>4, <1>5, <1>6 DEF StageInv

\* Every version was activated, so the connections are all of them.
LEMMA CompareKeeps ==
    ASSUME ToolInv, StageInv, CompareGroups
    PROVE  StageInv'
<1>1. /\ place = "pair" /\ pending = {} /\ place' = "ndr32"
      /\ findings' = findings \cup (IF GroupRepeats THEN {"AssociationGroupConstant"} ELSE {})
      /\ UNCHANGED <<run, traits, up, held, broken, address, pending, round, groups>>
  BY DEF CompareGroups, world, discovery
<1>2. Tells' = Tells /\ Judged' = Judged /\ Binds(TRUE)' = Binds(TRUE)
  BY <1>1, SameTells
<1>3. groups = Cardinality(run.versions)
  BY <1>1 DEF StageInv
<1>4. groups \in Nat /\ groups > 0
  <2>1. run.versions \subseteq AllVersions /\ run.versions # {}
    BY DEF ToolInv, ToolTypeOK, Arguments
  <2>2. IsFiniteSet(run.versions)
    BY <2>1, FS_Subset, ClientToolAssumption DEF ClientToolAssumption
  <2> QED
    BY <1>3, <2>1, <2>2, FS_CardinalityType, FS_EmptySet
<1>5. Binds(TRUE) /\ (broken = {} => Works) /\ Judged \subseteq findings
  BY <1>4 DEF StageInv, Met
<1>6. FoundIsTold'
  <2>1. GroupRepeats => "AssociationGroupConstant" \in Tells
    BY <1>3, TellsAre DEF GroupRepeats
  <2>2. findings' \ Tells \subseteq findings \ Tells
    BY <1>1, <2>1
  <2> QED
    BY <1>1, <1>2, <2>2 DEF StageInv, FoundIsTold
<1>7. traits.group = "constant" /\ Cardinality(run.versions) > 1
        => "AssociationGroupConstant" \in findings'
  BY <1>1, <1>3 DEF GroupRepeats
<1>8. Works' = Works
  BY <1>1 DEF Works
<1> QED
  BY <1>1, <1>2, <1>5, <1>6, <1>7, <1>8 DEF StageInv

\* Only a host that went away, or one without NDR32, fails the NDR32-only bind.
LEMMA Ndr32Keeps ==
    ASSUME ToolInv, StageInv, Ndr32Alone, place' # "done"
    PROVE  StageInv'
<1>1. /\ place = "ndr32" /\ place' = "absurd"
      /\ findings' = findings \cup
           (IF Works /\ Binds(FALSE) THEN {} ELSE {"Ndr32NotSupported"})
      /\ UNCHANGED <<run, traits, up, held, broken, address, pending, round, groups>>
  BY DEF Ndr32Alone, Fail, Exit, world, discovery
<1>2. Tells' = Tells /\ Judged' = Judged /\ Binds(TRUE)' = Binds(TRUE)
  BY <1>1, SameTells
<1>3. Binds(TRUE) /\ (broken = {} => Works) /\ Judged \subseteq findings
  BY <1>1 DEF StageInv, Met
<1>4. Binds(FALSE) <=> "ndr32" \in traits.syntaxes
  BY DEF Binds
<1>5. FoundIsTold'
  <2>1. CASE broken = {}
    <3>1. findings \subseteq Tells
      BY <2>1 DEF StageInv, FoundIsTold
    <3>2. findings' \subseteq Tells
      BY <1>1, <1>3, <1>4, <2>1, <3>1, TellsAre
    <3> QED
      BY <1>1, <1>2, <2>1, <3>2 DEF FoundIsTold
  <2>2. CASE broken # {}
    <3>1. findings' \ Tells \subseteq {"Ndr32NotSupported", "ProbeRefused"}
      BY <1>1, <2>2 DEF StageInv, FoundIsTold
    <3> QED
      BY <1>1, <1>2, <2>2, <3>1 DEF FoundIsTold
  <2> QED
    BY <2>1, <2>2
<1>6. "ndr32" \notin traits.syntaxes => "Ndr32NotSupported" \in findings'
  BY <1>1, <1>4
<1>8. Works' = Works
  BY <1>1 DEF Works
<1> QED
  BY <1>1, <1>2, <1>3, <1>5, <1>6, <1>8 DEF StageInv

\* And the absurd demand gets every tell that is left.
LEMMA AbsurdKeeps ==
    ASSUME ToolInv, StageInv, Absurd
    PROVE  StageInv'
<1> DEFINE reflects == CountFor(held + 1, AbsurdDemand) >= AbsurdDemand
<1>1. /\ place = "absurd" /\ place' = "verdict"
      /\ findings' = findings \cup
           (IF ~Works \/ ~Binds(TRUE) \/ traits.refuses THEN {"ProbeRefused"}
            ELSE Judged \cup (IF reflects THEN {"AbsurdCountReflected"} ELSE {}))
      /\ UNCHANGED <<run, traits, up, held, broken, address, pending, round, groups>>
  BY DEF Absurd, world, discovery
<1>2. Tells' = Tells /\ Judged' = Judged /\ Binds(TRUE)' = Binds(TRUE)
  BY <1>1, SameTells
<1>3. Binds(TRUE) /\ (broken = {} => Works) /\ Judged \subseteq findings
  BY <1>1 DEF StageInv, Met
<1>4. reflects <=> traits.count \in {"floored", "doubled"}
  BY AbsurdCount DEF StageInv
<1> HIDE DEF reflects
<1>5. broken = {} => Tells \subseteq findings' /\ findings' \subseteq Tells
  <2> SUFFICES ASSUME broken = {} PROVE Tells \subseteq findings' /\ findings' \subseteq Tells
    OBVIOUS
  <2>1. findings \subseteq Tells
    BY DEF StageInv, FoundIsTold
  <2>2. groups > 0
    <3>1. groups = Cardinality(run.versions) /\ run.versions \subseteq AllVersions
          /\ run.versions # {}
      BY <1>1 DEF StageInv, ToolInv, ToolTypeOK, Arguments
    <3>2. IsFiniteSet(run.versions)
      BY <3>1, FS_Subset, ClientToolAssumption DEF ClientToolAssumption
    <3> QED
      BY <3>1, <3>2, FS_CardinalityType, FS_EmptySet
  <2>3. traits.epid = "fresh" => "EpidNotStable" \in findings
    BY <2>2 DEF StageInv
  <2>4. traits.group = "constant" /\ Cardinality(run.versions) > 1
          => "AssociationGroupConstant" \in findings
    BY <1>1 DEF StageInv
  <2>5. "ndr32" \notin traits.syntaxes => "Ndr32NotSupported" \in findings
    BY <1>1 DEF StageInv
  <2>6. findings' \subseteq Tells
    BY <1>1, <1>3, <1>4, <2>1, TellsAre
  <2>7. Tells \ Judged \subseteq findings'
    BY <1>1, <1>3, <1>4, <2>3, <2>4, <2>5, TellsAre
  <2> QED
    BY <1>1, <1>3, <2>6, <2>7
<1>6. FoundIsTold'
  <2>1. CASE broken = {}
    BY <1>1, <1>2, <1>5, <2>1 DEF FoundIsTold
  <2>2. CASE broken # {}
    <3>1. findings' \ Tells \subseteq {"Ndr32NotSupported", "ProbeRefused"}
      <4>1. findings \ Tells \subseteq {"Ndr32NotSupported", "ProbeRefused"}
        BY <2>2 DEF StageInv, FoundIsTold
      <4>2. findings' \ findings \subseteq Tells \cup {"ProbeRefused"}
        BY <1>1, <1>4, TellsAre
      <4> QED
        BY <4>1, <4>2
    <3> QED
      BY <1>1, <1>2, <2>2, <3>1 DEF FoundIsTold
  <2> QED
    BY <2>1, <2>2
<1>7. "ndr32" \notin traits.syntaxes /\ broken = {} => "Ndr32NotSupported" \in findings'
  BY <1>5, TellsAre
<1>8. Works' = Works
  BY <1>1 DEF Works
<1>9. findings \subseteq findings'
  BY <1>1
<1> QED
  BY <1>1, <1>2, <1>3, <1>5, <1>6, <1>7, <1>8, <1>9 DEF StageInv

LEMMA ProbeInvNext == ToolInv /\ ChargeInv /\ ProbeInv /\ [Next]_vars => ProbeInv'
<1> SUFFICES ASSUME ToolInv, ChargeInv, ProbeInv, [Next]_vars PROVE ProbeInv'
  OBVIOUS
<1>0. UNCHANGED <<run, traits, zone>>
  BY Given
<1>1. CASE place \in Asking /\ place' \in Asking
  <2>1. UNCHANGED <<pending, round, groups, findings>>
    BY <1>1 DEF Next, vars, tool, probing, MainStep, Soaking, Break, ComeUp, OthersCome, Expires,
         Usage, PrintCatalog, TargetGiven, Resolve, Order, Try, Start, Pair, CompareGroups,
         Ndr32Alone, Absurd, Verdict, HealthCheck, ChargeOnce, ChargeSpent, plan, Soaked, Asking
  <2> QED
    BY <1>0, <1>1, <2>1 DEF ProbeInv, Asking, Probing, VerdictEarned
<1>2. CASE Start /\ place' \in Probing
  <2>1. place = "start" /\ place' = "pair"
    BY <1>2, StartGoes DEF Probing
  <2>2. UNCHANGED <<pending, round, groups, findings, held, broken, expired>>
    BY <1>2 DEF Start, probing, world
  <2>3. pending = run.versions /\ round = 0 /\ groups = 0 /\ findings = {} /\ held = 0
    BY <2>1 DEF ProbeInv, Asking, ChargeInv
  <2>4. Cardinality(run.versions \ pending) = 0
    BY <2>3, FS_EmptySet
  <2>5. StageInv'
    BY <1>0, <2>1, <2>2, <2>3, <2>4 DEF StageInv, FoundIsTold, Met
  <2> QED
    BY <2>1, <2>5 DEF ProbeInv, Asking, Probing, VerdictEarned
<1>3. CASE place \in Probing /\ place' \in Probing
  <2> SUFFICES StageInv'
    BY <1>3 DEF ProbeInv, VerdictEarned, Asking, Probing
  <2>1. StageInv
    BY <1>3 DEF ProbeInv
  <2>2. CASE Pair
    BY <1>3, <2>1, <2>2, PairKeeps DEF Pair, Fail, Exit, Probing
  <2>3. CASE CompareGroups
    BY <2>1, <2>3, CompareKeeps
  <2>4. CASE Ndr32Alone
    BY <1>3, <2>1, <2>4, Ndr32Keeps DEF Probing
  <2>5. CASE Absurd
    BY <2>1, <2>5, AbsurdKeeps
  <2>6. CASE ComeUp \/ \E a \in Addresses : Break(a)
    <3>1. UNCHANGED <<run, traits, place, address, held, probing>>
      BY <2>6 DEF ComeUp, Break, discovery
    <3>2. \/ up' = Addresses /\ UNCHANGED broken
          \/ \E a \in Addresses : Break(a)
      BY <2>6 DEF ComeUp
    <3> QED
      BY <2>1, <3>1, <3>2, WorldKeeps
  <2>7. CASE UNCHANGED vars
    <3>1. UNCHANGED <<run, traits, place, address, held, up, broken, pending, round, groups,
                      findings>>
      BY <2>7 DEF vars, tool, world, discovery, probing
    <3>2. Tells' = Tells /\ Judged' = Judged /\ Binds(TRUE)' = Binds(TRUE)
      BY <3>1, SameTells
    <3> QED
      BY <2>1, <3>1, <3>2 DEF StageInv, FoundIsTold, Met, Works
  <2> QED
    BY <1>3, <2>2, <2>3, <2>4, <2>5, <2>6, <2>7
       DEF Next, MainStep, Soaking, OthersCome, Expires, Usage, PrintCatalog, TargetGiven, Resolve,
           Order, Try, Start, Verdict, HealthCheck, ChargeOnce, ChargeSpent, plan, Soaked, Exit,
           Probing
<1>4. CASE Verdict
  <2>1. StageInv /\ place = "verdict"
    BY <1>4 DEF Verdict, ProbeInv, Probing
  <2>2. /\ place' = "done" /\ exit' = {IF findings = {} THEN 0 ELSE EXIT_FINDINGS}
        /\ UNCHANGED <<run, traits, findings, broken>>
    BY <1>4 DEF Verdict, Exit, probing, world
  <2>3. Tells' = Tells
    BY <2>2, SameTells
  <2>4. exit' = {0} <=> findings = {}
    BY <2>2 DEF EXIT_FINDINGS
  <2>5. VerdictEarned'
    BY <2>1, <2>2, <2>3, <2>4 DEF VerdictEarned, StageInv, FoundIsTold
  <2> QED
    BY <2>2, <2>5 DEF ProbeInv, Asking, Probing
<1>5. CASE place # "done" /\ place' = "done" /\ ~Verdict
  <2>1. \/ exit' \in {{EXIT_UNAVAILABLE}, {EXIT_BAD_USAGE}}
        \/ run.help \/ run.mode # "Probe"
    <3>1. CASE run.mode = "Probe"
      BY <1>5, <3>1 DEF Next, vars, tool, MainStep, Soaking, Break, ComeUp, OthersCome, Expires,
           Usage, PrintCatalog, TargetGiven, Resolve, Order, Try, Start, Pair, Fail,
           CompareGroups, Ndr32Alone, Absurd, HealthCheck, ChargeOnce, ChargeSpent, plan, Soaked,
           Exit, ToolInv, ModeInv
    <3> QED
      BY <3>1
  <2>2. {EXIT_UNAVAILABLE} \notin {{0}, {EXIT_FINDINGS}}
        /\ {EXIT_BAD_USAGE} \notin {{0}, {EXIT_FINDINGS}}
    BY DEF EXIT_UNAVAILABLE, EXIT_FINDINGS, EXIT_BAD_USAGE
  <2>3. VerdictEarned'
    BY <1>0, <2>1, <2>2 DEF VerdictEarned
  <2> QED
    BY <1>5, <2>3 DEF ProbeInv, Asking, Probing
<1>6. CASE place = "done"
  <2>1. UNCHANGED <<place, exit, findings, broken>>
    BY <1>6 DEF Next, vars, tool, probing, world, MainStep, Soaking, Break, ComeUp, OthersCome,
         Expires, Usage, PrintCatalog, TargetGiven, Resolve, Order, Try, Start, Pair,
         CompareGroups, Ndr32Alone, Absurd, Verdict, HealthCheck, ChargeOnce, ChargeSpent, plan,
         Soaked
  <2>2. Tells' = Tells
    BY <1>0, SameTells
  <2>3. VerdictEarned'
    BY <1>0, <2>1, <2>2 DEF ProbeInv, VerdictEarned
  <2> QED
    BY <1>6, <2>1, <2>3 DEF ProbeInv, Asking, Probing
<1>7. CASE place' \in {"health", "charge", "soak"}
  BY <1>7 DEF ProbeInv, Asking, Probing, VerdictEarned
<1>8. \/ place \in Asking /\ place' \in Asking
      \/ Start /\ place' \in Probing
      \/ place \in Probing /\ place' \in Probing
      \/ Verdict \/ place = "done"
      \/ place # "done" /\ place' = "done" /\ ~Verdict
      \/ place' \in {"health", "charge", "soak"}
  <2>1. place \in Asking \cup Probing \cup {"health", "charge", "soak", "done"}
    BY DEF ToolInv, ToolTypeOK
  <2>2. CASE Start
    BY <2>2, StartGoes DEF Probing
  <2>3. CASE UNCHANGED place
    BY <2>1, <2>3
  <2>4. CASE ~Start /\ place' # place
    BY <2>1, <2>4 DEF Next, vars, tool, MainStep, Soaking, Break, ComeUp, OthersCome, Expires,
         Usage, PrintCatalog, TargetGiven, Resolve, Order, Try, Pair, Fail, CompareGroups,
         Ndr32Alone, Absurd, Verdict, HealthCheck, ChargeOnce, ChargeSpent, plan, Soaked, Exit,
         Asking, Probing
  <2> QED
    BY <2>2, <2>3, <2>4
<1> QED
  BY <1>1, <1>2, <1>3, <1>4, <1>5, <1>6, <1>7, <1>8

LEMMA ChargeInvInit == Init => ChargeInv
<1> SUFFICES ASSUME Init PROVE ChargeInv
  OBVIOUS
<1>1. run \in Arguments
  BY CommandLineAssumption DEF Init
<1>2. run.error \in BOOLEAN /\ run.help \in BOOLEAN
  BY <1>1 DEF Arguments
<1>3. place \in {"usage", "help", "list", "resolve"}
  BY <1>2 DEF Init
<1> QED
  BY <1>3 DEF Init, ChargeInv, ChargeReaches

\* A host that reports less than the demand is one that counts, or this one with
\* a demand past what it tracks.
LEMMA FallsShort ==
    ASSUME ToolInv, NEW h \in Nat, CountFor(h, run.threshold) < run.threshold
    PROVE  \/ traits.count = "this" /\ run.threshold > MaxTracked
           \/ traits.count = "genuine" /\ CountFor(h, run.threshold) = h
<1> DEFINE t == run.threshold
<1>1. traits.count \in {"this", "genuine", "floored", "doubled"} /\ t \in Nat
  BY DEF ToolInv, ToolTypeOK, Trait, Arguments
<1>2. MaxTracked \in Nat \ {0}
  BY ClientToolAssumption DEF ClientToolAssumption
<1>3. CountFor(h, t) < t
  OBVIOUS
<1> HIDE DEF t
<1>4. CASE traits.count = "this"
  <2>1. CountFor(h, t) = Counts!Reported(h, t)
    BY <1>4 DEF CountFor
  <2>2. t =< MaxTracked => Counts!Reported(h, t) >= t
    BY <1>1, <1>2 DEF Counts!Reported, Counts!Least2, Counts!Most2
  <2>3. Counts!Reported(h, t) \in Int
    BY <1>1, <1>2 DEF Counts!Reported, Counts!Least2, Counts!Most2
  <2>4. t > MaxTracked
    BY <1>1, <1>2, <1>3, <2>1, <2>2, <2>3
  <2> QED
    BY <1>4, <2>4 DEF t
<1>5. CASE traits.count = "genuine"
  <2>1. CountFor(h, t) = h
    BY <1>1, <1>3, <1>5 DEF CountFor, Counts!Least2
  <2> QED
    BY <1>5, <2>1 DEF t
<1>6. traits.count # "floored"
  BY <1>1, <1>3 DEF CountFor, Counts!Most2
<1>7. traits.count # "doubled"
  BY <1>1, <1>3 DEF CountFor
<1> QED
  BY <1>1, <1>4, <1>5, <1>6, <1>7

\* One activation of a fresh machine.
LEMMA ChargeOnceKeeps ==
    ASSUME ToolInv, ChargeInv, ChargeOnce, ~Fail
    PROVE  ChargeInv'
<1> DEFINE t == run.threshold
           reported == CountFor(held', t)
<1>1. /\ place = "charge" /\ held' = HeldAfter /\ count' = count + 1
      /\ best' = (IF reported > best THEN reported ELSE best)
      /\ stalled' = (IF reported > best THEN 0 ELSE stalled + 1)
      /\ verdict' = CASE reported >= t -> "Reached"
                      [] reported < t /\ stalled' >= StallRounds -> "Saturated"
                      [] OTHER -> "none"
      /\ verdict' # "none" => place' = "done"
      /\ verdict' = "none" => UNCHANGED place
      /\ UNCHANGED <<run, traits, expired>>
  BY DEF ChargeOnce, Exit
<1>2. /\ held \in Nat /\ best \in Nat /\ stalled \in Nat /\ count \in Nat /\ t \in Nat
      /\ traits.count \in {"this", "genuine", "floored", "doubled"}
  BY DEF ToolInv, ToolTypeOK, Arguments, Trait
<1>3. MaxCached \in Nat \ {0} /\ StallRounds \in Nat \ {0} /\ MaxTracked \in Nat \ {0}
  BY ClientToolAssumption DEF ClientToolAssumption
<1>4. held' \in Nat /\ held' = (IF held + 1 =< MaxCached THEN held + 1 ELSE MaxCached)
  BY <1>1, <1>2, <1>3 DEF HeldAfter, Counts!Least2
<1>5. reported \in Nat
  BY <1>2, <1>3, <1>4 DEF CountFor, Counts!Reported, Counts!Least2, Counts!Most2
<1>6. reported < t => \/ traits.count = "this" /\ t > MaxTracked
                      \/ traits.count = "genuine" /\ reported = held'
  BY <1>4, FallsShort
<1>7. /\ count = 0 => best = 0
      /\ count > 0 => \/ traits.count = "this" /\ t > MaxTracked
                      \/ traits.count = "genuine" /\ best < t
      /\ traits.count = "genuine" /\ ~expired /\ t =< MaxCached
           => count =< best /\ best =< held /\ stalled = 0
  BY <1>1 DEF ChargeInv
<1> HIDE DEF t, reported
<1>8. verdict' = "none" => reported < t
  BY <1>1, <1>2, <1>5
<1>9. verdict' = "Saturated" => reported < t /\ stalled' >= StallRounds
  BY <1>1, <1>2, <1>5
<1>10. ASSUME reported < t
       PROVE  \/ traits.count = "this" /\ t > MaxTracked
              \/ traits.count = "genuine" /\ best' < t
  <2>1. CASE count = 0
    BY <1>1, <1>2, <1>5, <1>6, <1>7, <1>10, <2>1
  <2>2. CASE count > 0
    BY <1>1, <1>2, <1>5, <1>6, <1>7, <1>10, <2>2
  <2> QED
    BY <1>2, <2>1, <2>2
<1>11. ASSUME reported < t, traits.count = "genuine", ~expired, t =< MaxCached
       PROVE  count' =< best' /\ best' =< held' /\ stalled' = 0
  <2>1. reported = held'
    BY <1>6, <1>11
  <2>2. held' = held + 1
    BY <1>2, <1>3, <1>4, <1>5, <1>11, <2>1
  <2>3. count =< best /\ best =< held
    BY <1>7, <1>11
  <2>4. reported > best
    BY <1>2, <2>1, <2>2, <2>3
  <2> QED
    BY <1>1, <1>2, <2>1, <2>2, <2>3, <2>4
<1>12. ChargeReaches'
  <2> SUFFICES ASSUME verdict' = "Saturated", ~expired
               PROVE  \/ traits.count = "this" /\ t > MaxTracked
                      \/ traits.count = "genuine" /\ t > MaxCached
    BY <1>1 DEF ChargeReaches, t
  <2>1. reported < t /\ stalled' >= StallRounds
    BY <1>9
  <2>2. CASE traits.count = "this" /\ t > MaxTracked
    BY <2>2
  <2>3. CASE traits.count = "genuine" /\ t =< MaxCached
    BY <1>3, <1>11, <2>1, <2>3
  <2> QED
    BY <1>2, <1>3, <1>10, <2>1, <2>2, <2>3
<1>13. verdict' = "none" =>
          /\ count' > 0 => \/ traits'.count = "this" /\ run'.threshold > MaxTracked
                           \/ traits'.count = "genuine" /\ best' < run'.threshold
          /\ traits'.count = "genuine" /\ ~expired' /\ run'.threshold =< MaxCached
               => count' =< best' /\ best' =< held' /\ stalled' = 0
  BY <1>1, <1>8, <1>10, <1>11 DEF t
<1>14. count' # 0
  BY <1>1, <1>2
<1> QED
  BY <1>1, <1>12, <1>13, <1>14 DEF ChargeInv

LEMMA ChargeInvNext == ToolInv /\ ChargeInv /\ [Next]_vars => ChargeInv'
<1> SUFFICES ASSUME ToolInv, ChargeInv, [Next]_vars PROVE ChargeInv'
  OBVIOUS
<1>0. UNCHANGED <<run, traits, zone>>
  BY Given
<1>1. CASE ChargeOnce /\ ~Fail
  BY <1>1, ChargeOnceKeeps
<1>2. CASE ChargeSpent
  <2>1. /\ place = "charge" /\ count = run.limit /\ verdict' = "Saturated" /\ place' = "done"
        /\ UNCHANGED <<run, traits, expired>>
    BY <1>2 DEF ChargeSpent, Exit, world
  <2>2. /\ best \in Nat /\ count \in Nat /\ run.threshold \in Nat /\ run.limit \in Nat
        /\ MaxCached \in Nat
    BY ClientToolAssumption DEF ToolInv, ToolTypeOK, Arguments, ClientToolAssumption
  <2>3. ChargeReaches'
    <3> SUFFICES ASSUME ~expired, run.limit >= run.threshold, run.limit > 0
                 PROVE  \/ traits.count = "this" /\ run.threshold > MaxTracked
                        \/ traits.count = "genuine" /\ run.threshold > MaxCached
      BY <2>1 DEF ChargeReaches
    <3>1. CASE traits.count = "this" /\ run.threshold > MaxTracked
      BY <3>1
    <3>2. CASE traits.count = "genuine" /\ best < run.threshold
      <4>1. run.threshold =< MaxCached => count =< best
        BY <2>1, <3>2 DEF ChargeInv
      <4> QED
        BY <2>1, <2>2, <3>2, <4>1
    <3> QED
      BY <2>1, <2>2, <3>1, <3>2 DEF ChargeInv
  <2> QED
    BY <2>1, <2>3 DEF ChargeInv
<1>3. CASE OthersCome \/ Expires
  <2>1. /\ place = "charge" /\ UNCHANGED <<place, best, stalled, count, verdict>>
        /\ \/ held' = held + 1 /\ UNCHANGED expired
           \/ expired'
    BY <1>3 DEF OthersCome, Expires, charging
  <2>2. held \in Nat /\ best \in Nat
    BY DEF ToolInv, ToolTypeOK
  <2>3. verdict = "none"
    BY <2>1 DEF ChargeInv, ToolInv, ToolTypeOK
  <2> QED
    BY <1>0, <2>1, <2>2, <2>3 DEF ChargeInv, ChargeReaches
<1>4. CASE \/ ~(ChargeOnce \/ ChargeSpent \/ OthersCome \/ Expires)
           \/ Fail
  <2>1. UNCHANGED <<held, best, stalled, count, verdict, expired>>
    BY <1>4 DEF Next, vars, tool, world, charging, MainStep, Soaking, Break, ComeUp, Usage, Fail,
         PrintCatalog, TargetGiven, Resolve, Order, Try, Start, Pair, CompareGroups, Ndr32Alone,
         Absurd, Verdict, HealthCheck, plan, Soaked
  <2>2. \/ place' = place
        \/ place # "done" /\ place' = "done"
        \/ place \notin {"charge", "done"} /\ place' # "done"
    <3>1. CASE Start
      BY <3>1, StartGoes
    <3>2. CASE Fail
      BY <3>2 DEF Fail, Exit
    <3>3. CASE ~Start /\ ~Fail
      BY <1>4, <3>3 DEF Next, vars, tool, MainStep, Soaking, Break, ComeUp, Usage,
           PrintCatalog, TargetGiven, Resolve, Order, Try, Pair, CompareGroups, Ndr32Alone,
           Absurd, Verdict, HealthCheck, plan, Soaked, Exit
    <3> QED
      BY <3>1, <3>2, <3>3
  <2>3. CASE place' = place
    BY <1>0, <2>1, <2>3 DEF ChargeInv, ChargeReaches
  <2>4. CASE place # "done" /\ place' = "done"
    <3>1. verdict = "none"
      BY <2>4 DEF ChargeInv
    <3> QED
      BY <2>1, <2>4, <3>1 DEF ChargeInv, ChargeReaches
  <2>5. CASE place \notin {"charge", "done"} /\ place' # "done"
    <3>1. verdict = "none" /\ held = 0 /\ best = 0 /\ stalled = 0 /\ count = 0
      BY <2>5 DEF ChargeInv
    <3> QED
      BY <2>1, <2>5, <3>1 DEF ChargeInv, ChargeReaches
  <2> QED
    BY <2>2, <2>3, <2>4, <2>5
<1> QED
  BY <1>1, <1>2, <1>3, <1>4

\* What the diagnostic client reports is true of the hosts it met, whatever the
\* zone, the draws, the host and the order in which hosts fail and recover: the
\* host it settled on is the first that works (discover.rs), the verdict is the
\* host's (probe.rs), and a charge is given up only where it is hopeless
\* (load.rs).
THEOREM ClientReportIsTrue == Spec => []ReportIsTrue
<1> DEFINE Inv == ToolInv /\ DiscoveryInv /\ ProbeInv /\ ChargeInv
<1>1. Init => Inv
  BY ToolInvInit, DiscoveryInvInit, ProbeInvInit, ChargeInvInit
<1>2. Inv /\ [Next]_vars => Inv'
  BY ToolInvNext, DiscoveryInvNext, ProbeInvNext, ChargeInvNext
<1>3. Inv => ReportIsTrue
  BY DiscoveryInvMeans DEF ProbeInv, ChargeInv, ReportIsTrue
<1> QED
  BY <1>1, <1>2, <1>3, PTL DEF Spec

-----------------------------------------------------------------------------
(***************************************************************************)
(* One association (module Exchange).  First what is offered and decided.  *)
(***************************************************************************)
Offer == [declared : Nat, items : Seq(ContextItem)]

OffersTyped == body \in Offer /\ ndr64 \in BOOLEAN /\ tail \in Nat

LEMMA ParsedItems ==
    ASSUME NEW b \in Offer, ParseOk(b)
    PROVE  /\ Parse(b).items \in Seq(ContextItem)
           /\ Parse(b).declared \in Nat
           /\ Len(Parse(b).items) = Considered(b)
           /\ Considered(b) =< b.declared /\ Considered(b) =< MaxContextItems
<1>1. b.declared \in Nat /\ b.items \in Seq(ContextItem)
  BY DEF Offer
<1>2. Considered(b) \in 0..Len(b.items)
  BY <1>1, BindAssumption DEF Considered, Smaller, ParseOk
<1>3. Parse(b).items = SubSeq(b.items, 1, Considered(b)) /\ Parse(b).declared = b.declared
  BY DEF Parse
<1>4. Considered(b) =< b.declared /\ Considered(b) =< MaxContextItems
  BY <1>1, BindAssumption DEF Considered, Smaller
<1> HIDE DEF Considered
<1> QED
  BY ONLY <1>1, <1>2, <1>3, <1>4, PrefixFacts

\* The result "accept" is given to the first candidate and to it alone.
LEMMA AcceptIsFirst ==
    ASSUME NEW b \in Offer, ParseOk(b), NEW n64 \in BOOLEAN
    PROVE  LET request == Parse(b)
               able == Candidates(request, n64)
               results == Results(request, n64)
               yes == {i \in DOMAIN results : results[i] = "accept"}
           IN  /\ able \subseteq 1..Len(request.items)
               /\ able = {} => yes = {}
               /\ able # {} => Min(able) \in able /\ yes = {Min(able)}
<1> DEFINE request == Parse(b)
           able == Candidates(request, n64)
           results == Results(request, n64)
           yes == {i \in DOMAIN results : results[i] = "accept"}
           n == Len(request.items)
           m == n + RefusedUnparsed(request)
<1>1. request.items \in Seq(ContextItem) /\ request.declared \in Nat /\ n \in Nat
      /\ n =< request.declared /\ n =< MaxContextItems
  BY ParsedItems DEF Parse
<1>2. m \in Nat /\ n =< m
  BY <1>1, BindAssumption DEF RefusedUnparsed, Smaller
<1>3. able \subseteq 1..n
  BY <1>1 DEF Candidates
<1>4. able # {} => Min(able) \in able
  <2>1. able \in SUBSET Nat
    BY <1>1, <1>3
  <2> QED
    BY <2>1, MinIsLeast
<1>5. results = [i \in 1..m |-> IF i =< n THEN ResultFor(request, n64, i)
                                          ELSE "reject_transfer_syntax"]
  BY DEF Results
<1>6. \A i \in able : ~FeatureBits(request.items[i]) /\ request.items[i].kms
  BY DEF Candidates
<1>7. ASSUME NEW i \in 1..n
      PROVE  ResultFor(request, n64, i) = "accept" <=> able # {} /\ i = Min(able)
  <2>1. request.items[i].kms \in BOOLEAN
    <3>1. request.items[i] \in ContextItem
      BY <1>1
    <3> QED
      BY <3>1 DEF ContextItem
  <2>2. able # {} /\ i = Min(able) => ~FeatureBits(request.items[i]) /\ request.items[i].kms
    BY <1>4, <1>6
  <2> QED
    BY <2>1, <2>2 DEF ResultFor, FeatureBits, OfferFor
<1> HIDE DEF request, able, m, n, results
<1>8. \A i \in 1..m : results[i] = "accept" <=> able # {} /\ i = Min(able)
  BY <1>2, <1>3, <1>4, <1>5, <1>7, <1>1
<1>9. DOMAIN results = 1..m
  BY <1>5
<1>10. able \subseteq 1..m
  BY <1>1, <1>2, <1>3
<1>11. able = {} => yes = {}
  BY <1>8, <1>9
<1>12. able # {} => yes = {Min(able)}
  BY <1>4, <1>8, <1>9, <1>10
<1> QED
  BY <1>3, <1>4, <1>11, <1>12 DEF request, able, results, n

LEMMA OffersMeanOne == OffersTyped => AcceptsOne
<1> SUFFICES ASSUME OffersTyped PROVE AcceptsOne
  OBVIOUS
<1> DEFINE request == Parse(body)
           able == Candidates(request, ndr64)
           results == Results(request, ndr64)
           yes == {i \in DOMAIN results : results[i] = "accept"}
           syntax == Preferred(request, ndr64)
<1>1. body \in Offer /\ ndr64 \in BOOLEAN
  BY DEF OffersTyped
<1>2. Decision.results = results /\ Decision.accepted_context = AcceptedContext(request, ndr64)
  BY DEF Decision, Decide
<1>3. syntax = "ndr64" => ndr64
  BY DEF Preferred
<1>4. ASSUME ParseOk(body)
      PROVE  /\ Cardinality(yes) = Cardinality(Decision.accepted_context)
             /\ \A c \in Decision.accepted_context : \E i \in yes :
                   /\ i \in DOMAIN request.items
                   /\ request.items[i].context_id = c.context_id
                   /\ request.items[i].kms
                   /\ OfferFor(request.items[i], c.syntax)
                   /\ c.syntax = "ndr64" => ndr64
  <2>1. /\ able \subseteq 1..Len(request.items)
        /\ able = {} => yes = {}
        /\ able # {} => Min(able) \in able /\ yes = {Min(able)}
    BY <1>1, <1>4, AcceptIsFirst
  <2>2. CASE able = {}
    BY <1>2, <2>1, <2>2 DEF AcceptedContext
  <2>3. CASE able # {}
    <3> DEFINE c == [context_id |-> request.items[Min(able)].context_id, syntax |-> syntax]
    <3>1. Decision.accepted_context = {c}
      BY <1>2, <2>3 DEF AcceptedContext
    <3>2. Cardinality(yes) = 1 /\ Cardinality({c}) = 1
      BY <2>1, <2>3, FS_Singleton
    <3>3. Min(able) \in yes /\ Min(able) \in able
      BY <2>1, <2>3
    <3>4. /\ Min(able) \in DOMAIN request.items /\ request.items[Min(able)].kms
          /\ OfferFor(request.items[Min(able)], syntax)
      BY <3>3 DEF Candidates
    <3> HIDE DEF able, yes, syntax, request
    <3>5. c.context_id = request.items[Min(able)].context_id /\ c.syntax = syntax
      OBVIOUS
    <3> HIDE DEF c
    <3> QED
      BY <1>3, <3>1, <3>2, <3>3, <3>4, <3>5
  <2> QED
    BY <2>2, <2>3
<1>5. OneAcceptance
  BY <1>2, <1>4 DEF OneAcceptance
<1>6. ASSUME ParseOk(body),
             \A i \in DOMAIN request.items :
                ~(FeatureBits(request.items[i]) /\ OfferFor(request.items[i], "ndr64")),
             NEW i \in DOMAIN request.items, request.items[i].kms,
             \/ OfferFor(request.items[i], "ndr32")
             \/ ndr64 /\ OfferFor(request.items[i], "ndr64"),
             ~FeatureBits(request.items[i])
      PROVE  Decision.accepted_context # {}
  <2>1. CASE syntax = "ndr32"
    <3>1. i \in able
      BY <1>6, <2>1 DEF Candidates, Preferred
    <3> QED
      BY <1>2, <3>1 DEF AcceptedContext
  <2>2. CASE syntax # "ndr32"
    <3>1. syntax = "ndr64"
      BY <2>2 DEF Preferred
    <3>2. PICK j \in DOMAIN request.items :
                  request.items[j].kms /\ OfferFor(request.items[j], "ndr64")
      BY <2>2 DEF Preferred
    <3>3. j \in able
      BY <1>6, <3>1, <3>2 DEF Candidates
    <3> QED
      BY <1>2, <3>3 DEF AcceptedContext
  <2> QED
    BY <2>1, <2>2
<1>7. UsableOfferAccepted
  BY <1>6 DEF UsableOfferAccepted
<1> QED
  BY <1>5, <1>7 DEF AcceptsOne

LEMMA FirstOffersTyped == FirstOffers \subseteq Offer
<1> SUFFICES ASSUME NEW n \in Fillers, NEW more \in Excess
             PROVE  [declared |-> n + more, items |-> [i \in 1..n |-> Filler]] \in Offer
  BY DEF FirstOffers
<1>1. n \in Nat /\ n + more \in Nat
  BY ExchangeAssumption DEF ExchangeAssumption
<1>2. Filler \in ContextItem
  <2>1. <<"ndr32">> \in Seq(TransferSyntax)
    BY DEF TransferSyntax
  <2> QED
    BY <2>1 DEF Filler, Item, ContextItem
<1>3. [i \in 1..n |-> Filler] \in Seq(ContextItem)
  BY <1>1, <1>2
<1> QED
  BY <1>1, <1>3 DEF Offer

LEMMA BindBodyTyped ==
    ASSUME NEW offer_ndr64 \in BOOLEAN
    PROVE  BindBody(offer_ndr64) \in Offer
<1> DEFINE offers == IF offer_ndr64 THEN <<"ndr32", "ndr64", "btfn">> ELSE <<"ndr32">>
           made == [i \in DOMAIN offers |->
                      [context_id |-> i - 1, kms |-> TRUE, offered |-> <<offers[i]>>]]
<1>1. offers \in Seq(TransferSyntax)
  <2>1. <<"ndr32", "ndr64", "btfn">> \in Seq(TransferSyntax)
    BY DEF TransferSyntax
  <2>2. <<"ndr32">> \in Seq(TransferSyntax)
    BY DEF TransferSyntax
  <2> QED
    BY <2>1, <2>2
<1>2. BindBody(offer_ndr64) = [declared |-> Len(offers), items |-> made]
  BY DEF BindBody
<1> HIDE DEF offers
<1>3. Len(offers) \in Nat /\ DOMAIN offers = 1..Len(offers)
  BY <1>1
<1>4. ASSUME NEW i \in 1..Len(offers)
      PROVE  [context_id |-> i - 1, kms |-> TRUE, offered |-> <<offers[i]>>] \in ContextItem
  <2>1. i - 1 \in Nat /\ offers[i] \in TransferSyntax
    BY <1>1, <1>3
  <2>2. <<offers[i]>> \in Seq(TransferSyntax)
    BY <2>1
  <2> QED
    BY <2>1, <2>2 DEF ContextItem
<1>5. made \in Seq(ContextItem)
  BY <1>3, <1>4
<1> QED
  BY <1>2, <1>3, <1>5 DEF Offer

LEMMA OffersTypedInit == ExchangeInit => OffersTyped
<1> SUFFICES ASSUME ExchangeInit PROVE OffersTyped
  OBVIOUS
<1>1. body \in FirstOffers /\ ndr64 \in BOOLEAN /\ tail = 0
  BY DEF ExchangeInit
<1> QED
  BY <1>1, FirstOffersTyped DEF OffersTyped

LEMMA OffersTypedNext == OffersTyped /\ [ExchangeNext]_exchange_vars => OffersTyped'
<1> SUFFICES ASSUME OffersTyped, [ExchangeNext]_exchange_vars PROVE OffersTyped'
  OBVIOUS
<1>1. ASSUME NEW item \in Shapes, AddItem(item) PROVE OffersTyped'
  <2>1. /\ body' = [declared |-> body.declared + 1,
                    items |-> Append(body.items, [item EXCEPT !.context_id = tail + 1])]
        /\ tail' = tail + 1 /\ UNCHANGED ndr64
    BY <1>1 DEF AddItem
  <2>2. [item EXCEPT !.context_id = tail + 1] \in ContextItem
    BY ExchangeAssumption DEF ExchangeAssumption, ContextItem, OffersTyped
  <2>3. body.declared + 1 \in Nat /\ body.items \in Seq(ContextItem)
    BY DEF OffersTyped, Offer
  <2> QED
    BY <2>1, <2>2, <2>3 DEF OffersTyped, Offer
<1>2. CASE HangUp
  BY <1>2, FirstOffersTyped DEF HangUp, OffersTyped
<1>3. ASSUME NEW offer_ndr64 \in BOOLEAN, Open(offer_ndr64) PROVE OffersTyped'
  <2>1. body' = BindBody(offer_ndr64) /\ UNCHANGED <<tail, ndr64>>
    BY <1>3 DEF Open
  <2> QED
    BY <2>1, BindBodyTyped DEF OffersTyped
<1>4. CASE UNCHANGED <<body, tail, ndr64>>
  BY <1>4 DEF OffersTyped
<1>5. ASSUME NEW version \in Version, NEW declared \in Declared, NEW time \in Times,
             NEW name_units \in NameUnits, NEW entropy_ok \in BOOLEAN,
             Ask(version, declared, time, name_units, entropy_ok)
      PROVE  OffersTyped'
  BY <1>4, <1>5 DEF Ask
<1>6. ASSUME NEW grant \in BOOLEAN, NEW entropy_ok \in BOOLEAN, NEW units \in Units,
             Answer(grant, units, entropy_ok)
      PROVE  OffersTyped'
  BY <1>4, <1>6 DEF Answer
<1>7. ASSUME NEW d \in Deviations, NEW units \in Units, AnswerWrong(d, units) PROVE OffersTyped'
  BY <1>4, <1>7 DEF AnswerWrong
<1>8. CASE ReadReply
  BY <1>4, <1>8 DEF ReadReply
<1>9. CASE UNCHANGED exchange_vars
  BY <1>4, <1>9 DEF exchange_vars
<1> QED
  BY <1>1, <1>2, <1>3, <1>5, <1>6, <1>7, <1>8, <1>9 DEF ExchangeNext

\* bind::decide: a client that offers something usable gets one syntax and no
\* more, whatever it offers, in whatever order, and however many items it
\* declares.
THEOREM ExchangeAcceptsOne == ExchangeSpec => []AcceptsOne
BY OffersTypedInit, OffersTypedNext, OffersMeanOne, PTL DEF ExchangeSpec

(***************************************************************************)
(* Two blocks of CBC, there and back, and one.                             *)
(***************************************************************************)
LEMMA ChainOfTwo ==
    ASSUME NEW key, NEW iv, NEW p, NEW q
    PROVE  LET c == encrypt_block(key, xor_into(p, iv))
           IN  encrypt_in_place(key, iv, <<p, q>>) = <<c, encrypt_block(key, xor_into(q, c))>>
<1> DEFINE plain == <<p, q>>
           step(x, y) == encrypt_block(key, xor_into(x, y))
           c == step(p, iv)
           Eqn(f) == f = [i \in 0..2 |-> IF i = 0 THEN iv ELSE step(plain[i], f[i - 1])]
           g == [i \in 0..2 |-> IF i = 0 THEN iv ELSE IF i = 1 THEN c ELSE step(q, c)]
<1>1. encrypt_in_place(key, iv, plain) = [i \in 1..2 |-> (CHOOSE f : Eqn(f))[i]]
  BY DEF encrypt_in_place
<1>2. plain[1] = p /\ plain[2] = q
  OBVIOUS
<1> HIDE DEF step
<1>3. g[0] = iv /\ g[1] = c /\ g[2] = step(q, c)
  OBVIOUS
<1>4. Eqn(g)
  <2>1. \A i \in 0..2 : g[i] = IF i = 0 THEN iv ELSE step(plain[i], g[i - 1])
    BY <1>2, <1>3
  <2> QED
    BY <2>1
<1> DEFINE f == CHOOSE f : Eqn(f)
<1>5. Eqn(f)
  <2> HIDE DEF Eqn, g
  <2> QED
    BY <1>4
<1> HIDE DEF f, plain
<1>6. f[0] = iv /\ f[1] = step(plain[1], f[0]) /\ f[2] = step(plain[2], f[1])
  BY <1>5
<1>7. f[1] = c /\ f[2] = step(q, c)
  BY <1>2, <1>6
<1>8. encrypt_in_place(key, iv, plain) = <<c, step(q, c)>>
  BY <1>1, <1>7 DEF f
<1> QED
  BY <1>8 DEF step, plain

LEMMA ChainOfOne ==
    ASSUME NEW key, NEW iv, NEW p
    PROVE  encrypt_in_place(key, iv, <<p>>) = <<encrypt_block(key, xor_into(p, iv))>>
<1> DEFINE plain == <<p>>
           step(x, y) == encrypt_block(key, xor_into(x, y))
           Eqn(f) == f = [i \in 0..1 |-> IF i = 0 THEN iv ELSE step(plain[i], f[i - 1])]
           g == [i \in 0..1 |-> IF i = 0 THEN iv ELSE step(p, iv)]
<1>1. encrypt_in_place(key, iv, plain) = [i \in 1..1 |-> (CHOOSE f : Eqn(f))[i]]
  BY DEF encrypt_in_place
<1>2. plain[1] = p
  OBVIOUS
<1> HIDE DEF step
<1>3. g[0] = iv /\ g[1] = step(p, iv)
  OBVIOUS
<1>4. Eqn(g)
  <2>1. \A i \in 0..1 : g[i] = IF i = 0 THEN iv ELSE step(plain[i], g[i - 1])
    BY <1>2, <1>3
  <2> QED
    BY <2>1
<1> DEFINE f == CHOOSE f : Eqn(f)
<1>5. Eqn(f)
  <2> HIDE DEF Eqn, g
  <2> QED
    BY <1>4
<1> HIDE DEF f, plain
<1>6. f[0] = iv /\ f[1] = step(plain[1], f[0])
  BY <1>5
<1>8. encrypt_in_place(key, iv, plain) = <<step(p, iv)>>
  BY <1>1, <1>2, <1>6 DEF f
<1> QED
  BY <1>8 DEF step, plain

\* The terms an initialization vector may be.
Vector(key) ==
    {Atom("request_iv"), Atom("random_iv"), decrypt_block(key, Atom("request_iv")),
     decrypt_block(key, Zero)}

\* The first block, and what it decrypts to.
LEMMA VectorBack ==
    ASSUME NEW key, NEW x \in Vector(key)
    PROVE  decrypt_block(key, encrypt_block(key, x)) = x
<1>1. CASE x = Atom("request_iv") \/ x = Atom("random_iv")
  BY <1>1 DEF encrypt_block, decrypt_block, Atom
<1>2. CASE x = decrypt_block(key, Atom("request_iv"))
  BY <1>2 DEF encrypt_block, decrypt_block, Atom
<1>3. CASE x = decrypt_block(key, Zero)
  BY <1>3 DEF encrypt_block, decrypt_block, Zero
<1> QED
  BY <1>1, <1>2, <1>3 DEF Vector

\* Whatever its initialization vector, a body comes back.
LEMMA BodyBack ==
    ASSUME NEW key, NEW c, NEW content
    PROVE  xor_into(decrypt_block(key, encrypt_block(key, xor_into(Body(content), c))), c)
             = Body(content)
<1>1. CASE c = Zero
  <2>1. xor_into(Body(content), c) = Body(content)
    BY <1>1 DEF xor_into
  <2>2. decrypt_block(key, encrypt_block(key, Body(content))) = Body(content)
    BY DEF encrypt_block, decrypt_block, Body
  <2> QED
    BY <1>1, <2>1, <2>2 DEF xor_into
<1>2. CASE c # Zero
  <2>1. xor_into(Body(content), c) = <<"xor", Body(content), c>>
    BY <1>2 DEF xor_into, Body
  <2>2. ASSUME NEW x
        PROVE  decrypt_block(key, encrypt_block(key, <<"xor", x, c>>)) = <<"xor", x, c>>
    BY DEF encrypt_block, decrypt_block
  <2>3. ASSUME NEW x
        PROVE  xor_into(<<"xor", x, c>>, c) = x
    BY <1>2 DEF xor_into
  <2> QED
    BY <2>1, <2>2, <2>3
<1> QED
  BY <1>1, <1>2

LEMMA TwoBack ==
    ASSUME NEW key, NEW x \in Vector(key), NEW content
    PROVE  LET cipher == encrypt_in_place(key, Zero, <<x, Body(content)>>)
           IN  /\ cipher[1] = encrypt_block(key, x)
               /\ decrypt(key, Zero, cipher) = <<x, Body(content)>>
<1> DEFINE cipher == encrypt_in_place(key, Zero, <<x, Body(content)>>)
           c == encrypt_block(key, x)
           b == encrypt_block(key, xor_into(Body(content), c))
<1>1. cipher = <<c, b>>
  <2>1. xor_into(x, Zero) = x
    BY DEF xor_into
  <2> QED
    BY <2>1, ChainOfTwo
<1>2. xor_into(decrypt_block(key, c), Zero) = x
  BY VectorBack DEF xor_into
<1>3. xor_into(decrypt_block(key, b), c) = Body(content)
  BY BodyBack
<1> HIDE DEF cipher, c, b
<1>4. decrypt(key, Zero, cipher)
        = [i \in 1..2 |-> xor_into(decrypt_block(key, cipher[i]), IF i = 1 THEN Zero ELSE cipher[i - 1])]
  BY <1>1 DEF decrypt
<1>5. decrypt(key, Zero, cipher)
        = <<xor_into(decrypt_block(key, c), Zero), xor_into(decrypt_block(key, b), c)>>
  BY <1>1, <1>4
<1> QED
  BY <1>1, <1>2, <1>3, <1>5 DEF cipher, c

(***************************************************************************)
(* The request, and what a host makes of it.                               *)
(***************************************************************************)
RequestBody(declared, time) ==
    [version |-> declared, client_machine_id |-> "cmid", client_time |-> time]

Framed(v, declared, time) ==
    encode_request_declaring(v, declared, RequestBody(declared, time), Atom("request_iv"))

Secret(v) == IF v = 4 THEN Zero ELSE decrypt_block(v, Atom("request_iv"))

Decoded(v, time) ==
    [error |-> "none", version |-> v, declared |-> <<v, 0>>, body |-> RequestBody(<<v, 0>>, time),
     shared_secret |-> Secret(v), mac_verified |-> TRUE]

LEMMA JoinOne ==
    ASSUME NEW a, NEW b
    PROVE  <<a>> \o <<b>> = <<a, b>>
<1> DEFINE s == <<a>> \o <<b>>
<1>1. <<a>> \in Seq({a, b}) /\ <<b>> \in Seq({a, b})
  OBVIOUS
<1>2. s \in Seq({a, b}) /\ Len(s) = 2 /\ s[1] = a /\ s[2] = b
  BY <1>1
<1> HIDE DEF s
<1>3. s = <<a, b>>
  BY <1>2
<1> QED
  BY <1>3 DEF s

\* A framed request, by its parts.
LEMMA FramedIs ==
    ASSUME NEW v \in Version, NEW declared, NEW time
    PROVE  LET st == Framed(v, declared, time)
               content == [content |-> RequestBody(declared, time), len |-> REQUEST_BODY_LEN,
                           pad |-> padding_len(REQUEST_BODY_LEN), uniform |-> TRUE]
               iv == Atom("request_iv")
           IN  /\ st.word = declared
               /\ st.len = IF v = 4 THEN 252 ELSE 260
               /\ v = 4 => /\ st.blocks = <<Body(RequestBody(declared, time))>>
                           /\ st.mac = mac_tag(RequestBody(declared, time))
               /\ v # 4 => st.blocks = <<iv, encrypt_block(v, xor_into(Body(content), iv))>>
<1> DEFINE st == Framed(v, declared, time)
           content == [content |-> RequestBody(declared, time), len |-> REQUEST_BODY_LEN,
                       pad |-> padding_len(REQUEST_BODY_LEN), uniform |-> TRUE]
           iv == Atom("request_iv")
<1>1. v = 4 => st = [len |-> REQUEST_BODY_LEN + MAC_LEN, word |-> RequestBody(declared, time).version,
                     blocks |-> <<Body(RequestBody(declared, time))>>,
                     mac |-> mac_tag(RequestBody(declared, time))]
  BY DEF Framed, encode_request_declaring
<1>2. v # 4 => st = [len |-> UNENCRYPTED_PREFIX_LEN + IV_LEN + padded_len(REQUEST_BODY_LEN),
                     word |-> declared,
                     blocks |-> <<iv>> \o encrypt_in_place(v, iv, <<Body(content)>>),
                     mac |-> Zero]
  BY DEF Framed, encode_request_declaring, Padded, schedule
<1>3. RequestBody(declared, time).version = declared
  BY DEF RequestBody
<1>4. REQUEST_BODY_LEN + MAC_LEN = 252
  BY DEF REQUEST_BODY_LEN, MAC_LEN
<1>5. UNENCRYPTED_PREFIX_LEN + IV_LEN + padded_len(REQUEST_BODY_LEN) = 260
  BY DEF UNENCRYPTED_PREFIX_LEN, IV_LEN, padded_len, padding_len, REQUEST_BODY_LEN, BLOCK_LEN
<1> DEFINE e == encrypt_block(v, xor_into(Body(content), iv))
<1>6. encrypt_in_place(v, iv, <<Body(content)>>) = <<e>>
  BY ChainOfOne
<1> HIDE DEF e, iv, st, content
<1>7. <<iv>> \o <<e>> = <<iv, e>>
  BY JoinOne
<1> QED
  BY <1>1, <1>2, <1>3, <1>4, <1>5, <1>6, <1>7 DEF e, st, iv, content

\* One that declares the version it is framed for is decoded; any other is not.
LEMMA DecodeFramed ==
    ASSUME NEW v \in Version, NEW declared \in Nat \X Nat, NEW time
    PROVE  /\ declared = <<v, 0>> => decode(Framed(v, declared, time)) = Decoded(v, time)
           /\ declared # <<v, 0>> =>
                decode(Framed(v, declared, time)).error
                  \in {"unsupported_version", "wrong_length", "cipher"}
<1> DEFINE st == Framed(v, declared, time)
           content == [content |-> RequestBody(declared, time), len |-> REQUEST_BODY_LEN,
                       pad |-> padding_len(REQUEST_BODY_LEN), uniform |-> TRUE]
           iv == Atom("request_iv")
           e == encrypt_block(v, xor_into(Body(content), iv))
           w == declared[1]
           plain == decrypt(w, Zero, st.blocks)
<1>1. /\ st.word = declared
      /\ st.len = IF v = 4 THEN 252 ELSE 260
      /\ v = 4 => /\ st.blocks = <<Body(RequestBody(declared, time))>>
                  /\ st.mac = mac_tag(RequestBody(declared, time))
      /\ v # 4 => st.blocks = <<iv, e>>
  BY FramedIs
<1>2. /\ declared = <<w, declared[2]>> /\ w \in Nat /\ declared[2] \in Nat
      /\ v \in {4, 5, 6}
  BY DEF Version
<1>3. \A x \in Version : framed_request_len(x) = IF x = 4 THEN 252 ELSE 260
  BY DEF framed_request_len, Version, REQUEST_BODY_LEN, MAC_LEN, UNENCRYPTED_PREFIX_LEN, IV_LEN,
         REQUEST_PAD_LEN
<1>4. decode(st) =
        CASE dispatch_error(st) # "none" -> [error |-> dispatch_error(st)]
          [] dispatch_error(st) = "none" /\ w = 4 ->
               [error |-> "none", version |-> w, declared |-> declared,
                body |-> st.blocks[1][2], shared_secret |-> Zero,
                mac_verified |-> st.mac = mac_tag(st.blocks[1][2])]
          [] OTHER ->
               IF plain[2][1] # "body" \/ ~PaddingOk(plain[2][2]) THEN [error |-> "cipher"]
               ELSE IF plain[2][2].len # REQUEST_BODY_LEN THEN [error |-> "body_length"]
               ELSE [error |-> "none", version |-> w, declared |-> declared,
                     body |-> plain[2][2].content, shared_secret |-> plain[1],
                     mac_verified |-> TRUE]
  BY <1>1 DEF decode, schedule
<1>5. dispatch_error(st) = IF ~supported(declared) THEN "unsupported_version"
                           ELSE IF st.len # framed_request_len(w) THEN "wrong_length" ELSE "none"
  BY <1>1 DEF dispatch_error
<1>6. supported(declared) <=> w \in Version /\ declared[2] = 0
  BY DEF supported
<1>7. v # 4 => /\ plain[1] = xor_into(decrypt_block(w, iv), Zero)
               /\ plain[2] = xor_into(decrypt_block(w, e), iv)
  <2> SUFFICES ASSUME v # 4
               PROVE  /\ plain[1] = xor_into(decrypt_block(w, iv), Zero)
                      /\ plain[2] = xor_into(decrypt_block(w, e), iv)
    OBVIOUS
  <2>1. st.blocks = <<iv, e>>
    BY <1>1
  <2> HIDE DEF iv, e, st, w
  <2>2. plain = [i \in 1..2 |-> xor_into(decrypt_block(w, st.blocks[i]),
                                         IF i = 1 THEN Zero ELSE st.blocks[i - 1])]
    BY <2>1 DEF decrypt
  <2> HIDE DEF plain
  <2> QED
    BY <2>1, <2>2
<1>8. ASSUME declared = <<v, 0>> PROVE decode(st) = Decoded(v, time)
  <2>1. w = v /\ declared[2] = 0 /\ dispatch_error(st) = "none"
    BY <1>1, <1>2, <1>3, <1>5, <1>6, <1>8
  <2>2. CASE v = 4
    <3>1. st.blocks[1][2] = RequestBody(declared, time) /\ Secret(v) = Zero
      BY <1>1, <2>2 DEF Body, Secret
    <3>2. (st.mac = mac_tag(st.blocks[1][2])) = TRUE
      BY <1>1, <2>2, <3>1
    <3> HIDE DEF st
    <3> QED
      BY <1>4, <1>8, <2>1, <2>2, <3>1, <3>2 DEF Decoded
  <2>3. CASE v # 4
    <3>1. plain[1] = Secret(v)
      BY <1>7, <2>1, <2>3 DEF xor_into, Secret
    <3>2. plain[2] = Body(content)
      BY <1>7, <2>1, <2>3, BodyBack
    <3> DEFINE inner == plain[2][2]
    <3>3. plain[2][1] = "body" /\ inner = content
      BY <3>2 DEF Body
    <3>4. PaddingOk(inner) /\ inner.len = REQUEST_BODY_LEN
      BY <3>3 DEF PaddingOk, padding_len, BLOCK_LEN, REQUEST_BODY_LEN
    <3>5. inner.content = RequestBody(declared, time)
      BY <3>3
    <3> HIDE DEF st, plain, content
    <3>6. decode(st) = [error |-> "none", version |-> w, declared |-> declared,
                        body |-> inner.content, shared_secret |-> plain[1],
                        mac_verified |-> TRUE]
      BY <1>4, <2>1, <2>3, <3>3, <3>4
    <3> QED
      BY <1>8, <2>1, <3>1, <3>5, <3>6 DEF Decoded
  <2> QED
    BY <2>2, <2>3
<1>9. ASSUME declared # <<v, 0>>
      PROVE  decode(st).error \in {"unsupported_version", "wrong_length", "cipher"}
  <2>1. CASE dispatch_error(st) # "none"
    BY <1>4, <1>5, <2>1
  <2>2. CASE dispatch_error(st) = "none"
    <3>1. w \in Version /\ declared[2] = 0 /\ st.len = framed_request_len(w)
      BY <1>5, <1>6, <2>2
    <3>2. w # v /\ v # 4 /\ w # 4
      BY <1>1, <1>2, <1>3, <1>9, <3>1
    <3>3. xor_into(Body(content), iv) = <<"xor", Body(content), iv>>
      BY DEF xor_into, Body, Atom, Zero
    <3>4. \E x : e = <<"E", v, x>>
      <4>1. ASSUME NEW x, NEW y
            PROVE  encrypt_block(v, <<"xor", x, y>>) = <<"E", v, <<"xor", x, y>>>>
        BY DEF encrypt_block
      <4> HIDE DEF iv, content
      <4> QED
        BY <3>3, <4>1
    <3> HIDE DEF st, plain
    <3>5. \A x : decrypt_block(w, <<"E", v, x>>)[1] = "D"
      BY <3>2 DEF decrypt_block
    <3>6. \A x : x[1] = "D" => xor_into(x, iv)[1] = "xor"
      BY DEF xor_into, Atom, Zero
    <3>7. plain[2][1] # "body"
      <4>1. plain[2] = xor_into(decrypt_block(w, e), iv)
        BY <1>7, <3>2
      <4>2. decrypt_block(w, e)[1] = "D"
        BY <3>4, <3>5
      <4> HIDE DEF e, iv
      <4> QED
        BY <3>6, <4>1, <4>2
    <3> QED
      BY <1>4, <2>2, <3>2, <3>7
  <2> QED
    BY <2>1, <2>2
<1> QED
  BY <1>8, <1>9

(***************************************************************************)
(* The time slots of the v6 tag.                                           *)
(***************************************************************************)
LEMMA Quotient ==
    ASSUME NEW a \in Nat, NEW m \in Nat \ {0}
    PROVE  /\ a \div m \in Nat /\ a % m \in 0..(m - 1)
           /\ a = m * (a \div m) + (a % m)
<1> DEFINE q == a \div m
           r == a % m
<1>1. q \in Nat
  OBVIOUS
<1>2. r \in 0..(m - 1)
  OBVIOUS
<1>3. r = a - m * q
  OBVIOUS
<1> DEFINE p == m * q
<1>4. p \in Int
  BY <1>1
<1> HIDE DEF p, r
<1>5. a = p + r
  BY <1>2, <1>3, <1>4 DEF p
<1> QED
  BY <1>1, <1>2, <1>5 DEF p, r

LEMMA NoMultipleBetween ==
    ASSUME NEW m \in Nat \ {0}, NEW k \in Int, NEW d \in 1..(m - 1)
    PROVE  d # m * k
<1>1. CASE k =< 0
  <2>1. m * k =< 0
    BY <1>1
  <2> QED
    BY <2>1
<1>2. CASE k >= 1
  <2>1. m * k >= m
    BY <1>2
  <2> QED
    BY <2>1
<1> QED
  BY <1>1, <1>2

LEMMA ModApart ==
    ASSUME NEW a \in Nat, NEW m \in Nat \ {0}, NEW d \in 1..(m - 1)
    PROVE  (a + d) % m # a % m
<1> SUFFICES ASSUME (a + d) % m = a % m PROVE FALSE
  OBVIOUS
<1> DEFINE b == a + d
           k == a \div m
           l == b \div m
           r == a % m
<1>0. b \in Nat /\ b % m = r
  OBVIOUS
<1> HIDE DEF b
<1>1. k \in Nat /\ r \in 0..(m - 1) /\ a = m * k + r
  BY Quotient, Zenon
<1>2. l \in Nat /\ b = m * l + r
  BY <1>0, Quotient
<1> HIDE DEF k, l, r
<1>3. d = m * l - m * k
  <2> DEFINE x == m * l
             y == m * k
  <2>1. x \in Int /\ y \in Int
    BY <1>1, <1>2
  <2>2. a = y + r /\ a + d = x + r
    BY <1>1, <1>2 DEF b
  <2> HIDE DEF x, y
  <2>3. d = x - y
    BY <1>1, <2>1, <2>2
  <2> QED
    BY <2>3 DEF x, y
<1>4. m * l - m * k = m * (l - k)
  BY <1>1
<1>5. l - k \in Int
  BY <1>1
<1> QED
  BY <1>3, <1>4, <1>5, NoMultipleBetween

\* Two quotients of one number are one.
LEMMA QuotientUnique ==
    ASSUME NEW m \in Nat \ {0}, NEW q \in Nat, NEW r \in 0..(m - 1), NEW a \in Nat,
           a = m * q + r
    PROVE  a \div m = q /\ a % m = r
<1> DEFINE k == a \div m
           s == a % m
<1>1. k \in Nat /\ s \in 0..(m - 1) /\ a = m * k + s
  BY Quotient
<1> HIDE DEF k, s
<1>2. m * (k - q) = r - s
  BY <1>1
<1>3. m * (q - k) = s - r
  BY <1>1
<1>4. r = s
  <2>1. CASE r > s
    <3>1. r - s \in 1..(m - 1) /\ k - q \in Int
      BY <1>1, <2>1
    <3> QED
      BY <1>1, <1>2, <3>1, NoMultipleBetween
  <2>2. CASE s > r
    <3>1. s - r \in 1..(m - 1) /\ q - k \in Int
      BY <1>1, <2>2
    <3> QED
      BY <1>1, <1>3, <3>1, NoMultipleBetween
  <2> QED
    BY <1>1, <2>1, <2>2
<1>5. k = q
  <2>1. m * (k - q) = 0
    BY <1>1, <1>2, <1>4
  <2> QED
    BY <1>1, <2>1
<1> QED
  BY <1>4, <1>5 DEF k, s

\* A slot's key is never that of the slot after it, whatever the tolerance.
LEMMA SlotApart ==
    ASSUME NEW t \in Nat, NEW u \in Nat, u \div TIME_C1 = t \div TIME_C1 + 1,
           NEW offset \in SlotOffset
    PROVE  time_slot(u, "Current") # time_slot(t, offset)
<1> DEFINE q == t \div TIME_C1
           A == q * TIME_C2 + TIME_C3
<1>1. /\ TIME_C1 \in Nat \ {0} /\ TIME_C2 \in Nat \ {0} /\ TIME_C3 \in Nat /\ U64 \in Nat \ {0}
      /\ TIME_C1 # TIME_C2 /\ TIME_C1 + TIME_C2 < U64
  BY CryptoAssumption
<1>2. q \in Nat
  BY <1>1, Quotient
<1>3. time_slot(u, "Current") = ((q + 1) * TIME_C2 + TIME_C3 + 0) % U64
  BY DEF time_slot, tick_adjustment
<1>4. /\ time_slot(t, "Current") = (A + 0) % U64
      /\ time_slot(t, "Previous") = (A + (U64 - TIME_C1)) % U64
      /\ time_slot(t, "Next") = (A + TIME_C1) % U64
  BY DEF time_slot, tick_adjustment
<1> HIDE DEF q
<1>5. A \in Nat
  BY <1>1, <1>2
<1>6. (q + 1) * TIME_C2 + TIME_C3 + 0 = A + TIME_C2
  BY <1>1, <1>2
<1> HIDE DEF A
<1>7. time_slot(u, "Current") = (A + TIME_C2) % U64
  BY <1>3, <1>6
<1>8. (A + TIME_C2) % U64 # (A + 0) % U64
  <2>1. TIME_C2 \in 1..(U64 - 1) /\ A + 0 = A
    BY <1>1, <1>5
  <2> QED
    BY <1>1, <1>5, <2>1, ModApart
<1>9. (A + TIME_C2) % U64 # (A + (U64 - TIME_C1)) % U64
  <2> DEFINE a == A + TIME_C2
             d == U64 - TIME_C1 - TIME_C2
  <2>1. d \in 1..(U64 - 1) /\ a \in Nat /\ A + (U64 - TIME_C1) = a + d
    BY <1>1, <1>5
  <2> HIDE DEF a, d
  <2>2. (a + d) % U64 # a % U64
    BY <1>1, <2>1, ModApart
  <2> QED
    BY <2>1, <2>2 DEF a
<1>10. (A + TIME_C2) % U64 # (A + TIME_C1) % U64
  <2>1. CASE TIME_C1 < TIME_C2
    <3> DEFINE a == A + TIME_C1
               d == TIME_C2 - TIME_C1
    <3>1. d \in 1..(U64 - 1) /\ a \in Nat /\ A + TIME_C2 = a + d
      BY <1>1, <1>5, <2>1
    <3> HIDE DEF a, d
    <3>2. (a + d) % U64 # a % U64
      BY <1>1, <3>1, ModApart
    <3> QED
      BY <3>1, <3>2 DEF a
  <2>2. CASE TIME_C2 < TIME_C1
    <3> DEFINE a == A + TIME_C2
               d == TIME_C1 - TIME_C2
    <3>1. d \in 1..(U64 - 1) /\ a \in Nat /\ A + TIME_C1 = a + d
      BY <1>1, <1>5, <2>2
    <3> HIDE DEF a, d
    <3>2. (a + d) % U64 # a % U64
      BY <1>1, <3>1, ModApart
    <3> QED
      BY <3>1, <3>2 DEF a
  <2> QED
    BY <1>1, <2>1, <2>2
<1> QED
  BY <1>4, <1>7, <1>8, <1>9, <1>10 DEF SlotOffset

\* One tick on: in the same slot, or in the next when the slot is over.  And one
\* slot's ticks on: in the next.
LEMMA SlotSteps ==
    ASSUME NEW t \in Nat
    PROVE  /\ (t + 1) % TIME_C1 # 0 => (t + 1) \div TIME_C1 = t \div TIME_C1
           /\ (t + 1) % TIME_C1 = 0 => (t + 1) \div TIME_C1 = t \div TIME_C1 + 1
           /\ (t + TIME_C1) \div TIME_C1 = t \div TIME_C1 + 1
<1> DEFINE m == TIME_C1
           q == t \div m
           r == t % m
<1>1. m \in Nat \ {0}
  BY CryptoAssumption
<1>2. q \in Nat /\ r \in 0..(m - 1) /\ t = m * q + r
  BY <1>1, Quotient
<1> HIDE DEF m, q, r
<1>5. (t + m) \div m = q + 1
  <2>1. t + m = m * (q + 1) + r /\ q + 1 \in Nat /\ t + m \in Nat
    BY <1>1, <1>2
  <2> QED
    BY <1>1, <1>2, <2>1, QuotientUnique
<1>6. /\ (t + 1) % m # 0 => (t + 1) \div m = q
      /\ (t + 1) % m = 0 => (t + 1) \div m = q + 1
  <2>1. CASE r + 1 = m
    <3> DEFINE a == t + 1
               p == q + 1
               z == 0
    <3>1. a = m * p + z /\ p \in Nat /\ a \in Nat /\ z \in 0..(m - 1)
      BY <1>1, <1>2, <2>1
    <3> HIDE DEF a, p, z
    <3>2. a \div m = p /\ a % m = z
      BY <1>1, <3>1, QuotientUnique
    <3> QED
      BY <3>2 DEF a, p, z
  <2>2. CASE r + 1 # m
    <3> DEFINE a == t + 1
               z == r + 1
    <3>1. a = m * q + z /\ z \in 1..(m - 1) /\ z \in 0..(m - 1) /\ a \in Nat
      BY <1>1, <1>2, <2>2
    <3> HIDE DEF a, z
    <3>2. a \div m = q /\ a % m = z
      BY <1>1, <1>2, <3>1, QuotientUnique
    <3> QED
      BY <3>1, <3>2 DEF a
  <2> QED
    BY <2>1, <2>2
<1> QED
  BY <1>5, <1>6 DEF m, q

(***************************************************************************)
(* The reply of a host that makes one mistake, or none.                    *)
(***************************************************************************)
Mistakes == Mistake \cup {"none"}

\* The fields of the plaintext, one by one.
FieldsOf(d, v, t, u) ==
    [iv |-> IF d = "other_iv" THEN IF v = 5 THEN Atom("random_iv")
                                   ELSE decrypt_block(v, Atom("request_iv"))
            ELSE IF d = "zero_iv" THEN decrypt_block(v, Zero)
            ELSE IF v = 6 THEN Atom("random_iv") ELSE Secret(v),
     version |-> <<v, IF d = "inner_version" THEN 1 ELSE 0>>,
     pid |-> [len |-> IF d = "odd_pid" THEN (u + 1) * 2 + 1
                      ELSE IF d = "long_pid" THEN 130 ELSE (u + 1) * 2,
              nuls |-> IF d = "unterminated" THEN {}
                       ELSE IF d = "interior_nul" THEN {u + 1, 1}
                       ELSE IF d = "long_pid" THEN {65} ELSE {u + 1}],
     client_machine_id |-> IF d = "other_cmid" THEN "another" ELSE "cmid",
     client_time |-> IF d = "late" THEN t + 1 ELSE IF d = "next_slot" THEN t + TIME_C1 ELSE t,
     random_xored_ivs |-> xor_into(Atom("salt"), Secret(v)),
     hash |-> IF d = "salt" THEN sha256(Atom("other_salt")) ELSE sha256(Atom("salt")),
     carried |-> IF d = "secret" THEN Atom("guess") ELSE Secret(v)]

LEMMA FieldsAre ==
    ASSUME NEW d \in Mistakes, NEW v \in Version, NEW t \in Nat, NEW u \in Nat
    PROVE  WrongFields(d, Decoded(v, t), u) = FieldsOf(d, v, t, u)
<1> DEFINE decoded == Decoded(v, t)
           iv == IF v = 6 THEN Atom("random_iv") ELSE Secret(v)
           pid == [len |-> (u + 1) * 2, nuls |-> {u + 1}]
           mask == xor_into(Atom("salt"), Secret(v))
           base == [iv |-> iv, version |-> <<v, 0>>, pid |-> pid, client_machine_id |-> "cmid",
                    client_time |-> t, random_xored_ivs |-> mask, hash |-> sha256(Atom("salt")),
                    carried |-> Secret(v)]
           F == WrongFields(d, decoded, u)
<1>1. /\ decoded.version = v /\ decoded.declared = <<v, 0>> /\ decoded.shared_secret = Secret(v)
      /\ decoded.body.client_machine_id = "cmid" /\ decoded.body.client_time = t
  BY DEF Decoded, RequestBody
<1>2. Plan(decoded, u) = [pid |-> pid, client_machine_id |-> "cmid", client_time |-> t]
  BY <1>1 DEF Plan, EncodedEPid, encoded_len
<1>3. plaintext(decoded, Plan(decoded, u), Atom("random_iv"), Atom("salt")) = base
  <2> HIDE DEF decoded, mask
  <2> QED
    BY <1>1, <1>2 DEF plaintext, uses_tweaked_cipher, mask
<1>4. F = Wrong(d, base, v)
  BY <1>1, <1>3 DEF WrongFields
<1>5. EncodedEPid(MAX_EPID_UNITS + 1) = [len |-> 130, nuls |-> {65}]
  BY DEF EncodedEPid, encoded_len, MAX_EPID_UNITS
<1> DEFINE secret == Secret(v)
           salted == sha256(Atom("salt"))
           other == sha256(Atom("other_salt"))
           first == Atom("random_iv")
           same == decrypt_block(v, Atom("request_iv"))
           none == decrypt_block(v, Zero)
           guess == Atom("guess")
           changed == [iv |-> IF d = "other_iv" THEN IF v = 5 THEN first ELSE same
                              ELSE IF d = "zero_iv" THEN none ELSE iv,
                 version |-> <<v, IF d = "inner_version" THEN 1 ELSE 0>>,
                 pid |-> [len |-> IF d = "odd_pid" THEN (u + 1) * 2 + 1
                                  ELSE IF d = "long_pid" THEN 130 ELSE (u + 1) * 2,
                          nuls |-> IF d = "unterminated" THEN {}
                                   ELSE IF d = "interior_nul" THEN {u + 1, 1}
                                   ELSE IF d = "long_pid" THEN {65} ELSE {u + 1}],
                 client_machine_id |-> IF d = "other_cmid" THEN "another" ELSE "cmid",
                 client_time |-> IF d = "late" THEN t + 1
                                 ELSE IF d = "next_slot" THEN t + TIME_C1 ELSE t,
                 random_xored_ivs |-> mask,
                 hash |-> IF d = "salt" THEN other ELSE salted,
                 carried |-> IF d = "secret" THEN guess ELSE secret]
<1>6. F = Wrong(d, [iv |-> iv, version |-> <<v, 0>>, pid |-> pid, client_machine_id |-> "cmid",
                    client_time |-> t, random_xored_ivs |-> mask, hash |-> salted,
                    carried |-> secret], v)
  BY <1>4
<1>7. F = changed
  <2> HIDE DEF F, iv, mask, secret, salted, other, first, same, none, guess
  <2>1. CASE d \in {"other_cmid", "late", "next_slot", "inner_version"}
    BY <1>6, <2>1 DEF Wrong
  <2>2. CASE d \in {"other_iv", "zero_iv", "salt", "secret"}
    BY <1>6, <2>2 DEF Wrong, first, same, none, other, guess
  <2>3. CASE d = "unterminated"
    BY <1>6, <2>3 DEF Wrong
  <2>4. CASE d = "interior_nul"
    BY <1>6, <2>4 DEF Wrong
  <2>5. CASE d = "odd_pid"
    BY <1>6, <2>5 DEF Wrong
  <2>6. CASE d = "long_pid"
    BY <1>5, <1>6, <2>6 DEF Wrong
  <2>7. CASE d \in {"outer_version", "tag", "tag_next_slot", "too_long", "padding_noise",
                    "padding_zero", "none"}
    BY <1>6, <2>7 DEF Wrong
  <2> QED
    BY <2>1, <2>2, <2>3, <2>4, <2>5, <2>6, <2>7 DEF Mistakes, Mistake
<1> QED
  BY <1>7 DEF FieldsOf

\* What is sealed, part by part.
ReplyOf(d, v, t, u) ==
    LET F == FieldsOf(d, v, t, u)
    IN  [outer |-> <<v, IF d = "outer_version" THEN 1 ELSE 0>>,
         fields |-> F,
         tag |-> IF d = "tag" THEN Zero
                 ELSE IF d = "tag_next_slot"
                   THEN v6_tag(F.client_time + TIME_C1, "Current", <<F, 0>>)
                 ELSE Tag(v, F, 0),
         extra |-> IF d = "too_long" THEN BLOCK_LEN ELSE 0,
         pad |-> IF d = "padding_zero" THEN 0 ELSE padding_len(content_len(v, F.pid.len)),
         uniform |-> d # "padding_noise"]

LEMMA ReplyIs ==
    ASSUME NEW d \in Mistakes, NEW v \in Version, NEW t \in Nat, NEW u \in Nat
    PROVE  WrongReply(d, Decoded(v, t), u) = ReplyOf(d, v, t, u)
<1> DEFINE F == FieldsOf(d, v, t, u)
           S == WrongReply(d, Decoded(v, t), u)
           tag == Tag(v, F, 0)
           late == v6_tag(F.client_time + TIME_C1, "Current", <<F, 0>>)
           pad == padding_len(content_len(v, F.pid.len))
           honest == Sealed(v, <<v, 0>>, F)
<1>0. WrongFields(d, Decoded(v, t), u) = F
  BY FieldsAre
<1>1. Decoded(v, t).version = v /\ Decoded(v, t).declared = <<v, 0>>
  BY DEF Decoded
<1>2. S = CASE d = "outer_version"  -> [honest EXCEPT !.outer = <<v, 1>>]
            [] d = "tag"            -> [honest EXCEPT !.tag = Zero]
            [] d = "tag_next_slot"  -> [honest EXCEPT !.tag = late]
            [] d = "too_long"       -> [honest EXCEPT !.extra = BLOCK_LEN]
            [] d = "padding_noise"  -> [honest EXCEPT !.uniform = FALSE]
            [] d = "padding_zero"   -> [honest EXCEPT !.pad = 0]
            [] OTHER                -> honest
  BY <1>0, <1>1 DEF WrongReply
<1>3. honest = [outer |-> <<v, 0>>, fields |-> F, tag |-> tag, extra |-> 0, pad |-> pad,
                uniform |-> TRUE]
  BY DEF Sealed
<1> HIDE DEF S, F, tag, late, pad, honest
<1>4. S = [outer |-> <<v, IF d = "outer_version" THEN 1 ELSE 0>>, fields |-> F,
           tag |-> IF d = "tag" THEN Zero ELSE IF d = "tag_next_slot" THEN late ELSE tag,
           extra |-> IF d = "too_long" THEN BLOCK_LEN ELSE 0,
           pad |-> IF d = "padding_zero" THEN 0 ELSE pad,
           uniform |-> d # "padding_noise"]
  <2>1. CASE d = "outer_version"
    BY <1>2, <1>3, <2>1
  <2>2. CASE d = "tag"
    BY <1>2, <1>3, <2>2
  <2>3. CASE d = "tag_next_slot"
    BY <1>2, <1>3, <2>3
  <2>4. CASE d = "too_long"
    BY <1>2, <1>3, <2>4
  <2>5. CASE d = "padding_noise"
    BY <1>2, <1>3, <2>5
  <2>6. CASE d = "padding_zero"
    BY <1>2, <1>3, <2>6
  <2>7. CASE d \notin {"outer_version", "tag", "tag_next_slot", "too_long", "padding_noise",
                       "padding_zero"}
    BY <1>2, <1>3, <2>7
  <2> QED
    BY <2>1, <2>2, <2>3, <2>4, <2>5, <2>6, <2>7
<1> QED
  BY <1>4 DEF S, F, tag, late, pad, ReplyOf

\* The vector of an encrypted reply.
LEMMA VectorIs ==
    ASSUME NEW d \in Mistakes, NEW v \in Version, v # 4, NEW t \in Nat, NEW u \in Nat
    PROVE  LET F == FieldsOf(d, v, t, u)
           IN  /\ F.iv \in Vector(v)
               /\ encrypt_block(v, F.iv) = IF d = "zero_iv" THEN Zero
                                           ELSE IF v = 5 /\ d # "other_iv" THEN Atom("request_iv")
                                           ELSE IF v = 6 /\ d = "other_iv" THEN Atom("request_iv")
                                           ELSE <<"E", v, Atom("random_iv")>>
<1> DEFINE x == FieldsOf(d, v, t, u).iv
<1>1. x = IF d = "other_iv"
            THEN IF v = 5 THEN Atom("random_iv") ELSE decrypt_block(v, Atom("request_iv"))
          ELSE IF d = "zero_iv" THEN decrypt_block(v, Zero)
          ELSE IF v = 6 THEN Atom("random_iv") ELSE decrypt_block(v, Atom("request_iv"))
  BY DEF FieldsOf, Secret
<1> HIDE DEF x
<1>2. v \in {5, 6}
  BY DEF Version
<1>3. encrypt_block(v, Atom("random_iv")) = <<"E", v, Atom("random_iv")>>
  BY DEF encrypt_block, Atom
<1>4. encrypt_block(v, decrypt_block(v, Atom("request_iv"))) = Atom("request_iv")
  BY DEF encrypt_block, decrypt_block, Atom
<1>5. encrypt_block(v, decrypt_block(v, Zero)) = Zero
  BY DEF encrypt_block, decrypt_block, Zero
<1>6. x \in Vector(v)
  BY <1>1 DEF Vector
<1>7. encrypt_block(v, x) = IF d = "zero_iv" THEN Zero
                            ELSE IF v = 5 /\ d # "other_iv" THEN Atom("request_iv")
                            ELSE IF v = 6 /\ d = "other_iv" THEN Atom("request_iv")
                            ELSE <<"E", v, Atom("random_iv")>>
  <2>1. CASE d = "zero_iv"
    BY <1>1, <1>5, <2>1
  <2>2. CASE d = "other_iv"
    BY <1>1, <1>2, <1>3, <1>4, <2>2
  <2>3. CASE d \notin {"zero_iv", "other_iv"}
    BY <1>1, <1>2, <1>3, <1>4, <2>3
  <2> QED
    BY <2>1, <2>2, <2>3
<1> QED
  BY <1>6, <1>7 DEF x

\* What the client reads is what was sealed.
GotOf(d, v, t, u) ==
    LET F == FieldsOf(d, v, t, u)
        S == ReplyOf(d, v, t, u)
        n == content_len(v, F.pid.len) + S.extra
    IN  [outer |-> S.outer, response_iv |-> IF v = 4 THEN Zero ELSE encrypt_block(v, F.iv),
         fields |-> F, tag |-> S.tag, message |-> <<F, S.extra>>, padding_ok |-> PaddingOk(S),
         wire_len |-> IF v = 4 THEN n + MAC_LEN ELSE UNENCRYPTED_PREFIX_LEN + padded_len(n)]

LEMMA GotIs ==
    ASSUME NEW d \in Mistakes, NEW v \in Version, NEW t \in Nat, NEW u \in Nat
    PROVE  LET st == seal(v, ReplyOf(d, v, t, u))
           IN  /\ st.len = GotOf(d, v, t, u).wire_len
               /\ decode_response(v, st) = GotOf(d, v, t, u)
               /\ v # 4 /\ ReplyOf(d, v, t, u).pad \notin 1..BLOCK_LEN => response_error(v, st)
<1> DEFINE F == FieldsOf(d, v, t, u)
           S == ReplyOf(d, v, t, u)
           st == seal(v, S)
           got == decode_response(v, st)
           blank == [S EXCEPT !.fields.iv = Zero]
           n == content_len(v, F.pid.len) + S.extra
<1>1. S = [outer |-> S.outer, fields |-> F, tag |-> S.tag, extra |-> S.extra, pad |-> S.pad,
           uniform |-> S.uniform]
  <2> HIDE DEF F
  <2> QED
    BY DEF ReplyOf, F
<1>2. F = [iv |-> F.iv, version |-> F.version, pid |-> F.pid,
           client_machine_id |-> F.client_machine_id, client_time |-> F.client_time,
           random_xored_ivs |-> F.random_xored_ivs, hash |-> F.hash, carried |-> F.carried]
  BY DEF FieldsOf
<1>3. v # 4 => F.iv \in Vector(v)
  BY VectorIs
<1> HIDE DEF F, S
<1>4. S.fields = F
  BY <1>1
<1>5. st = [outer |-> S.outer,
            len |-> IF v = 4 THEN n + MAC_LEN ELSE UNENCRYPTED_PREFIX_LEN + padded_len(n),
            blocks |-> IF v = 4 THEN <<Body(S)>>
                       ELSE encrypt_in_place(v, Zero, <<F.iv, Body(blank)>>)]
  BY <1>4 DEF seal, schedule
<1>6. /\ blank.outer = S.outer /\ blank.tag = S.tag /\ blank.extra = S.extra
      /\ blank.pad = S.pad /\ blank.uniform = S.uniform
      /\ blank.fields = [F EXCEPT !.iv = Zero]
  BY <1>1, <1>4
<1>7. [blank.fields EXCEPT !.iv = F.iv] = F
  BY <1>2, <1>6
<1>8. CASE v = 4
  <2>1. st.blocks = <<Body(S)>>
    BY <1>5, <1>8
  <2>2. (<<Zero>> \o st.blocks)[2][2] = S
    BY <2>1, JoinOne DEF Body
  <2>3. [S.fields EXCEPT !.iv = S.fields.iv] = F
    BY <1>2, <1>4
  <2>4. got = [outer |-> st.outer, response_iv |-> Zero, fields |-> F, tag |-> S.tag,
               message |-> <<F, S.extra>>, padding_ok |-> PaddingOk(S), wire_len |-> st.len]
    BY <1>8, <2>2, <2>3 DEF decode_response
  <2> HIDE DEF got, st, n
  <2>5. st.outer = S.outer /\ st.len = n + MAC_LEN
    BY <1>5, <1>8
  <2> QED
    BY <1>8, <2>4, <2>5 DEF got, st, S, F, n, GotOf
<1>9. CASE v # 4
  <2> DEFINE plain == decrypt(v, Zero, st.blocks)
  <2>1. st.blocks = encrypt_in_place(v, Zero, <<F.iv, Body(blank)>>)
    BY <1>5, <1>9
  <2>2. st.blocks[1] = encrypt_block(v, F.iv) /\ plain = <<F.iv, Body(blank)>>
    <3> HIDE DEF st, blank
    <3> QED
      BY <1>3, <1>9, <2>1, TwoBack
  <2>3. plain[1] = F.iv /\ plain[2][1] = "body" /\ plain[2][2] = blank
    <3> HIDE DEF blank, plain
    <3> QED
      BY <2>2 DEF Body
  <2>4. PaddingOk(blank) <=> PaddingOk(S)
    BY <1>6 DEF PaddingOk
  <2>5. st.outer = S.outer /\ st.len = UNENCRYPTED_PREFIX_LEN + padded_len(n)
    BY <1>5, <1>9
  <2> HIDE DEF blank, st, n
  <2>6. got = [outer |-> st.outer, response_iv |-> st.blocks[1],
               fields |-> [plain[2][2].fields EXCEPT !.iv = plain[1]],
               tag |-> plain[2][2].tag,
               message |-> <<[plain[2][2].fields EXCEPT !.iv = plain[1]], plain[2][2].extra>>,
               padding_ok |-> PaddingOk(plain[2][2]), wire_len |-> st.len]
    BY <1>9 DEF decode_response, schedule
  <2>7. response_error(v, st) <=>
           \/ st.len =< UNENCRYPTED_PREFIX_LEN
           \/ (st.len - UNENCRYPTED_PREFIX_LEN) % BLOCK_LEN # 0
           \/ plain[2][1] # "body"
           \/ plain[2][2].pad \notin 1..BLOCK_LEN
    BY <1>9 DEF response_error, schedule
  <2> HIDE DEF plain, got
  <2>8. PaddingOk(blank) = PaddingOk(S)
    BY <2>4 DEF PaddingOk
  <2>9. got = [outer |-> S.outer, response_iv |-> encrypt_block(v, F.iv),
               fields |-> F, tag |-> S.tag, message |-> <<F, S.extra>>,
               padding_ok |-> PaddingOk(S), wire_len |-> st.len]
    BY <1>6, <1>7, <2>2, <2>3, <2>5, <2>6, <2>8
  <2> QED
    BY <1>6, <1>9, <2>3, <2>5, <2>7, <2>9 DEF got, st, S, F, n, GotOf
<1> QED
  BY <1>8, <1>9

(***************************************************************************)
(* The twelve checks, one by one.                                          *)
(***************************************************************************)
Checks ==
    {"VersionOk", "ClientMachineIdOk", "TimeStampOk", "SizeOk", "PidLengthOk", "DecryptSuccess",
     "HashOk", "IvsOk", "IvNotSuspicious", "SaltProofOk", "DecryptedIvOk", "HmacSha256Ok"}

\* A check that fails: it applies, and does not hold.
LEMMA FailuresAre ==
    ASSUME NEW s, NEW got
    PROVE  LET f == got.fields
               v == s.version
               own == to_protocol_version(v)
               fresh == got.response_iv # s.request_iv
           IN  /\ failures(s, got) \subseteq Checks
               /\ "VersionOk" \in failures(s, got) <=>
                    ~(/\ f.version = own /\ s.header_version = own
                      /\ v # 4 => got.outer = own)
               /\ "ClientMachineIdOk" \in failures(s, got) <=>
                    f.client_machine_id # s.client_machine_id
               /\ "TimeStampOk" \in failures(s, got) <=> f.client_time # s.client_time
               /\ "SizeOk" \in failures(s, got) <=> got.wire_len # response_len(v, f.pid.len)
               /\ "PidLengthOk" \in failures(s, got) <=> ~pid_is_well_formed(f.pid)
               /\ "DecryptSuccess" \in failures(s, got) <=> v # 4 /\ ~got.padding_ok
               /\ "HashOk" \in failures(s, got) <=> v = 4 /\ got.tag # mac_tag(got.message)
               /\ "IvsOk" \in failures(s, got) <=> v # 4 /\ ~(fresh <=> v = 6)
               /\ "IvNotSuspicious" \in failures(s, got) <=>
                    v # 4 /\ ~(got.response_iv # Zero /\ (v = 6 => fresh))
               /\ "SaltProofOk" \in failures(s, got) <=>
                    v # 4 /\ sha256(xor_into(f.random_xored_ivs, s.shared_secret)) # f.hash
               /\ "DecryptedIvOk" \in failures(s, got) <=> v = 6 /\ f.carried # s.shared_secret
               /\ "HmacSha256Ok" \in failures(s, got) <=>
                    v = 6 /\ ~\E offset \in SlotOffset :
                               got.tag = v6_tag(s.client_time, offset, got.message)
<1> DEFINE f == got.fields
           v == s.version
           own == to_protocol_version(v)
           fresh == got.response_iv # s.request_iv
           named(name, failing) == IF failing THEN {name} ELSE {}
           c1 == ~(/\ f.version = own /\ s.header_version = own
                   /\ v # 4 => got.outer = own)
           c2 == f.client_machine_id # s.client_machine_id
           c3 == f.client_time # s.client_time
           c4 == got.wire_len # response_len(v, f.pid.len)
           c5 == ~pid_is_well_formed(f.pid)
           c6 == v # 4 /\ ~got.padding_ok
           c7 == v = 4 /\ got.tag # mac_tag(got.message)
           c8 == v # 4 /\ ~(fresh <=> v = 6)
           c9 == v # 4 /\ ~(got.response_iv # Zero /\ (v = 6 => fresh))
           c10 == v # 4 /\ sha256(xor_into(f.random_xored_ivs, s.shared_secret)) # f.hash
           c11 == v = 6 /\ f.carried # s.shared_secret
           c12 == v = 6 /\ ~\E offset \in SlotOffset :
                              got.tag = v6_tag(s.client_time, offset, got.message)
<1>1. failures(s, got) =
        UNION {named("VersionOk", c1), named("ClientMachineIdOk", c2), named("TimeStampOk", c3),
               named("SizeOk", c4), named("PidLengthOk", c5), named("DecryptSuccess", c6),
               named("HashOk", c7), named("IvsOk", c8), named("IvNotSuspicious", c9),
               named("SaltProofOk", c10), named("DecryptedIvOk", c11), named("HmacSha256Ok", c12)}
  <2>1. /\ named("VersionOk", c1) = IF TRUE /\ ~(/\ f.version = own /\ s.header_version = own
                                                 /\ v # 4 => got.outer = own)
                                      THEN {"VersionOk"} ELSE {}
        /\ named("HashOk", c7) = IF v = 4 /\ ~(got.tag = mac_tag(got.message))
                                   THEN {"HashOk"} ELSE {}
    OBVIOUS
  <2> QED
    BY DEF failures
<1>0. /\ c1 \in BOOLEAN /\ c2 \in BOOLEAN /\ c3 \in BOOLEAN /\ c4 \in BOOLEAN
      /\ c5 \in BOOLEAN /\ c6 \in BOOLEAN /\ c7 \in BOOLEAN /\ c8 \in BOOLEAN
      /\ c9 \in BOOLEAN /\ c10 \in BOOLEAN /\ c11 \in BOOLEAN /\ c12 \in BOOLEAN
  OBVIOUS
<1> HIDE DEF c1, c2, c3, c4, c5, c6, c7, c8, c9, c10, c11, c12
<1>2. \A x : x \in failures(s, got) <=>
        \/ x \in named("VersionOk", c1) \/ x \in named("ClientMachineIdOk", c2)
        \/ x \in named("TimeStampOk", c3) \/ x \in named("SizeOk", c4)
        \/ x \in named("PidLengthOk", c5) \/ x \in named("DecryptSuccess", c6)
        \/ x \in named("HashOk", c7) \/ x \in named("IvsOk", c8)
        \/ x \in named("IvNotSuspicious", c9) \/ x \in named("SaltProofOk", c10)
        \/ x \in named("DecryptedIvOk", c11) \/ x \in named("HmacSha256Ok", c12)
  <2> HIDE DEF named
  <2> QED
    BY <1>1
<1> DEFINE F == failures(s, got)
<1> HIDE DEF F
<1>3. F \subseteq Checks
  BY <1>2 DEF F, Checks
<1>4. /\ "VersionOk" \in F <=> c1
      /\ "ClientMachineIdOk" \in F <=> c2
      /\ "TimeStampOk" \in F <=> c3
      /\ "SizeOk" \in F <=> c4
      /\ "PidLengthOk" \in F <=> c5
      /\ "DecryptSuccess" \in F <=> c6
      /\ "HashOk" \in F <=> c7
      /\ "IvsOk" \in F <=> c8
      /\ "IvNotSuspicious" \in F <=> c9
      /\ "SaltProofOk" \in F <=> c10
      /\ "DecryptedIvOk" \in F <=> c11
      /\ "HmacSha256Ok" \in F <=> c12
  BY <1>0, <1>2 DEF F
<1> QED
  BY <1>3, <1>4 DEF F, c1, c2, c3, c4, c5, c6, c7, c8, c9, c10, c11, c12

\* The mistakes that make a check fail.
Culprits(name, v, t) ==
    CASE name = "VersionOk" -> {"inner_version"} \cup (IF v = 4 THEN {} ELSE {"outer_version"})
      [] name = "ClientMachineIdOk" -> {"other_cmid"}
      [] name = "TimeStampOk" -> {"late", "next_slot"}
      [] name = "SizeOk" -> {"too_long"}
      [] name = "PidLengthOk" -> {"unterminated", "interior_nul", "odd_pid", "long_pid"}
      [] name = "DecryptSuccess" -> IF v = 4 THEN {} ELSE {"padding_noise"}
      [] name = "HashOk" -> IF v = 4 THEN {"tag", "tag_next_slot", "too_long"} ELSE {}
      [] name = "IvsOk" -> IF v = 4 THEN {} ELSE IF v = 5 THEN {"other_iv", "zero_iv"} ELSE {"other_iv"}
      [] name = "IvNotSuspicious" -> IF v = 4 THEN {} ELSE IF v = 5 THEN {"zero_iv"}
                                     ELSE {"other_iv", "zero_iv"}
      [] name = "SaltProofOk" -> IF v = 4 THEN {} ELSE {"salt"}
      [] name = "DecryptedIvOk" -> IF v = 6 THEN {"secret"} ELSE {}
      [] name = "HmacSha256Ok" ->
           IF v # 6 THEN {}
           ELSE {"tag", "tag_next_slot", "too_long", "next_slot"}
                  \cup (IF (t + 1) % TIME_C1 = 0 THEN {"late"} ELSE {})

\* What the client remembers of its request.
RequestFor(s, v, t) ==
    /\ s.version = v /\ s.header_version = <<v, 0>>
    /\ s.client_machine_id = "cmid" /\ s.client_time = t
    /\ s.request_iv = (IF v = 4 THEN Zero ELSE Atom("request_iv"))
    /\ s.shared_secret = Secret(v)

\* A reply that is read at all has padding of a length there is.
Readable(d, v) == v # 4 => d # "padding_zero"

LEMMA PaddingIs ==
    ASSUME NEW d \in Mistakes, NEW v \in Version, NEW t \in Nat, NEW u \in Nat
    PROVE  /\ content_len(v, FieldsOf(d, v, t, u).pid.len) \in Nat
           /\ ReplyOf(d, v, t, u).pad \in 1..BLOCK_LEN <=> d # "padding_zero"
<1> DEFINE len == FieldsOf(d, v, t, u).pid.len
           n == content_len(v, len)
<1>1. len \in Nat
  BY DEF FieldsOf
<1> HIDE DEF len
<1>2. n \in Nat
  BY <1>1 DEF content_len, RESPONSE_HEAD_LEN, response_tail_len, RESPONSE_TAIL_LEN,
              SALT_PROOF_LEN, V6_TRAILER_LEN, IV_LEN, Version
<1> HIDE DEF n
<1>3. padding_len(n) \in 1..BLOCK_LEN /\ 0 \notin 1..BLOCK_LEN
  BY <1>2 DEF padding_len, BLOCK_LEN
<1>4. ReplyOf(d, v, t, u).pad = IF d = "padding_zero" THEN 0 ELSE padding_len(n)
  BY DEF ReplyOf, n, len
<1> QED
  BY <1>2, <1>3, <1>4 DEF n, len

\* The checks that read fields.
LEMMA FieldChecks ==
    ASSUME NEW d \in Mistakes, NEW v \in Version, NEW t \in Nat, NEW u \in 0..MAX_EPID_UNITS,
           d = "interior_nul" => u > 0
    PROVE  LET f == FieldsOf(d, v, t, u)
           IN  /\ f.version = <<v, 0>> <=> d # "inner_version"
               /\ f.client_machine_id = "cmid" <=> d # "other_cmid"
               /\ f.client_time = t <=> d \notin {"late", "next_slot"}
               /\ pid_is_well_formed(f.pid)
                    <=> d \notin {"unterminated", "interior_nul", "odd_pid", "long_pid"}
               /\ v # 4 => (sha256(xor_into(f.random_xored_ivs, Secret(v))) = f.hash <=> d # "salt")
               /\ v = 6 => (f.carried = Secret(v) <=> d # "secret")
<1> DEFINE f == FieldsOf(d, v, t, u)
           secret == Secret(v)
<1>1. f.version = <<v, 0>> <=> d # "inner_version"
  BY DEF FieldsOf
<1>2. f.client_machine_id = "cmid" <=> d # "other_cmid"
  BY DEF FieldsOf
<1>3. f.client_time = t <=> d \notin {"late", "next_slot"}
  <2>1. f.client_time = IF d = "late" THEN t + 1 ELSE IF d = "next_slot" THEN t + TIME_C1 ELSE t
    BY DEF FieldsOf
  <2> HIDE DEF f
  <2> QED
    BY <2>1, CryptoAssumption
<1>4. pid_is_well_formed(f.pid)
        <=> d \notin {"unterminated", "interior_nul", "odd_pid", "long_pid"}
  <2> DEFINE pid == f.pid
  <2>1. /\ pid.len = IF d = "odd_pid" THEN (u + 1) * 2 + 1
                     ELSE IF d = "long_pid" THEN 130 ELSE (u + 1) * 2
        /\ pid.nuls = IF d = "unterminated" THEN {}
                      ELSE IF d = "interior_nul" THEN {u + 1, 1}
                      ELSE IF d = "long_pid" THEN {65} ELSE {u + 1}
    BY DEF FieldsOf
  <2>2. pid_is_well_formed(pid) <=> /\ pid.len % 2 = 0 /\ pid.len # 0 /\ pid.len =< 128
                                    /\ pid.nuls = {pid.len \div 2}
    BY DEF pid_is_well_formed, encoded_len, MAX_EPID_UNITS
  <2>3. u \in Nat /\ u =< 63
    BY DEF MAX_EPID_UNITS
  <2> SUFFICES pid_is_well_formed(pid)
                 <=> d \notin {"unterminated", "interior_nul", "odd_pid", "long_pid"}
    OBVIOUS
  <2> HIDE DEF f, pid
  <2>4. CASE d = "odd_pid"
    BY <2>1, <2>2, <2>3, <2>4
  <2>5. CASE d = "long_pid"
    BY <2>1, <2>2, <2>3, <2>5
  <2>6. CASE d = "interior_nul"
    <3>1. pid.nuls = {u + 1, 1} /\ u + 1 # 1
      BY <2>1, <2>3, <2>6
    <3>2. \A x : pid.nuls # {x}
      BY <3>1
    <3> QED
      BY <2>2, <2>6, <3>2
  <2>7. CASE d = "unterminated"
    BY <2>1, <2>2, <2>7
  <2>8. CASE d \notin {"unterminated", "interior_nul", "odd_pid", "long_pid"}
    <3>1. pid.len = (u + 1) * 2 /\ pid.nuls = {u + 1}
      BY <2>1, <2>8
    <3>2. ((u + 1) * 2) % 2 = 0 /\ ((u + 1) * 2) \div 2 = u + 1
      BY <2>3
    <3> QED
      BY <2>2, <2>3, <2>8, <3>1, <3>2
  <2> QED
    BY <2>4, <2>5, <2>6, <2>7, <2>8
<1>5. v # 4 => (sha256(xor_into(f.random_xored_ivs, secret)) = f.hash <=> d # "salt")
  <2> SUFFICES ASSUME v # 4
               PROVE  sha256(xor_into(f.random_xored_ivs, secret)) = f.hash <=> d # "salt"
    OBVIOUS
  <2>1. f.random_xored_ivs = xor_into(Atom("salt"), secret)
    BY DEF FieldsOf
  <2>2. f.hash = IF d = "salt" THEN sha256(Atom("other_salt")) ELSE sha256(Atom("salt"))
    BY DEF FieldsOf
  <2>3. secret = <<"D", v, Atom("request_iv")>>
    BY DEF Secret, decrypt_block, Atom
  <2>4. secret # Zero
    BY <2>3 DEF Zero
  <2> HIDE DEF f, secret
  <2>5. xor_into(Atom("salt"), secret) = <<"xor", Atom("salt"), secret>>
    BY <2>4 DEF xor_into, Atom
  <2>6. \A x : xor_into(<<"xor", x, secret>>, secret) = x
    BY <2>4 DEF xor_into
  <2>7. xor_into(f.random_xored_ivs, secret) = Atom("salt")
    BY <2>1, <2>5, <2>6
  <2>8. sha256(Atom("other_salt")) # sha256(Atom("salt"))
    BY DEF sha256, Atom
  <2> QED
    BY <2>2, <2>7, <2>8
<1>6. v = 6 => (f.carried = secret <=> d # "secret")
  <2>1. f.carried = IF d = "secret" THEN Atom("guess") ELSE secret
    BY DEF FieldsOf
  <2>2. v = 6 => Atom("guess") # secret
    BY DEF Secret, decrypt_block, Atom
  <2> HIDE DEF f, secret
  <2> QED
    BY <2>1, <2>2
<1> QED
  BY <1>1, <1>2, <1>3, <1>4, <1>5, <1>6

\* The checks on the frame, the vector and the tag.
LEMMA FrameChecks ==
    ASSUME NEW d \in Mistakes, NEW v \in Version, NEW t \in Nat, NEW u \in 0..MAX_EPID_UNITS,
           Readable(d, v)
    PROVE  LET got == GotOf(d, v, t, u)
               fresh == got.response_iv # Atom("request_iv")
           IN  /\ got.fields = FieldsOf(d, v, t, u)
               /\ got.outer = <<v, 0>> <=> d # "outer_version"
               /\ got.wire_len = response_len(v, FieldsOf(d, v, t, u).pid.len) <=> d # "too_long"
               /\ v # 4 => (got.padding_ok <=> d # "padding_noise")
               /\ v # 4 => (fresh <=> d = "zero_iv" \/ (v = 5 <=> d = "other_iv"))
               /\ v # 4 => (got.response_iv # Zero <=> d # "zero_iv")
<1> DEFINE got == GotOf(d, v, t, u)
           F == FieldsOf(d, v, t, u)
           S == ReplyOf(d, v, t, u)
           fresh == got.response_iv # Atom("request_iv")
           n == content_len(v, F.pid.len)
<1>1. /\ S.outer = <<v, IF d = "outer_version" THEN 1 ELSE 0>>
      /\ S.extra = IF d = "too_long" THEN BLOCK_LEN ELSE 0
      /\ S.uniform = (d # "padding_noise")
  BY DEF ReplyOf
<1>2. u \in Nat /\ n \in Nat /\ (v # 4 => S.pad \in 1..BLOCK_LEN)
  <2>1. u \in Nat
    BY DEF MAX_EPID_UNITS
  <2>2. n \in Nat /\ (S.pad \in 1..BLOCK_LEN <=> d # "padding_zero")
    BY <2>1, PaddingIs
  <2> HIDE DEF n, S
  <2> QED
    BY <2>1, <2>2 DEF Readable
<1> HIDE DEF F, S, n
<1>3. /\ got.fields = F /\ got.outer = S.outer /\ got.padding_ok = PaddingOk(S)
      /\ got.response_iv = (IF v = 4 THEN Zero ELSE encrypt_block(v, F.iv))
      /\ got.wire_len = IF v = 4 THEN n + S.extra + MAC_LEN
                        ELSE UNENCRYPTED_PREFIX_LEN + padded_len(n + S.extra)
  BY DEF GotOf, F, S, n
<1> HIDE DEF got
<1>4. got.outer = <<v, 0>> <=> d # "outer_version"
  BY <1>1, <1>3
<1>5. got.wire_len = response_len(v, F.pid.len) <=> d # "too_long"
  <2>1. response_len(v, F.pid.len) = IF v = 4 THEN n + MAC_LEN
                                     ELSE UNENCRYPTED_PREFIX_LEN + padded_len(n)
    BY DEF response_len, n
  <2>2. padded_len(n) \in Nat /\ padded_len(n + BLOCK_LEN) = padded_len(n) + BLOCK_LEN
    BY <1>2 DEF padded_len, padding_len, BLOCK_LEN
  <2>3. n + 0 = n
    BY <1>2
  <2>4. CASE d = "too_long"
    <3>1. S.extra = BLOCK_LEN
      BY <1>1, <2>4
    <3> QED
      BY <1>2, <1>3, <2>1, <2>2, <2>4, <3>1 DEF BLOCK_LEN, MAC_LEN, UNENCRYPTED_PREFIX_LEN
  <2>5. CASE d # "too_long"
    <3>1. S.extra = 0 /\ n + S.extra = n
      BY <1>1, <2>3, <2>5
    <3> QED
      BY <1>3, <2>1, <2>5, <3>1
  <2> QED
    BY <2>4, <2>5
<1>6. v # 4 => (got.padding_ok <=> d # "padding_noise")
  BY <1>1, <1>2, <1>3 DEF PaddingOk
<1>7. ASSUME v # 4
      PROVE  /\ fresh <=> d = "zero_iv" \/ (v = 5 <=> d = "other_iv")
             /\ got.response_iv # Zero <=> d # "zero_iv"
  <2> DEFINE r == got.response_iv
             same == Atom("request_iv")
             new == <<"E", v, Atom("random_iv")>>
  <2>1. r = IF d = "zero_iv" THEN Zero
            ELSE IF v = 5 /\ d # "other_iv" THEN same
            ELSE IF v = 6 /\ d = "other_iv" THEN same ELSE new
    <3>1. encrypt_block(v, FieldsOf(d, v, t, u).iv)
            = IF d = "zero_iv" THEN Zero
              ELSE IF v = 5 /\ d # "other_iv" THEN Atom("request_iv")
              ELSE IF v = 6 /\ d = "other_iv" THEN Atom("request_iv")
              ELSE <<"E", v, Atom("random_iv")>>
      BY <1>2, <1>7, VectorIs
    <3> QED
      BY <1>3, <1>7, <3>1 DEF F
  <2>2. new # same /\ new # Zero /\ same # Zero
    BY DEF Atom, Zero
  <2>3. v \in {5, 6}
    BY <1>7 DEF Version
  <2> SUFFICES /\ r # same <=> d = "zero_iv" \/ (v = 5 <=> d = "other_iv")
               /\ r # Zero <=> d # "zero_iv"
    OBVIOUS
  <2> HIDE DEF r, same, new
  <2> QED
    BY <2>1, <2>2, <2>3
<1> QED
  BY <1>3, <1>4, <1>5, <1>6, <1>7 DEF got, F

\* The tags.
LEMMA TagChecks ==
    ASSUME NEW d \in Mistakes, NEW v \in Version, NEW t \in Nat, NEW u \in Nat
    PROVE  LET got == GotOf(d, v, t, u)
           IN  /\ v = 4 => (got.tag = mac_tag(got.message)
                              <=> d \notin {"tag", "tag_next_slot", "too_long"})
               /\ v = 6 => ((\E offset \in SlotOffset :
                                got.tag = v6_tag(t, offset, got.message))
                              <=> /\ d \notin {"tag", "tag_next_slot", "too_long", "next_slot"}
                                  /\ d = "late" => (t + 1) % TIME_C1 # 0)
<1> DEFINE got == GotOf(d, v, t, u)
           F == FieldsOf(d, v, t, u)
           S == ReplyOf(d, v, t, u)
           stamp == F.client_time
           extra == S.extra
           k(a, offset) == sha256(time_slot(a, offset))
<1>1. /\ S.tag = IF d = "tag" THEN Zero
                 ELSE IF d = "tag_next_slot" THEN v6_tag(stamp + TIME_C1, "Current", <<F, 0>>)
                 ELSE Tag(v, F, 0)
      /\ extra = IF d = "too_long" THEN 16 ELSE 0
  BY DEF ReplyOf, BLOCK_LEN
<1>2. stamp = IF d = "late" THEN t + 1 ELSE IF d = "next_slot" THEN t + TIME_C1 ELSE t
  BY DEF FieldsOf
<1>3. got.tag = S.tag /\ got.message = <<F, extra>>
  BY DEF GotOf
<1>4. \A m, n, a, offset : mac_tag(m) # Zero /\ v6_tag(a, offset, m) # Zero
                             /\ mac_tag(m) # v6_tag(a, offset, n)
                             /\ (mac_tag(m) = mac_tag(n) => m = n)
  BY DEF mac_tag, v6_tag, hmac_sha256, Zero
<1>5. \A a, b, o, p, m, n :
         v6_tag(a, o, m) = v6_tag(b, p, n) <=> time_slot(a, o) = time_slot(b, p) /\ m = n
  BY DEF v6_tag, hmac_sha256, sha256
<1> HIDE DEF got, F, S, stamp, extra
<1>6. <<F, 0>> # <<F, 16>>
  OBVIOUS
<1>7. v = 4 => (got.tag = mac_tag(got.message) <=> d \notin {"tag", "tag_next_slot", "too_long"})
  <2> SUFFICES ASSUME v = 4
               PROVE  got.tag = mac_tag(got.message) <=> d \notin {"tag", "tag_next_slot", "too_long"}
    OBVIOUS
  <2>1. Tag(v, F, 0) = mac_tag(<<F, 0>>)
    BY DEF Tag
  <2>2. CASE d \in {"tag", "tag_next_slot"}
    BY <1>1, <1>3, <1>4, <2>2
  <2>3. CASE d = "too_long"
    BY <1>1, <1>3, <1>4, <1>6, <2>1, <2>3
  <2>4. CASE d \notin {"tag", "tag_next_slot", "too_long"}
    BY <1>1, <1>3, <2>1, <2>4
  <2> QED
    BY <2>2, <2>3, <2>4
<1>8. ASSUME v = 6
      PROVE  (\E offset \in SlotOffset : got.tag = v6_tag(t, offset, got.message))
               <=> /\ d \notin {"tag", "tag_next_slot", "too_long", "next_slot"}
                   /\ d = "late" => (t + 1) % TIME_C1 # 0
  <2> DEFINE passes == \E offset \in SlotOffset : got.tag = v6_tag(t, offset, got.message)
  <2>1. Tag(v, F, 0) = v6_tag(stamp, "Current", <<F, 0>>)
    BY <1>8 DEF Tag, stamp
  <2>2. "Current" \in SlotOffset
    BY DEF SlotOffset
  <2>3. /\ TIME_C1 \in Nat \ {0} /\ t + 1 \in Nat /\ t + TIME_C1 \in Nat
    BY CryptoAssumption
  <2>4. \A offset \in SlotOffset : time_slot(t + TIME_C1, "Current") # time_slot(t, offset)
    BY <2>3, SlotApart, SlotSteps
  <2>5. CASE d = "tag"
    BY <1>1, <1>3, <1>4, <2>5
  <2>6. CASE d = "too_long"
    BY <1>1, <1>3, <1>5, <1>6, <2>1, <2>6
  <2>7. CASE d \in {"tag_next_slot", "next_slot"}
    <3>1. got.tag = v6_tag(t + TIME_C1, "Current", <<F, 0>>)
      BY <1>1, <1>2, <1>3, <2>1, <2>7
    <3> QED
      BY <1>5, <2>4, <2>7, <3>1
  <2>8. CASE d = "late"
    <3>1. got.tag = v6_tag(t + 1, "Current", <<F, 0>>) /\ got.message = <<F, 0>>
      BY <1>1, <1>2, <1>3, <2>1, <2>8
    <3>2. CASE (t + 1) % TIME_C1 = 0
      <4>1. \A offset \in SlotOffset : time_slot(t + 1, "Current") # time_slot(t, offset)
        BY <2>3, <3>2, SlotApart, SlotSteps
      <4> QED
        BY <1>5, <2>8, <3>1, <3>2, <4>1
    <3>3. CASE (t + 1) % TIME_C1 # 0
      <4>1. time_slot(t + 1, "Current") = time_slot(t, "Current")
        BY <2>3, <3>3, SlotSteps DEF time_slot
      <4>2. got.tag = v6_tag(t, "Current", got.message)
        BY <1>5, <3>1, <4>1
      <4> QED
        BY <2>2, <2>8, <3>3, <4>2
    <3> QED
      BY <3>2, <3>3
  <2>9. CASE d \notin {"tag", "tag_next_slot", "too_long", "next_slot", "late"}
    <3>1. got.tag = v6_tag(t, "Current", got.message)
      BY <1>1, <1>2, <1>3, <2>1, <2>9
    <3> QED
      BY <2>2, <2>9, <3>1
  <2> QED
    BY <2>5, <2>6, <2>7, <2>8, <2>9
<1> QED
  BY <1>7, <1>8 DEF got

\* A check fails when, and only when, the mistake is one it is about.
LEMMA CheckFails ==
    ASSUME NEW d \in Mistakes, NEW v \in Version, NEW t \in Nat, NEW u \in 0..MAX_EPID_UNITS,
           d = "interior_nul" => u > 0, Readable(d, v), NEW s, RequestFor(s, v, t)
    PROVE  LET failed == failures(s, GotOf(d, v, t, u))
           IN  /\ failed \subseteq Checks
               /\ \A name \in Checks : name \in failed <=> d \in Culprits(name, v, t)
<1> DEFINE got == GotOf(d, v, t, u)
           f == FieldsOf(d, v, t, u)
           failed == failures(s, got)
           fresh == got.response_iv # Atom("request_iv")
<1>1. /\ f.version = <<v, 0>> <=> d # "inner_version"
      /\ f.client_machine_id = "cmid" <=> d # "other_cmid"
      /\ f.client_time = t <=> d \notin {"late", "next_slot"}
      /\ pid_is_well_formed(f.pid)
           <=> d \notin {"unterminated", "interior_nul", "odd_pid", "long_pid"}
      /\ v # 4 => (sha256(xor_into(f.random_xored_ivs, Secret(v))) = f.hash <=> d # "salt")
      /\ v = 6 => (f.carried = Secret(v) <=> d # "secret")
  BY FieldChecks
<1>2. /\ got.fields = f
      /\ got.outer = <<v, 0>> <=> d # "outer_version"
      /\ got.wire_len = response_len(v, f.pid.len) <=> d # "too_long"
      /\ v # 4 => (got.padding_ok <=> d # "padding_noise")
      /\ v # 4 => (fresh <=> d = "zero_iv" \/ (v = 5 <=> d = "other_iv"))
      /\ v # 4 => (got.response_iv # Zero <=> d # "zero_iv")
  BY FrameChecks
<1>3. /\ v = 4 => (got.tag = mac_tag(got.message) <=> d \notin {"tag", "tag_next_slot", "too_long"})
      /\ v = 6 => ((\E offset \in SlotOffset : got.tag = v6_tag(t, offset, got.message))
                     <=> /\ d \notin {"tag", "tag_next_slot", "too_long", "next_slot"}
                         /\ d = "late" => (t + 1) % TIME_C1 # 0)
  <2>1. u \in Nat
    BY DEF MAX_EPID_UNITS
  <2> QED
    BY <2>1, TagChecks
<1>4. /\ s.version = v /\ s.header_version = <<v, 0>>
      /\ s.client_machine_id = "cmid" /\ s.client_time = t
      /\ v # 4 => s.request_iv = Atom("request_iv")
      /\ s.shared_secret = Secret(v) /\ to_protocol_version(v) = <<v, 0>>
  BY DEF RequestFor, to_protocol_version
<1> HIDE DEF got, f
<1>5. /\ failed \subseteq Checks
      /\ "VersionOk" \in failed <=>
           ~(/\ got.fields.version = to_protocol_version(s.version)
             /\ s.header_version = to_protocol_version(s.version)
             /\ s.version # 4 => got.outer = to_protocol_version(s.version))
      /\ "ClientMachineIdOk" \in failed <=> got.fields.client_machine_id # s.client_machine_id
      /\ "TimeStampOk" \in failed <=> got.fields.client_time # s.client_time
      /\ "SizeOk" \in failed <=> got.wire_len # response_len(s.version, got.fields.pid.len)
      /\ "PidLengthOk" \in failed <=> ~pid_is_well_formed(got.fields.pid)
      /\ "DecryptSuccess" \in failed <=> s.version # 4 /\ ~got.padding_ok
      /\ "HashOk" \in failed <=> s.version = 4 /\ got.tag # mac_tag(got.message)
      /\ "IvsOk" \in failed <=>
           s.version # 4 /\ ~(got.response_iv # s.request_iv <=> s.version = 6)
      /\ "IvNotSuspicious" \in failed <=>
           s.version # 4 /\ ~(/\ got.response_iv # Zero
                              /\ s.version = 6 => got.response_iv # s.request_iv)
      /\ "SaltProofOk" \in failed <=>
           /\ s.version # 4
           /\ sha256(xor_into(got.fields.random_xored_ivs, s.shared_secret)) # got.fields.hash
      /\ "DecryptedIvOk" \in failed <=> s.version = 6 /\ got.fields.carried # s.shared_secret
      /\ "HmacSha256Ok" \in failed <=>
           s.version = 6 /\ ~\E offset \in SlotOffset :
                               got.tag = v6_tag(s.client_time, offset, got.message)
  BY FailuresAre
<1>6. v \in {4, 5, 6}
  BY DEF Version
<1> HIDE DEF failed
<1>7. "VersionOk" \in failed <=> d \in Culprits("VersionOk", v, t)
  BY <1>1, <1>2, <1>4, <1>5 DEF Culprits
<1>8. "ClientMachineIdOk" \in failed <=> d \in Culprits("ClientMachineIdOk", v, t)
  BY <1>1, <1>2, <1>4, <1>5 DEF Culprits
<1>9. "TimeStampOk" \in failed <=> d \in Culprits("TimeStampOk", v, t)
  BY <1>1, <1>2, <1>4, <1>5 DEF Culprits
<1>10. "SizeOk" \in failed <=> d \in Culprits("SizeOk", v, t)
  BY <1>2, <1>4, <1>5 DEF Culprits
<1>11. "PidLengthOk" \in failed <=> d \in Culprits("PidLengthOk", v, t)
  BY <1>1, <1>2, <1>5 DEF Culprits
<1>12. "DecryptSuccess" \in failed <=> d \in Culprits("DecryptSuccess", v, t)
  BY <1>2, <1>4, <1>5 DEF Culprits
<1>13. "HashOk" \in failed <=> d \in Culprits("HashOk", v, t)
  BY <1>3, <1>4, <1>5 DEF Culprits
<1>14. "IvsOk" \in failed <=> d \in Culprits("IvsOk", v, t)
  BY <1>2, <1>4, <1>5, <1>6 DEF Culprits
<1>15. "IvNotSuspicious" \in failed <=> d \in Culprits("IvNotSuspicious", v, t)
  BY <1>2, <1>4, <1>5, <1>6 DEF Culprits
<1>16. "SaltProofOk" \in failed <=> d \in Culprits("SaltProofOk", v, t)
  BY <1>1, <1>2, <1>4, <1>5 DEF Culprits
<1>17. "DecryptedIvOk" \in failed <=> d \in Culprits("DecryptedIvOk", v, t)
  BY <1>1, <1>2, <1>4, <1>5 DEF Culprits
<1>18. "HmacSha256Ok" \in failed <=> d \in Culprits("HmacSha256Ok", v, t)
  BY <1>3, <1>4, <1>5 DEF Culprits
<1> HIDE DEF Culprits
<1>19. \A name \in Checks : name \in failed <=> d \in Culprits(name, v, t)
  BY <1>7, <1>8, <1>9, <1>10, <1>11, <1>12, <1>13, <1>14, <1>15, <1>16, <1>17, <1>18 DEF Checks
<1> QED
  BY <1>5, <1>19 DEF failed, got

\* So what fails is what the mistake is blamed for; and nothing without one.
LEMMA Diagnosis ==
    ASSUME NEW d \in Mistakes, NEW v \in Version, NEW t \in Nat, NEW u \in 0..MAX_EPID_UNITS,
           d = "interior_nul" => u > 0, Readable(d, v), NEW s, RequestFor(s, v, t)
    PROVE  LET failed == failures(s, GotOf(d, v, t, u))
           IN  /\ d = "none" => failed = {}
               /\ \/ failed = Blamed(d, v)
                  \/ /\ d = "late" /\ v = 6 /\ (t + 1) % TIME_C1 = 0
                     /\ failed = {"TimeStampOk", "HmacSha256Ok"}
<1> DEFINE failed == failures(s, GotOf(d, v, t, u))
           spoilt == d = "late" /\ v = 6 /\ (t + 1) % TIME_C1 = 0
<1>1. /\ failed \subseteq Checks
      /\ \A name \in Checks : name \in failed <=> d \in Culprits(name, v, t)
  BY CheckFails
<1>2. v \in {4, 5, 6}
  BY DEF Version
<1> HIDE DEF failed
<1>3. ASSUME d = "none" PROVE failed = {}
  <2>1. \A name \in Checks : d \notin Culprits(name, v, t)
    BY <1>3 DEF Culprits, Checks
  <2> QED
    BY <1>1, <2>1
<1>4. CASE spoilt
  <2>1. \A name \in Checks : d \in Culprits(name, v, t) <=> name \in {"TimeStampOk", "HmacSha256Ok"}
    BY <1>4 DEF Culprits, Checks
  <2>2. failed = {"TimeStampOk", "HmacSha256Ok"}
    BY <1>1, <2>1 DEF Checks
  <2> QED
    BY <1>3, <1>4, <2>2 DEF failed
<1>5. CASE ~spoilt
  <2>1. \A name \in Checks : d \in Culprits(name, v, t) <=> name \in Blamed(d, v)
    <3> SUFFICES ASSUME NEW name \in Checks
                 PROVE  d \in Culprits(name, v, t) <=> name \in Blamed(d, v)
      OBVIOUS
    <3>1. CASE v = 4
      BY <3>1 DEF Culprits, Checks, Blamed, Mistakes, Mistake
    <3>2. CASE v = 5
      BY <3>2 DEF Culprits, Checks, Blamed, Mistakes, Mistake
    <3>3. CASE v = 6
      BY <1>5, <3>3 DEF Culprits, Checks, Blamed, Mistakes, Mistake
    <3> QED
      BY <1>2, <3>1, <3>2, <3>3
  <2>2. Blamed(d, v) \subseteq Checks
    BY DEF Blamed, Checks, Mistakes, Mistake
  <2>3. failed = Blamed(d, v)
    BY <1>1, <2>1, <2>2
  <2> QED
    BY <1>3, <2>3 DEF failed
<1> QED
  BY <1>4, <1>5

(***************************************************************************)
(* The association, from its opening to the judgement.                     *)
(***************************************************************************)
\* The syntaxes the client and the host speak.
Spoken    == (CHOOSE c \in accepted : TRUE).syntax
Answering == (CHOOSE c \in Decision.accepted_context : TRUE).syntax

\* The two agree, on an open association.
SessionInv == phase \in {"open", "asked", "answered"} => Answering = Spoken

\* What the client sends, and remembers.
SentFor(syntax, v, declared, t) ==
    [kind |-> "request", stub |-> write_request(syntax, Framed(v, declared, t)),
     version |-> v, client_machine_id |-> "cmid", client_time |-> t,
     request_iv |-> IF v = 4 THEN Zero ELSE Atom("request_iv"),
     shared_secret |-> Secret(v), header_version |-> declared]

\* What may come back: only a request that declares its own version is granted.
Granted(syntax, v, t, u) ==
    [kind |-> "response", stub |-> write_response(syntax, 0, seal(v, ReplyOf(deviation, v, t, u)))]

Refused(syntax, result) ==
    [kind |-> "response", stub |-> write_response(syntax, result, NoPayload)]

PduFor(syntax, v, declared, t) ==
    \/ pdu = Faulted
    \/ \E result \in {INVALID_DATA, DECLINED} : pdu = Refused(syntax, result)
    \/ declared = <<v, 0>> /\ pdu = HungUp
    \/ declared = <<v, 0>> /\ \E u \in 0..MAX_EPID_UNITS :
          (deviation = "interior_nul" => u > 0) /\ pdu = Granted(syntax, v, t, u)

CallInv ==
    /\ deviation \in Mistakes
    /\ phase \in {"asked", "answered"} =>
         /\ outcome = "none"
         /\ \E v \in Version, declared \in Declared, t \in Times :
              /\ sent = SentFor(Spoken, v, declared, t)
              /\ phase = "asked" => deviation = "none"
              /\ phase = "answered" => PduFor(Spoken, v, declared, t)

\* What was judged.
JudgedInv ==
    ReplyJudged =>
      /\ deviation = "none" => reply.failures = {}
      /\ \/ reply.failures = Blamed(deviation, sent.version)
         \/ /\ deviation = "late" /\ sent.version = 6 /\ (sent.client_time + 1) % TIME_C1 = 0
            /\ reply.failures = {"TimeStampOk", "HmacSha256Ok"}

ExchangeInv == OffersTyped /\ SessionInv /\ CallInv /\ JudgedInv

\* The client reads the context the host accepted.
LEMMA AckIsRead ==
    ASSUME NEW b \in Offer, ParseOk(b), NEW n64 \in BOOLEAN,
           NEW ack, ack = [i \in DOMAIN Results(Parse(b), n64) |->
                             [result |-> Results(Parse(b), n64)[i],
                              syntax |-> Preferred(Parse(b), n64)]],
           read_bind_ack(ack) # {}
    PROVE  (CHOOSE c \in read_bind_ack(ack) : TRUE).syntax
             = (CHOOSE c \in Decide(Parse(b), n64).accepted_context : TRUE).syntax
<1> DEFINE request == Parse(b)
           able == Candidates(request, n64)
           results == Results(request, n64)
           yes == {i \in DOMAIN results : results[i] = "accept"}
           syntax == Preferred(request, n64)
           first == Min(yes)
<1>1. /\ able \subseteq 1..Len(request.items)
      /\ able = {} => yes = {}
      /\ able # {} => Min(able) \in able /\ yes = {Min(able)}
  BY AcceptIsFirst
<1>2. AcceptedContext(request, n64) = Decide(request, n64).accepted_context
  BY DEF Decide
<1> HIDE DEF results, syntax, request
<1>3. AcceptedResults(ack) = yes
  BY DEF AcceptedResults, results, syntax, request
<1>4. yes # {}
  BY <1>3 DEF read_bind_ack
<1>5. able # {} /\ yes = {Min(able)}
  BY <1>1, <1>4
<1>6. first \in yes
  <2>1. Min(able) \in Nat
    <3>1. Min(able) \in 1..Len(request.items)
      BY <1>1, <1>5
    <3> QED
      BY <3>1
  <2>2. yes \in SUBSET Nat
    BY <1>5, <2>1
  <2> HIDE DEF yes, able
  <2> QED
    BY <1>4, <2>2, MinIsLeast
<1>7. ack[first].syntax = syntax
  BY <1>6 DEF results, syntax, request
<1> DEFINE x == [context_id |-> first - 1, syntax |-> ack[first].syntax]
           y == [context_id |-> request.items[Min(able)].context_id, syntax |-> syntax]
<1>8. read_bind_ack(ack) = {x}
  BY <1>3, <1>4 DEF read_bind_ack
<1>9. AcceptedContext(request, n64) = {y}
  BY <1>5 DEF AcceptedContext, syntax
<1>10. x.syntax = syntax /\ y.syntax = syntax
  BY <1>7
<1>11. \A z : (CHOOSE c \in {z} : TRUE) = z
  OBVIOUS
<1> HIDE DEF x, y
<1> QED
  BY <1>2, <1>8, <1>9, <1>10, <1>11 DEF request

LEMMA OpenParses ==
    ASSUME NEW offer_ndr64 \in BOOLEAN
    PROVE  ParseOk(BindBody(offer_ndr64))
<1> DEFINE offers == IF offer_ndr64 THEN <<"ndr32", "ndr64", "btfn">> ELSE <<"ndr32">>
           b == BindBody(offer_ndr64)
<1>0. offers \in Seq(TransferSyntax)
  <2>1. <<"ndr32", "ndr64", "btfn">> \in Seq(TransferSyntax)
    BY DEF TransferSyntax
  <2>2. <<"ndr32">> \in Seq(TransferSyntax)
    BY DEF TransferSyntax
  <2> QED
    BY <2>1, <2>2
<1>1. b = [declared |-> Len(offers), items |-> [i \in DOMAIN offers |->
             [context_id |-> i - 1, kms |-> TRUE, offered |-> <<offers[i]>>]]]
  BY DEF BindBody
<1> SUFFICES ParseOk(b)
  OBVIOUS
<1> HIDE DEF offers, b
<1>2. /\ Len(offers) \in Nat /\ b.declared = Len(offers)
      /\ b.items = [i \in 1..Len(offers) |->
                      [context_id |-> i - 1, kms |-> TRUE, offered |-> <<offers[i]>>]]
  BY <1>0, <1>1
<1>3. Len(b.items) = Len(offers) /\ Considered(b) \in 0..Len(offers)
  BY <1>2, BindAssumption DEF Considered, Smaller
<1>4. \A i \in 1..Len(offers) : Len(b.items[i].offered) = 1
  BY <1>2
<1> DEFINE n == Considered(b)
<1> HIDE DEF n
<1>5. \A i \in 1..n : i \in 1..Len(offers)
  BY <1>2, <1>3 DEF n
<1>6. Len(b.items) >= n /\ \A i \in 1..n : Len(b.items[i].offered) =< MaxTransferSyntaxes
  BY <1>2, <1>3, <1>4, <1>5, BindAssumption DEF n
<1> QED
  BY <1>6 DEF ParseOk, n

\* A grant of this host is the reply of one that makes no mistake.
LEMMA GrantIs ==
    ASSUME NEW v \in Version, NEW t \in Nat, NEW u \in Nat
    PROVE  LET decoded == Decoded(v, t)
           IN  encode(decoded, Plan(decoded, u), Atom("random_iv"), Atom("salt"))
                 = seal(v, ReplyOf("none", v, t, u))
<1> DEFINE decoded == Decoded(v, t)
           fields == plaintext(decoded, Plan(decoded, u), Atom("random_iv"), Atom("salt"))
<1>1. decoded.version = v
  BY DEF Decoded
<1> HIDE DEF decoded
<1>2. WrongFields("none", decoded, u) = fields
  BY DEF WrongFields, Wrong
<1> HIDE DEF fields
<1>3. WrongReply("none", decoded, u) = Sealed(decoded.version, decoded.declared, fields)
  BY <1>2 DEF WrongReply
<1>4. WrongReply("none", decoded, u) = ReplyOf("none", v, t, u)
  BY ReplyIs DEF decoded, Mistakes
<1> QED
  BY <1>1, <1>3, <1>4 DEF encode, fields, decoded

LEMMA AskKeeps ==
    ASSUME ExchangeInv, NEW version \in Version, NEW declared \in Declared, NEW time \in Times,
           NEW name_units, NEW entropy_ok, Ask(version, declared, time, name_units, entropy_ok)
    PROVE  CallInv' /\ JudgedInv'
<1> DEFINE error == CASE name_units > WORKSTATION_NAME_UNITS - 1     -> "request"
                      [] name_units =< WORKSTATION_NAME_UNITS - 1
                           /\ version # 4 /\ ~entropy_ok             -> "entropy"
                      [] OTHER                                       -> "none"
           iv == Atom("request_iv")
<1>1. /\ outcome' = error /\ phase' = IF error = "none" THEN "asked" ELSE "closed"
      /\ deviation' = "none" /\ accepted' = accepted
  BY DEF Ask
<1>2. error = "none" =>
        sent' = [kind |-> "request", stub |-> write_request(Spoken, Framed(version, declared, time)),
                 version |-> version, client_machine_id |-> "cmid", client_time |-> time,
                 request_iv |-> IF version = 4 THEN Zero ELSE iv,
                 shared_secret |-> IF version = 4 THEN Zero
                                   ELSE decrypt(schedule(version), Zero, <<iv>>)[1],
                 header_version |-> declared]
  BY DEF Ask, Spoken, Framed, RequestBody
<1>3. error \in {"request", "entropy", "none"}
  OBVIOUS
<1> HIDE DEF error
<1>4. decrypt(schedule(version), Zero, <<iv>>)[1] = decrypt_block(version, iv)
  <2> HIDE DEF iv
  <2>1. decrypt(version, Zero, <<iv>>)
          = [i \in 1..1 |-> xor_into(decrypt_block(version, <<iv>>[i]),
                                     IF i = 1 THEN Zero ELSE <<iv>>[i - 1])]
    BY DEF decrypt
  <2>2. decrypt(version, Zero, <<iv>>)[1] = xor_into(decrypt_block(version, iv), Zero)
    BY <2>1
  <2> QED
    BY <2>2 DEF schedule, xor_into
<1>5. error = "none" => sent' = SentFor(Spoken, version, declared, time)
  BY <1>2, <1>4 DEF SentFor, Secret
<1>6. Spoken' = Spoken
  BY <1>1 DEF Spoken
<1>7. CallInv'
  <2>1. CASE error = "none"
    <3>1. sent' = SentFor(Spoken', version, declared, time) /\ phase' = "asked"
          /\ deviation' = "none" /\ outcome' = "none"
      BY <1>1, <1>5, <1>6, <2>1
    <3> QED
      BY <3>1 DEF CallInv, Mistakes
  <2>2. CASE error # "none"
    BY <1>1, <2>2 DEF CallInv, Mistakes
  <2> QED
    BY <2>1, <2>2
<1>8. outcome' # "judged"
  BY <1>1, <1>3
<1> QED
  BY <1>7, <1>8 DEF JudgedInv, ReplyJudged

\* The host's answer to a request of the client's.
LEMMA AnswerIs ==
    ASSUME NEW syntax, Answering = syntax, NEW v \in Version, NEW declared \in Declared,
           NEW t \in Times, NEW grant, NEW u \in Units, EPidOk(u), NEW entropy_ok,
           NEW p, p = answer(write_request(syntax, Framed(v, declared, t)), grant, u, entropy_ok)
    PROVE  \/ p = Faulted
           \/ \E result \in {INVALID_DATA, DECLINED} : p = Refused(syntax, result)
           \/ declared = <<v, 0>> /\ p = HungUp
           \/ /\ declared = <<v, 0>> /\ u \in 0..MAX_EPID_UNITS
              /\ p = [kind |-> "response",
                      stub |-> write_response(syntax, 0, seal(v, ReplyOf("none", v, t, u)))]
<1> DEFINE stub == write_request(syntax, Framed(v, declared, t))
           decoded == decode(stub.payload)
           granted == encode(decoded, Plan(decoded, u), Atom("random_iv"), Atom("salt"))
<1>1. declared \in Nat \X Nat /\ t \in Nat /\ u \in Nat /\ u \in 0..MAX_EPID_UNITS
  BY ExchangeAssumption DEF EPidOk, MAX_EPID_UNITS
<1>2. stub.payload = Framed(v, declared, t)
  BY DEF write_request
<1>3. /\ declared = <<v, 0>> => decoded = Decoded(v, t)
      /\ declared # <<v, 0>> => decoded.error \in {"unsupported_version", "wrong_length", "cipher"}
  BY <1>1, <1>2, DecodeFramed
<1>4. declared = <<v, 0>> => /\ decoded.error = "none"
                             /\ granted = seal(v, ReplyOf("none", v, t, u))
  BY <1>1, <1>3, GrantIs DEF Decoded
<1>5. \A result, payload : Responded(result, payload)
        = [kind |-> "response", stub |-> write_response(syntax, result, payload)]
  BY DEF Responded, Answering
<1>6. \/ p = Faulted
      \/ p = Responded(INVALID_DATA, NoPayload)
      \/ p = Responded(DECLINED, NoPayload)
      \/ decoded.error = "none" /\ p = HungUp
      \/ decoded.error \notin {"unsupported_version", "wrong_length", "cipher"}
         /\ p = Responded(0, granted)
  <2> HIDE DEF decoded, granted, stub
  <2> QED
    BY DEF answer, decoded, granted, stub
<1> HIDE DEF decoded, granted, stub
<1> QED
  BY <1>1, <1>3, <1>4, <1>5, <1>6 DEF Refused

\* Whoever answers, what comes back is one of the answers there are.
LEMMA AnswerKeeps ==
    ASSUME ExchangeInv, NEW grant, NEW units \in Units, NEW entropy_ok,
           Answer(grant, units, entropy_ok)
    PROVE  CallInv' /\ JudgedInv'
<1>1. /\ phase = "asked" /\ EPidOk(units) /\ phase' = "answered"
      /\ pdu' = answer(sent.stub, grant, units, entropy_ok)
      /\ UNCHANGED <<accepted, sent, deviation, reply, outcome>>
  BY DEF Answer
<1>2. PICK v \in Version, declared \in Declared, t \in Times :
              sent = SentFor(Spoken, v, declared, t)
  BY <1>1 DEF ExchangeInv, CallInv
<1>3. outcome = "none" /\ deviation = "none" /\ Answering = Spoken
  BY <1>1 DEF ExchangeInv, CallInv, SessionInv
<1>4. sent.stub = write_request(Spoken, Framed(v, declared, t))
  BY <1>2 DEF SentFor
<1>5. \/ pdu' = Faulted
      \/ \E result \in {INVALID_DATA, DECLINED} : pdu' = Refused(Spoken, result)
      \/ declared = <<v, 0>> /\ pdu' = HungUp
      \/ /\ declared = <<v, 0>> /\ units \in 0..MAX_EPID_UNITS
         /\ pdu' = [kind |-> "response",
                    stub |-> write_response(Spoken, 0, seal(v, ReplyOf("none", v, t, units)))]
  BY <1>1, <1>3, <1>4, AnswerIs
<1>6. Spoken' = Spoken
  BY <1>1 DEF Spoken
<1>7. PduFor(Spoken, v, declared, t)'
  BY <1>1, <1>3, <1>5, <1>6 DEF PduFor, Granted, Refused
<1>8. sent' = SentFor(Spoken', v, declared, t)
  BY <1>1, <1>2, <1>6
<1>9. CallInv'
  BY <1>1, <1>3, <1>7, <1>8 DEF CallInv, Mistakes
<1> QED
  BY <1>1, <1>3, <1>9 DEF JudgedInv, ReplyJudged

LEMMA AnswerWrongKeeps ==
    ASSUME ExchangeInv, NEW d \in Deviations, NEW units \in Units, AnswerWrong(d, units)
    PROVE  CallInv' /\ JudgedInv'
<1> DEFINE decoded == decode(sent.stub.payload)
<1>1. /\ phase = "asked" /\ decoded.error = "none" /\ EPidOk(units)
      /\ d = "interior_nul" => units > 0
      /\ pdu' = Responded(0, seal(decoded.version, WrongReply(d, decoded, units)))
      /\ deviation' = d /\ phase' = "answered"
      /\ UNCHANGED <<accepted, sent, reply, outcome>>
  BY DEF AnswerWrong
<1>2. PICK v \in Version, declared \in Declared, t \in Times :
              sent = SentFor(Spoken, v, declared, t)
  BY <1>1 DEF ExchangeInv, CallInv
<1>3. outcome = "none" /\ Answering = Spoken
  BY <1>1 DEF ExchangeInv, CallInv, SessionInv
<1>4. /\ declared \in Nat \X Nat /\ t \in Nat /\ units \in Nat /\ units \in 0..MAX_EPID_UNITS
      /\ d \in Mistakes
  BY <1>1, ExchangeAssumption DEF EPidOk, MAX_EPID_UNITS, Mistakes
<1>5. sent.stub.payload = Framed(v, declared, t)
  BY <1>2 DEF SentFor, write_request
<1>6. declared = <<v, 0>> /\ decoded = Decoded(v, t)
  BY <1>1, <1>4, <1>5, DecodeFramed
<1>7. decoded.version = v
  BY <1>6 DEF Decoded
<1>8. WrongReply(d, decoded, units) = ReplyOf(d, v, t, units)
  BY <1>4, <1>6, ReplyIs
<1> HIDE DEF decoded
<1>9. pdu' = [kind |-> "response",
              stub |-> write_response(Spoken, 0, seal(v, ReplyOf(d, v, t, units)))]
  BY <1>1, <1>3, <1>7, <1>8 DEF Responded, Answering
<1>10. Spoken' = Spoken
  BY <1>1 DEF Spoken
<1>11. PduFor(Spoken, v, declared, t)'
  BY <1>1, <1>4, <1>6, <1>9, <1>10 DEF PduFor, Granted
<1>12. sent' = SentFor(Spoken', v, declared, t)
  BY <1>1, <1>2, <1>10
<1>13. CallInv'
  BY <1>1, <1>3, <1>4, <1>11, <1>12 DEF CallInv
<1> QED
  BY <1>1, <1>3, <1>13 DEF JudgedInv, ReplyJudged

\* What the client concludes: only a grant is judged, and rightly.
LEMMA ReadReplyKeeps ==
    ASSUME ExchangeInv, ReadReply
    PROVE  CallInv' /\ JudgedInv'
<1> DEFINE read == IF pdu.kind = "response" THEN parse_response(pdu.stub, Spoken) ELSE pdu
<1>1. /\ phase = "answered" /\ phase' \in {"open", "closed"}
      /\ UNCHANGED <<sent, deviation>>
  BY DEF ReadReply
<1>2. deviation \in Mistakes
  BY DEF ExchangeInv, CallInv
<1>3. CallInv'
  BY <1>1, <1>2 DEF CallInv
<1>4. ASSUME outcome' = "judged"
      PROVE  /\ deviation = "none" => reply'.failures = {}
             /\ \/ reply'.failures = Blamed(deviation, sent.version)
                \/ /\ deviation = "late" /\ sent.version = 6
                   /\ (sent.client_time + 1) % TIME_C1 = 0
                   /\ reply'.failures = {"TimeStampOk", "HmacSha256Ok"}
  <2>1. /\ read.kind = "response" /\ read.payload.len # 0
        /\ ~response_error(sent.version, read.payload)
        /\ reply' = [kind |-> "judged",
                     failures |-> failures(sent, decode_response(sent.version, read.payload))]
    <3> DEFINE done == CASE read.kind = "fault"              -> "faulted"
                         [] read.kind = "closed"             -> "io"
                         [] read.kind = "not_a_kms_response" -> "not_a_kms_response"
                         [] read.kind = "response" ->
                              IF read.payload.len = 0 \/ response_error(sent.version, read.payload)
                                THEN "decode" ELSE "judged"
    <3>1. outcome' = done
      BY DEF ReadReply, Spoken
    <3>2. reply' = IF done # "judged" THEN [kind |-> read.kind] ELSE
                     [kind |-> "judged",
                      failures |-> failures(sent, decode_response(sent.version, read.payload))]
      BY DEF ReadReply, Spoken
    <3>3. done = "judged"
      BY <1>4, <3>1
    <3>4. read.kind \in {"fault", "closed", "not_a_kms_response", "response"}
      <4>1. PICK v \in Version, declared \in Declared, t \in Times : PduFor(Spoken, v, declared, t)
        BY <1>1 DEF ExchangeInv, CallInv
      <4>2. pdu.kind \in {"fault", "closed", "response"}
        BY <4>1 DEF PduFor, Faulted, HungUp, Refused, Granted
      <4>3. parse_response(pdu.stub, Spoken).kind \in {"not_a_kms_response", "response"}
        BY DEF parse_response
      <4> QED
        BY <4>2, <4>3
    <3> HIDE DEF read
    <3>5. /\ read.kind = "response" /\ read.payload.len # 0
          /\ ~response_error(sent.version, read.payload)
      BY <3>3, <3>4
    <3> QED
      BY <3>2, <3>3, <3>5
  <2>2. PICK v \in Version, declared \in Declared, t \in Times :
                sent = SentFor(Spoken, v, declared, t) /\ PduFor(Spoken, v, declared, t)
    BY <1>1 DEF ExchangeInv, CallInv
  <2>3. pdu.kind = "response" /\ read.payload = pdu.stub.payload
    <3>1. pdu.kind # "response" => pdu.kind \in {"fault", "closed"}
      BY <2>2 DEF PduFor, Faulted, HungUp, Refused, Granted
    <3>2. pdu.kind = "response"
      BY <2>1, <3>1
    <3> QED
      BY <2>1, <3>2 DEF parse_response
  <2>4. ~\E result \in {INVALID_DATA, DECLINED} : pdu = Refused(Spoken, result)
    BY <2>1, <2>3 DEF Refused, write_response, NoPayload, INVALID_DATA, DECLINED
  <2>5. PICK u \in 0..MAX_EPID_UNITS :
                /\ declared = <<v, 0>> /\ (deviation = "interior_nul" => u > 0)
                /\ pdu = Granted(Spoken, v, t, u)
    BY <2>2, <2>3, <2>4 DEF PduFor, Faulted, HungUp
  <2>6. u \in Nat /\ t \in Nat
    BY ExchangeAssumption DEF MAX_EPID_UNITS
  <2> DEFINE st == seal(v, ReplyOf(deviation, v, t, u))
  <2>7. read.payload = st
    BY <2>3, <2>5 DEF Granted, write_response
  <2> HIDE DEF read, st
  <2>8. sent.version = v /\ sent.client_time = t /\ RequestFor(sent, v, t)
    BY <2>2, <2>5 DEF SentFor, RequestFor
  <2>9. /\ decode_response(v, st) = GotOf(deviation, v, t, u)
        /\ v # 4 /\ ReplyOf(deviation, v, t, u).pad \notin 1..BLOCK_LEN => response_error(v, st)
    BY <1>2, <2>6, GotIs DEF st
  <2>10. Readable(deviation, v)
    BY <1>2, <2>1, <2>6, <2>7, <2>8, <2>9, PaddingIs DEF Readable
  <2>11. reply'.failures = failures(sent, GotOf(deviation, v, t, u))
    BY <2>1, <2>7, <2>8, <2>9
  <2>12. /\ deviation = "none" => failures(sent, GotOf(deviation, v, t, u)) = {}
         /\ \/ failures(sent, GotOf(deviation, v, t, u)) = Blamed(deviation, v)
            \/ /\ deviation = "late" /\ v = 6 /\ (t + 1) % TIME_C1 = 0
               /\ failures(sent, GotOf(deviation, v, t, u)) = {"TimeStampOk", "HmacSha256Ok"}
    BY <1>2, <2>5, <2>6, <2>8, <2>10, Diagnosis
  <2> QED
    BY <2>8, <2>11, <2>12
<1> QED
  BY <1>1, <1>3, <1>4 DEF JudgedInv, ReplyJudged

LEMMA SessionNext == ExchangeInv /\ [ExchangeNext]_exchange_vars => SessionInv'
<1> SUFFICES ASSUME ExchangeInv, [ExchangeNext]_exchange_vars PROVE SessionInv'
  OBVIOUS
<1>1. ASSUME NEW item \in Shapes, AddItem(item) PROVE SessionInv'
  BY <1>1 DEF AddItem, SessionInv
<1>2. CASE HangUp
  BY <1>2 DEF HangUp, SessionInv
<1>3. ASSUME NEW offer_ndr64 \in BOOLEAN, Open(offer_ndr64) PROVE SessionInv'
  <2> DEFINE b == BindBody(offer_ndr64)
             ack == [i \in DOMAIN Results(Parse(b), ndr64) |->
                       [result |-> Results(Parse(b), ndr64)[i],
                        syntax |-> Preferred(Parse(b), ndr64)]]
  <2>1. /\ body' = b /\ ndr64' = ndr64
        /\ phase' = IF accepted' = {} THEN "closed" ELSE "open"
    BY <1>3 DEF Open
  <2>2. accepted' = read_bind_ack(ack)
    <3>1. accepted' = read_bind_ack(AckOf(Parse(body')))
      BY <1>3 DEF Open
    <3> QED
      BY <2>1, <3>1 DEF AckOf
  <2>3. b \in Offer /\ ParseOk(b) /\ ndr64 \in BOOLEAN
    BY BindBodyTyped, OpenParses DEF ExchangeInv, OffersTyped
  <2>4. Decision' = Decide(Parse(b), ndr64)
    BY <2>1 DEF Decision
  <2>5. accepted' # {} =>
          (CHOOSE c \in accepted' : TRUE).syntax
            = (CHOOSE c \in Decide(Parse(b), ndr64).accepted_context : TRUE).syntax
    <3> HIDE DEF b
    <3> QED
      BY <2>2, <2>3, AckIsRead
  <2> QED
    BY <2>1, <2>4, <2>5 DEF SessionInv, Spoken, Answering
<1>4. ASSUME UNCHANGED <<body, ndr64, accepted>>,
             phase' \in {"open", "asked", "answered"} => phase \in {"open", "asked", "answered"}
      PROVE  SessionInv'
  <2>1. Spoken' = Spoken
    BY <1>4 DEF Spoken
  <2>2. Decision' = Decision
    BY <1>4 DEF Decision
  <2>3. Answering' = Answering
    BY <2>2 DEF Answering
  <2> QED
    BY <1>4, <2>1, <2>3 DEF ExchangeInv, SessionInv
<1>5. ASSUME NEW version \in Version, NEW declared \in Declared, NEW time \in Times,
             NEW name_units \in NameUnits, NEW entropy_ok \in BOOLEAN,
             Ask(version, declared, time, name_units, entropy_ok)
      PROVE  SessionInv'
  BY <1>4, <1>5 DEF Ask
<1>6. ASSUME NEW grant \in BOOLEAN, NEW entropy_ok \in BOOLEAN, NEW units \in Units,
             Answer(grant, units, entropy_ok)
      PROVE  SessionInv'
  BY <1>4, <1>6 DEF Answer
<1>7. ASSUME NEW d \in Deviations, NEW units \in Units, AnswerWrong(d, units) PROVE SessionInv'
  BY <1>4, <1>7 DEF AnswerWrong
<1>8. CASE ReadReply
  <2>1. phase = "answered" /\ UNCHANGED <<body, ndr64, accepted>>
    BY <1>8 DEF ReadReply
  <2> QED
    BY <1>4, <2>1
<1>9. CASE UNCHANGED exchange_vars
  BY <1>4, <1>9 DEF exchange_vars
<1> QED
  BY <1>1, <1>2, <1>3, <1>5, <1>6, <1>7, <1>8, <1>9 DEF ExchangeNext

LEMMA ExchangeInvInit == ExchangeInit => ExchangeInv
<1> SUFFICES ASSUME ExchangeInit PROVE ExchangeInv
  OBVIOUS
<1>1. phase = "offer" /\ outcome = "none" /\ deviation = "none"
  BY DEF ExchangeInit
<1> QED
  BY <1>1, OffersTypedInit DEF ExchangeInv, SessionInv, CallInv, JudgedInv, ReplyJudged, Mistakes

LEMMA ExchangeInvNext == ExchangeInv /\ [ExchangeNext]_exchange_vars => ExchangeInv'
<1> SUFFICES ASSUME ExchangeInv, [ExchangeNext]_exchange_vars PROVE ExchangeInv'
  OBVIOUS
<1>1. OffersTyped' /\ SessionInv'
  BY OffersTypedNext, SessionNext DEF ExchangeInv
<1> SUFFICES CallInv' /\ JudgedInv'
  BY <1>1 DEF ExchangeInv
<1>2. ASSUME NEW item \in Shapes, AddItem(item) PROVE CallInv' /\ JudgedInv'
  <2>1. /\ phase = "offer" /\ phase' = "offer"
        /\ UNCHANGED <<sent, deviation, reply, outcome>>
    BY <1>2 DEF AddItem, call
  <2> QED
    BY <2>1 DEF ExchangeInv, CallInv, JudgedInv, ReplyJudged
<1>3. CASE HangUp
  BY <1>3 DEF HangUp, CallInv, JudgedInv, ReplyJudged, Mistakes
<1>4. ASSUME NEW offer_ndr64 \in BOOLEAN, Open(offer_ndr64) PROVE CallInv' /\ JudgedInv'
  <2>1. /\ phase' \in {"closed", "open"} /\ outcome' \in {"bind_rejected", "none"}
        /\ UNCHANGED deviation
    BY <1>4 DEF Open
  <2> QED
    BY <2>1 DEF ExchangeInv, CallInv, JudgedInv, ReplyJudged
<1>5. ASSUME NEW version \in Version, NEW declared \in Declared, NEW time \in Times,
             NEW name_units \in NameUnits, NEW entropy_ok \in BOOLEAN,
             Ask(version, declared, time, name_units, entropy_ok)
      PROVE  CallInv' /\ JudgedInv'
  BY <1>5, AskKeeps
<1>6. ASSUME NEW grant \in BOOLEAN, NEW entropy_ok \in BOOLEAN, NEW units \in Units,
             Answer(grant, units, entropy_ok)
      PROVE  CallInv' /\ JudgedInv'
  BY <1>6, AnswerKeeps
<1>7. ASSUME NEW d \in Deviations, NEW units \in Units, AnswerWrong(d, units)
      PROVE  CallInv' /\ JudgedInv'
  BY <1>7, AnswerWrongKeeps
<1>8. CASE ReadReply
  BY <1>8, ReadReplyKeeps
<1>9. CASE UNCHANGED exchange_vars
  <2>1. UNCHANGED <<accepted, phase, sent, pdu, deviation, reply, outcome>>
    BY <1>9 DEF exchange_vars, call
  <2>2. Spoken' = Spoken
    BY <2>1 DEF Spoken
  <2>3. CallInv'
    BY <2>1, <2>2 DEF ExchangeInv, CallInv, PduFor, Granted
  <2>4. JudgedInv'
    BY <2>1 DEF ExchangeInv, JudgedInv, ReplyJudged
  <2> QED
    BY <2>3, <2>4
<1> QED
  BY <1>2, <1>3, <1>4, <1>5, <1>6, <1>7, <1>8, <1>9 DEF ExchangeNext

LEMMA HonestFromInv == ExchangeInv => HonestHostPasses
<1> SUFFICES ASSUME ExchangeInv PROVE HonestHostPasses
  OBVIOUS
<1>1. ReplyJudged /\ deviation = "none" => reply.failures = {}
  BY DEF ExchangeInv, JudgedInv
<1>2. ASSUME phase = "answered", sent.header_version # to_protocol_version(sent.version)
      PROVE  pdu.kind = "fault" \/ pdu.stub.len = error_stub_len(Spoken)
  <2>1. PICK v \in Version, declared \in Declared, t \in Times :
                sent = SentFor(Spoken, v, declared, t) /\ PduFor(Spoken, v, declared, t)
    BY <1>2 DEF ExchangeInv, CallInv
  <2>2. declared # <<v, 0>>
    BY <1>2, <2>1 DEF SentFor, to_protocol_version
  <2>3. CASE pdu = Faulted
    BY <2>3 DEF Faulted
  <2>4. ASSUME NEW result \in {INVALID_DATA, DECLINED}, pdu = Refused(Spoken, result)
        PROVE  pdu.stub.len = error_stub_len(Spoken)
    BY <2>4 DEF Refused, write_response, INVALID_DATA, DECLINED
  <2> QED
    BY <2>1, <2>2, <2>3, <2>4 DEF PduFor
<1> QED
  BY <1>1, <1>2 DEF HonestHostPasses, Spoken

\* validate::check against Connection::answer: whatever the version, syntax,
\* clock and ePID, an answer of this host that the client can read passes all
\* twelve checks, and a request framed for another version than it declares is
\* never granted.
THEOREM ExchangeHonestHostPasses == ExchangeSpec => []HonestHostPasses
BY ExchangeInvInit, ExchangeInvNext, HonestFromInv, PTL DEF ExchangeSpec

\* validate::check: of an answer with one mistake, the checks that are about
\* that mistake fail, and no other does.
THEOREM ExchangeDeviationDiagnosed == ExchangeSpec => []DeviationDiagnosed
<1>1. ExchangeInv => DeviationDiagnosed
  BY DEF ExchangeInv, JudgedInv, DeviationDiagnosed
<1> QED
  BY <1>1, ExchangeInvInit, ExchangeInvNext, PTL DEF ExchangeSpec
====
