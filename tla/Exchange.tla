------------------------------ MODULE Exchange ------------------------------
(***************************************************************************)
(* One association end to end: offers are made and decided upon (Bind), a  *)
(* KMS request is framed in an NDR stub, answered by this host or by one   *)
(* that gets something wrong, and the answer is read and judged by the     *)
(* diagnostic client: Session::open and Session::activate against          *)
(* Connection::answer.                                                     *)
(***************************************************************************)
EXTENDS Bind, Codec

CONSTANTS
    Fillers,        \* how many filler items a foreign client may start with
    Shapes,         \* the items it may then offer
    MaxTail,        \* how many of those
    Excess,         \* by how much its declared count may exceed them
    Units,          \* ePID lengths, in code units
    NameUnits,      \* workstation name lengths
    Times,          \* client clocks, in ticks
    Declared,       \* protocol versions a client may declare
    Deviations      \* what another host may get wrong

\* One mistake at a time, by what is wrong in the answer.
Mistake ==
    {"other_cmid", "late", "next_slot", "inner_version", "outer_version", "other_iv",
     "zero_iv", "salt", "secret", "unterminated", "interior_nul", "odd_pid", "long_pid", "tag",
     "tag_next_slot", "too_long", "padding_noise", "padding_zero"}

ASSUME ExchangeAssumption ==
    /\ Fillers \subseteq Nat /\ Excess \subseteq Nat /\ Shapes \subseteq ContextItem
    /\ Units \subseteq Nat /\ Times \subseteq Nat /\ Declared \subseteq Nat \X Nat
    /\ Deviations \subseteq Mistake

VARIABLES
    body, tail, ndr64,  \* the offers, and whether the host speaks NDR64
    phase,              \* where the client is
    accepted,           \* Session.accepted, as a set of at most one
    sent,               \* the client's side of the call: fields, IV and Sent
    pdu,                \* the reply under way
    deviation,          \* what the host that answered got wrong, or "none"
    reply,              \* what read_reply made of it
    outcome             \* what activate returned

call == <<sent, pdu, deviation, reply, outcome>>
exchange_vars == <<body, tail, ndr64, phase, accepted, call>>

(***************************************************************************)
(* wire/stub.rs.  A stub is its length, its fields by offset, and the      *)
(* payload.  Bytes between fields are zero.                                *)
(***************************************************************************)
PREFIX_LEN == 8

length_field_width(syntax) == IF syntax = "ndr64" THEN 8 ELSE 4

request_data_offset(syntax)  == PREFIX_LEN + 2 * length_field_width(syntax)
response_data_offset(syntax) == PREFIX_LEN + 3 * length_field_width(syntax)

Aligned(n) == n + ((4 - (n % 4)) % 4)

response_stub_len(syntax, payload_len) ==
    Aligned(response_data_offset(syntax) + payload_len + 4)

error_stub_len(syntax) == Aligned(PREFIX_LEN + 2 * length_field_width(syntax) + 4)

\* read_u32 and read_len: nothing when the field runs past the end.
Read(stub, offset, width) ==
    IF offset + width > stub.len THEN {}
    ELSE {IF offset \in DOMAIN stub.at THEN stub.at[offset] ELSE 0}

\* client.rs write_request_stub_header, and ClientAssociation::request.
write_request(syntax, payload) ==
    [len |-> request_data_offset(syntax) + payload.len, payload |-> payload,
     at |-> [offset \in {PREFIX_LEN, PREFIX_LEN + length_field_width(syntax)} |-> payload.len]]

\* parse_request, for the operation the client calls.
RequestStubOk(stub, syntax) ==
    /\ stub.len >= request_data_offset(syntax)
    /\ Read(stub, PREFIX_LEN, length_field_width(syntax))
         = Read(stub, PREFIX_LEN + length_field_width(syntax), length_field_width(syntax))
    /\ stub.len - request_data_offset(syntax)
         \in Read(stub, PREFIX_LEN, length_field_width(syntax))

\* write_response.  A failure has two length fields and no payload.  Results
\* are 0, or the number standing for an HRESULT.
write_response(syntax, result, payload) ==
    LET w == length_field_width(syntax)
    IN  IF result # 0
          THEN [len |-> error_stub_len(syntax), payload |-> payload,
                at |-> [offset \in {PREFIX_LEN, PREFIX_LEN + w, PREFIX_LEN + 2 * w} |->
                          IF offset = PREFIX_LEN + 2 * w THEN result ELSE 0]]
          ELSE [len |-> response_stub_len(syntax, payload.len), payload |-> payload,
                at |-> [offset \in {PREFIX_LEN, PREFIX_LEN + w, PREFIX_LEN + 2 * w,
                                    response_data_offset(syntax) + payload.len} |->
                          CASE offset = PREFIX_LEN + w -> 131072
                            [] offset = response_data_offset(syntax) + payload.len -> 0
                            [] OTHER -> payload.len]]

\* parse_response: three length fields, and the result in the last four bytes.
parse_response(stub, syntax) ==
    LET w == length_field_width(syntax)
        size_is   == Read(stub, PREFIX_LEN, w)
        length_is == Read(stub, PREFIX_LEN + 2 * w, w)
        payload_end == response_data_offset(syntax)
                         + Min(size_is \cup length_is)
    IN  IF \/ size_is = {} \/ length_is = {}
           \/ payload_end > stub.len - 4
          THEN [kind |-> "not_a_kms_response"]
          ELSE [kind |-> "response", payload |-> stub.payload,
                result |-> Max(Read(stub, stub.len - 4, 4))]

(***************************************************************************)
(* Offers: a foreign client's, item by item, or the diagnostic client's.   *)
(***************************************************************************)
Item(kms, offered) == [context_id |-> 0, kms |-> kms, offered |-> offered]
Filler == Item(FALSE, <<"ndr32">>)

NoPdu == [kind |-> "none"]

\* What a client may have offered before the items it varies.
FirstOffers ==
    { [declared |-> n + more, items |-> [i \in 1..n |-> Filler]] : n \in Fillers, more \in Excess }

ExchangeInit ==
    /\ tail = 0 /\ body \in FirstOffers /\ phase = "offer"
    /\ ndr64 \in BOOLEAN
    /\ accepted = {}
    /\ sent = NoPdu /\ pdu = NoPdu /\ deviation = "none" /\ reply = NoPdu
    /\ outcome = "none"

\* One more item, with an identifier of its own.
AddItem(item) ==
    /\ phase = "offer" /\ tail < MaxTail
    /\ tail' = tail + 1
    /\ body' = [declared |-> body.declared + 1,
                items |-> Append(body.items, [item EXCEPT !.context_id = tail + 1])]
    /\ UNCHANGED <<ndr64, phase, accepted, call>>

\* The client goes away, and another comes.
HangUp ==
    /\ phase \in {"offer", "closed"}
    /\ tail' = 0 /\ body' \in FirstOffers /\ phase' = "offer" /\ accepted' = {}
    /\ sent' = NoPdu /\ pdu' = NoPdu /\ deviation' = "none" /\ reply' = NoPdu
    /\ outcome' = "none"
    /\ UNCHANGED ndr64

Decision == Decide(Parse(body), ndr64)

\* The results of a bind_ack, with the syntax each names.
AckOf(request) ==
    [i \in DOMAIN Results(request, ndr64) |->
       [result |-> Results(request, ndr64)[i], syntax |-> Preferred(request, ndr64)]]

\* Session::open.
Open(offer_ndr64) ==
    /\ phase = "offer" /\ tail = 0 /\ body.items = << >>
    /\ body' = BindBody(offer_ndr64)
    /\ accepted' = read_bind_ack(AckOf(Parse(body')))
    /\ phase' = IF accepted' = {} THEN "closed" ELSE "open"
    /\ outcome' = IF accepted' = {} THEN "bind_rejected" ELSE "none"
    /\ UNCHANGED <<tail, ndr64, sent, pdu, deviation, reply>>

(***************************************************************************)
(* Session::activate, up to the request on the wire.                       *)
(***************************************************************************)
\* RequestFields::to_body refuses a name that does not fit; drawing the IV may
\* fail.  Only then is anything sent.
Ask(version, declared, time, name_units, entropy_ok) ==
    LET syntax == (CHOOSE c \in accepted : TRUE).syntax
        fields == [version |-> declared, client_machine_id |-> "cmid", client_time |-> time]
        iv == Atom("request_iv")
        stub == encode_request_declaring(version, declared, fields, iv)
        error == CASE name_units > WORKSTATION_NAME_UNITS - 1     -> "request"
                   [] name_units =< WORKSTATION_NAME_UNITS - 1
                        /\ version # 4 /\ ~entropy_ok             -> "entropy"
                   [] OTHER                                       -> "none"
    IN  /\ phase = "open"
        /\ outcome' = error
        /\ phase' = IF error = "none" THEN "asked" ELSE "closed"
        /\ sent' = IF error # "none" THEN NoPdu ELSE
             [kind |-> "request", stub |-> write_request(syntax, stub),
              version |-> version, client_machine_id |-> "cmid", client_time |-> time,
              request_iv |-> IF version = 4 THEN Zero ELSE iv,
              shared_secret |-> IF version = 4 THEN Zero
                                ELSE decrypt(schedule(version), Zero, <<iv>>)[1],
              header_version |-> declared]
        /\ pdu' = NoPdu /\ deviation' = "none" /\ reply' = NoPdu
        /\ UNCHANGED <<body, tail, ndr64, accepted>>

(***************************************************************************)
(* The host.                                                               *)
(***************************************************************************)
INVALID_DATA == 1   \* HResult::InvalidData
DECLINED     == 2   \* any HRESULT a policy refuses with

Responded(result, payload) ==
    [kind |-> "response",
     stub |-> write_response((CHOOSE c \in Decision.accepted_context : TRUE).syntax,
                             result, payload)]

Faulted   == [kind |-> "fault"]
HungUp    == [kind |-> "closed"]
NoPayload == [len |-> 0]

\* What a granted answer is made from.
Plan(decoded, units) ==
    [pid |-> EncodedEPid(units), client_machine_id |-> decoded.body.client_machine_id,
     client_time |-> decoded.body.client_time]

\* Connection::answer for the decision of the policy: a refusal, or a grant with an
\* ePID of so many units.
answer(stub, grant, units, entropy_ok) ==
    LET decoded == decode(stub.payload)
    IN  CASE ~RequestStubOk(stub, (CHOOSE c \in Decision.accepted_context : TRUE).syntax)
               -> Faulted
          [] OTHER ->
             CASE decoded.error \in {"unsupported_version", "wrong_length"}
                    -> Responded(INVALID_DATA, NoPayload)
               [] decoded.error \in {"too_short", "cipher", "body_length"} -> Faulted
               [] decoded.error = "none" /\ ~grant -> Responded(DECLINED, NoPayload)
               [] decoded.error = "none" /\ grant /\ ~EncodeOk(decoded, Plan(decoded, units), entropy_ok)
                    -> HungUp
               [] OTHER -> Responded(0, encode(decoded, Plan(decoded, units), Atom("random_iv"),
                                               Atom("salt")))

Answer(grant, units, entropy_ok) ==
    /\ phase = "asked" /\ EPidOk(units)
    /\ pdu' = answer(sent.stub, grant, units, entropy_ok)
    /\ phase' = "answered"
    /\ UNCHANGED <<body, tail, ndr64, accepted, sent, deviation, reply, outcome>>

\* What a plaintext becomes in the hands of a host that gets d wrong.
Wrong(d, fields, version) ==
    CASE d = "other_cmid"     -> [fields EXCEPT !.client_machine_id = "another"]
      [] d = "late"           -> [fields EXCEPT !.client_time = @ + 1]
      [] d = "next_slot"      -> [fields EXCEPT !.client_time = @ + TIME_C1]
      [] d = "inner_version"  -> [fields EXCEPT !.version = <<version, 1>>]
      [] d = "other_iv"       -> [fields EXCEPT !.iv = IF version = 5 THEN Atom("random_iv")
                                                       ELSE decrypt_block(version, Atom("request_iv"))]
      [] d = "zero_iv"        -> [fields EXCEPT !.iv = decrypt_block(version, Zero)]
      [] d = "salt"           -> [fields EXCEPT !.hash = sha256(Atom("other_salt"))]
      [] d = "secret"         -> [fields EXCEPT !.carried = Atom("guess")]
      [] d = "unterminated"   -> [fields EXCEPT !.pid.nuls = {}]
      [] d = "interior_nul"   -> [fields EXCEPT !.pid.nuls = @ \cup {1}]
      [] d = "odd_pid"        -> [fields EXCEPT !.pid.len = @ + 1]
      [] d = "long_pid"       -> [fields EXCEPT !.pid = EncodedEPid(MAX_EPID_UNITS + 1)]
      [] OTHER                -> fields

WrongFields(d, decoded, units) ==
    Wrong(d, plaintext(decoded, Plan(decoded, units), Atom("random_iv"), Atom("salt")),
          decoded.version)

\* And what it seals.
WrongReply(d, decoded, units) ==
    LET fields == WrongFields(d, decoded, units)
        honest == Sealed(decoded.version, decoded.declared, fields)
    IN  CASE d = "outer_version"  -> [honest EXCEPT !.outer = <<decoded.version, 1>>]
          [] d = "tag"            -> [honest EXCEPT !.tag = Zero]
          [] d = "tag_next_slot"  -> [honest EXCEPT !.tag =
               v6_tag(fields.client_time + TIME_C1, "Current", <<fields, 0>>)]
          [] d = "too_long"       -> [honest EXCEPT !.extra = BLOCK_LEN]
          [] d = "padding_noise"  -> [honest EXCEPT !.uniform = FALSE]
          [] d = "padding_zero"   -> [honest EXCEPT !.pad = 0]
          [] OTHER                -> honest

\* Another host: it decodes as this one does, and gets one thing wrong.
AnswerWrong(d, units) ==
    LET decoded == decode(sent.stub.payload)
    IN  /\ phase = "asked" /\ decoded.error = "none" /\ EPidOk(units)
        /\ d = "interior_nul" => units > 0
        /\ pdu' = Responded(0, seal(decoded.version, WrongReply(d, decoded, units)))
        /\ deviation' = d
        /\ phase' = "answered"
        /\ UNCHANGED <<body, tail, ndr64, accepted, sent, reply, outcome>>

(***************************************************************************)
(* read_reply, response::decode and validate::check.                       *)
(***************************************************************************)
ReadReply ==
    LET syntax == (CHOOSE c \in accepted : TRUE).syntax
        read == IF pdu.kind = "response" THEN parse_response(pdu.stub, syntax) ELSE pdu
        done == CASE read.kind = "fault"              -> "faulted"
                  [] read.kind = "closed"             -> "io"
                  [] read.kind = "not_a_kms_response" -> "not_a_kms_response"
                  [] read.kind = "response" ->
                       IF read.payload.len = 0 \/ response_error(sent.version, read.payload)
                         THEN "decode" ELSE "judged"
    IN  /\ phase = "answered"
        /\ reply' = IF done # "judged" THEN [kind |-> read.kind] ELSE
                      [kind |-> "judged",
                       failures |-> failures(sent, decode_response(sent.version, read.payload))]
        /\ outcome' = done
        /\ phase' = IF done = "judged" THEN "open" ELSE "closed"
        /\ pdu' = NoPdu
        /\ UNCHANGED <<body, tail, ndr64, accepted, sent, deviation>>

ExchangeNext ==
    \/ \E item \in Shapes : AddItem(item)
    \/ HangUp
    \/ \E offer_ndr64 \in BOOLEAN : Open(offer_ndr64)
    \/ \E version \in Version, declared \in Declared, time \in Times,
          name_units \in NameUnits, entropy_ok \in BOOLEAN :
             Ask(version, declared, time, name_units, entropy_ok)
    \/ \E grant, entropy_ok \in BOOLEAN, units \in Units : Answer(grant, units, entropy_ok)
    \/ \E d \in Deviations, units \in Units : AnswerWrong(d, units)
    \/ ReadReply

ExchangeSpec == ExchangeInit /\ [][ExchangeNext]_exchange_vars

-----------------------------------------------------------------------------
ReplyJudged == outcome = "judged"

\* Exactly one syntax (bind::decide): at most one item is accepted, the
\* association's context is that item's, and the syntax is one the item offers
\* and this build speaks.
OneAcceptance ==
    ParseOk(body) =>
      LET request == Parse(body)
          yes == { i \in DOMAIN Decision.results : Decision.results[i] = "accept" }
      IN  /\ Cardinality(yes) = Cardinality(Decision.accepted_context)
          /\ \A c \in Decision.accepted_context : \E i \in yes :
                /\ i \in DOMAIN request.items
                /\ request.items[i].context_id = c.context_id
                /\ request.items[i].kms
                /\ OfferFor(request.items[i], c.syntax)
                /\ c.syntax = "ndr64" => ndr64

\* A client gets an association whenever one of its KMS contexts is usable,
\* unless it mixes NDR64 into a feature-negotiation item (bind::decide).
UsableOfferAccepted ==
    LET request == Parse(body)
        usable(item) == /\ item.kms
                        /\ \/ OfferFor(item, "ndr32")
                           \/ ndr64 /\ OfferFor(item, "ndr64")
        mixed(item)  == FeatureBits(item) /\ OfferFor(item, "ndr64")
    IN  /\ ParseOk(body)
        /\ \A i \in DOMAIN request.items : ~mixed(request.items[i])
        /\ \E i \in DOMAIN request.items :
              usable(request.items[i]) /\ ~FeatureBits(request.items[i])
        => Decision.accepted_context # {}

\* A client that offers something usable gets one syntax and no more.
AcceptsOne == OneAcceptance /\ UsableOfferAccepted

\* What the client says of this host: a granted request passes all twelve
\* checks, for every version, syntax, clock and ePID length, and a request
\* whose declared version is not the one it is framed for is never granted.
HonestHostPasses ==
    /\ ReplyJudged /\ deviation = "none" => reply.failures = {}
    /\ phase = "answered" /\ sent.header_version # to_protocol_version(sent.version)
         => pdu.kind = "fault" \/ pdu.stub.len = error_stub_len(
                                    (CHOOSE c \in accepted : TRUE).syntax)

\* The checks a mistake must fail, of those that apply to the version
\* (validate.rs, the comments on Check).
Blamed(d, version) ==
    LET encrypted == version # 4
        v6 == version = 6
        only(cond, name) == IF cond THEN {name} ELSE {}
    IN  CASE d = "other_cmid"     -> {"ClientMachineIdOk"}
          [] d = "late"           -> {"TimeStampOk"}
          [] d = "next_slot"      -> {"TimeStampOk"} \cup only(v6, "HmacSha256Ok")
          [] d = "inner_version"  -> {"VersionOk"}
          [] d = "outer_version"  -> only(encrypted, "VersionOk")
          [] d = "other_iv"       -> only(encrypted, "IvsOk") \cup only(v6, "IvNotSuspicious")
          [] d = "zero_iv"        -> only(version = 5, "IvsOk") \cup only(encrypted, "IvNotSuspicious")
          [] d = "salt"           -> only(encrypted, "SaltProofOk")
          [] d = "secret"         -> only(v6, "DecryptedIvOk")
          [] d \in {"unterminated", "interior_nul", "odd_pid", "long_pid"} -> {"PidLengthOk"}
          [] d \in {"tag", "tag_next_slot"} ->
                only(v6, "HmacSha256Ok") \cup only(version = 4, "HashOk")
          [] d = "too_long" -> {"SizeOk"} \cup only(v6, "HmacSha256Ok") \cup only(version = 4, "HashOk")
          [] d = "padding_noise"  -> only(encrypted, "DecryptSuccess")
          [] OTHER                -> {}

\* The diagnosis is right: a host that gets one thing wrong fails exactly the
\* checks that are about it (validate::check), and none that are not.
DeviationDiagnosed ==
    ReplyJudged /\ deviation # "none" =>
      \/ reply.failures = Blamed(deviation, sent.version)
      \* A clock one tick late that leaves the slot also spoils the tag.
      \/ /\ deviation = "late"
         /\ sent.version = 6 /\ (sent.client_time + 1) % TIME_C1 = 0
         /\ reply.failures = {"TimeStampOk", "HmacSha256Ok"}

\* wire/client.rs, on Reply::Response: its `result' is "The HRESULT the call
\* returned".  A refused call should be read as a response that carries it.
RefusalReadable ==
    phase = "answered" /\ pdu.kind = "response" =>
      parse_response(pdu.stub, (CHOOSE c \in accepted : TRUE).syntax).kind = "response"
=============================================================================
