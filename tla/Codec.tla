------------------------------- MODULE Codec --------------------------------
(***************************************************************************)
(* The KMS payload: kms/request.rs, framing.rs, response.rs, validate.rs,  *)
(* over layout.rs, version.rs and epid.rs.  Field contents that are copied *)
(* from one side to the other and looked at by nobody are left out; sizes  *)
(* are in bytes.                                                           *)
(*                                                                         *)
(* A protocol version is <<major, minor>>; a Version is the major number   *)
(* of a supported one.                                                     *)
(***************************************************************************)
EXTENDS Crypto

Version == {4, 5, 6}

\* ProtocolVersion::supported and Version::to_protocol_version.
supported(declared) == declared[2] = 0 /\ declared[1] \in Version
to_protocol_version(version) == <<version, 0>>

uses_tweaked_cipher(version) == version = 6

\* layout.rs.
IV_LEN                 == 16
MAC_LEN                == 16
UNENCRYPTED_PREFIX_LEN == 4
REQUEST_BODY_LEN       == 236
REQUEST_PAD_LEN        == 4
RESPONSE_HEAD_LEN      == 8
RESPONSE_TAIL_LEN      == 36
SALT_PROOF_LEN         == 48
V6_TRAILER_LEN         == 40
MAX_EPID_UNITS         == 63
MAX_RESPONSE_LEN       == 384
WORKSTATION_NAME_UNITS == 64

\* request::framed_request_len.
framed_request_len(version) ==
    IF version = 4 THEN REQUEST_BODY_LEN + MAC_LEN
    ELSE UNENCRYPTED_PREFIX_LEN + IV_LEN + REQUEST_BODY_LEN + REQUEST_PAD_LEN

\* Ciphers::schedule, named after the version whose key it expands.
schedule(version) == version

(***************************************************************************)
(* The request.  A body is [version, client_machine_id, client_time].      *)
(***************************************************************************)
Padded(content, n) ==
    Body([content |-> content, len |-> n, pad |-> padding_len(n), uniform |-> TRUE])

\* framing::encode_request_declaring, given the IV that was drawn.
encode_request_declaring(version, declared, body, iv) ==
    IF version = 4
      THEN [len |-> REQUEST_BODY_LEN + MAC_LEN, word |-> body.version,
            blocks |-> <<Body(body)>>, mac |-> mac_tag(body)]
      ELSE [len |-> UNENCRYPTED_PREFIX_LEN + IV_LEN + padded_len(REQUEST_BODY_LEN),
            word |-> declared,
            blocks |-> <<iv>> \o encrypt_in_place(schedule(version), iv,
                                   <<Padded(body, REQUEST_BODY_LEN)>>),
            mac |-> Zero]

\* request::dispatch: the reason a stub is not even looked into.
dispatch_error(stub) ==
    CASE stub.len < 4                                     -> "too_short"
      [] stub.len >= 4 /\ ~supported(stub.word)           -> "unsupported_version"
      [] stub.len >= 4 /\ supported(stub.word)
           /\ stub.len # framed_request_len(stub.word[1]) -> "wrong_length"
      [] OTHER                                            -> "none"

\* framing::decode and decode_v4.  Decryption with a key that is not the one
\* the body was made with leaves noise, which has no well-formed padding.
decode(stub) ==
    LET version == stub.word[1]
        plain == decrypt(schedule(version), Zero, stub.blocks)
        made(body, secret, verified) ==
          [error |-> "none", version |-> version, declared |-> stub.word,
           body |-> body, shared_secret |-> secret, mac_verified |-> verified]
        failed(error) == [error |-> error]
    IN  CASE dispatch_error(stub) # "none" -> failed(dispatch_error(stub))
          [] dispatch_error(stub) = "none" /\ version = 4 ->
               made(stub.blocks[1][2], Zero, stub.mac = mac_tag(stub.blocks[1][2]))
          [] OTHER ->
               IF plain[2][1] # "body" \/ ~PaddingOk(plain[2][2]) THEN failed("cipher")
               ELSE IF plain[2][2].len # REQUEST_BODY_LEN THEN failed("body_length")
               ELSE made(plain[2][2].content, plain[1], TRUE)

(***************************************************************************)
(* The response.  An ePID on the wire is its length in bytes and the       *)
(* positions of its NUL units.                                             *)
(***************************************************************************)
\* EPid::parse (what is refused), and EPid::encode with its terminator.
EPidOk(units) == units =< MAX_EPID_UNITS
encoded_len(units) == (units + 1) * 2
EncodedEPid(units) == [len |-> encoded_len(units), nuls |-> {units + 1}]

\* framing::response_tail_len.
response_tail_len(version) ==
    CASE version = 4 -> RESPONSE_TAIL_LEN
      [] version = 5 -> RESPONSE_TAIL_LEN + SALT_PROOF_LEN
      [] version = 6 -> RESPONSE_TAIL_LEN + SALT_PROOF_LEN + V6_TRAILER_LEN

\* The bytes in front of the padding or of the MAC.
content_len(version, pid_len) ==
    RESPONSE_HEAD_LEN + pid_len + response_tail_len(version)
      + (IF version = 4 THEN 0 ELSE IV_LEN)

\* framing::response_len and validate::expected_size.
response_len(version, pid_len) ==
    IF version = 4 THEN content_len(version, pid_len) + MAC_LEN
    ELSE UNENCRYPTED_PREFIX_LEN + padded_len(content_len(version, pid_len))

\* Mutant: a v5 response gets an IV of its own, as a v6 one does.
plaintext_fresh(decoded, plan, random_iv, salt) ==
    [iv |-> random_iv, version |-> decoded.declared, pid |-> plan.pid,
     client_machine_id |-> plan.client_machine_id, client_time |-> plan.client_time,
     random_xored_ivs |-> xor_into(salt, decoded.shared_secret), hash |-> sha256(salt),
     carried |-> decoded.shared_secret]

\* write_body, and what encode_encrypted writes around it: everything the v6
\* tag covers.  A v4 response has only write_body's part of these.
plaintext(decoded, plan, random_iv, salt) ==
    [iv |-> IF uses_tweaked_cipher(decoded.version) THEN random_iv
                                                    ELSE decoded.shared_secret,
     version |-> decoded.declared, pid |-> plan.pid,
     client_machine_id |-> plan.client_machine_id, client_time |-> plan.client_time,
     random_xored_ivs |-> xor_into(salt, decoded.shared_secret), hash |-> sha256(salt),
     carried |-> decoded.shared_secret]

\* The v4 MAC or the v6 tag of a plaintext; v5 has neither.  `extra' is how
\* many bytes too many follow the fields.
Tag(version, fields, extra) ==
    CASE version = 4 -> mac_tag(<<fields, extra>>)
      [] version = 5 -> Zero
      [] version = 6 -> v6_tag(fields.client_time, "Current", <<fields, extra>>)

\* The rest of encode_v4 and encode_encrypted: the version word, the tag and
\* the encryption.  `sealed' is [outer, fields, tag, extra, pad, uniform].
seal(version, sealed) ==
    LET n == content_len(version, sealed.fields.pid.len) + sealed.extra
    IN  [outer |-> sealed.outer,
         len |-> IF version = 4 THEN n + MAC_LEN
                 ELSE UNENCRYPTED_PREFIX_LEN + padded_len(n),
         blocks |-> IF version = 4 THEN <<Body(sealed)>>
                    ELSE encrypt_in_place(schedule(version), Zero,
                           <<sealed.fields.iv, Body([sealed EXCEPT !.fields.iv = Zero])>>)]

\* What an honest host seals.
Sealed(version, declared, fields) ==
    [outer |-> declared, fields |-> fields, tag |-> Tag(version, fields, 0), extra |-> 0,
     pad |-> padding_len(content_len(version, fields.pid.len)), uniform |-> TRUE]

\* framing::encode: v4 draws nothing, the others a salt and v6 an IV as well.
EncodeOk(decoded, plan, entropy_ok) ==
    /\ response_len(decoded.version, plan.pid.len) =< MAX_RESPONSE_LEN
    /\ decoded.version = 4 \/ entropy_ok

encode(decoded, plan, random_iv, salt) ==
    seal(decoded.version,
         Sealed(decoded.version, decoded.declared, plaintext(decoded, plan, random_iv, salt)))

(***************************************************************************)
(* The client's reading of it.                                             *)
(***************************************************************************)
\* response::decode: padding_length looks at the last byte only.
response_error(version, stub) ==
    LET plain == decrypt(schedule(version), Zero, stub.blocks)
    IN  /\ version # 4
        /\ \/ stub.len =< UNENCRYPTED_PREFIX_LEN
           \/ (stub.len - UNENCRYPTED_PREFIX_LEN) % BLOCK_LEN # 0
           \/ plain[2][1] # "body"
           \/ plain[2][2].pad \notin 1..BLOCK_LEN

decode_response(version, stub) ==
    LET plain == IF version = 4 THEN <<Zero>> \o stub.blocks
                 ELSE decrypt(schedule(version), Zero, stub.blocks)
        sealed == plain[2][2]
        fields == [sealed.fields EXCEPT !.iv = IF version = 4 THEN @ ELSE plain[1]]
    IN  [outer |-> stub.outer, response_iv |-> IF version = 4 THEN Zero ELSE stub.blocks[1],
         fields |-> fields, tag |-> sealed.tag, message |-> <<fields, sealed.extra>>,
         padding_ok |-> PaddingOk(sealed), wire_len |-> stub.len]

\* validate::pid_is_well_formed.
pid_is_well_formed(pid) ==
    /\ pid.len % 2 = 0 /\ pid.len # 0
    /\ pid.len =< encoded_len(MAX_EPID_UNITS)
    /\ pid.nuls = {pid.len \div 2}

\* validate::check and check_crypto: the checks that fail.  A check that does
\* not apply to the version is never among them.
failures(sent, got) ==
    LET f == got.fields
        wire == to_protocol_version(sent.version)
        v == sent.version
        fresh == got.response_iv # sent.request_iv
        salt == xor_into(f.random_xored_ivs, sent.shared_secret)
        failed(name, applies, holds) == IF applies /\ ~holds THEN {name} ELSE {}
    IN  UNION {
          failed("VersionOk", TRUE,
                 /\ f.version = wire /\ sent.header_version = wire
                 /\ v # 4 => got.outer = wire),
          failed("ClientMachineIdOk", TRUE, f.client_machine_id = sent.client_machine_id),
          failed("TimeStampOk", TRUE, f.client_time = sent.client_time),
          failed("SizeOk", TRUE, got.wire_len = response_len(v, f.pid.len)),
          failed("PidLengthOk", TRUE, pid_is_well_formed(f.pid)),
          failed("DecryptSuccess", v # 4, got.padding_ok),
          failed("HashOk", v = 4, got.tag = mac_tag(got.message)),
          failed("IvsOk", v # 4, fresh <=> v = 6),
          failed("IvNotSuspicious", v # 4,
                 /\ got.response_iv # Zero
                 /\ v = 6 => fresh),
          failed("SaltProofOk", v # 4, sha256(salt) = f.hash),
          failed("DecryptedIvOk", v = 6, f.carried = sent.shared_secret),
          failed("HmacSha256Ok", v = 6,
                 \E offset \in SlotOffset :
                    got.tag = v6_tag(sent.client_time, offset, got.message)) }
=============================================================================
