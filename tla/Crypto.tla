------------------------------- MODULE Crypto -------------------------------
(***************************************************************************)
(* kmsrs-crypto, symbolically.  A block, or a run of blocks that the code  *)
(* only ever handles together, is a term: an atom, a body, the encryption  *)
(* or decryption of a term under a key, or the exclusive or of two terms.  *)
(* Encryption and decryption under one key undo each other, a mask applied *)
(* twice cancels, and nothing else is equal by chance.                     *)
(*                                                                         *)
(* Lengths, padding and the time-slot arithmetic are computed, the last    *)
(* with scaled constants.                                                  *)
(***************************************************************************)
EXTENDS Integers, Sequences

CONSTANTS
    TIME_C1,   \* ticks in a slot
    TIME_C2,   \* factor applied to a slot's number
    TIME_C3,   \* what is added to it
    U64        \* 2^64: where the arithmetic wraps

\* One slot is told from the next, and from a slot moved by one slot's ticks.
ASSUME CryptoAssumption ==
    /\ TIME_C1 \in Nat \ {0} /\ TIME_C2 \in Nat \ {0} /\ TIME_C3 \in Nat /\ U64 \in Nat
    /\ TIME_C1 # TIME_C2 /\ TIME_C1 + TIME_C2 < U64

BLOCK_LEN == 16

Zero == <<"zero">>
Atom(name) == <<"atom", name>>
Body(content) == <<"body", content>>

\* KeySchedule::encrypt_block and decrypt_block, for the schedule of a key.
encrypt_block(key, x) ==
    IF x[1] = "D" /\ x[2] = key THEN x[3] ELSE <<"E", key, x>>

decrypt_block(key, x) ==
    IF x[1] = "E" /\ x[2] = key THEN x[3] ELSE <<"D", key, x>>

xor_into(x, mask) ==
    IF mask = Zero THEN x
    ELSE IF x[1] = "xor" /\ x[3] = mask THEN x[2] ELSE <<"xor", x, mask>>

\* cbc::encrypt_in_place, without the padding, which is part of a body.
encrypt_in_place(key, iv, plain) ==
    LET chain[i \in 0..Len(plain)] ==
          IF i = 0 THEN iv ELSE encrypt_block(key, xor_into(plain[i], chain[i - 1]))
    IN  [i \in DOMAIN plain |-> chain[i]]

\* cbc::decrypt.
decrypt(key, iv, cipher) ==
    [i \in DOMAIN cipher |->
       xor_into(decrypt_block(key, cipher[i]), IF i = 1 THEN iv ELSE cipher[i - 1])]

\* cbc::padding_len and padded_len.
padding_len(n) == BLOCK_LEN - (n % BLOCK_LEN)
padded_len(n)  == n + padding_len(n)

\* strip_padding: between 1 and 16 bytes, all of them alike.
PaddingOk(content) == content.pad \in 1..BLOCK_LEN /\ content.uniform

\* CbcMacV4::tag, hash::sha256 and hmac_sha256, the last two truncated or not.
mac_tag(message)        == <<"mac", message>>
sha256(x)               == <<"sha", x>>
hmac_sha256(k, message) == <<"hmac", k, message>>

\* v6::SlotOffset.
SlotOffset == {"Previous", "Current", "Next"}

tick_adjustment(offset) ==
    CASE offset = "Previous" -> U64 - TIME_C1
      [] offset = "Current"  -> 0
      [] offset = "Next"     -> TIME_C1

\* Mutant: the offset is applied to the ticks, before the slot is taken.
time_slot_of_neighbour(ticks, offset) ==
    ((((ticks + tick_adjustment(offset)) % U64) \div TIME_C1) * TIME_C2 + TIME_C3) % U64

time_slot(ticks, offset) ==
    ((ticks \div TIME_C1) * TIME_C2 + TIME_C3 + tick_adjustment(offset)) % U64

\* time_slot_key and tag.
v6_tag(ticks, offset, message) == hmac_sha256(sha256(time_slot(ticks, offset)), message)
=============================================================================
