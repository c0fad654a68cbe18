-------------------------------- MODULE Bind --------------------------------
(***************************************************************************)
(* Presentation-context negotiation: what a bind or alter_context body     *)
(* parses to, which context the host accepts, and how long the answer is.  *)
(*                                                                         *)
(* A context item is a record                                              *)
(*    [context_id, kms, offered]                                           *)
(* where `kms' says whether the abstract syntax is the KMS interface at    *)
(* version 1.0 and `offered' is the sequence of classified transfer        *)
(* syntaxes.  GUIDs, syntax versions and fragment sizes are echoed by the  *)
(* code and decide nothing, so they are left out.                          *)
(*                                                                         *)
(* A request body is [declared, items]: the item count the peer wrote and  *)
(* the items really present in the body.                                   *)
(***************************************************************************)
EXTENDS Integers, Sequences, FiniteSetsExt

CONSTANTS
    MaxContextItems,      \* MAX_CONTEXT_ITEMS: items considered, and results kept
    MaxTransferSyntaxes   \* MAX_TRANSFER_SYNTAXES: syntaxes one item may offer

ASSUME BindAssumption ==
    /\ MaxContextItems \in Nat \ {0}
    /\ MaxTransferSyntaxes \in Nat \ {0}

\* TransferSyntax: what a 16-byte syntax identifier classifies to.
TransferSyntax == {"ndr32", "ndr64", "btfn", "unknown"}

\* The two syntaxes a context can be accepted for.
DataSyntax == {"ndr32", "ndr64"}

\* A presentation-context item, as far as it decides anything.
ContextItem == [context_id : Nat, kms : BOOLEAN, offered : Seq(TransferSyntax)]

Smaller(a, b) == IF a =< b THEN a ELSE b

(***************************************************************************)
(* bind::parse.  Items past the cap are never looked at; an item that is   *)
(* cut short, or that offers too many syntaxes, fails the whole body.      *)
(***************************************************************************)
Considered(body) == Smaller(body.declared, MaxContextItems)

ParseOk(body) ==
    /\ Len(body.items) >= Considered(body)
    /\ \A i \in 1..Considered(body) :
          Len(body.items[i].offered) =< MaxTransferSyntaxes

Parse(body) ==
    [declared |-> body.declared, items |-> SubSeq(body.items, 1, Considered(body))]

(***************************************************************************)
(* bind::decide.                                                           *)
(***************************************************************************)
OfferFor(item, syntax) == \E i \in DOMAIN item.offered : item.offered[i] = syntax

FeatureBits(item) == OfferFor(item, "btfn")

Preferred(request, ndr64_enabled) ==
    IF /\ ndr64_enabled
       /\ \E i \in DOMAIN request.items :
             request.items[i].kms /\ OfferFor(request.items[i], "ndr64")
    THEN "ndr64" ELSE "ndr32"

\* The items that could carry the association under the preferred syntax.
Candidates(request, ndr64_enabled) ==
    { i \in DOMAIN request.items :
        /\ ~FeatureBits(request.items[i])
        /\ request.items[i].kms
        /\ OfferFor(request.items[i], Preferred(request, ndr64_enabled)) }

\* accepted_context, as a set of at most one element.
AcceptedContext(request, ndr64_enabled) ==
    LET able == Candidates(request, ndr64_enabled)
    IN  IF able = {} THEN {}
        ELSE {[context_id |-> request.items[Min(able)].context_id,
               syntax     |-> Preferred(request, ndr64_enabled)]}

\* Mutant: every usable item is accepted, not only the first.
ResultForEach(request, ndr64_enabled, i) ==
    IF FeatureBits(request.items[i]) THEN "negotiate_ack"
    ELSE IF ~request.items[i].kms THEN "reject_abstract_syntax"
    ELSE IF i \in Candidates(request, ndr64_enabled) THEN "accept"
    ELSE "reject_transfer_syntax"

\* The answer to the item at position i.
ResultFor(request, ndr64_enabled, i) ==
    LET item == request.items[i]
        able == Candidates(request, ndr64_enabled)
    IN  CASE FeatureBits(item)                    -> "negotiate_ack"
          [] ~FeatureBits(item) /\ ~item.kms      -> "reject_abstract_syntax"
          [] able # {} /\ i = Min(able)         -> "accept"
          [] OTHER                                -> "reject_transfer_syntax"

\* Declared items that were never parsed get a rejection each, as long as the
\* result buffer, which is MaxContextItems long, still has room.
RefusedUnparsed(request) ==
    Smaller(request.declared - Len(request.items),
            MaxContextItems - Len(request.items))

Results(request, ndr64_enabled) ==
    [ i \in 1..(Len(request.items) + RefusedUnparsed(request)) |->
        IF i =< Len(request.items) THEN ResultFor(request, ndr64_enabled, i)
                                   ELSE "reject_transfer_syntax" ]

Decide(request, ndr64_enabled) ==
    [results          |-> Results(request, ndr64_enabled),
     accepted_context |-> AcceptedContext(request, ndr64_enabled)]

(***************************************************************************)
(* bind::write_ack, in bytes.  `digits' is the length of the secondary     *)
(* address: the decimal digits of the accepting port for a bind_ack, 0 for *)
(* an alter_context_response.                                              *)
(***************************************************************************)
HEADER_LEN     == 16
ACK_PREFIX_LEN == 10
RESULT_LEN     == 24

\* SecondaryAddress::for_port: the port in decimal.
PortDigits(port) ==
    IF port < 10 THEN 1 ELSE IF port < 100 THEN 2 ELSE IF port < 1000 THEN 3
    ELSE IF port < 10000 THEN 4 ELSE 5

AddressLen(digits) == IF digits = 0 THEN 0 ELSE digits + 1

AckPadding(digits) == (4 - ((HEADER_LEN + ACK_PREFIX_LEN + AddressLen(digits)) % 4)) % 4

AckLen(digits, results) ==
    HEADER_LEN + ACK_PREFIX_LEN + AddressLen(digits) + AckPadding(digits)
      + 4 + results * RESULT_LEN

\* Padding is noise, so only an unpadded ack can be written without entropy.
AckWritable(digits, results, available, entropy_ok) ==
    /\ AckLen(digits, results) =< available
    /\ AckPadding(digits) > 0 => entropy_ok

(***************************************************************************)
(* The client's side of it (wire/client.rs).                               *)
(***************************************************************************)
\* write_bind_body.
BindBody(offer_ndr64) ==
    LET offers == IF offer_ndr64 THEN <<"ndr32", "ndr64", "btfn">> ELSE <<"ndr32">>
    IN  [declared |-> Len(offers),
         items |-> [i \in DOMAIN offers |->
                      [context_id |-> i - 1, kms |-> TRUE, offered |-> <<offers[i]>>]]]

AcceptedResults(ack) == {i \in DOMAIN ack : ack[i].result = "accept"}

\* The first acceptance, under the client's own numbering of its offers.
read_bind_ack(ack) ==
    IF AcceptedResults(ack) = {} THEN {}
    ELSE LET first == Min(AcceptedResults(ack))
         IN  {[context_id |-> first - 1, syntax |-> ack[first].syntax]}
=============================================================================
