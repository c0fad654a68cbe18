---------------------------- MODULE MCConnection ----------------------------
(***************************************************************************)
(* The PDUs the model's clients send.  A header is one unit, a PDU at most *)
(* four and a stub at most three, so that two or three PDUs fill a buffer  *)
(* and a call of three fragments can overrun the reassembly buffer.        *)
(***************************************************************************)
EXTENDS Connection

NoItems == [declared |-> 0, items |-> <<>>]

Stub(op, len, syntax, payload) ==
    [op |-> op, len |-> len, syntax |-> syntax, payload |-> payload]

NoStub == Stub("none", 0, "unknown", "garbled")

Pdu(type, declared, call) ==
    [type |-> type, declared |-> declared, units |-> declared, version_ok |-> TRUE,
     auth |-> FALSE, call |-> call, body |-> NoItems, first |-> TRUE, last |-> TRUE,
     context_id |-> 0, stub |-> NoStub]

Item(context_id, offered) == [context_id |-> context_id, kms |-> TRUE, offered |-> offered]

Negotiate(type, call, items) ==
    [Pdu(type, 2, call) EXCEPT !.body = [declared |-> Len(items), items |-> items]]

Call(call, len, context_id, stub) ==
    [Pdu("request", len, call) EXCEPT !.context_id = context_id, !.stub = stub]

Fragment(call, len, context_id, stub, first, last) ==
    [Call(call, len, context_id, stub) EXCEPT !.first = first, !.last = last]

Bind32     == Negotiate("bind", 1, <<Item(0, <<"ndr32">>)>>)
Alter64    == Negotiate("alter_context", 2, <<Item(1, <<"ndr64">>)>>)
Alter64On0 == Negotiate("alter_context", 3, <<Item(0, <<"ndr32", "ndr64">>)>>)
Alter32On1 == Negotiate("alter_context", 4, <<Item(1, <<"ndr32">>)>>)
BindNone   == Negotiate("bind", 6, <<[Item(0, <<"ndr32">>) EXCEPT !.kms = FALSE]>>)
BindCut    == [Negotiate("bind", 7, <<>>) EXCEPT !.body.declared = 1]

V4On0 == Call(11, 2, 0, Stub("activate", 1, "ndr32", "v4"))
V6On0 == Call(12, 2, 0, Stub("activate", 1, "ndr32", "v6"))
V6On1 == Call(13, 2, 1, Stub("activate", 1, "ndr64", "v6"))
V5On0 == Call(14, 2, 0, Stub("activate", 1, "ndr64", "v5"))
OldKms  == Call(15, 2, 0, Stub("activate", 1, "ndr32", "bad_version"))
OtherOp == Call(16, 2, 0, Stub("other", 1, "ndr32", "v4"))
NoBody  == Call(17, 1, 0, NoStub)

Split == Stub("activate", 2, "ndr32", "v5")
Frag1 == Fragment(21, 2, 0, Split, TRUE, FALSE)
Frag2 == Fragment(21, 2, 0, Split, FALSE, TRUE)
FragOther == Fragment(22, 2, 0, NoStub, FALSE, TRUE)
FragBig == Fragment(21, 4, 0, Split, FALSE, FALSE)

OldRpc  == [Pdu("bind", 2, 31) EXCEPT !.version_ok = FALSE]
Auth    == [Pdu("request", 2, 32) EXCEPT !.auth = TRUE]
Strange == Pdu("other", 1, 33)
TooLong == [Pdu("bind", 5, 34) EXCEPT !.units = 1]
TooShort == [Pdu("bind", 0, 35) EXCEPT !.units = 1]

Negotiating == {Bind32, Alter64, Alter64On0, Alter32On1, V6On0, V6On1, V5On0}

Fragmenting == {Bind32, Alter32On1, Frag1, Frag2, FragOther, FragBig, V4On0}

BadlyFramed == {Bind32, OldRpc, Auth, Strange, TooLong, TooShort}

BadlyBound == {Bind32, BindNone, BindCut, OldKms, OtherOp, NoBody}

MCClients == {Negotiating, Fragmenting, BadlyFramed, BadlyBound}

Pipelining == {{Bind32, Frag1, Frag2, V4On0}}
=============================================================================
