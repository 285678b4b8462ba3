---------------------------- MODULE MCBlockStore ----------------------------
(* A small instance of BlockStore: two clients, of which the first has two   *)
(* genesis tokens, an account without a key, and an address that begins with *)
(* byte 0xFF.                                                                *)
EXTENDS BlockStore

k1 == PubKey(1)
k2 == PubKey(2)
a1 == AddressFromPubKey(k1)
a2 == AddressFromPubKey(k2)

MCAddrOrder == << a1, a2, Text(3), Text(255) >>
MCKeys == {k1, k2}
MCProposer == Text(9)

MCGenesis ==
  { [ZeroAccount(a1) EXCEPT !.balance = 3, !.stake = 2, !.rcMax = 2],
    [ZeroAccount(a2) EXCEPT !.balance = 1, !.time = -1],
    [ZeroAccount(Text(3)) EXCEPT !.stake = 1] }

\* One payload of each kind, among them a transfer with its receiver written
\* twice and an unknown field, and a vote for an option out of range; keys, one of
\* them empty; an unknown field; fields of a wrong type; and bytes that cannot be
\* parsed, in a payload or by themselves.
MCPayloadField ==
  { Bytes(1, << Bytes(1, a1), Varint(2, 1), Bytes(1, a2), Varint(5, 7) >>),
    Bytes(1, << Varint(2, 1), Bytes(1, Text(255)) >>),
    Bytes(2, << Varint(2, 2) >>),
    Bytes(3, << Bytes(1, Text(3)), Varint(2, 1) >>),
    Bytes(4, << Bytes(2, Text(4)), Bytes(1, Text(5)) >>),
    Bytes(5, << Bytes(3, Text(6)), Bytes(1, Text(3)), Bytes(3, << >>) >>),
    Bytes(6, << Bytes(1, Text(7)), Bytes(4, Text(8)) >>),
    Bytes(7, << Varint(1, 1), Varint(2, 9) >>),
    Bytes(1, << Varint(1, 1) >>),
    Bytes(3, Text(4)), Text(4)[1],
    Varint(2, 1),
    Bytes(8, k1), Bytes(8, k2), Bytes(8, << >>),
    Varint(9, 1) }

MCTimestamps == {-1}

MCRecipients == {Text(3)}

\* One of two validators has signed.
MCSigLists == { << Sign(k1, << >>), << >> >> }
=============================================================================
