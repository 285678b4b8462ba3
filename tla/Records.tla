------------------------------ MODULE Records -------------------------------
(* Transactions, blocks, consensus messages and accounts as bytes            *)
(* (pkg/encoding/protobuf.go, unmarshal.go and hash.go, pkg/state/codec.go), *)
(* what of them is signed (pkg/tx/signing.go and verify.go,                  *)
(* pkg/consensus/signing.go) and the state root (pkg/state/merkle.go).       *)
EXTENDS Wire

CONSTANTS
  AddrOrder,  \* the addresses accounts are kept under, in the order of their bytes
  UpperBound  \* the number of them that do not begin with byte 0xFF

Addr == { AddrOrder[i] : i \in DOMAIN AddrOrder }

\* The addresses that iterateAccounts gets to: its upper bound is the key prefix
\* and byte 0xFF.
Iterated == { AddrOrder[i] : i \in 1 .. UpperBound }

-----------------------------------------------------------------------------
(* Transactions.                                                             *)

MarshalTransaction(tx) ==
  << Bytes(1, tx.from), Bytes(2, tx.to), Varint(3, tx.nonce),
     Bytes(4, tx.payload), Bytes(5, tx.signature) >>

UnmarshalTransaction(b) ==
  IF b = << >> THEN {}
  ELSE Decode(b, [from |-> << >>, to |-> << >>, nonce |-> 0,
                  payload |-> << >>, signature |-> << >>],
         << << "bytes", "from" >>, << "bytes", "to" >>, << "number", "nonce" >>,
            << "bytes", "payload" >>, << "bytes", "signature" >> >>)

\* tx.SigningBytes: the transaction with an empty signature.
SigningBytes(tx) == MarshalTransaction([tx EXCEPT !.signature = << >>])

VerifySignature(tx, key) == tx.signature = Sign(key, SigningBytes(tx))

\* Mutant: the address is not derived from the key.
ResolveAnyKey(tx, stored, payloadKey) ==
  IF stored = << >>
    THEN { key \in {payloadKey} : key # << >> }
    ELSE { key \in {stored} : payloadKey \in {<< >>, key} }

\* ResolveSenderPubKey: the key to verify with, if there is one.  The first
\* spend brings the key, a later one may repeat it, and the address is the
\* key's in either case.
ResolveSenderPubKey(tx, stored, payloadKey) ==
  IF stored = << >>
    THEN { key \in {payloadKey} : key # << >> /\ AddressFromPubKey(key) = tx.from }
    ELSE { key \in {stored} : /\ payloadKey \in {<< >>, key}
                              /\ AddressFromPubKey(key) = tx.from }

-----------------------------------------------------------------------------
(* Blocks.                                                                   *)

\* Mutant: the signatures are part of the hashed header.
MarshalBlockForHashWithSigs(block) ==
  << Varint(1, block.height), Bytes(2, block.prev), Bytes(3, block.root),
     Varint(4, Uint64(block.timestamp)), Bytes(5, block.proposer) >>
    \o [i \in DOMAIN block.txs |-> Bytes(6, MarshalTransaction(block.txs[i]))]
    \o ListOf(7, block.sigs)

\* What is hashed leaves the validators' signatures out.
MarshalBlockForHash(block) ==
  << Varint(1, block.height), Bytes(2, block.prev), Bytes(3, block.root),
     Varint(4, Uint64(block.timestamp)), Bytes(5, block.proposer) >>
    \o [i \in DOMAIN block.txs |-> Bytes(6, MarshalTransaction(block.txs[i]))]

MarshalBlock(block) ==
  << Varint(1, block.height), Bytes(2, block.prev), Bytes(3, block.root),
     Varint(4, Uint64(block.timestamp)), Bytes(5, block.proposer) >>
    \o [i \in DOMAIN block.txs |-> Bytes(6, MarshalTransaction(block.txs[i]))]
    \o ListOf(7, block.sigs)

\* The transactions of a list of bytes, all of which have to be some.
UnmarshalTransactions(bs) ==
  IF \E i \in DOMAIN bs : UnmarshalTransaction(bs[i]) = {} THEN {}
  ELSE {[i \in DOMAIN bs |-> CHOOSE tx \in UnmarshalTransaction(bs[i]) : TRUE]}

\* The loop collects the bytes of the transactions; which of several errors
\* refuses a block is left out.
UnmarshalWith(b, timestampRule) ==
  IF b = << >> THEN {}
  ELSE UNION { { [out EXCEPT !.txs = txs] : txs \in UnmarshalTransactions(out.txs) } :
         out \in Decode(b,
           [height |-> 0, prev |-> ZeroHash, root |-> ZeroHash, timestamp |-> 0,
            proposer |-> << >>, txs |-> << >>, sigs |-> << >>],
           << << "number", "height" >>, << "hash", "prev" >>, << "hash", "root" >>,
              timestampRule, << "bytes", "proposer" >>, << "list", "txs" >>,
              << "list", "sigs" >> >>) }

\* Mutant: a timestamp is not converted back to a signed integer.
UnmarshalBlockUnsigned(b) == UnmarshalWith(b, << "number", "timestamp" >>)

UnmarshalBlock(b) == UnmarshalWith(b, << "int", "timestamp" >>)

HashBlock(block) == HashBytes(MarshalBlockForHash(block))

-----------------------------------------------------------------------------
(* Consensus messages.                                                       *)

MarshalProposal(p) ==
  << Bytes(1, MarshalBlock(p.block)), Varint(2, p.round), Bytes(3, p.sig) >>

\* Mutant: the round is not written.
MarshalPrecommitVoteNoRound(v) ==
  << Bytes(1, v.hash), Varint(2, v.height), Bytes(4, v.validator), Bytes(5, v.sig) >>

MarshalPrecommitVote(v) ==
  << Bytes(1, v.hash), Varint(2, v.height), Varint(3, v.round),
     Bytes(4, v.validator), Bytes(5, v.sig) >>

MarshalViewChange(vc) ==
  << Varint(1, vc.height), Varint(2, vc.round), Bytes(3, vc.validator), Bytes(4, vc.sig) >>

ProposalSignBytes(p) ==
  MarshalProposal([p EXCEPT !.sig = << >>, !.block.sigs = << >>])
PrecommitSignBytes(v) == MarshalPrecommitVote([v EXCEPT !.sig = << >>])
ViewChangeSignBytes(vc) == MarshalViewChange([vc EXCEPT !.sig = << >>])

-----------------------------------------------------------------------------
(* Accounts and the state root.                                              *)

MarshalAccount(a) ==
  << Bytes(1, a.address), Varint(2, a.balance), Varint(3, a.nonce), Varint(4, a.stake),
     Varint(5, a.rc), Varint(6, a.rcMax), Varint(7, Uint64(a.time)) >>
    \o (IF a.code = << >> THEN << >> ELSE << Bytes(8, a.code) >>)
    \o (IF a.pubKey = << >> THEN << >> ELSE << Bytes(9, a.pubKey) >>)

ZeroAccount(addr) ==
  [address |-> addr, balance |-> 0, nonce |-> 0, stake |-> 0, rc |-> 0, rcMax |-> 0,
   time |-> 0, code |-> << >>, pubKey |-> << >>]

UnmarshalAccount(b) ==
  Decode(b, ZeroAccount(<< >>),
    << << "bytes", "address" >>, << "number", "balance" >>, << "number", "nonce" >>,
       << "number", "stake" >>, << "number", "rc" >>, << "number", "rcMax" >>,
       << "int", "time" >>, << "bytes", "code" >>, << "bytes", "pubKey" >> >>)

AccountKey(addr) == Opaque("acct/", 0, addr)

\* Mutant: an odd node at the end of a level is dropped.
LevelDropsOdd(nodes) ==
  [i \in 1 .. (Len(nodes) \div 2) |->
     HashBytes(Opaque("inner", 0, << >>) \o nodes[2 * i - 1] \o nodes[2 * i])]

\* The level above; the last node of an odd level is paired with itself.
Level(nodes) ==
  [i \in 1 .. ((Len(nodes) + 1) \div 2) |->
     HashBytes(Opaque("inner", 0, << >>) \o nodes[2 * i - 1]
                 \o nodes[IF 2 * i <= Len(nodes) THEN 2 * i ELSE 2 * i - 1])]

MerkleRoot(leaves) ==
  LET above[k \in 0 .. Len(leaves)] ==
        IF k = 0 THEN leaves
        ELSE IF Len(above[k - 1]) = 1 THEN above[k - 1] ELSE Level(above[k - 1])
  IN  above[Len(leaves)][1]

\* The leaves of a set of accounts, at most one of an address, in their order, as
\* far as the accounts are iterated.
Leaves(accounts) ==
  LET at(i) == { a \in accounts : a.address = AddrOrder[i] }
      leaf(a) == HashBytes(Opaque("leaf", 0, << >>) \o AccountKey(a.address)
                             \o MarshalAccount(a))
      leaves[i \in 0 .. UpperBound] ==
        IF i = 0 THEN << >>
        ELSE IF at(i) = {} THEN leaves[i - 1]
        ELSE Append(leaves[i - 1], leaf(CHOOSE a \in at(i) : TRUE))
  IN  leaves[UpperBound]

\* ComputeStateRootFromReader.
StateRoot(accounts) ==
  IF Leaves(accounts) = << >> THEN ZeroHash ELSE MerkleRoot(Leaves(accounts))

-----------------------------------------------------------------------------
(* Execution, as far as keys, nonces, code and tokens go (State's            *)
(* applyTransactionWithKV); the credit is Transactions'.                     *)

\* The account of an address in a set of accounts.
AccountOf(accounts, addr) ==
  IF \E a \in accounts : a.address = addr
    THEN CHOOSE a \in accounts : a.address = addr
    ELSE ZeroAccount(addr)

\* Accounts of a set written over those of their addresses.
Overwrite(accounts, new) ==
  { a \in accounts : \A b \in new : a.address # b.address } \union new

\* The checks of a transaction (AddTx makes the same): its payload, and the key
\* that its sender has or brings and that its signature verifies under.
Accepted(tx, sender) ==
  UNION { { [payload |-> env.payload, key |-> key] :
              key \in { k \in ResolveSenderPubKey(tx, sender.pubKey, env.senderPubKey) :
                        VerifySignature(tx, k) } } :
          env \in DecodePayload(tx.payload) }

\* What a transaction writes: first others' accounts, at most one, then its
\* sender's; nothing of it if it fails.  A transfer goes to the payload's receiver,
\* whatever the transaction's is.  Contract transactions fail here: without an
\* engine they do, and what they do with one is Transactions'.  get has the
\* accounts by address.
Writes(tx, get) ==
  LET sender == get[tx.from]
      After(t) ==
        LET p == t.payload
            s == [sender EXCEPT !.pubKey = t.key, !.nonce = @ + 1]
            Spent == [s EXCEPT !.balance = @ - p.amount]
        IN  CASE p.kind = "transfer" /\ s.balance >= p.amount ->
                   { << {[get[p.to] EXCEPT !.balance = (@ + p.amount) % U64]}, Spent >> }
              [] p.kind = "delegate" /\ s.balance >= p.amount ->
                   { << {}, [Spent EXCEPT !.stake = (@ + p.amount) % U64] >> }
              [] p.kind = "undelegate" /\ s.stake >= p.amount ->
                   { << {}, [s EXCEPT !.stake = @ - p.amount,
                                      !.balance = (@ + p.amount) % U64] >> }
              [] p.kind \in {"proposal", "vote"} -> { << {}, s >> }
              [] OTHER -> {}
  IN  IF sender.nonce # tx.nonce THEN {}
      ELSE UNION { After(t) : t \in Accepted(tx, sender) }

=============================================================================
