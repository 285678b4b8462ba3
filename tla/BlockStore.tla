----------------------------- MODULE BlockStore -----------------------------
(* From a client's bytes to the bytes on disk: a client writes a payload     *)
(* field by field, as some protobuf library of its own would, and signs a    *)
(* transaction with it; a node accepts it (Mempool.AddTx), commits it in a   *)
(* block (State.ApplyBlock), reads accounts and blocks back from its         *)
(* key-value store (pkg/state/store.go) and is started again (node.Start).   *)
(*                                                                           *)
(* A block is proposed, voted for and applied in one step; the consensus     *)
(* around it is HotStuff's, the pool's order Mempool's, the credit           *)
(* Transactions'.                                                            *)
EXTENDS Records, FiniteSets

CONSTANTS
  Genesis,     \* the accounts of the genesis file
  Keys,        \* the clients' public keys
  PayloadField, \* the fields a client's library may write
  Timestamps,  \* of blocks
  Proposer,    \* its address
  SigLists,    \* the signature lists a block may be stored with
  Recipients,  \* of transactions
  MaxFields,   \* bound on the fields of a payload
  MaxTxs,      \* bound on the transactions
  MaxBlocks    \* bound on the blocks

Int64s == -(U64 \div 2) .. (U64 \div 2) - 1

\* Genesis accounts have sent nothing; times are int64s; addresses are byte strings
\* of any kind, and those that transfers write to are among the ones listed.
ASSUME BlockStoreAssumption ==
  /\ U64 \in Nat \ {0} /\ U64 % 2 = 0 /\ U8 \in Nat \ {0}
  /\ AddrOrder \in Seq(Addr) /\ UpperBound \in 0 .. Len(AddrOrder)
  /\ \A i, j \in DOMAIN AddrOrder : AddrOrder[i] = AddrOrder[j] => i = j
  /\ Timestamps \subseteq Int64s
  /\ Genesis \subseteq [address : Addr, balance : Nat, nonce : {0}, stake : Nat, rc : {0},
                     rcMax : Nat, time : Int64s, code : {<< >>}, pubKey : {<< >>}]
  /\ \A a, b \in Genesis : a.address = b.address => a = b
  /\ \A f \in PayloadField : f.num \in 1 .. 7 =>
       /\ f.b \in Seq({ f.b[i] : i \in DOMAIN f.b }) /\ \A i \in DOMAIN f.b : f.b[i].n \in Nat
       /\ \A p \in DecodeKind(f.num, f.b) : p.kind = "transfer" => p.to \in Addr
  /\ \A sigs \in SigLists : sigs \in Seq({ sigs[i] : i \in DOMAIN sigs })
  /\ MaxTxs \in Nat

VARIABLES
  draft,    \* the payload a client is writing
  pending,  \* the transactions of the next block
  height,   \* of the last block
  kv,       \* the store: keys to values
  started   \* history: the height at the node's last start

vars == << draft, pending, height, kv, started >>

Put(store, key, val) ==
  [k \in DOMAIN store \union {key} |-> IF k = key THEN val ELSE store[k]]

-----------------------------------------------------------------------------
(* Accounts in the store.                                                    *)

\* Accounts of different addresses.
SetAccounts(store, new) ==
  [k \in DOMAIN store \union { AccountKey(a.address) : a \in new } |->
     IF \E a \in new : k = AccountKey(a.address)
       THEN MarshalAccount(CHOOSE a \in new : k = AccountKey(a.address))
       ELSE store[k]]

GetAccount(store, addr) ==
  IF AccountKey(addr) \notin DOMAIN store THEN ZeroAccount(addr)
  ELSE CHOOSE a \in UnmarshalAccount(store[AccountKey(addr)]) : TRUE

\* The accounts that GetAccount finds.
Accounts(store) ==
  UNION { UnmarshalAccount(store[k]) : k \in { k \in DOMAIN store : k[1].type = "acct/" } }

-----------------------------------------------------------------------------
(* Blocks in the store.                                                      *)

BlockKey(hash) == Opaque("block/", 0, hash)
HeightKey(h) == Opaque("block_height/", h, << >>)

\* setBlockWithWriter.
SetBlock(store, block, hash) ==
  Put(Put(store, BlockKey(hash), MarshalBlock(block)), HeightKey(block.height), hash)

GetBlockByHash(store, hash) ==
  IF BlockKey(hash) \notin DOMAIN store THEN {} ELSE UnmarshalBlock(store[BlockKey(hash)])

GetBlockByHeight(store, h) ==
  IF HeightKey(h) \notin DOMAIN store THEN {}
  ELSE GetBlockByHash(store, store[HeightKey(h)])

\* The block that can be read at a height, and the transactions of all blocks.
BlockAt(h) == CHOOSE b \in GetBlockByHeight(kv, h) : TRUE
Stored == UNION { { << h, i >> : i \in DOMAIN BlockAt(h).txs } : h \in 1 .. height }

-----------------------------------------------------------------------------
(* Steps.                                                                    *)

MoreTxs == Len(pending) + Cardinality(Stored) < MaxTxs /\ height < MaxBlocks

\* The client writes a field.
Write ==
  /\ Len(draft) < MaxFields /\ MoreTxs
  /\ \E f \in PayloadField : draft' = Append(draft, f)
  /\ UNCHANGED << pending, height, kv, started >>

\* The client signs, and AddTx accepts.  The nonce is the one the ledger needs.
Submit ==
  /\ MoreTxs
  /\ \E from \in Addr, to \in Recipients, signer \in Keys :
       LET sent == Cardinality({ i \in DOMAIN pending : pending[i].from = from })
           unsigned == [from |-> from, to |-> to, payload |-> draft, signature |-> << >>,
                        nonce |-> GetAccount(kv, from).nonce + sent]
           tx == [unsigned EXCEPT !.signature = Sign(signer, SigningBytes(unsigned))]
       IN  /\ from # << >> /\ to # << >>
           /\ Accepted(tx, GetAccount(kv, from)) # {}
           /\ pending' = Append(pending, tx)
  /\ draft' = << >>
  /\ UNCHANGED << height, kv, started >>

\* The store after what a transaction writes.
Written(store, get, tx) ==
  { SetAccounts(SetAccounts(store, w[1]), {w[2]}) : w \in Writes(tx, get) }

\* Mutant: every transaction reads the accounts as they were before the block.
ApplyTransactionsStale(txs) ==
  LET after[i \in 0 .. Len(txs)] ==
        IF i = 0 THEN {kv}
        ELSE UNION { Written(store, [a \in Addr |-> GetAccount(kv, a)], txs[i]) :
                       store \in after[i - 1] }
  IN  after[Len(txs)]

\* The stores that executing txs leads to.
ApplyTransactions(txs) ==
  LET after[i \in 0 .. Len(txs)] ==
        IF i = 0 THEN {kv}
        ELSE UNION { Written(store, [a \in Addr |-> GetAccount(store, a)], txs[i]) :
                       store \in after[i - 1] }
  IN  after[Len(txs)]

LastFinalized == IF height = 0 THEN ZeroHash ELSE kv[HeightKey(height)]

\* A block of the pending transactions, with the signatures FinalizeBlock puts in.
\* Empty blocks are left out.
Commit ==
  /\ height < MaxBlocks /\ pending # << >>
  /\ \E store \in ApplyTransactions(pending), t \in Timestamps, sigs \in SigLists :
       LET block == [height |-> height + 1, prev |-> LastFinalized,
                     root |-> StateRoot(Accounts(store)), timestamp |-> t,
                     proposer |-> Proposer, txs |-> pending, sigs |-> sigs]
       IN  kv' = SetBlock(store, block, HashBlock(block))
  /\ height' = height + 1
  /\ pending' = << >>
  /\ UNCHANGED << draft, started >>

\* The node stops and starts: the pool is lost, and applyGenesis writes the genesis
\* accounts over the stored ones.
Restart ==
  /\ kv' = SetAccounts(kv, Genesis)
  /\ pending' = << >>
  /\ started' = height
  /\ UNCHANGED << draft, height >>

Init ==
  /\ draft = << >>
  /\ pending = << >>
  /\ height = 0
  /\ kv = SetAccounts([k \in {} |-> << >>], Genesis)
  /\ started = 0

Next == Write \/ Submit \/ Commit \/ Restart

Spec == Init /\ [][Next]_vars

-----------------------------------------------------------------------------
(* Properties.                                                               *)

TypeOK ==
  /\ draft \in Seq(PayloadField)
  /\ \A i \in DOMAIN pending : pending[i].from \in Addr /\ pending[i].nonce \in Nat
  /\ height \in Nat /\ started \in 0 .. height
  /\ \A h \in 1 .. height : /\ Cardinality(GetBlockByHeight(kv, h)) = 1
                              /\ BlockAt(h).timestamp \in Timestamps
  /\ \A a \in Genesis : Cardinality(UnmarshalAccount(kv[AccountKey(a.address)])) = 1

\* The fields of the payload kinds: names and types, by number; "many" is a list.
Shape(num) ==
  CASE num = 1 -> << << "to", "bytes" >>, << "amount", "varint" >> >>
    [] num \in {2, 3} -> << << "validator", "bytes" >>, << "amount", "varint" >> >>
    [] num = 4 -> << << "code", "bytes" >>, << "salt", "bytes" >> >>
    [] num = 5 -> << << "address", "bytes" >>, << "method", "bytes" >>, << "args", "many" >> >>
    [] num = 6 -> << << "title", "bytes" >>, << "description", "bytes" >>,
                     << "paramKey", "bytes" >>, << "paramValue", "bytes" >> >>
    [] num = 7 -> << << "proposalID", "varint" >>, << "option", "option" >> >>

FieldsOf(b, num) == { i \in DOMAIN b : b[i].num = num }

\* v is what the protobuf rules make of the field: its last value, or all of a list.
Means(v, b, num, type) ==
  LET at == FieldsOf(b, num) IN
  IF type = "many"
    THEN \E e \in [DOMAIN v -> at] :
           /\ \A i \in at : \E k \in DOMAIN v : e[k] = i
           /\ \A k, l \in DOMAIN v : k < l => e[k] < e[l]
           /\ \A k \in DOMAIN v : v[k] = b[e[k]].b
    ELSE IF at = {} THEN v = (IF type = "bytes" THEN << >> ELSE 0)
    ELSE \E i \in at :
           /\ \A j \in at : j <= i
           /\ v = CASE type = "bytes" -> b[i].b
                    [] type = "varint" -> b[i].n
                    [] type = "option" -> b[i].n % U8

\* The fields can be parsed, and the known ones have their types.
WellTyped(b, num) ==
  /\ \A i \in DOMAIN b : b[i].num # 0
  /\ \A k \in DOMAIN Shape(num) : \A i \in FieldsOf(b, k) :
       b[i].type = IF Shape(num)[k][2] \in {"bytes", "many"} THEN "bytes" ELSE "varint"

\* Payload bytes mean what the protobuf rules say, whatever order and repetition
\* a client's library has chosen: they are accepted exactly when they can be parsed,
\* there is one payload, all known fields have their types and no key follows a key,
\* and then a field has its last value, a list all of them, and the key is the one
\* written (DecodePayload and the seven decoders under it).
DecodesAsMeant ==
  LET payloads == { i \in DOMAIN draft : draft[i].num \in 1 .. 7 }
      keys == FieldsOf(draft, 8)
      WellFormed ==
        /\ Cardinality(payloads) = 1
        /\ \A i \in DOMAIN draft : draft[i].num # 0
        /\ \A i \in payloads \union keys : draft[i].type = "bytes"
        /\ \A i, j \in keys : i < j => draft[i].b = << >>
        /\ \A i \in payloads : WellTyped(draft[i].b, draft[i].num)
  IN  /\ DecodePayload(draft) # {} <=> WellFormed
      /\ \A env \in DecodePayload(draft) :
           /\ Means(env.senderPubKey, draft, 8, "bytes")
           /\ \A i \in payloads : \A k \in DOMAIN Shape(draft[i].num) :
                LET shape == Shape(draft[i].num)[k] IN
                Means(env.payload[shape[1]], draft[i].b, k, shape[2])

\* Decoding is a normal form: what was accepted, however it was written, is
\* written by EncodePayload as bytes that decode to the same payload and key.
NormalForm ==
  \A env \in DecodePayload(draft) :
    DecodePayload(EncodePayload(env.payload, env.senderPubKey)) = {env}

\* A block is found under the hash its validators voted on, which is the one
\* before their signatures were put into it, after a restart as before
\* (MarshalBlockForHash, FinalizeBlock).
StoredUnderVotedHash ==
  \A h \in 1 .. height :
    LET proposed == [BlockAt(h) EXCEPT !.sigs = << >>] IN
    /\ kv[HeightKey(h)] = HashBlock(proposed)
    /\ GetBlockByHash(kv, HashBlock(proposed)) = {BlockAt(h)}

\* Every transaction stored since the node's last start can be audited from the
\* store alone: its signature verifies under the key that is registered for its
\* sender, the sender's address is that key's, and no nonce was used twice
\* (ResolveSenderPubKey, VerifySignature, unmarshalAccount).  Those stored before
\* cannot: applyGenesis has cleared keys and nonces.
TransactionsAudited ==
  LET TxAt(u) == BlockAt(u[1]).txs[u[2]]
      Since == { u \in Stored : u[1] > started }
  IN  /\ \A u \in Since :
           LET key == GetAccount(kv, TxAt(u).from).pubKey IN
           /\ AddressFromPubKey(key) = TxAt(u).from
           /\ VerifySignature(TxAt(u), key)
      /\ \A u, v \in Since :
           (TxAt(u).from = TxAt(v).from /\ TxAt(u).nonce = TxAt(v).nonce) => u = v

\* What a validator may sign about the stored blocks, in two rounds.
Messages ==
  LET blocks == { [BlockAt(h) EXCEPT !.sigs = << >>] : h \in 1 .. height } IN
  { [kind |-> "proposal", of |-> [block |-> b, round |-> r, sig |-> << >>]] :
      b \in blocks, r \in {0, 1} }
  \union
  { [kind |-> "vote", of |-> [hash |-> HashBlock(b), height |-> b.height, round |-> r,
                              validator |-> Proposer, sig |-> << >>]] :
      b \in blocks, r \in {0, 1} }
  \union
  { [kind |-> "viewchange", of |-> [height |-> h + 1, round |-> r, validator |-> Proposer,
                                    sig |-> << >>]] : h \in 0 .. height, r \in {0, 1} }

SignBytes(m) ==
  CASE m.kind = "proposal" -> ProposalSignBytes(m.of)
    [] m.kind = "vote" -> PrecommitSignBytes(m.of)
    [] m.kind = "viewchange" -> ViewChangeSignBytes(m.of)

\* A validator's signature is good for one message only: proposals, votes and
\* view changes are signed with one key and without a tag for their kind, and
\* still no two of different kind, height, round or block have the same bytes
\* (pkg/consensus/signing.go).
SignBytesSeparate ==
  LET signed == { << SignBytes(m), m >> : m \in Messages } IN
  \A s, t \in signed : s[1] = t[1] => s[2] = t[2]

\* The accounts that differ from the stored ones in one field of a, or in a itself.
Neighbours(stored, a) ==
  LET With(b) == (stored \ {a}) \union {b}
  IN  { With([a EXCEPT ![name] = @ + 1]) :
          name \in {"balance", "nonce", "stake", "rc", "rcMax", "time"} }
      \union { With([a EXCEPT ![name] = IF @ = << >> THEN Text(1) ELSE << >>]) :
                name \in {"code", "pubKey"} }
      \union { stored \ {a} }

\* The state root commits to exactly the accounts that are iterated: stored accounts
\* that differ in a single field of one, or by one, have another root, so that
\* validators that agree on a block's root hold the same of these; an account
\* whose address begins with byte 0xFF, which a transfer can make, is in no root
\* (iterateAccounts, marshalAccount, merkleRoot with its doubled last node).
RootCoversState ==
  LET stored == Accounts(kv) IN
  \A a \in stored : \A other \in Neighbours(stored, a) :
    StateRoot(other) # StateRoot(stored) <=> a.address \in Iterated

\* The bytes on disk are as good as the values they stand for: blocks and
\* accounts, read back, are those of a log of which every block extends the one
\* before and leads, executed from what is read, to the accounts that are read
\* and whose root it names; and a restart takes the genesis accounts back and
\* nothing else (setBlockWithWriter, GetBlockByHeight, UnmarshalBlock,
\* marshalAccount, unmarshalAccount, applyGenesis).
Outcomes(accounts, tx) ==
  { Overwrite(Overwrite(accounts, w[1]), {w[2]}) :
      w \in Writes(tx, [a \in Addr |-> AccountOf(accounts, a)]) }

Log == INSTANCE BlockLog WITH
  chain <- [h \in 1 .. height |-> BlockAt(h)], accounts <- Accounts(kv)

ImplementsBlockLog == Log!Spec

=============================================================================
