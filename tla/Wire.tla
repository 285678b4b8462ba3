-------------------------------- MODULE Wire --------------------------------
(* The protobuf wire format of the ledger: transaction payloads              *)
(* (pkg/tx/payload_encoding.go), transactions, blocks and consensus messages *)
(* (pkg/encoding), accounts and the state root (pkg/state/codec.go,          *)
(* merkle.go), and what is signed (pkg/tx/signing.go,                        *)
(* pkg/consensus/signing.go).                                                *)
(*                                                                           *)
(* A byte string is a sequence of fields.  One that is no message, such as a *)
(* name, a hash or a signature, is a single field whose number is 0, which   *)
(* is not a valid tag.  Hashes and signatures are free: they hold what they  *)
(* were made of.                                                             *)
EXTENDS Integers, Sequences

CONSTANTS
  U64,  \* modulus of a varint; an int64 is written as its residue
  U8    \* modulus of a VoteOption

Varint(num, n) == [num |-> num, type |-> "varint", n |-> n, b |-> << >>]
Bytes(num, b) == [num |-> num, type |-> "bytes", n |-> 0, b |-> b]
ListOf(num, bs) == [i \in DOMAIN bs |-> Bytes(num, bs[i])]

Opaque(type, n, b) == << [num |-> 0, type |-> type, n |-> n, b |-> b] >>

Text(n) == Opaque("text", n, << >>)
PubKey(n) == Opaque("key", n, << >>)
AddressFromPubKey(key) == Opaque("address", 0, key)
HashBytes(b) == Opaque("hash", 0, b)
ZeroHash == HashBytes(<< >>)
Sign(key, b) == Opaque("signature", 0, key \o b)

\* The length checks of hashes.
IsHash(b) == Len(b) = 1 /\ b[1].type = "hash"

Uint64(i) == i % U64
Int64(n) == IF n < U64 \div 2 THEN n ELSE n - U64

-----------------------------------------------------------------------------
(* The decoding loop, common to all decoders.  The fields in their order are *)
(* set in a zero value, unknown ones are skipped; the result is empty when a *)
(* field is refused.  A decoder is given by its rules: how the field of each *)
(* number is read, and the part of the value that it sets.                   *)

SetField(out, f, rule) ==
  LET as == rule[1]
      name == rule[2]
      read == IF as \in {"number", "int", "option"} THEN "varint" ELSE "bytes"
  IN  IF f.type # read \/ (as = "hash" /\ ~IsHash(f.b)) THEN {}
      ELSE {[out EXCEPT ![name] =
               CASE as = "number" -> f.n
                 [] as = "int" -> Int64(f.n)
                 [] as = "option" -> f.n % U8  \* a uint8, whatever was written
                 [] as = "list" -> Append(@, f.b)
                 [] OTHER -> f.b]}

Decode(b, zero, rules) ==
  LET outs[i \in 0 .. Len(b)] ==
        IF i = 0 THEN {zero}
        ELSE IF b[i].num = 0 THEN {}
        ELSE IF b[i].num \notin DOMAIN rules THEN outs[i - 1]
        ELSE UNION { SetField(out, b[i], rules[b[i].num]) : out \in outs[i - 1] }
  IN  outs[Len(b)]

-----------------------------------------------------------------------------
(* Payloads.                                                                 *)

EncodeTransfer(p) == << Bytes(1, << Bytes(1, p.to), Varint(2, p.amount) >>) >>
EncodeStakeDelegate(p) == << Bytes(2, << Bytes(1, p.validator), Varint(2, p.amount) >>) >>
EncodeStakeUndelegate(p) == << Bytes(3, << Bytes(1, p.validator), Varint(2, p.amount) >>) >>
\* Mutant: the salt is not written.
EncodeContractDeployNoSalt(p) == << Bytes(4, << Bytes(1, p.code) >>) >>

EncodeContractDeploy(p) == << Bytes(4, << Bytes(1, p.code), Bytes(2, p.salt) >>) >>
EncodeContractCall(p) ==
  << Bytes(5, << Bytes(1, p.address), Bytes(2, p.method) >> \o ListOf(3, p.args)) >>
EncodeGovernanceProposal(p) ==
  << Bytes(6, << Bytes(1, p.title), Bytes(2, p.description),
                 Bytes(3, p.paramKey), Bytes(4, p.paramValue) >>) >>
EncodeGovernanceVote(p) ==
  << Bytes(7, << Varint(1, p.proposalID), Varint(2, p.option) >>) >>

DecodeTransfer(b) ==
  Decode(b, [kind |-> "transfer", to |-> << >>, amount |-> 0],
    << << "bytes", "to" >>, << "number", "amount" >> >>)

DecodeStakeDelegate(b) ==
  Decode(b, [kind |-> "delegate", validator |-> << >>, amount |-> 0],
    << << "bytes", "validator" >>, << "number", "amount" >> >>)

DecodeStakeUndelegate(b) ==
  Decode(b, [kind |-> "undelegate", validator |-> << >>, amount |-> 0],
    << << "bytes", "validator" >>, << "number", "amount" >> >>)

DecodeContractDeploy(b) ==
  Decode(b, [kind |-> "deploy", code |-> << >>, salt |-> << >>],
    << << "bytes", "code" >>, << "bytes", "salt" >> >>)

DecodeContractCall(b) ==
  Decode(b, [kind |-> "call", address |-> << >>, method |-> << >>, args |-> << >>],
    << << "bytes", "address" >>, << "bytes", "method" >>, << "list", "args" >> >>)

DecodeGovernanceProposal(b) ==
  Decode(b, [kind |-> "proposal", title |-> << >>, description |-> << >>,
             paramKey |-> << >>, paramValue |-> << >>],
    << << "bytes", "title" >>, << "bytes", "description" >>,
       << "bytes", "paramKey" >>, << "bytes", "paramValue" >> >>)

DecodeGovernanceVote(b) ==
  Decode(b, [kind |-> "vote", proposalID |-> 0, option |-> 0],
    << << "number", "proposalID" >>, << "option", "option" >> >>)

EncodePayload(p, senderPubKey) ==
  (CASE p.kind = "transfer" -> EncodeTransfer(p)
     [] p.kind = "delegate" -> EncodeStakeDelegate(p)
     [] p.kind = "undelegate" -> EncodeStakeUndelegate(p)
     [] p.kind = "deploy" -> EncodeContractDeploy(p)
     [] p.kind = "call" -> EncodeContractCall(p)
     [] p.kind = "proposal" -> EncodeGovernanceProposal(p)
     [] p.kind = "vote" -> EncodeGovernanceVote(p))
  \o (IF senderPubKey = << >> THEN << >> ELSE << Bytes(8, senderPubKey) >>)

NoPayload == [kind |-> "none"]

\* What the number of a payload field says the bytes are.
DecodeKind(num, b) ==
  CASE num = 1 -> DecodeTransfer(b)
    [] num = 2 -> DecodeStakeDelegate(b)
    [] num = 3 -> DecodeStakeUndelegate(b)
    [] num = 4 -> DecodeContractDeploy(b)
    [] num = 5 -> DecodeContractCall(b)
    [] num = 6 -> DecodeGovernanceProposal(b)
    [] num = 7 -> DecodeGovernanceVote(b)

\* Mutant: a later payload replaces an earlier one.
SetPayloadAgain(env, f) ==
  IF f.type # "bytes" THEN {}
  ELSE { [env EXCEPT !.payload = p] : p \in DecodeKind(f.num, f.b) }

\* At most one payload.
SetPayload(env, f) ==
  IF f.type # "bytes" \/ env.payload # NoPayload THEN {}
  ELSE { [env EXCEPT !.payload = p] : p \in DecodeKind(f.num, f.b) }

\* A key may replace an empty one only.
SetSenderPubKey(env, f) ==
  IF f.type # "bytes" \/ env.senderPubKey # << >> THEN {}
  ELSE {[env EXCEPT !.senderPubKey = f.b]}

\* The loop over the fields of an envelope.
DecodeEnvelope(b) ==
  LET envs[i \in 0 .. Len(b)] ==
        IF i = 0 THEN {[payload |-> NoPayload, senderPubKey |-> << >>]}
        ELSE CASE b[i].num = 0 -> {}
               [] b[i].num \in 1 .. 7 -> UNION { SetPayload(env, b[i]) : env \in envs[i - 1] }
               [] b[i].num = 8 -> UNION { SetSenderPubKey(env, b[i]) : env \in envs[i - 1] }
               [] OTHER -> envs[i - 1]
  IN  envs[Len(b)]

DecodePayload(b) == { env \in DecodeEnvelope(b) : env.payload # NoPayload }

=============================================================================
