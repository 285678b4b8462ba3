-------------------------- MODULE BlockStore_proofs --------------------------
(* Theorems about BlockStore for any addresses, keys, payload fields, block  *)
(* timestamps and bounds.                                                    *)
EXTENDS BlockStore, SumsTheorems

-----------------------------------------------------------------------------
(* The decoding loop.                                                        *)

\* What a field makes of the values before it.
FieldRead(outs, f, rules) ==
  IF f.num = 0 THEN {}
  ELSE IF f.num \notin DOMAIN rules THEN outs
  ELSE UNION { SetField(out, f, rules[f.num]) : out \in outs }

\* The values after each field.
DecodesTo(outs, b, zero, rules) ==
  /\ DOMAIN outs = 0 .. Len(b)
  /\ outs[0] = {zero}
  /\ \A i \in 1 .. Len(b) : outs[i] = FieldRead(outs[i - 1], b[i], rules)

\* The loop is what its definition says.
LEMMA DecodeDefined ==
  ASSUME NEW b, NEW zero, NEW rules, Len(b) \in Nat
  PROVE  \E outs : /\ DecodesTo(outs, b, zero, rules)
                   /\ Decode(b, zero, rules) = outs[Len(b)]
<1> DEFINE n == Len(b)
           Step(i, outs) == IF b[i].num = 0 THEN {}
                            ELSE IF b[i].num \notin DOMAIN rules THEN outs
                            ELSE UNION { SetField(out, b[i], rules[b[i].num]) : out \in outs }
           Is(f) == f = [i \in 0 .. n |-> IF i = 0 THEN {zero} ELSE Step(i, f[i - 1])]
           pick == CHOOSE f : Is(f)
           D == { m \in 0 .. n : \E f : /\ DOMAIN f = 0 .. m
                                        /\ f[0] = {zero}
                                        /\ \A i \in 1 .. m :
                                             f[i] = FieldRead(f[i - 1], b[i], rules) }
<1>1. Decode(b, zero, rules) = pick[n]
  BY DEF Decode
<1>9. \A i, outs : FieldRead(outs, b[i], rules) = Step(i, outs)
  BY DEF FieldRead
<1> HIDE DEF Step
<1>2. 0 \in D
  <2> DEFINE f == [i \in 0 .. 0 |-> {zero}]
  <2>1. DOMAIN f = 0 .. 0 /\ f[0] = {zero} /\ 1 .. 0 = {}
    OBVIOUS
  <2> HIDE DEF f
  <2> QED BY <2>1
<1>3. ASSUME NEW m \in 1 .. n, m - 1 \in D PROVE m \in D
  <2>1. PICK f : /\ DOMAIN f = 0 .. m - 1
                 /\ f[0] = {zero}
                 /\ \A i \in 1 .. m - 1 : f[i] = FieldRead(f[i - 1], b[i], rules)
    BY <1>3
  <2> DEFINE new == FieldRead(f[m - 1], b[m], rules)
             g == [i \in 0 .. m |-> IF i = m THEN new ELSE f[i]]
  <2>2. DOMAIN g = 0 .. m /\ g[m] = new /\ \A i \in 0 .. m - 1 : g[i] = f[i]
    OBVIOUS
  <2> HIDE DEF g
  <2>3. ASSUME NEW i \in 1 .. m PROVE g[i] = FieldRead(g[i - 1], b[i], rules)
    <3>1. g[i - 1] = f[i - 1]
      BY <2>2
    <3>2. CASE i = m
      BY <2>2, <3>1, <3>2
    <3>3. CASE i # m
      BY <2>1, <2>2, <3>1, <3>3
    <3> QED BY <3>2, <3>3
  <2>4. g[0] = {zero} /\ m \in 0 .. n
    BY <2>1, <2>2
  <2> QED BY <2>2, <2>3, <2>4
<1>4. n \in D
  <2> HIDE DEF D
  <2>1. 0 .. n \subseteq D
    BY <1>2, <1>3, BoundedInduction
  <2> QED BY <2>1
<1>5. PICK f : DecodesTo(f, b, zero, rules) /\ f = [i \in DOMAIN f |-> f[i]]
  <2>1. PICK f : /\ DOMAIN f = 0 .. n
                 /\ f[0] = {zero}
                 /\ \A i \in 1 .. n : f[i] = FieldRead(f[i - 1], b[i], rules)
    BY <1>4
  <2> DEFINE g == [i \in 0 .. n |-> f[i]]
  <2>2. DOMAIN g = 0 .. n /\ (\A i \in 0 .. n : g[i] = f[i]) /\ g = [i \in DOMAIN g |-> g[i]]
    OBVIOUS
  <2> HIDE DEF g
  <2>3. DecodesTo(g, b, zero, rules)
    BY <2>1, <2>2 DEF DecodesTo
  <2> QED BY <2>2, <2>3
<1>6. Is(f)
  <2>1. \A i \in 0 .. n : f[i] = IF i = 0 THEN {zero} ELSE Step(i, f[i - 1])
    BY <1>5, <1>9 DEF DecodesTo
  <2> QED BY <1>5, <2>1 DEF DecodesTo
<1>7. Is(pick)
  <2> HIDE DEF Is
  <2> QED BY <1>6
<1> HIDE DEF pick
<1>8. DecodesTo(pick, b, zero, rules)
  <2>1. DOMAIN pick = 0 .. n
    BY <1>7
  <2>2. pick[0] = {zero}
    BY <1>7
  <2>3. ASSUME NEW i \in 1 .. n PROVE pick[i] = FieldRead(pick[i - 1], b[i], rules)
    <3>1. i \in 0 .. n /\ i # 0
      OBVIOUS
    <3> QED BY <1>7, <1>9, <3>1
  <2> QED BY <2>1, <2>2, <2>3 DEF DecodesTo
<1> QED BY <1>1, <1>8

\* The number, type and value of a field that was written.
LEMMA BytesFields ==
  ASSUME NEW num, NEW v
  PROVE  /\ Bytes(num, v).num = num /\ Bytes(num, v).type = "bytes" /\ Bytes(num, v).b = v
         /\ Varint(num, v).num = num /\ Varint(num, v).type = "varint"
         /\ Varint(num, v).n = v
BY DEF Bytes, Varint

\* A value with one part set.
With(out, name, v) == [out EXCEPT ![name] = v]

Rule(as, name) == << as, name >>

\* What each rule makes of the field that the encoders write for it.
LEMMA RuleRead ==
  ASSUME NEW out, NEW num, NEW name, NEW v
  PROVE  /\ SetField(out, Bytes(num, v), Rule("bytes", name)) = {With(out, name, v)}
         /\ SetField(out, Bytes(num, v), Rule("list", name))
              = {With(out, name, Append(out[name], v))}
         /\ SetField(out, Varint(num, v), Rule("number", name)) = {With(out, name, v)}
         /\ SetField(out, Varint(num, v), Rule("int", name))
              = {With(out, name, Int64(v))}
         /\ SetField(out, Varint(num, v), Rule("option", name))
              = {With(out, name, v % U8)}
         /\ IsHash(v) => SetField(out, Bytes(num, v), Rule("hash", name))
                           = {With(out, name, v)}
<1>1. SetField(out, Bytes(num, v), Rule("bytes", name)) = {With(out, name, v)}
  BY BytesFields DEF SetField, With, Rule
<1>2. SetField(out, Bytes(num, v), Rule("list", name)) = {With(out, name, Append(out[name], v))}
  BY BytesFields DEF SetField, With, Rule
<1>3. SetField(out, Varint(num, v), Rule("number", name)) = {With(out, name, v)}
  BY BytesFields DEF SetField, With, Rule
<1>4. SetField(out, Varint(num, v), Rule("int", name)) = {With(out, name, Int64(v))}
  BY BytesFields DEF SetField, With, Rule
<1>5. SetField(out, Varint(num, v), Rule("option", name)) = {With(out, name, v % U8)}
  BY BytesFields DEF SetField, With, Rule
<1>6. ASSUME IsHash(v)
      PROVE  SetField(out, Bytes(num, v), Rule("hash", name)) = {With(out, name, v)}
  BY <1>6, BytesFields DEF SetField, With, Rule
<1> QED BY <1>1, <1>2, <1>3, <1>4, <1>5, <1>6


Only(x) == {x}

\* So of a field that is known.
LEMMA BytesSet ==
  ASSUME NEW out, NEW num, NEW name, NEW v, NEW rules, num # 0, num \in DOMAIN rules,
         rules[num] = Rule("bytes", name)
  PROVE  FieldRead(Only(out), Bytes(num, v), rules) = Only(With(out, name, v))
<1>1. Bytes(num, v).num = num
  BY BytesFields
<1> QED BY <1>1, RuleRead DEF FieldRead, Only

\* A number under its rule becomes the value of its name (uint64 fields).
LEMMA NumberSet ==
  ASSUME NEW out, NEW num, NEW name, NEW v, NEW rules, num # 0, num \in DOMAIN rules,
         rules[num] = Rule("number", name)
  PROVE  FieldRead(Only(out), Varint(num, v), rules) = Only(With(out, name, v))
<1>1. Varint(num, v).num = num
  BY BytesFields
<1> QED BY <1>1, RuleRead DEF FieldRead, Only

\* A number under an "int" rule is read as an int64.
LEMMA IntSet ==
  ASSUME NEW out, NEW num, NEW name, NEW v, NEW rules, num # 0, num \in DOMAIN rules,
         rules[num] = Rule("int", name)
  PROVE  FieldRead(Only(out), Varint(num, v), rules) = Only(With(out, name, Int64(v)))
<1>1. Varint(num, v).num = num
  BY BytesFields
<1> QED BY <1>1, RuleRead DEF FieldRead, Only

\* A number under an "option" rule is cut to a byte, as a vote's option is.
LEMMA OptionSet ==
  ASSUME NEW out, NEW num, NEW name, NEW v, NEW rules, num # 0, num \in DOMAIN rules,
         rules[num] = Rule("option", name)
  PROVE  FieldRead(Only(out), Varint(num, v), rules) = Only(With(out, name, v % U8))
<1>1. Varint(num, v).num = num
  BY BytesFields
<1> QED BY <1>1, RuleRead DEF FieldRead, Only

\* A field under a "list" rule is added to the list (txs, sigs, args).
LEMMA ListSet ==
  ASSUME NEW out, NEW num, NEW name, NEW v, NEW rules, num # 0, num \in DOMAIN rules,
         rules[num] = Rule("list", name)
  PROVE  FieldRead(Only(out), Bytes(num, v), rules) = Only(With(out, name, Append(out[name], v)))
<1>1. Bytes(num, v).num = num
  BY BytesFields
<1> QED BY <1>1, RuleRead DEF FieldRead, Only

\* A hash under a "hash" rule becomes the value of its name.
LEMMA HashSet ==
  ASSUME NEW out, NEW num, NEW name, NEW v, NEW rules, num # 0, num \in DOMAIN rules,
         rules[num] = Rule("hash", name),
         IsHash(v)
  PROVE  FieldRead(Only(out), Bytes(num, v), rules) = Only(With(out, name, v))
<1>1. Bytes(num, v).num = num
  BY BytesFields
<1> QED BY <1>1, RuleRead DEF FieldRead, Only

-----------------------------------------------------------------------------
(* What is written is read back: transactions.                               *)

\* The transactions there are.
TxRecord(from, to, nonce, payload, signature) ==
  [from |-> from, to |-> to, nonce |-> nonce, payload |-> payload,
   signature |-> signature]

TxRules == << << "bytes", "from" >>, << "bytes", "to" >>, << "number", "nonce" >>,
              << "bytes", "payload" >>, << "bytes", "signature" >> >>

\* What each field of a transaction does to the transaction read so far.
LEMMA TxFields ==
  ASSUME NEW from, NEW to, NEW nonce, NEW payload, NEW signature, NEW v
  PROVE  LET out == TxRecord(from, to, nonce, payload, signature)
         IN  /\ FieldRead(Only(out), Bytes(1, v), TxRules) = Only(TxRecord(v, to, nonce, payload, signature))
             /\ FieldRead(Only(out), Bytes(2, v), TxRules) = Only(TxRecord(from, v, nonce, payload, signature))
             /\ FieldRead(Only(out), Varint(3, v), TxRules) = Only(TxRecord(from, to, v, payload, signature))
             /\ FieldRead(Only(out), Bytes(4, v), TxRules) = Only(TxRecord(from, to, nonce, v, signature))
             /\ FieldRead(Only(out), Bytes(5, v), TxRules) = Only(TxRecord(from, to, nonce, payload, v))
<1> DEFINE out == TxRecord(from, to, nonce, payload, signature)
<1>1. /\ DOMAIN TxRules = 1 .. 5 /\ 1 .. 5 = {1, 2, 3, 4, 5}
      /\ TxRules[1] = Rule("bytes", "from") /\ TxRules[2] = Rule("bytes", "to")
      /\ TxRules[3] = Rule("number", "nonce") /\ TxRules[4] = Rule("bytes", "payload")
      /\ TxRules[5] = Rule("bytes", "signature")
  BY DEF TxRules, Rule
<1>2. With(out, "from", v) = TxRecord(v, to, nonce, payload, signature)
  BY DEF TxRecord, With
<1>3. With(out, "to", v) = TxRecord(from, v, nonce, payload, signature)
  BY DEF TxRecord, With
<1>4. With(out, "nonce", v) = TxRecord(from, to, v, payload, signature)
  BY DEF TxRecord, With
<1>5. With(out, "payload", v) = TxRecord(from, to, nonce, v, signature)
  BY DEF TxRecord, With
<1>6. With(out, "signature", v) = TxRecord(from, to, nonce, payload, v)
  BY DEF TxRecord, With
<1> HIDE DEF out
<1>7. FieldRead(Only(out), Bytes(1, v), TxRules) = Only(TxRecord(v, to, nonce, payload, signature))
  BY <1>1, <1>2, BytesSet
<1>8. FieldRead(Only(out), Bytes(2, v), TxRules) = Only(TxRecord(from, v, nonce, payload, signature))
  BY <1>1, <1>3, BytesSet
<1>9. FieldRead(Only(out), Varint(3, v), TxRules) = Only(TxRecord(from, to, v, payload, signature))
  BY <1>1, <1>4, NumberSet
<1>10. FieldRead(Only(out), Bytes(4, v), TxRules) = Only(TxRecord(from, to, nonce, v, signature))
  BY <1>1, <1>5, BytesSet
<1>11. FieldRead(Only(out), Bytes(5, v), TxRules) = Only(TxRecord(from, to, nonce, payload, v))
  BY <1>1, <1>6, BytesSet
<1> QED BY <1>7, <1>8, <1>9, <1>10, <1>11 DEF out

\* A transaction that was written is read as itself (MarshalTransaction,
\* UnmarshalTransaction).
LEMMA TransactionReadBack ==
  ASSUME NEW from, NEW to, NEW nonce, NEW payload, NEW signature
  PROVE  LET tx == TxRecord(from, to, nonce, payload, signature)
         IN  UnmarshalTransaction(MarshalTransaction(tx)) = {tx}
<1> DEFINE tx == TxRecord(from, to, nonce, payload, signature)
           b == MarshalTransaction(tx)
           zero == TxRecord(<< >>, << >>, 0, << >>, << >>)
<1>1. /\ Len(b) = 5
      /\ b[1] = Bytes(1, from) /\ b[2] = Bytes(2, to) /\ b[3] = Varint(3, nonce)
      /\ b[4] = Bytes(4, payload) /\ b[5] = Bytes(5, signature)
  BY DEF MarshalTransaction, TxRecord
<1>2. UnmarshalTransaction(b) = IF b = << >> THEN {} ELSE Decode(b, zero, TxRules)
  BY DEF UnmarshalTransaction, TxRecord, TxRules
<1>3. b # << >>
  BY <1>1
<1> HIDE DEF b, zero
<1>12. Len(b) \in Nat
  BY <1>1
<1>4. PICK outs : DecodesTo(outs, b, zero, TxRules) /\ Decode(b, zero, TxRules) = outs[5]
  BY <1>1, <1>12, DecodeDefined
<1>5. /\ outs[0] = Only(zero)
      /\ \A i \in 1 .. 5 : outs[i] = FieldRead(outs[i - 1], b[i], TxRules)
  BY <1>1, <1>4 DEF DecodesTo, Only
<1>6. /\ outs[1] = FieldRead(outs[0], b[1], TxRules)
      /\ outs[2] = FieldRead(outs[1], b[2], TxRules)
      /\ outs[3] = FieldRead(outs[2], b[3], TxRules)
      /\ outs[4] = FieldRead(outs[3], b[4], TxRules)
      /\ outs[5] = FieldRead(outs[4], b[5], TxRules)
  BY <1>5
<1>7. outs[1] = Only(TxRecord(from, << >>, 0, << >>, << >>))
  BY <1>1, <1>5, <1>6, TxFields DEF zero
<1>8. outs[2] = Only(TxRecord(from, to, 0, << >>, << >>))
  BY <1>1, <1>6, <1>7, TxFields
<1>9. outs[3] = Only(TxRecord(from, to, nonce, << >>, << >>))
  BY <1>1, <1>6, <1>8, TxFields
<1>10. outs[4] = Only(TxRecord(from, to, nonce, payload, << >>))
  BY <1>1, <1>6, <1>9, TxFields
<1>11. outs[5] = Only(tx)
  BY <1>1, <1>6, <1>10, TxFields
<1> QED BY <1>2, <1>3, <1>4, <1>11 DEF b, Only

-----------------------------------------------------------------------------
(* Accounts.                                                                 *)

AccountRecord(address, balance, nonce, stake, rc, rcMax, time, code, pubKey) ==
  [address |-> address, balance |-> balance, nonce |-> nonce, stake |-> stake, rc |-> rc,
   rcMax |-> rcMax, time |-> time, code |-> code, pubKey |-> pubKey]

AccountRules ==
  << << "bytes", "address" >>, << "number", "balance" >>, << "number", "nonce" >>,
     << "number", "stake" >>, << "number", "rc" >>, << "number", "rcMax" >>,
     << "int", "time" >>, << "bytes", "code" >>, << "bytes", "pubKey" >> >>

\* What each field of an account does to the account read so far.
LEMMA AccountFields ==
  ASSUME NEW address, NEW balance, NEW nonce, NEW stake, NEW rc, NEW rcMax, NEW time,
         NEW code, NEW pubKey, NEW v
  PROVE  LET out == Only(AccountRecord(address, balance, nonce, stake, rc, rcMax, time,
                                       code, pubKey))
         IN
         /\ FieldRead(out, Bytes(1, v), AccountRules) =
              Only(AccountRecord(v, balance, nonce, stake, rc, rcMax, time, code, pubKey))
         /\ FieldRead(out, Varint(2, v), AccountRules) =
              Only(AccountRecord(address, v, nonce, stake, rc, rcMax, time, code, pubKey))
         /\ FieldRead(out, Varint(3, v), AccountRules) =
              Only(AccountRecord(address, balance, v, stake, rc, rcMax, time, code, pubKey))
         /\ FieldRead(out, Varint(4, v), AccountRules) =
              Only(AccountRecord(address, balance, nonce, v, rc, rcMax, time, code, pubKey))
         /\ FieldRead(out, Varint(5, v), AccountRules) =
              Only(AccountRecord(address, balance, nonce, stake, v, rcMax, time, code, pubKey))
         /\ FieldRead(out, Varint(6, v), AccountRules) =
              Only(AccountRecord(address, balance, nonce, stake, rc, v, time, code, pubKey))
         /\ FieldRead(out, Varint(7, v), AccountRules) =
              Only(AccountRecord(address, balance, nonce, stake, rc, rcMax,
                                 Int64(v), code, pubKey))
         /\ FieldRead(out, Bytes(8, v), AccountRules) =
              Only(AccountRecord(address, balance, nonce, stake, rc, rcMax, time, v, pubKey))
         /\ FieldRead(out, Bytes(9, v), AccountRules) =
              Only(AccountRecord(address, balance, nonce, stake, rc, rcMax, time, code, v))
<1> DEFINE out == AccountRecord(address, balance, nonce, stake, rc, rcMax, time,
                                code, pubKey)
<1>1. /\ DOMAIN AccountRules = 1 .. 9 /\ 1 .. 9 = {1, 2, 3, 4, 5, 6, 7, 8, 9}
      /\ AccountRules[1] = Rule("bytes", "address")
      /\ AccountRules[2] = Rule("number", "balance")
      /\ AccountRules[3] = Rule("number", "nonce")
      /\ AccountRules[4] = Rule("number", "stake")
      /\ AccountRules[5] = Rule("number", "rc")
      /\ AccountRules[6] = Rule("number", "rcMax")
      /\ AccountRules[7] = Rule("int", "time")
      /\ AccountRules[8] = Rule("bytes", "code")
      /\ AccountRules[9] = Rule("bytes", "pubKey")
  BY DEF AccountRules, Rule
<1>2. With(out, "address", v) =
       AccountRecord(v, balance, nonce, stake, rc, rcMax, time, code, pubKey)
  BY DEF AccountRecord, With
<1>3. With(out, "balance", v) =
       AccountRecord(address, v, nonce, stake, rc, rcMax, time, code, pubKey)
  BY DEF AccountRecord, With
<1>4. With(out, "nonce", v) =
       AccountRecord(address, balance, v, stake, rc, rcMax, time, code, pubKey)
  BY DEF AccountRecord, With
<1>5. With(out, "stake", v) =
       AccountRecord(address, balance, nonce, v, rc, rcMax, time, code, pubKey)
  BY DEF AccountRecord, With
<1>6. With(out, "rc", v) =
       AccountRecord(address, balance, nonce, stake, v, rcMax, time, code, pubKey)
  BY DEF AccountRecord, With
<1>7. With(out, "rcMax", v) =
       AccountRecord(address, balance, nonce, stake, rc, v, time, code, pubKey)
  BY DEF AccountRecord, With
<1>8. With(out, "time", Int64(v)) =
       AccountRecord(address, balance, nonce, stake, rc, rcMax, Int64(v), code, pubKey)
  BY DEF AccountRecord, With
<1>9. With(out, "code", v) =
       AccountRecord(address, balance, nonce, stake, rc, rcMax, time, v, pubKey)
  BY DEF AccountRecord, With
<1>10. With(out, "pubKey", v) =
       AccountRecord(address, balance, nonce, stake, rc, rcMax, time, code, v)
  BY DEF AccountRecord, With
<1> HIDE DEF out
<1>11. FieldRead(Only(out), Bytes(1, v), AccountRules) =
       Only(AccountRecord(v, balance, nonce, stake, rc, rcMax, time, code, pubKey))
  BY <1>1, <1>2, BytesSet
<1>12. FieldRead(Only(out), Varint(2, v), AccountRules) =
       Only(AccountRecord(address, v, nonce, stake, rc, rcMax, time, code, pubKey))
  BY <1>1, <1>3, NumberSet
<1>13. FieldRead(Only(out), Varint(3, v), AccountRules) =
       Only(AccountRecord(address, balance, v, stake, rc, rcMax, time, code, pubKey))
  BY <1>1, <1>4, NumberSet
<1>14. FieldRead(Only(out), Varint(4, v), AccountRules) =
       Only(AccountRecord(address, balance, nonce, v, rc, rcMax, time, code, pubKey))
  BY <1>1, <1>5, NumberSet
<1>15. FieldRead(Only(out), Varint(5, v), AccountRules) =
       Only(AccountRecord(address, balance, nonce, stake, v, rcMax, time, code, pubKey))
  BY <1>1, <1>6, NumberSet
<1>16. FieldRead(Only(out), Varint(6, v), AccountRules) =
       Only(AccountRecord(address, balance, nonce, stake, rc, v, time, code, pubKey))
  BY <1>1, <1>7, NumberSet
<1>17. FieldRead(Only(out), Varint(7, v), AccountRules) =
       Only(AccountRecord(address, balance, nonce, stake, rc, rcMax, Int64(v), code, pubKey))
  BY <1>1, <1>8, IntSet
<1>18. FieldRead(Only(out), Bytes(8, v), AccountRules) =
       Only(AccountRecord(address, balance, nonce, stake, rc, rcMax, time, v, pubKey))
  BY <1>1, <1>9, BytesSet
<1>19. FieldRead(Only(out), Bytes(9, v), AccountRules) =
       Only(AccountRecord(address, balance, nonce, stake, rc, rcMax, time, code, v))
  BY <1>1, <1>10, BytesSet
<1> QED BY <1>11, <1>12, <1>13, <1>14, <1>15, <1>16, <1>17, <1>18, <1>19 DEF out

\* A part that is written unless it is empty.
Optional(num, v) == IF v = << >> THEN << >> ELSE << Bytes(num, v) >>

\* The empty sequence is one over any set.
LEMMA EmptySeq ==
  ASSUME NEW S, NEW o, o = << >>
  PROVE  o \in Seq(S) /\ Len(o) = 0
OBVIOUS

\* A sequence of one element.
LEMMA OneSeq ==
  ASSUME NEW S, NEW f \in S, NEW o, o = << f >>
  PROVE  o \in Seq(S) /\ Len(o) = 1 /\ o[1] = f
OBVIOUS

\* An optional part has one field, or none.
LEMMA OptionalSeq ==
  ASSUME NEW num, NEW v, NEW S, Bytes(num, v) \in S
  PROVE  /\ Optional(num, v) \in Seq(S)
         /\ v = << >> => Len(Optional(num, v)) = 0
         /\ v # << >> => Len(Optional(num, v)) = 1 /\ Optional(num, v)[1] = Bytes(num, v)
<1>1. CASE v = << >>
  <2>1. Optional(num, v) = << >>
    BY <1>1 DEF Optional
  <2>2. Optional(num, v) \in Seq(S) /\ Len(Optional(num, v)) = 0
    BY <2>1, EmptySeq, Zenon
  <2> QED BY <1>1, <2>2
<1>2. CASE v # << >>
  <2>1. Optional(num, v) = << Bytes(num, v) >>
    BY <1>2 DEF Optional
  <2> QED BY <1>2, <2>1, OneSeq, Zenon
<1> QED BY <1>1, <1>2

\* The parts of two sequences that follow each other.
LEMMA Concatenation ==
  ASSUME NEW S, NEW s \in Seq(S), NEW t \in Seq(S), NEW r, r = s \o t
  PROVE  /\ r \in Seq(S) /\ Len(r) = Len(s) + Len(t)
         /\ \A i \in 1 .. Len(s) : r[i] = s[i]
         /\ \A i \in 1 .. Len(t) : r[Len(s) + i] = t[i]
OBVIOUS

\* The bytes of an account.
LEMMA AccountBytes ==
  ASSUME NEW address, NEW balance, NEW nonce, NEW stake, NEW rc, NEW rcMax, NEW time,
         NEW code, NEW pubKey
  PROVE  LET b == MarshalAccount(AccountRecord(address, balance, nonce, stake, rc, rcMax,
                                               time, code, pubKey))
             codes == Len(Optional(8, code))
             keys == Len(Optional(9, pubKey))
         IN  /\ \E S : b \in Seq(S)
             /\ codes \in {0, 1} /\ (code = << >> <=> codes = 0)
             /\ keys \in {0, 1} /\ (pubKey = << >> <=> keys = 0)
             /\ Len(b) = 7 + codes + keys
             /\ b[1] = Bytes(1, address) /\ b[2] = Varint(2, balance)
             /\ b[3] = Varint(3, nonce) /\ b[4] = Varint(4, stake) /\ b[5] = Varint(5, rc)
             /\ b[6] = Varint(6, rcMax) /\ b[7] = Varint(7, Uint64(time))
             /\ code # << >> => b[8] = Bytes(8, code)
             /\ pubKey # << >> => b[8 + codes] = Bytes(9, pubKey)
<1> DEFINE a == AccountRecord(address, balance, nonce, stake, rc, rcMax, time, code, pubKey)
           base == << Bytes(1, address), Varint(2, balance), Varint(3, nonce),
                      Varint(4, stake), Varint(5, rc), Varint(6, rcMax),
                      Varint(7, Uint64(time)) >>
           codes == Optional(8, code)
           keys == Optional(9, pubKey)
           b == base \o codes \o keys
           S == {Bytes(1, address), Varint(2, balance), Varint(3, nonce),
                 Varint(4, stake), Varint(5, rc), Varint(6, rcMax),
                 Varint(7, Uint64(time)), Bytes(8, code), Bytes(9, pubKey)}
<1>1. MarshalAccount(a) = b
  BY DEF MarshalAccount, AccountRecord, Optional
<1>3. /\ base \in Seq(S) /\ Len(base) = 7
      /\ base[1] = Bytes(1, address) /\ base[2] = Varint(2, balance)
      /\ base[3] = Varint(3, nonce) /\ base[4] = Varint(4, stake) /\ base[5] = Varint(5, rc)
      /\ base[6] = Varint(6, rcMax) /\ base[7] = Varint(7, Uint64(time))
  OBVIOUS
<1>4. /\ codes \in Seq(S)
      /\ code # << >> => Len(codes) = 1 /\ codes[1] = Bytes(8, code)
      /\ code = << >> => Len(codes) = 0
  <2>1. Bytes(8, code) \in S
    OBVIOUS
  <2> HIDE DEF S
  <2> QED BY <2>1, OptionalSeq
<1>5. /\ keys \in Seq(S)
      /\ pubKey # << >> => Len(keys) = 1 /\ keys[1] = Bytes(9, pubKey)
      /\ pubKey = << >> => Len(keys) = 0
  <2>1. Bytes(9, pubKey) \in S
    OBVIOUS
  <2> HIDE DEF S
  <2> QED BY <2>1, OptionalSeq
<1>6. /\ Len(b) = 7 + Len(codes) + Len(keys)
      /\ \A i \in 1 .. 7 : b[i] = base[i]
      /\ code # << >> => b[8] = codes[1]
      /\ pubKey # << >> => b[8 + Len(codes)] = keys[1]
  <2> HIDE DEF base, codes, keys, S
  <2> DEFINE mid == base \o codes
  <2>0. Len(codes) \in {0, 1} /\ Len(keys) \in {0, 1} /\ 1 .. 1 = {1}
    BY <1>4, <1>5
  <2>1. /\ mid \in Seq(S) /\ Len(mid) = 7 + Len(codes)
        /\ \A i \in 1 .. 7 : mid[i] = base[i]
        /\ \A i \in 1 .. Len(codes) : mid[7 + i] = codes[i]
    <3>1. mid = base \o codes
      OBVIOUS
    <3> HIDE DEF mid
    <3>9. base \in Seq(S) /\ codes \in Seq(S)
      BY <1>3, <1>4
    <3>2. /\ mid \in Seq(S) /\ Len(mid) = Len(base) + Len(codes)
          /\ \A i \in 1 .. Len(base) : mid[i] = base[i]
          /\ \A i \in 1 .. Len(codes) : mid[Len(base) + i] = codes[i]
      BY <3>1, <3>9, Concatenation
    <3> QED BY <1>3, <3>2
  <2> HIDE DEF mid
  <2>2. /\ Len(b) = Len(mid) + Len(keys)
        /\ \A i \in 1 .. Len(mid) : b[i] = mid[i]
        /\ \A i \in 1 .. Len(keys) : b[Len(mid) + i] = keys[i]
    <3>1. b = mid \o keys
      BY DEF mid
    <3> HIDE DEF b
    <3>2. mid \in Seq(S) /\ keys \in Seq(S)
      BY <1>5, <2>1
    <3> QED BY <3>1, <3>2, Concatenation
  <2> HIDE DEF b
  <2>3. \A i \in 1 .. 7 : b[i] = base[i]
    BY <2>0, <2>1, <2>2
  <2>4. ASSUME code # << >> PROVE b[8] = codes[1]
    <3>1. Len(codes) = 1
      BY <1>4, <2>4
    <3>2. mid[8] = codes[1] /\ 8 \in 1 .. Len(mid)
      BY <2>1, <3>1
    <3> QED BY <2>2, <3>2
  <2>5. ASSUME pubKey # << >> PROVE b[8 + Len(codes)] = keys[1]
    <3>1. Len(keys) = 1
      BY <1>5, <2>5
    <3>2. b[Len(mid) + 1] = keys[1] /\ Len(mid) + 1 = 8 + Len(codes)
      BY <2>0, <2>1, <2>2, <3>1
    <3> QED BY <3>2
  <2>6. Len(b) = 7 + Len(codes) + Len(keys)
    BY <2>0, <2>1, <2>2
  <2> QED BY <2>3, <2>4, <2>5, <2>6
<1> HIDE DEF base, codes, keys, S
<1>7. Len(b) \in Nat /\ Len(codes) \in {0, 1} /\ Len(keys) \in {0, 1}
  BY <1>4, <1>5, <1>6
<1>8. b \in Seq(S)
  <2>1. base \in Seq(S) /\ codes \in Seq(S) /\ keys \in Seq(S)
    BY <1>3, <1>4, <1>5
  <2> QED BY <2>1
<1> HIDE DEF b, codes, keys, S
<1>9. (code = << >> <=> Len(codes) = 0) /\ (pubKey = << >> <=> Len(keys) = 0)
  BY <1>4, <1>5
<1>10. /\ b[1] = Bytes(1, address) /\ b[2] = Varint(2, balance)
       /\ b[3] = Varint(3, nonce) /\ b[4] = Varint(4, stake) /\ b[5] = Varint(5, rc)
       /\ b[6] = Varint(6, rcMax) /\ b[7] = Varint(7, Uint64(time))
  BY <1>3, <1>6
<1>11. /\ code # << >> => b[8] = Bytes(8, code)
       /\ pubKey # << >> => b[8 + Len(codes)] = Bytes(9, pubKey)
  BY <1>4, <1>5, <1>6
<1> QED BY <1>1, <1>6, <1>7, <1>8, <1>9, <1>10, <1>11 DEF codes, keys

\* An account that was written is read as itself, whether its code and key are
\* written or left out (marshalAccount, unmarshalAccount).
LEMMA AccountReadBack ==
  ASSUME NEW address, NEW balance, NEW nonce, NEW stake, NEW rc, NEW rcMax, NEW time,
         NEW code, NEW pubKey, Int64(Uint64(time)) = time
  PROVE  LET a == AccountRecord(address, balance, nonce, stake, rc, rcMax, time, code, pubKey)
         IN  UnmarshalAccount(MarshalAccount(a)) = {a}
<1> DEFINE a == AccountRecord(address, balance, nonce, stake, rc, rcMax, time, code, pubKey)
           b == MarshalAccount(a)
           codes == Len(Optional(8, code))
           keys == Len(Optional(9, pubKey))
           zero == AccountRecord(<< >>, 0, 0, 0, 0, 0, 0, << >>, << >>)
<1>2. UnmarshalAccount(b) = Decode(b, zero, AccountRules)
  BY DEF UnmarshalAccount, ZeroAccount, AccountRecord, AccountRules
<1>3. /\ b[1] = Bytes(1, address) /\ b[2] = Varint(2, balance)
      /\ b[3] = Varint(3, nonce) /\ b[4] = Varint(4, stake) /\ b[5] = Varint(5, rc)
      /\ b[6] = Varint(6, rcMax) /\ b[7] = Varint(7, Uint64(time))
  BY AccountBytes
<1>4. /\ codes \in {0, 1} /\ (code = << >> <=> codes = 0)
      /\ code # << >> => b[8] = Bytes(8, code)
  BY AccountBytes
<1>5. /\ keys \in {0, 1} /\ (pubKey = << >> <=> keys = 0)
      /\ pubKey # << >> => b[8 + codes] = Bytes(9, pubKey)
  BY AccountBytes
<1>6. Len(b) = 7 + codes + keys
  BY AccountBytes
<1> HIDE DEF b, zero, codes, keys
<1>7. Len(b) \in Nat
  BY <1>4, <1>5, <1>6
<1>8. PICK outs : DecodesTo(outs, b, zero, AccountRules) /\ Decode(b, zero, AccountRules) = outs[Len(b)]
  BY <1>7, DecodeDefined
<1>9. /\ outs[0] = Only(zero)
      /\ \A i \in 1 .. Len(b) : outs[i] = FieldRead(outs[i - 1], b[i], AccountRules)
  BY <1>8 DEF DecodesTo, Only
<1>10. /\ outs[1] = FieldRead(outs[0], b[1], AccountRules)
       /\ outs[2] = FieldRead(outs[1], b[2], AccountRules)
       /\ outs[3] = FieldRead(outs[2], b[3], AccountRules)
       /\ outs[4] = FieldRead(outs[3], b[4], AccountRules)
       /\ outs[5] = FieldRead(outs[4], b[5], AccountRules)
       /\ outs[6] = FieldRead(outs[5], b[6], AccountRules)
       /\ outs[7] = FieldRead(outs[6], b[7], AccountRules)
  <2>1. \A i \in 1 .. 7 : i \in 1 .. Len(b)
    BY <1>4, <1>5, <1>6
  <2>2. \A i \in 1 .. 7 : outs[i] = FieldRead(outs[i - 1], b[i], AccountRules)
    BY <1>9, <2>1
  <2> QED BY <2>2
<1>11. outs[1] = Only(AccountRecord(address, 0, 0, 0, 0, 0, 0, << >>, << >>))
  <2>1. outs[0] = Only(AccountRecord(<< >>, 0, 0, 0, 0, 0, 0, << >>, << >>))
    BY <1>9 DEF zero
  <2>2. outs[1] = FieldRead(outs[0], Bytes(1, address), AccountRules)
    BY <1>3, <1>10
  <2> QED BY <2>1, <2>2, AccountFields
<1>12. outs[2] = Only(AccountRecord(address, balance, 0, 0, 0, 0, 0, << >>, << >>))
  BY <1>3, <1>10, <1>11, AccountFields
<1>13. outs[3] = Only(AccountRecord(address, balance, nonce, 0, 0, 0, 0, << >>, << >>))
  BY <1>3, <1>10, <1>12, AccountFields
<1>14. outs[4] = Only(AccountRecord(address, balance, nonce, stake, 0, 0, 0, << >>, << >>))
  BY <1>3, <1>10, <1>13, AccountFields
<1>15. outs[5] = Only(AccountRecord(address, balance, nonce, stake, rc, 0, 0, << >>, << >>))
  BY <1>3, <1>10, <1>14, AccountFields
<1>16. outs[6] = Only(AccountRecord(address, balance, nonce, stake, rc, rcMax, 0, << >>, << >>))
  BY <1>3, <1>10, <1>15, AccountFields
<1>17. outs[7] = Only(AccountRecord(address, balance, nonce, stake, rc, rcMax, time, << >>, << >>))
  BY <1>3, <1>10, <1>16, AccountFields
<1>18. outs[7 + codes] =
         Only(AccountRecord(address, balance, nonce, stake, rc, rcMax, time, code, << >>))
  <2>1. CASE code = << >>
    <3>1. 7 + codes = 7
      BY <1>4, <2>1
    <3> QED BY <1>17, <2>1, <3>1
  <2>2. CASE code # << >>
    <3>1. codes = 1 /\ b[8] = Bytes(8, code)
      BY <1>4, <2>2
    <3>2. 8 \in 1 .. Len(b) /\ 8 - 1 = 7 /\ 7 + codes = 8
      BY <1>5, <1>6, <3>1
    <3>3. outs[8] = FieldRead(outs[7], Bytes(8, code), AccountRules)
      BY <1>9, <3>1, <3>2
    <3>4. outs[8] = Only(AccountRecord(address, balance, nonce, stake, rc, rcMax, time,
                                       code, << >>))
      BY <1>17, <3>3, AccountFields
    <3> QED BY <3>2, <3>4
  <2> QED BY <2>1, <2>2
<1>19. outs[Len(b)] = Only(a)
  <2>1. CASE pubKey = << >>
    BY <1>4, <1>5, <1>6, <1>18, <2>1
  <2>2. CASE pubKey # << >>
    <3>1. keys = 1 /\ b[8 + codes] = Bytes(9, pubKey)
      BY <1>5, <2>2
    <3>4. Len(b) = 8 + codes
      BY <1>4, <1>6, <3>1
    <3>2. outs[Len(b)] = FieldRead(outs[7 + codes], Bytes(9, pubKey), AccountRules)
      BY <1>4, <1>9, <3>1, <3>4
    <3> QED BY <1>18, <3>2, AccountFields
  <2> QED BY <2>1, <2>2
<1>20. UnmarshalAccount(b) = {a}
  BY <1>2, <1>8, <1>19 DEF Only
<1> QED BY <1>20 DEF b

-----------------------------------------------------------------------------
(* Blocks.                                                                   *)

\* The first k parts of a list.
Prefix(bs, k) == [i \in 1 .. k |-> bs[i]]

\* The prefixes of a list grow by one element each, from none to all of it.
LEMMA Prefixes ==
  ASSUME NEW S, NEW bs \in Seq(S)
  PROVE  /\ Prefix(bs, 0) = << >> /\ Prefix(bs, Len(bs)) = bs
         /\ \A k \in 1 .. Len(bs) : Append(Prefix(bs, k - 1), bs[k]) = Prefix(bs, k)
<1>1. Prefix(bs, 0) = << >>
  BY DEF Prefix
<1>2. Prefix(bs, Len(bs)) = bs
  BY DEF Prefix
<1>3. ASSUME NEW k \in 1 .. Len(bs)
      PROVE  Append(Prefix(bs, k - 1), bs[k]) = Prefix(bs, k)
  <2>1. Prefix(bs, k - 1) \in Seq(S) /\ Len(Prefix(bs, k - 1)) = k - 1 /\ bs[k] \in S
    BY DEF Prefix
  <2>2. Prefix(bs, k) \in Seq(S) /\ Len(Prefix(bs, k)) = k
    BY DEF Prefix
  <2> DEFINE s == Append(Prefix(bs, k - 1), bs[k])
  <2>3. s \in Seq(S) /\ Len(s) = k /\ s[k] = bs[k]
    BY <2>1
  <2>4. \A i \in 1 .. k - 1 : s[i] = Prefix(bs, k - 1)[i]
    BY <2>1
  <2>5. \A i \in 1 .. k - 1 : Prefix(bs, k - 1)[i] = bs[i]
    BY DEF Prefix
  <2>6. \A i \in 1 .. k : Prefix(bs, k)[i] = bs[i]
    BY DEF Prefix
  <2> HIDE DEF s
  <2>7. \A i \in 1 .. k : s[i] = Prefix(bs, k)[i]
    BY <2>3, <2>4, <2>5, <2>6
  <2>8. s = Prefix(bs, k)
    BY <2>2, <2>3, <2>7
  <2> QED BY <2>8 DEF s
<1> QED BY <1>1, <1>2, <1>3

\* A field that is set twice has the last value.
LEMMA WithTwice ==
  ASSUME NEW out, NEW name, NEW v, NEW w
  PROVE  /\ With(With(out, name, v), name, w) = With(out, name, w)
         /\ name \in DOMAIN out => With(out, name, v)[name] = v
BY DEF With

\* After the first k fields, outs reads the parts of a list.
ReadsList(outs, k, bs, num, rules) ==
  \A i \in 1 .. Len(bs) : outs[k + i] = FieldRead(outs[k + i - 1], Bytes(num, bs[i]), rules)

\* A list is read part by part.
LEMMA ListRead ==
  ASSUME NEW S, NEW bs \in Seq(S), NEW num, NEW name, NEW rules, NEW outs, NEW out,
         NEW k \in Nat,
         num # 0, num \in DOMAIN rules, rules[num] = Rule("list", name),
         name \in DOMAIN out, With(out, name, << >>) = out,
         outs[k] = Only(out), ReadsList(outs, k, bs, num, rules)
  PROVE  outs[k + Len(bs)] = Only(With(out, name, bs))
<1> DEFINE n == Len(bs)
           D == { i \in 0 .. n : outs[k + i] = Only(With(out, name, Prefix(bs, i))) }
<1>1. 0 \in D
  BY Prefixes
<1>2. ASSUME NEW i \in 1 .. n, i - 1 \in D PROVE i \in D
  <2> DEFINE before == With(out, name, Prefix(bs, i - 1))
  <2>1. outs[k + i - 1] = Only(before)
    BY <1>2
  <2>2. before[name] = Prefix(bs, i - 1)
    BY WithTwice
  <2>3. With(before, name, Prefix(bs, i)) = With(out, name, Prefix(bs, i))
    BY WithTwice
  <2>4. Append(before[name], bs[i]) = Prefix(bs, i)
    BY <2>2, Prefixes
  <2> HIDE DEF before
  <2>5. outs[k + i] = FieldRead(Only(before), Bytes(num, bs[i]), rules)
    BY <2>1 DEF ReadsList
  <2>6. FieldRead(Only(before), Bytes(num, bs[i]), rules)
          = Only(With(before, name, Append(before[name], bs[i])))
    BY ListSet
  <2>7. outs[k + i] = Only(With(out, name, Prefix(bs, i)))
    BY <2>3, <2>4, <2>5, <2>6
  <2> QED BY <2>7
<1>3. n \in D
  <2>1. n \in Nat
    OBVIOUS
  <2> HIDE DEF D, n
  <2>2. 0 .. n \subseteq D
    BY <1>1, <1>2, <2>1, BoundedInduction
  <2> QED BY <2>1, <2>2
<1> QED BY <1>3, Prefixes

BlockRecord(at, prev, root, timestamp, proposer, txs, sigs) ==
  [height |-> at, prev |-> prev, root |-> root, timestamp |-> timestamp,
   proposer |-> proposer, txs |-> txs, sigs |-> sigs]

BlockRules ==
  << << "number", "height" >>, << "hash", "prev" >>, << "hash", "root" >>,
     << "int", "timestamp" >>, << "bytes", "proposer" >>, << "list", "txs" >>,
     << "list", "sigs" >> >>

\* What each field of a block does to the block read so far.
LEMMA BlockFields ==
  ASSUME NEW at, NEW prev, NEW root, NEW timestamp, NEW proposer, NEW txs, NEW sigs, NEW v
  PROVE  LET out == Only(BlockRecord(at, prev, root, timestamp, proposer, txs, sigs))
         IN
         /\ FieldRead(out, Varint(1, v), BlockRules) =
              Only(BlockRecord(v, prev, root, timestamp, proposer, txs, sigs))
         /\ IsHash(v) => FieldRead(out, Bytes(2, v), BlockRules) =
              Only(BlockRecord(at, v, root, timestamp, proposer, txs, sigs))
         /\ IsHash(v) => FieldRead(out, Bytes(3, v), BlockRules) =
              Only(BlockRecord(at, prev, v, timestamp, proposer, txs, sigs))
         /\ FieldRead(out, Varint(4, v), BlockRules) =
              Only(BlockRecord(at, prev, root, Int64(v), proposer, txs, sigs))
         /\ FieldRead(out, Bytes(5, v), BlockRules) =
              Only(BlockRecord(at, prev, root, timestamp, v, txs, sigs))
<1> DEFINE out == BlockRecord(at, prev, root, timestamp, proposer, txs, sigs)
<1>1. /\ DOMAIN BlockRules = 1 .. 7 /\ 1 .. 7 = {1, 2, 3, 4, 5, 6, 7}
      /\ BlockRules[1] = Rule("number", "height") /\ BlockRules[2] = Rule("hash", "prev")
      /\ BlockRules[3] = Rule("hash", "root") /\ BlockRules[4] = Rule("int", "timestamp")
      /\ BlockRules[5] = Rule("bytes", "proposer")
  BY DEF BlockRules, Rule
<1>2. With(out, "height", v) = BlockRecord(v, prev, root, timestamp, proposer, txs, sigs)
  BY DEF BlockRecord, With
<1>3. With(out, "prev", v) = BlockRecord(at, v, root, timestamp, proposer, txs, sigs)
  BY DEF BlockRecord, With
<1>4. With(out, "root", v) = BlockRecord(at, prev, v, timestamp, proposer, txs, sigs)
  BY DEF BlockRecord, With
<1>5. With(out, "timestamp", Int64(v)) = BlockRecord(at, prev, root, Int64(v), proposer, txs, sigs)
  BY DEF BlockRecord, With
<1>6. With(out, "proposer", v) = BlockRecord(at, prev, root, timestamp, v, txs, sigs)
  BY DEF BlockRecord, With
<1> HIDE DEF out
<1>7. FieldRead(Only(out), Varint(1, v), BlockRules) =
         Only(BlockRecord(v, prev, root, timestamp, proposer, txs, sigs))
  BY <1>1, <1>2, NumberSet
<1>8. IsHash(v) => FieldRead(Only(out), Bytes(2, v), BlockRules) =
         Only(BlockRecord(at, v, root, timestamp, proposer, txs, sigs))
  BY <1>1, <1>3, HashSet
<1>9. IsHash(v) => FieldRead(Only(out), Bytes(3, v), BlockRules) =
         Only(BlockRecord(at, prev, v, timestamp, proposer, txs, sigs))
  BY <1>1, <1>4, HashSet
<1>10. FieldRead(Only(out), Varint(4, v), BlockRules) =
         Only(BlockRecord(at, prev, root, Int64(v), proposer, txs, sigs))
  BY <1>1, <1>5, IntSet
<1>11. FieldRead(Only(out), Bytes(5, v), BlockRules) =
         Only(BlockRecord(at, prev, root, timestamp, v, txs, sigs))
  BY <1>1, <1>6, BytesSet
<1> QED BY <1>7, <1>8, <1>9, <1>10, <1>11 DEF out

\* The bytes of the transactions of a block.
Raw(txs) == [i \in DOMAIN txs |-> MarshalTransaction(txs[i])]

IsTx(tx) == tx = TxRecord(tx.from, tx.to, tx.nonce, tx.payload, tx.signature)

\* Transactions that were written one by one are read as they were.
LEMMA TransactionsReadBack ==
  ASSUME NEW S, NEW txs \in Seq(S), \A tx \in S : IsTx(tx)
  PROVE  UnmarshalTransactions(Raw(txs)) = {txs}
<1> DEFINE raw == Raw(txs)
<1>1. DOMAIN raw = DOMAIN txs /\ txs = [i \in DOMAIN txs |-> txs[i]]
  BY DEF Raw
<1>2. ASSUME NEW i \in DOMAIN raw PROVE UnmarshalTransaction(raw[i]) = {txs[i]}
  <2>1. txs[i] \in S /\ raw[i] = MarshalTransaction(txs[i])
    BY <1>1 DEF Raw
  <2> QED BY <2>1, TransactionReadBack DEF IsTx
<1> HIDE DEF raw
<1>3. ~ \E i \in DOMAIN raw : UnmarshalTransaction(raw[i]) = {}
  BY <1>2
<1>4. [i \in DOMAIN raw |-> CHOOSE tx \in UnmarshalTransaction(raw[i]) : TRUE] = txs
  BY <1>1, <1>2
<1>5. UnmarshalTransactions(raw) = {txs}
  BY <1>3, <1>4 DEF UnmarshalTransactions
<1> QED BY <1>5 DEF raw

\* A block that was written is read as itself, with its transactions and its
\* signatures (MarshalBlock, UnmarshalBlock).
LEMMA BlockReadBack ==
  ASSUME NEW at, NEW prev, NEW root, NEW timestamp, NEW proposer,
         NEW S, NEW txs \in Seq(S), \A tx \in S : IsTx(tx), NEW R, NEW sigs \in Seq(R),
         IsHash(prev), IsHash(root), Int64(Uint64(timestamp)) = timestamp
  PROVE  LET block == BlockRecord(at, prev, root, timestamp, proposer, txs, sigs)
         IN  UnmarshalBlock(MarshalBlock(block)) = {block}
<1> DEFINE block == BlockRecord(at, prev, root, timestamp, proposer, txs, sigs)
           head == << Varint(1, at), Bytes(2, prev), Bytes(3, root),
                      Varint(4, Uint64(timestamp)), Bytes(5, proposer) >>
           raw == Raw(txs)
           mid == ListOf(6, raw)
           end == ListOf(7, sigs)
           b == head \o mid \o end
           zero == BlockRecord(0, ZeroHash, ZeroHash, 0, << >>, << >>, << >>)
           M == { MarshalTransaction(tx) : tx \in S }
           A == {Varint(1, at), Bytes(2, prev), Bytes(3, root),
                 Varint(4, Uint64(timestamp)), Bytes(5, proposer)}
           B == { Bytes(6, m) : m \in M }
           C == { Bytes(7, s) : s \in R }
           All == A \union B \union C
<1>1. MarshalBlock(block) = b
  <2>1. mid = [i \in DOMAIN txs |-> Bytes(6, MarshalTransaction(txs[i]))]
    BY DEF ListOf, Raw
  <2> HIDE DEF mid, end
  <2>2. end = ListOf(7, sigs)
    BY DEF end
  <2> QED BY <2>1, <2>2 DEF MarshalBlock, BlockRecord
<1>2. UnmarshalBlock(b) =
        IF b = << >> THEN {}
        ELSE UNION { { [out EXCEPT !.txs = ts] : ts \in UnmarshalTransactions(out.txs) } :
                       out \in Decode(b, zero, BlockRules) }
  BY DEF UnmarshalBlock, UnmarshalWith, BlockRecord, BlockRules
<1>3. raw \in Seq(M) /\ Len(raw) = Len(txs)
  BY DEF Raw
<1>4. /\ head \in Seq(A) /\ Len(head) = 5
      /\ head[1] = Varint(1, at) /\ head[2] = Bytes(2, prev) /\ head[3] = Bytes(3, root)
      /\ head[4] = Varint(4, Uint64(timestamp)) /\ head[5] = Bytes(5, proposer)
  OBVIOUS
<1> HIDE DEF A, raw, M
<1>5. mid \in Seq(B) /\ Len(mid) = Len(raw) /\ \A i \in 1 .. Len(raw) : mid[i] = Bytes(6, raw[i])
  BY <1>3 DEF ListOf
<1>6. end \in Seq(C) /\ Len(end) = Len(sigs) /\ \A i \in 1 .. Len(sigs) : end[i] = Bytes(7, sigs[i])
  BY DEF ListOf
<1> HIDE DEF B, C, head, mid, end
<1>7. head \in Seq(All) /\ mid \in Seq(All) /\ end \in Seq(All)
  BY <1>4, <1>5, <1>6
<1> HIDE DEF All
<1> DEFINE front == head \o mid
<1>8. /\ front \in Seq(All) /\ Len(front) = Len(head) + Len(mid)
      /\ \A i \in 1 .. Len(head) : front[i] = head[i]
      /\ \A i \in 1 .. Len(mid) : front[Len(head) + i] = mid[i]
  <2>1. front = head \o mid
    OBVIOUS
  <2> HIDE DEF front
  <2> QED BY <1>7, <2>1, Concatenation
<1> HIDE DEF front
<1>9. /\ b \in Seq(All) /\ Len(b) = Len(front) + Len(end)
      /\ \A i \in 1 .. Len(front) : b[i] = front[i]
      /\ \A i \in 1 .. Len(end) : b[Len(front) + i] = end[i]
  <2>1. b = front \o end
    BY DEF front
  <2>2. front \in Seq(All) /\ end \in Seq(All)
    BY <1>7, <1>8
  <2> HIDE DEF b
  <2> QED BY <2>1, <2>2, Concatenation
<1> HIDE DEF b, zero
<1>10. Len(raw) \in Nat /\ Len(sigs) \in Nat /\ Len(b) = 5 + Len(raw) + Len(sigs)
  BY <1>3, <1>4, <1>5, <1>6, <1>8, <1>9
<1>11. \A i \in 1 .. 5 : b[i] = head[i]
  BY <1>4, <1>5, <1>8, <1>9, <1>10
<1>12. \A i \in 1 .. Len(raw) : b[5 + i] = Bytes(6, raw[i])
  <2> TAKE i \in 1 .. Len(raw)
  <2>1. 5 + i \in 1 .. Len(front) /\ front[5 + i] = mid[i]
    BY <1>4, <1>5, <1>8, <1>10
  <2> QED BY <1>5, <1>9, <2>1
<1>13. \A i \in 1 .. Len(sigs) : b[5 + Len(raw) + i] = Bytes(7, sigs[i])
  <2> TAKE i \in 1 .. Len(sigs)
  <2>1. Len(front) = 5 + Len(raw) /\ i \in 1 .. Len(end)
    BY <1>4, <1>5, <1>6, <1>8, <1>10
  <2> QED BY <1>6, <1>9, <2>1
<1>14. PICK outs : /\ DecodesTo(outs, b, zero, BlockRules)
                   /\ Decode(b, zero, BlockRules) = outs[Len(b)]
  BY <1>10, DecodeDefined
<1>15. /\ outs[0] = Only(zero)
       /\ \A i \in 1 .. Len(b) : outs[i] = FieldRead(outs[i - 1], b[i], BlockRules)
  BY <1>14 DEF DecodesTo, Only
<1>16. /\ outs[1] = FieldRead(outs[0], head[1], BlockRules)
       /\ outs[2] = FieldRead(outs[1], head[2], BlockRules)
       /\ outs[3] = FieldRead(outs[2], head[3], BlockRules)
       /\ outs[4] = FieldRead(outs[3], head[4], BlockRules)
       /\ outs[5] = FieldRead(outs[4], head[5], BlockRules)
  BY <1>10, <1>11, <1>15
<1>17. outs[1] = Only(BlockRecord(at, ZeroHash, ZeroHash, 0, << >>, << >>, << >>))
  BY <1>4, <1>15, <1>16, BlockFields DEF zero
<1>18. outs[2] = Only(BlockRecord(at, prev, ZeroHash, 0, << >>, << >>, << >>))
  BY <1>4, <1>16, <1>17, BlockFields
<1>19. outs[3] = Only(BlockRecord(at, prev, root, 0, << >>, << >>, << >>))
  BY <1>4, <1>16, <1>18, BlockFields
<1>20. outs[4] = Only(BlockRecord(at, prev, root, timestamp, << >>, << >>, << >>))
  BY <1>4, <1>16, <1>19, BlockFields
<1>21. outs[5] = Only(BlockRecord(at, prev, root, timestamp, proposer, << >>, << >>))
  BY <1>4, <1>16, <1>20, BlockFields
<1>22. /\ DOMAIN BlockRules = 1 .. 7 /\ 6 \in 1 .. 7 /\ 7 \in 1 .. 7
       /\ BlockRules[6] = Rule("list", "txs") /\ BlockRules[7] = Rule("list", "sigs")
  BY DEF BlockRules, Rule
<1> DEFINE first == BlockRecord(at, prev, root, timestamp, proposer, << >>, << >>)
           second == BlockRecord(at, prev, root, timestamp, proposer, raw, << >>)
           third == BlockRecord(at, prev, root, timestamp, proposer, raw, sigs)
<1>23. /\ With(first, "txs", raw) = second /\ With(first, "txs", << >>) = first
       /\ With(second, "sigs", sigs) = third /\ With(second, "sigs", << >>) = second
       /\ "txs" \in DOMAIN first /\ "sigs" \in DOMAIN second
  <2>1. With(first, "txs", raw) = second
    BY DEF BlockRecord, With
  <2>2. With(first, "txs", << >>) = first
    BY DEF BlockRecord, With
  <2>3. With(second, "sigs", sigs) = third
    BY DEF BlockRecord, With
  <2>4. With(second, "sigs", << >>) = second
    BY DEF BlockRecord, With
  <2>5. "txs" \in DOMAIN first /\ "sigs" \in DOMAIN second
    BY DEF BlockRecord
  <2> QED BY <2>1, <2>2, <2>3, <2>4, <2>5
<1>24. third.txs = raw /\ [third EXCEPT !.txs = txs] = block
  BY DEF BlockRecord
<1> HIDE DEF first, second, third, block
<1>25. outs[5 + Len(raw)] = Only(second)
  <2>1. \A i \in 1 .. Len(raw) :
           outs[5 + i] = FieldRead(outs[5 + i - 1], Bytes(6, raw[i]), BlockRules)
    BY <1>10, <1>12, <1>15
  <2>2. outs[5] = Only(first)
    BY <1>21 DEF first
  <2>3. raw \in Seq(M)
    BY <1>3
  <2>4. /\ 6 # 0 /\ 6 \in DOMAIN BlockRules /\ BlockRules[6] = Rule("list", "txs")
        /\ "txs" \in DOMAIN first /\ With(first, "txs", << >>) = first /\ 5 \in Nat
    BY <1>22, <1>23
  <2>5. outs[5 + Len(raw)] = Only(With(first, "txs", raw))
    <3>1. ReadsList(outs, 5, raw, 6, BlockRules)
      BY <2>1 DEF ReadsList
    <3> QED BY <2>2, <2>3, <2>4, <3>1, ListRead
  <2> QED BY <1>23, <2>5
<1>26. outs[Len(b)] = Only(third)
  <2> DEFINE k == 5 + Len(raw)
  <2>1. k \in Nat /\ outs[k] = Only(second) /\ Len(b) = k + Len(sigs)
    BY <1>10, <1>25
  <2>2. ASSUME NEW i \in 1 .. Len(sigs)
        PROVE  outs[k + i] = FieldRead(outs[k + i - 1], Bytes(7, sigs[i]), BlockRules)
    <3>1. b[k + i] = Bytes(7, sigs[i])
      BY <1>13
    <3> DEFINE j == k + i
    <3>2. j \in 1 .. Len(b)
      BY <1>10, <2>1
    <3> HIDE DEF j
    <3>3. outs[j] = FieldRead(outs[j - 1], b[j], BlockRules)
      BY <1>15, <3>2
    <3> QED BY <3>1, <3>3 DEF j
  <2> HIDE DEF k
  <2>4. /\ 7 # 0 /\ 7 \in DOMAIN BlockRules /\ BlockRules[7] = Rule("list", "sigs")
        /\ "sigs" \in DOMAIN second /\ With(second, "sigs", << >>) = second
    BY <1>22, <1>23
  <2>5. k \in Nat /\ outs[k] = Only(second)
    BY <2>1
  <2>3. outs[k + Len(sigs)] = Only(With(second, "sigs", sigs))
    <3>1. ReadsList(outs, k, sigs, 7, BlockRules)
      BY <2>2 DEF ReadsList
    <3> QED BY <2>4, <2>5, <3>1, ListRead
  <2> QED BY <1>23, <2>1, <2>3
<1>27. UnmarshalTransactions(raw) = {txs}
  BY TransactionsReadBack DEF raw
<1>28. b # << >>
  BY <1>10
<1>29. UnmarshalBlock(b) = {[third EXCEPT !.txs = txs]}
  <2>1. Decode(b, zero, BlockRules) = {third}
    BY <1>14, <1>26 DEF Only
  <2>2. { [third EXCEPT !.txs = ts] : ts \in UnmarshalTransactions(third.txs) }
          = {[third EXCEPT !.txs = txs]}
    BY <1>24, <1>27
  <2> QED BY <1>2, <1>28, <2>1, <2>2
<1>30. UnmarshalBlock(MarshalBlock(block)) = {block}
  BY <1>1, <1>24, <1>29
<1> QED BY <1>30 DEF block

-----------------------------------------------------------------------------
(* The store.                                                                *)

\* An int64 is read back from the varint it is written as.
LEMMA Int64ReadBack ==
  ASSUME NEW t \in Int64s
  PROVE  Int64(Uint64(t)) = t
<1>1. U64 \in Nat \ {0} /\ U64 = 2 * (U64 \div 2) /\ U64 \div 2 \in Nat
  BY BlockStoreAssumption
<1> DEFINE H == U64 \div 2
<1>2. U64 = 2 * H /\ H \in Nat /\ t \in -H .. H - 1
  BY <1>1 DEF Int64s
<1>3. Int64(t % U64) = IF t % U64 < H THEN t % U64 ELSE (t % U64) - U64
  BY DEF Int64
<1> HIDE DEF H
<1>4. CASE t >= 0
  <2>1. t % U64 = t
    BY <1>1, <1>2, <1>4
  <2> QED BY <1>2, <1>3, <2>1 DEF Uint64
<1>5. CASE t < 0
  <2>1. t % U64 = t + U64
    BY <1>1, <1>2, <1>5
  <2> QED BY <1>2, <1>3, <1>5, <2>1 DEF Uint64
<1> QED BY <1>2, <1>4, <1>5

\* Keys of different kinds or for different things are different.
LEMMA KeysApart ==
  ASSUME NEW x, NEW y
  PROVE  /\ AccountKey(x)[1].type = "acct/" /\ BlockKey(x)[1].type = "block/"
         /\ HeightKey(x)[1].type = "block_height/"
         /\ AccountKey(x) = AccountKey(y) => x = y
         /\ BlockKey(x) = BlockKey(y) => x = y
         /\ HeightKey(x) = HeightKey(y) => x = y
<1> DEFINE Cell(type, n, b) == [num |-> 0, type |-> type, n |-> n, b |-> b]
<1>1. \A type, n, b : Opaque(type, n, b)[1] = Cell(type, n, b)
  BY DEF Opaque
<1>2. \A type, n, b : Cell(type, n, b).type = type /\ Cell(type, n, b).n = n
                        /\ Cell(type, n, b).b = b
  OBVIOUS
<1> HIDE DEF Cell
<1> QED BY <1>1, <1>2 DEF AccountKey, BlockKey, HeightKey

IsAccount(a) ==
  /\ a = AccountRecord(a.address, a.balance, a.nonce, a.stake, a.rc, a.rcMax, a.time,
                       a.code, a.pubKey)
  /\ a.address \in Addr /\ a.nonce \in Nat /\ a.time \in Int64s
  /\ a.balance \in Int /\ a.stake \in Int /\ a.rc \in Int /\ a.rcMax \in Int

\* An account of the right kind is read back.
LEMMA AccountBack ==
  ASSUME NEW a, IsAccount(a)
  PROVE  UnmarshalAccount(MarshalAccount(a)) = {a}
<1>1. Int64(Uint64(a.time)) = a.time
  BY Int64ReadBack DEF IsAccount
<1> QED BY <1>1, AccountReadBack DEF IsAccount

\* Under every key of an account its bytes are stored.
AccountsHeld(store) ==
  \A k \in DOMAIN store : k[1].type = "acct/" =>
    \E a : IsAccount(a) /\ k = AccountKey(a.address) /\ store[k] = MarshalAccount(a)

Present(store) == { addr \in Addr : AccountKey(addr) \in DOMAIN store }

\* An account key that is there holds an account of its address; the account of
\* a key that is not there is the zero account.
LEMMA AccountRead ==
  ASSUME NEW store, AccountsHeld(store), NEW addr \in Addr
  PROVE  /\ IsAccount(GetAccount(store, addr)) /\ GetAccount(store, addr).address = addr
         /\ addr \in Present(store) =>
              /\ store[AccountKey(addr)] = MarshalAccount(GetAccount(store, addr))
              /\ UnmarshalAccount(store[AccountKey(addr)]) = {GetAccount(store, addr)}
         /\ addr \notin Present(store) => GetAccount(store, addr) = ZeroAccount(addr)
<1>1. CASE addr \in Present(store)
  <2>1. AccountKey(addr) \in DOMAIN store /\ AccountKey(addr)[1].type = "acct/"
    BY <1>1, KeysApart DEF Present
  <2>2. PICK a : /\ IsAccount(a) /\ AccountKey(addr) = AccountKey(a.address)
                 /\ store[AccountKey(addr)] = MarshalAccount(a)
    BY <2>1 DEF AccountsHeld
  <2>3. a.address = addr
    BY <2>2, KeysApart
  <2>4. UnmarshalAccount(store[AccountKey(addr)]) = {a}
    BY <2>2, AccountBack
  <2>5. GetAccount(store, addr) = a
    BY <2>1, <2>4 DEF GetAccount
  <2> QED BY <1>1, <2>2, <2>3, <2>4, <2>5
<1>2. CASE addr \notin Present(store)
  <2>1. GetAccount(store, addr) = ZeroAccount(addr)
    BY <1>2 DEF GetAccount, Present
  <2>2. 0 \in Int64s
    BY BlockStoreAssumption DEF Int64s
  <2>3. IsAccount(ZeroAccount(addr)) /\ ZeroAccount(addr).address = addr
    BY <2>2 DEF ZeroAccount, IsAccount, AccountRecord
  <2> QED BY <1>2, <2>1, <2>3
<1> QED BY <1>1, <1>2

\* The accounts there are, by the addresses that have one.
LEMMA AccountsRead ==
  ASSUME NEW store, AccountsHeld(store)
  PROVE  Accounts(store) = { GetAccount(store, addr) : addr \in Present(store) }
<1>1. ASSUME NEW a \in Accounts(store)
      PROVE  \E addr \in Present(store) : a = GetAccount(store, addr)
  <2>1. PICK k \in DOMAIN store : k[1].type = "acct/" /\ a \in UnmarshalAccount(store[k])
    BY <1>1 DEF Accounts
  <2>2. PICK b : IsAccount(b) /\ k = AccountKey(b.address) /\ store[k] = MarshalAccount(b)
    BY <2>1 DEF AccountsHeld
  <2>3. b.address \in Addr /\ b.address \in Present(store)
    BY <2>1, <2>2 DEF IsAccount, Present
  <2>4. UnmarshalAccount(store[k]) = {GetAccount(store, b.address)}
    BY <2>2, <2>3, AccountRead
  <2> QED BY <2>1, <2>3, <2>4
<1>2. ASSUME NEW addr \in Present(store)
      PROVE  GetAccount(store, addr) \in Accounts(store)
  <2> DEFINE k == AccountKey(addr)
  <2>1. k \in DOMAIN store /\ k[1].type = "acct/" /\ addr \in Addr
    BY KeysApart DEF Present
  <2>2. GetAccount(store, addr) \in UnmarshalAccount(store[k])
    BY <2>1, AccountRead
  <2> HIDE DEF k
  <2> QED BY <2>1, <2>2 DEF Accounts
<1> QED BY <1>1, <1>2

\* The account of an address is the same read from the store and found among all.
LEMMA AccountOfRead ==
  ASSUME NEW store, AccountsHeld(store), NEW addr \in Addr
  PROVE  AccountOf(Accounts(store), addr) = GetAccount(store, addr)
<1>1. ASSUME NEW a \in Accounts(store), a.address = addr
      PROVE  a = GetAccount(store, addr) /\ addr \in Present(store)
  <2>1. PICK b \in Present(store) : a = GetAccount(store, b)
    BY AccountsRead
  <2>2. b = addr
    BY <1>1, <2>1, AccountRead DEF Present
  <2> QED BY <2>1, <2>2
<1>2. CASE addr \in Present(store)
  <2>1. /\ GetAccount(store, addr) \in Accounts(store)
        /\ GetAccount(store, addr).address = addr
    BY <1>2, AccountsRead, AccountRead
  <2> QED BY <1>1, <2>1 DEF AccountOf
<1>3. CASE addr \notin Present(store)
  <2>1. ~ \E a \in Accounts(store) : a.address = addr
    BY <1>1, <1>3
  <2> QED BY <1>3, <2>1, AccountRead DEF AccountOf
<1> QED BY <1>2, <1>3

\* Stores with the same accounts, and with the same blocks.
SameAccounts(s, t) ==
  \A k : k[1].type = "acct/" =>
    (k \in DOMAIN s <=> k \in DOMAIN t) /\ (k \in DOMAIN s => s[k] = t[k])

SameBlocks(s, t) ==
  \A k : k[1].type # "acct/" =>
    (k \in DOMAIN s <=> k \in DOMAIN t) /\ (k \in DOMAIN s => s[k] = t[k])

\* Accounts of different addresses.
Apart(new) == \A a, b \in new : a.address = b.address => a = b

\* The account that bytes are read as.
AccountIn(b) == CHOOSE a \in UnmarshalAccount(b) : TRUE

\* GetAccount, with the bytes under the key apart.
LEMMA AccountGot ==
  ASSUME NEW store, NEW addr
  PROVE  GetAccount(store, addr) =
           IF AccountKey(addr) \notin DOMAIN store THEN ZeroAccount(addr)
           ELSE AccountIn(store[AccountKey(addr)])
BY DEF GetAccount, AccountIn

\* After SetAccount the new accounts are there, the others are as they were, and
\* no block has changed.
LEMMA AccountsSet ==
  ASSUME NEW store, AccountsHeld(store), NEW new, Apart(new), \A a \in new : IsAccount(a)
  PROVE  LET after == SetAccounts(store, new)
         IN  /\ AccountsHeld(after) /\ SameBlocks(store, after)
             /\ Present(after) = Present(store) \union { a.address : a \in new }
             /\ \A a \in new : GetAccount(after, a.address) = a
             /\ \A addr \in Addr : (\A a \in new : a.address # addr) =>
                  GetAccount(after, addr) = GetAccount(store, addr)
<1> DEFINE after == SetAccounts(store, new)
           news == { AccountKey(a.address) : a \in new }
<1>1. DOMAIN after = DOMAIN store \union news
  BY DEF SetAccounts
<1>2. ASSUME NEW k \in DOMAIN store, k \notin news PROVE after[k] = store[k]
  BY <1>2 DEF SetAccounts
<1>3. ASSUME NEW a \in new PROVE after[AccountKey(a.address)] = MarshalAccount(a)
  <2> DEFINE k == AccountKey(a.address)
             is(b) == b \in new /\ k = AccountKey(b.address)
  <2>1. \A b : is(b) <=> b = a
    BY KeysApart DEF Apart
  <2>2. (CHOOSE b \in new : k = AccountKey(b.address)) = a
    <3>1. a \in new /\ k = AccountKey(a.address)
      OBVIOUS
    <3>2. \A b \in new : k = AccountKey(b.address) => b = a
      BY <2>1
    <3> HIDE DEF k
    <3> QED BY <3>1, <3>2
  <2>3. k \in DOMAIN store \union news /\ \E b \in new : k = AccountKey(b.address)
    OBVIOUS
  <2> HIDE DEF k
  <2>4. after[k] = MarshalAccount(CHOOSE b \in new : k = AccountKey(b.address))
    BY <2>3 DEF SetAccounts
  <2> QED BY <2>2, <2>4 DEF k
<1>4. \A k : k \in news <=> \E a \in new : k = AccountKey(a.address)
  OBVIOUS
<1> HIDE DEF after, news
<1>5. ASSUME NEW k \in DOMAIN after, k[1].type = "acct/"
      PROVE  \E a : IsAccount(a) /\ k = AccountKey(a.address) /\ after[k] = MarshalAccount(a)
  <2>1. CASE k \in news
    BY <1>3, <1>4, <2>1
  <2>2. CASE k \notin news
    <3>1. k \in DOMAIN store /\ after[k] = store[k]
      BY <1>1, <1>2, <2>2
    <3> QED BY <1>5, <3>1 DEF AccountsHeld
  <2> QED BY <2>1, <2>2
<1>6. AccountsHeld(after)
  BY <1>5 DEF AccountsHeld
<1>7. ASSUME NEW k, k[1].type # "acct/"
      PROVE  (k \in DOMAIN store <=> k \in DOMAIN after) /\ (k \in DOMAIN store => store[k] = after[k])
  <2>1. k \notin news
    BY <1>4, <1>7, KeysApart
  <2> QED BY <1>1, <1>2, <2>1
<1>8. SameBlocks(store, after)
  BY <1>7 DEF SameBlocks
<1>9. ASSUME NEW addr
      PROVE  AccountKey(addr) \in news <=> \E a \in new : a.address = addr
  BY <1>4, KeysApart
<1>10. Present(after) = Present(store) \union { a.address : a \in new }
  <2>1. \A a \in new : a.address \in Addr
    BY DEF IsAccount
  <2> QED BY <1>1, <1>9, <2>1 DEF Present
<1>11. ASSUME NEW a \in new PROVE GetAccount(after, a.address) = a
  <2>1. AccountKey(a.address) \in DOMAIN after
    BY <1>1, <1>9
  <2>2. UnmarshalAccount(after[AccountKey(a.address)]) = {a}
    BY <1>3, AccountBack
  <2> QED BY <2>1, <2>2 DEF GetAccount
<1>12. ASSUME NEW addr \in Addr, \A a \in new : a.address # addr
       PROVE  GetAccount(after, addr) = GetAccount(store, addr)
  <2>1. AccountKey(addr) \notin news
    BY <1>9, <1>12
  <2> QED BY <1>1, <1>2, <2>1, AccountGot
<1> QED BY <1>6, <1>8, <1>10, <1>11, <1>12 DEF after

\* Setting accounts writes them over those of their addresses.
LEMMA AccountsOverwritten ==
  ASSUME NEW store, AccountsHeld(store), NEW new, Apart(new), \A a \in new : IsAccount(a)
  PROVE  Accounts(SetAccounts(store, new)) = Overwrite(Accounts(store), new)
<1> DEFINE after == SetAccounts(store, new)
<1>1. /\ AccountsHeld(after)
      /\ Present(after) = Present(store) \union { a.address : a \in new }
      /\ \A a \in new : GetAccount(after, a.address) = a
      /\ \A addr \in Addr : (\A a \in new : a.address # addr) =>
           GetAccount(after, addr) = GetAccount(store, addr)
  BY AccountsSet
<1> HIDE DEF after
<1>2. /\ Accounts(after) = { GetAccount(after, addr) : addr \in Present(after) }
      /\ Accounts(store) = { GetAccount(store, addr) : addr \in Present(store) }
  BY <1>1, AccountsRead
<1>3. \A addr \in Present(store) : addr \in Addr /\ GetAccount(store, addr).address = addr
  BY AccountRead DEF Present
<1>4. ASSUME NEW x \in Accounts(after) PROVE x \in Overwrite(Accounts(store), new)
  <2>1. PICK addr \in Present(after) : x = GetAccount(after, addr)
    BY <1>2
  <2>2. CASE \E a \in new : a.address = addr
    BY <1>1, <2>1, <2>2 DEF Overwrite
  <2>3. CASE \A a \in new : a.address # addr
    <3>1. addr \in Present(store)
      BY <1>1, <2>3
    <3>2. x = GetAccount(store, addr) /\ x.address = addr /\ x \in Accounts(store)
      BY <1>1, <1>2, <1>3, <2>1, <2>3, <3>1
    <3> QED BY <2>3, <3>2 DEF Overwrite
  <2> QED BY <2>2, <2>3
<1>5. ASSUME NEW x \in Overwrite(Accounts(store), new) PROVE x \in Accounts(after)
  <2>1. CASE x \in new
    BY <1>1, <1>2, <2>1
  <2>2. CASE x \in Accounts(store) /\ \A b \in new : x.address # b.address
    <3>1. PICK addr \in Present(store) : x = GetAccount(store, addr)
      BY <1>2, <2>2
    <3>2. addr \in Present(after) /\ x = GetAccount(after, addr)
      BY <1>1, <1>3, <2>2, <3>1
    <3> QED BY <1>2, <3>2
  <2> QED BY <2>1, <2>2 DEF Overwrite
<1>6. Accounts(after) = Overwrite(Accounts(store), new)
  BY <1>4, <1>5
<1> QED BY <1>6 DEF after

\* What only the accounts, and only the blocks, determine.
LEMMA SameRead ==
  ASSUME NEW s, NEW t
  PROVE  /\ SameAccounts(s, t) =>
              /\ AccountsHeld(s) => AccountsHeld(t)
              /\ \A addr : GetAccount(s, addr) = GetAccount(t, addr)
              /\ Accounts(s) = Accounts(t)
         /\ SameBlocks(s, t) =>
              /\ \A hash : GetBlockByHash(s, hash) = GetBlockByHash(t, hash)
              /\ \A h : GetBlockByHeight(s, h) = GetBlockByHeight(t, h)
<1>1. ASSUME SameAccounts(s, t), AccountsHeld(s) PROVE AccountsHeld(t)
  BY <1>1 DEF SameAccounts, AccountsHeld
<1>2. ASSUME SameAccounts(s, t), NEW addr PROVE GetAccount(s, addr) = GetAccount(t, addr)
  <2>1. AccountKey(addr)[1].type = "acct/"
    BY KeysApart
  <2> QED BY <1>2, <2>1, AccountGot DEF SameAccounts
<1>3. ASSUME SameAccounts(s, t) PROVE Accounts(s) = Accounts(t)
  BY <1>3 DEF SameAccounts, Accounts
<1>4. ASSUME SameBlocks(s, t), NEW hash PROVE GetBlockByHash(s, hash) = GetBlockByHash(t, hash)
  <2>1. BlockKey(hash)[1].type # "acct/"
    BY KeysApart
  <2> QED BY <1>4, <2>1 DEF SameBlocks, GetBlockByHash
<1>5. ASSUME SameBlocks(s, t), NEW h PROVE GetBlockByHeight(s, h) = GetBlockByHeight(t, h)
  <2>1. HeightKey(h)[1].type # "acct/"
    BY KeysApart
  <2> QED BY <1>4, <1>5, <2>1 DEF SameBlocks, GetBlockByHeight
<1> QED BY <1>1, <1>2, <1>3, <1>4, <1>5

\* After SetBlock the block and its hash are under their keys, every other key is
\* as it was, and no account has changed.
LEMMA BlockSet ==
  ASSUME NEW store, NEW block, NEW hash
  PROVE  LET after == SetBlock(store, block, hash)
             k1 == BlockKey(hash)
             k2 == HeightKey(block.height)
         IN  /\ SameAccounts(store, after)
             /\ k1 \in DOMAIN after /\ after[k1] = MarshalBlock(block)
             /\ k2 \in DOMAIN after /\ after[k2] = hash
             /\ \A k \in DOMAIN store : k \in DOMAIN after /\ (k \notin {k1, k2} => after[k] = store[k])
<1> DEFINE k1 == BlockKey(hash)
           k2 == HeightKey(block.height)
           mid == Put(store, k1, MarshalBlock(block))
           after == Put(mid, k2, hash)
<1>1. k1 # k2 /\ k1[1].type # "acct/" /\ k2[1].type # "acct/"
  <2>1. k1[1].type = "block/" /\ k2[1].type = "block_height/"
    BY KeysApart
  <2> QED BY <2>1
<1> HIDE DEF k1, k2
<1>2. /\ DOMAIN mid = DOMAIN store \union {k1} /\ mid[k1] = MarshalBlock(block)
      /\ \A k \in DOMAIN store : k # k1 => mid[k] = store[k]
  BY DEF Put
<1> HIDE DEF mid
<1>3. /\ DOMAIN after = DOMAIN mid \union {k2} /\ after[k2] = hash
      /\ \A k \in DOMAIN mid : k # k2 => after[k] = mid[k]
  BY DEF Put
<1>4. SetBlock(store, block, hash) = after
  BY DEF SetBlock, k1, k2, mid
<1> HIDE DEF after
<1>5. ASSUME NEW k, k[1].type = "acct/"
      PROVE  (k \in DOMAIN store <=> k \in DOMAIN after) /\ (k \in DOMAIN store => store[k] = after[k])
  <2>1. k # k1 /\ k # k2
    BY <1>1, <1>5
  <2> QED BY <1>2, <1>3, <2>1
<1>6. SameAccounts(store, after)
  BY <1>5 DEF SameAccounts
<1>7. after[k1] = MarshalBlock(block) /\ k1 \in DOMAIN after
  BY <1>1, <1>2, <1>3
<1>8. \A k \in DOMAIN store : k \in DOMAIN after /\ (k \notin {k1, k2} => after[k] = store[k])
  BY <1>2, <1>3
<1> QED BY <1>3, <1>4, <1>6, <1>7, <1>8 DEF k1, k2

-----------------------------------------------------------------------------
(* Payloads.                                                                 *)

\* What a field makes of the envelopes before it.
EnvelopeStep(b, i, last) ==
  CASE b[i].num = 0 -> {}
    [] b[i].num \in 1 .. 7 -> UNION { SetPayload(env, b[i]) : env \in last }
    [] b[i].num = 8 -> UNION { SetSenderPubKey(env, b[i]) : env \in last }
    [] OTHER -> last

EnvelopeSteps(f, b) ==
  /\ DOMAIN f = 0 .. Len(b)
  /\ f[0] = {[payload |-> NoPayload, senderPubKey |-> << >>]}
  /\ \A i \in 1 .. Len(b) : f[i] = EnvelopeStep(b, i, f[i - 1])

\* The envelope's decoding loop is what its definition says.
LEMMA EnvelopeStepDefined ==
  ASSUME NEW b, Len(b) \in Nat
  PROVE  \E f : EnvelopeSteps(f, b) /\ DecodeEnvelope(b) = f[Len(b)]
<1> DEFINE n == Len(b)
           Step(i, last) == EnvelopeStep(b, i, last)
           Is(f) == f = [i \in 0 .. n |-> IF i = 0 THEN {[payload |-> NoPayload, senderPubKey |-> << >>]} ELSE Step(i, f[i - 1])]
           pick == CHOOSE f : Is(f)
           D == { m \in 0 .. n : \E f : /\ DOMAIN f = 0 .. m
                                        /\ f[0] = {[payload |-> NoPayload, senderPubKey |-> << >>]}
                                        /\ \A i \in 1 .. m : f[i] = Step(i, f[i - 1]) }
<1>1. DecodeEnvelope(b) = pick[n]
  BY DEF DecodeEnvelope, EnvelopeStep
<1> HIDE DEF Step
<1>2. 0 \in D
  <2> DEFINE f == [i \in 0 .. 0 |-> {[payload |-> NoPayload, senderPubKey |-> << >>]}]
  <2>1. DOMAIN f = 0 .. 0 /\ f[0] = {[payload |-> NoPayload, senderPubKey |-> << >>]} /\ 1 .. 0 = {}
    OBVIOUS
  <2> HIDE DEF f
  <2> QED BY <2>1
<1>3. ASSUME NEW m \in 1 .. n, m - 1 \in D PROVE m \in D
  <2>1. PICK f : /\ DOMAIN f = 0 .. m - 1
                 /\ f[0] = {[payload |-> NoPayload, senderPubKey |-> << >>]}
                 /\ \A i \in 1 .. m - 1 : f[i] = Step(i, f[i - 1])
    BY <1>3
  <2> DEFINE g == [i \in 0 .. m |-> IF i = m THEN Step(m, f[m - 1]) ELSE f[i]]
  <2>2. /\ DOMAIN g = 0 .. m /\ g[m] = Step(m, f[m - 1])
        /\ \A i \in 0 .. m - 1 : g[i] = f[i]
    OBVIOUS
  <2> HIDE DEF g
  <2>3. ASSUME NEW i \in 1 .. m PROVE g[i] = Step(i, g[i - 1])
    <3>1. g[i - 1] = f[i - 1]
      BY <2>2
    <3>2. CASE i = m
      BY <2>2, <3>1, <3>2
    <3>3. CASE i # m
      BY <2>1, <2>2, <3>1, <3>3
    <3> QED BY <3>2, <3>3
  <2>4. g[0] = {[payload |-> NoPayload, senderPubKey |-> << >>]} /\ m \in 0 .. n
    BY <2>1, <2>2
  <2> QED BY <2>2, <2>3, <2>4
<1>4. n \in D
  <2> HIDE DEF D
  <2>1. 0 .. n \subseteq D
    BY <1>2, <1>3, BoundedInduction
  <2> QED BY <2>1
<1>5. \E f : Is(f)
  <2>1. PICK f : /\ DOMAIN f = 0 .. n
                 /\ f[0] = {[payload |-> NoPayload, senderPubKey |-> << >>]}
                 /\ \A i \in 1 .. n : f[i] = Step(i, f[i - 1])
    BY <1>4
  <2> DEFINE g == [i \in 0 .. n |-> f[i]]
  <2>2. /\ DOMAIN g = 0 .. n /\ g = [i \in DOMAIN g |-> g[i]]
        /\ \A i \in 0 .. n : g[i] = f[i]
    OBVIOUS
  <2> HIDE DEF g
  <2>3. \A i \in 0 .. n : g[i] = IF i = 0 THEN {[payload |-> NoPayload, senderPubKey |-> << >>]} ELSE Step(i, g[i - 1])
    BY <2>1, <2>2
  <2>4. Is(g)
    BY <2>2, <2>3
  <2> HIDE DEF Is
  <2> QED BY <2>4
<1>6. Is(pick)
  <2> HIDE DEF Is
  <2> QED BY <1>5
<1> HIDE DEF pick
<1>7. /\ DOMAIN pick = 0 .. n /\ pick[0] = {[payload |-> NoPayload, senderPubKey |-> << >>]}
      /\ \A i \in 1 .. n : pick[i] = Step(i, pick[i - 1])
  <2>1. DOMAIN pick = 0 .. n /\ pick[0] = {[payload |-> NoPayload, senderPubKey |-> << >>]}
    BY <1>6
  <2>2. ASSUME NEW i \in 1 .. n PROVE pick[i] = Step(i, pick[i - 1])
    <3>1. i \in 0 .. n /\ i # 0
      OBVIOUS
    <3> QED BY <1>6, <3>1
  <2> QED BY <2>1, <2>2
<1> QED BY <1>1, <1>7 DEF EnvelopeSteps, Step

IsEnvelope(env) ==
  env = [payload |-> env.payload, senderPubKey |-> env.senderPubKey]

\* A payload is what one of the fields written is read as.
LEMMA PayloadRead ==
  ASSUME NEW b \in Seq(PayloadField), NEW env \in DecodePayload(b)
  PROVE  /\ IsEnvelope(env)
         /\ \E f \in PayloadField : f.num \in 1 .. 7 /\ env.payload \in DecodeKind(f.num, f.b)
<1> DEFINE Known(e) == \/ e.payload = NoPayload
                       \/ \E f \in PayloadField :
                            f.num \in 1 .. 7 /\ e.payload \in DecodeKind(f.num, f.b)
<1>1. Len(b) \in Nat
  OBVIOUS
<1>2. PICK envs : EnvelopeSteps(envs, b) /\ DecodeEnvelope(b) = envs[Len(b)]
  BY <1>1, EnvelopeStepDefined
<1> DEFINE D == { i \in 0 .. Len(b) : \A e \in envs[i] : IsEnvelope(e) /\ Known(e) }
<1>3. 0 \in D
  <2>1. envs[0] = {[payload |-> NoPayload, senderPubKey |-> << >>]}
    BY <1>2 DEF EnvelopeSteps
  <2> QED BY <1>1, <2>1 DEF IsEnvelope
<1>4. ASSUME NEW i \in 1 .. Len(b), i - 1 \in D PROVE i \in D
  <2>1. envs[i] = EnvelopeStep(b, i, envs[i - 1])
    BY <1>2 DEF EnvelopeSteps
  <2>2. \A e \in envs[i - 1] : IsEnvelope(e) /\ Known(e)
    BY <1>4
  <2>3. b[i] \in PayloadField
    OBVIOUS
  <2> DEFINE f == b[i]
             last == envs[i - 1]
  <2> HIDE DEF f, last
  <2>4. ASSUME NEW e \in envs[i] PROVE IsEnvelope(e) /\ Known(e)
    <3>1. CASE f.num = 0
      BY <2>1, <2>4, <3>1 DEF EnvelopeStep, f
    <3>2. CASE f.num \in 1 .. 7
      <4>1. f.num # 0
        BY <3>2
      <4>2. envs[i] = UNION { SetPayload(e0, f) : e0 \in last }
        BY <2>1, <3>2, <4>1 DEF EnvelopeStep, f, last
      <4>3. PICK e0 \in last : e \in SetPayload(e0, f)
        BY <2>4, <4>2
      <4>4. PICK p \in DecodeKind(f.num, f.b) : e = [e0 EXCEPT !.payload = p]
        BY <4>3 DEF SetPayload
      <4>5. IsEnvelope(e0)
        BY <2>2 DEF last
      <4>6. e.payload = p /\ IsEnvelope(e)
        BY <4>4, <4>5 DEF IsEnvelope
      <4>7. f \in PayloadField
        BY <2>3 DEF f
      <4> QED BY <3>2, <4>6, <4>7
    <3>3. CASE f.num = 8
      <4>2. envs[i] = UNION { SetSenderPubKey(e0, f) : e0 \in last }
        BY <2>1, <3>3 DEF EnvelopeStep, f, last
      <4>3. PICK e0 \in last : e \in SetSenderPubKey(e0, f)
        BY <2>4, <4>2
      <4>4. e = [e0 EXCEPT !.senderPubKey = f.b]
        BY <4>3 DEF SetSenderPubKey
      <4>5. IsEnvelope(e0) /\ Known(e0)
        BY <2>2 DEF last
      <4>6. e.payload = e0.payload /\ IsEnvelope(e)
        BY <4>4, <4>5 DEF IsEnvelope
      <4> QED BY <4>5, <4>6
    <3>4. CASE f.num # 0 /\ f.num \notin 1 .. 7 /\ f.num # 8
      <4>2. envs[i] = last
        BY <2>1, <3>4 DEF EnvelopeStep, f, last
      <4> QED BY <2>2, <2>4, <4>2 DEF last
    <3> QED BY <3>1, <3>2, <3>3, <3>4
  <2> QED BY <2>4
<1>5. Len(b) \in D
  <2> HIDE DEF D
  <2>1. 0 .. Len(b) \subseteq D
    BY <1>1, <1>3, <1>4, BoundedInduction
  <2> QED BY <1>1, <2>1
<1>6. env \in envs[Len(b)] /\ env.payload # NoPayload
  BY <1>2 DEF DecodePayload
<1> QED BY <1>5, <1>6

-----------------------------------------------------------------------------
(* What is read of a payload is written as bytes that are read as the same.  *)

\* What the decoding loop keeps of the value that it fills.
LEMMA DecodeStays ==
  ASSUME NEW b, Len(b) \in Nat, NEW P, NEW zero \in P, NEW rules,
         \A i \in 1 .. Len(b) : \A out \in P :
           b[i].num \in DOMAIN rules => SetField(out, b[i], rules[b[i].num]) \subseteq P
  PROVE  Decode(b, zero, rules) \subseteq P
<1>1. PICK outs : DecodesTo(outs, b, zero, rules) /\ Decode(b, zero, rules) = outs[Len(b)]
  BY DecodeDefined
<1> DEFINE D == { i \in 0 .. Len(b) : outs[i] \subseteq P }
<1>2. 0 \in D
  BY <1>1 DEF DecodesTo
<1>3. ASSUME NEW i \in 1 .. Len(b), i - 1 \in D PROVE i \in D
  <2> DEFINE f == b[i]
  <2>1. outs[i] = FieldRead(outs[i - 1], f, rules) /\ outs[i - 1] \subseteq P /\ i \in 0 .. Len(b)
    BY <1>1, <1>3 DEF DecodesTo
  <2>2. \A out \in P : f.num \in DOMAIN rules => SetField(out, f, rules[f.num]) \subseteq P
    OBVIOUS
  <2> HIDE DEF f
  <2>3. FieldRead(outs[i - 1], f, rules) \subseteq P
    BY <2>1, <2>2 DEF FieldRead
  <2> QED BY <2>1, <2>3
<1>4. Len(b) \in D
  <2> HIDE DEF D
  <2>1. 0 .. Len(b) \subseteq D
    BY <1>2, <1>3, BoundedInduction
  <2> QED BY <2>1
<1> QED BY <1>1, <1>4

\* What a field that is not refused makes of a value, by its rule.
LEMMA RuleSets ==
  ASSUME NEW out, NEW f, NEW name, NEW o
  PROVE  /\ o \in SetField(out, f, Rule("bytes", name)) => o = With(out, name, f.b)
         /\ o \in SetField(out, f, Rule("number", name)) => o = With(out, name, f.n)
         /\ o \in SetField(out, f, Rule("option", name)) => o = With(out, name, f.n % U8)
         /\ o \in SetField(out, f, Rule("list", name)) =>
              o = With(out, name, Append(out[name], f.b))
<1>1. o \in SetField(out, f, Rule("bytes", name)) => o = With(out, name, f.b)
  BY DEF SetField, With, Rule
<1>2. o \in SetField(out, f, Rule("number", name)) => o = With(out, name, f.n)
  BY DEF SetField, With, Rule
<1>3. o \in SetField(out, f, Rule("option", name)) => o = With(out, name, f.n % U8)
  BY DEF SetField, With, Rule
<1>4. o \in SetField(out, f, Rule("list", name)) =>
        o = With(out, name, Append(out[name], f.b))
  BY DEF SetField, With, Rule
<1> QED BY <1>1, <1>2, <1>3, <1>4

\* Bytes of a message: fields whose numbers are naturals.
IsMessage(b) == Len(b) \in Nat /\ \A i \in 1 .. Len(b) : b[i].n \in Nat

\* The bytes of a payload field are a message.
LEMMA FieldIsMessage ==
  ASSUME NEW f \in PayloadField, f.num \in 1 .. 7
  PROVE  IsMessage(f.b)
<1> DEFINE b == f.b
           S == { b[i] : i \in DOMAIN b }
<1>1. b \in Seq(S) /\ \A i \in DOMAIN b : b[i].n \in Nat
  BY BlockStoreAssumption
<1> HIDE DEF S, b
<1>2. Len(b) \in Nat /\ DOMAIN b = 1 .. Len(b)
  BY <1>1
<1> QED BY <1>1, <1>2 DEF IsMessage, b

\* The bytes of an envelope.
Envelope(num, inner, key) == << Bytes(num, inner) >> \o Optional(8, key)

EnvelopeOf(p, key) == [payload |-> p, senderPubKey |-> key]

-----------------------------------------------------------------------------
TransferPayload(to, amount) ==
  [kind |-> "transfer", to |-> to, amount |-> amount]

TransferRules == << << "bytes", "to" >>, << "number", "amount" >> >>

TransferBody(to, amount) == << Bytes(1, to), Varint(2, amount) >>

\* What is read as a transfer has its parts.
LEMMA TransferShape ==
  ASSUME NEW b, IsMessage(b), NEW p \in DecodeTransfer(b)
  PROVE  p = TransferPayload(p.to, p.amount) /\ p.amount \in Nat
<1> DEFINE B == { b[i].b : i \in 1 .. Len(b) } \union {<< >>}
           P == { TransferPayload(to, amount) : to \in B, amount \in Nat }
<1>1. DecodeTransfer(b) = Decode(b, TransferPayload(<< >>, 0), TransferRules)
  BY DEF DecodeTransfer, TransferPayload, TransferRules
<1>2. /\ DOMAIN TransferRules = 1 .. 2 /\ 1 .. 2 = {1, 2}
      /\ TransferRules[1] = Rule("bytes", "to")
      /\ TransferRules[2] = Rule("number", "amount")
  BY DEF TransferRules, Rule
<1>3. TransferPayload(<< >>, 0) \in P
  <2>1. 0 \in Nat /\ << >> \in B
    BY BlockStoreAssumption
  <2> HIDE DEF B
  <2> QED BY <2>1
<1>4. ASSUME NEW i \in 1 .. Len(b), NEW out \in P, b[i].num \in DOMAIN TransferRules,
             NEW o \in SetField(out, b[i], TransferRules[b[i].num])
      PROVE  o \in P
  <2>1. PICK to \in B, amount \in Nat : out = TransferPayload(to, amount)
    OBVIOUS
  <2> DEFINE f == b[i]
  <2>2. f.n \in Nat /\ f.b \in B
    BY DEF IsMessage
  <2>3. f.num \in {1, 2} /\ o \in SetField(out, f, TransferRules[f.num])
    BY <1>2, <1>4
  <2> HIDE DEF f, B
  <2>4. CASE f.num = 1
    <3>2. o = With(out, "to", f.b)
      BY <1>2, <2>3, <2>4, RuleSets
    <3> DEFINE v == f.b
    <3>3. v \in B
      BY <2>2
    <3>4. o = With(out, "to", v)
      BY <3>2
    <3> HIDE DEF v
    <3>6. With(TransferPayload(to, amount), "to", v) = TransferPayload(v, amount)
      BY DEF With, TransferPayload
    <3>5. o = TransferPayload(v, amount)
      BY <2>1, <3>4, <3>6
    <3> QED BY <3>3, <3>5
  <2>5. CASE f.num = 2
    <3>2. o = With(out, "amount", f.n)
      BY <1>2, <2>3, <2>5, RuleSets
    <3> DEFINE v == f.n
    <3>3. v \in Nat
      BY <2>2
    <3>4. o = With(out, "amount", v)
      BY <3>2
    <3> HIDE DEF v
    <3>6. With(TransferPayload(to, amount), "amount", v) = TransferPayload(to, v)
      BY DEF With, TransferPayload
    <3>5. o = TransferPayload(to, v)
      BY <2>1, <3>4, <3>6
    <3> QED BY <3>3, <3>5
  <2> QED BY <2>3, <2>4, <2>5
<1> HIDE DEF P
<1>5. Decode(b, TransferPayload(<< >>, 0), TransferRules) \subseteq P
  BY <1>3, <1>4, DecodeStays DEF IsMessage
<1>6. PICK to \in B, amount \in Nat : p = TransferPayload(to, amount)
  BY <1>1, <1>5 DEF P
<1>7. p.to = to /\ p.amount = amount
  BY <1>6 DEF TransferPayload
<1> QED BY <1>6, <1>7

\* A transfer that was written is read as itself.
LEMMA TransferReadBack ==
  ASSUME NEW to, NEW amount
  PROVE  DecodeTransfer(TransferBody(to, amount)) = Only(TransferPayload(to, amount))
<1> DEFINE b == TransferBody(to, amount)
           r0 == TransferPayload(<< >>, 0)
           r1 == TransferPayload(to, 0)
           r2 == TransferPayload(to, amount)
<1>1. DecodeTransfer(b) = Decode(b, r0, TransferRules)
  BY DEF DecodeTransfer, TransferPayload, TransferRules
<1>2. /\ DOMAIN TransferRules = 1 .. 2 /\ 1 .. 2 = {1, 2}
      /\ TransferRules[1] = Rule("bytes", "to")
      /\ TransferRules[2] = Rule("number", "amount")
  BY DEF TransferRules, Rule
<1>3. /\ With(r0, "to", to) = r1
      /\ With(r1, "amount", amount) = r2
  <2>1. With(r0, "to", to) = r1
    BY DEF With, TransferPayload
  <2>2. With(r1, "amount", amount) = r2
    BY DEF With, TransferPayload
  <2> QED BY <2>1, <2>2
<1>4. /\ Len(b) = 2
      /\ b[1] = Bytes(1, to) /\ b[2] = Varint(2, amount)
  BY DEF TransferBody
<1>5. Len(b) \in Nat
  BY <1>4
<1> HIDE DEF b, r0, r1, r2
<1>6. PICK outs : DecodesTo(outs, b, r0, TransferRules) /\ Decode(b, r0, TransferRules) = outs[Len(b)]
  BY <1>5, DecodeDefined
<1>7. outs[0] = Only(r0) /\ \A i \in 1 .. Len(b) : outs[i] = FieldRead(outs[i - 1], b[i], TransferRules)
  BY <1>6 DEF DecodesTo, Only
<1>8. /\ outs[1] = FieldRead(outs[0], b[1], TransferRules)
      /\ outs[2] = FieldRead(outs[1], b[2], TransferRules)
  BY <1>4, <1>7
<1>20. outs[1] = Only(r1)
  BY <1>2, <1>3, <1>4, <1>8, <1>7, BytesSet
<1>21. outs[2] = Only(r2)
  BY <1>2, <1>3, <1>4, <1>8, <1>20, NumberSet
<1> QED BY <1>1, <1>4, <1>6, <1>21 DEF b, r2

\* How a transfer is written.
LEMMA TransferEncoded ==
  ASSUME NEW to, NEW amount, NEW key
  PROVE  EncodePayload(TransferPayload(to, amount), key) = Envelope(1, TransferBody(to, amount), key)
<1> DEFINE p == TransferPayload(to, amount)
<1>1. p.kind = "transfer" /\ p.to = to /\ p.amount = amount
  BY DEF TransferPayload
<1> HIDE DEF p
<1>2. EncodeTransfer(p) = << Bytes(1, TransferBody(to, amount)) >>
  BY <1>1 DEF EncodeTransfer, TransferBody
<1>3. EncodePayload(p, key) = EncodeTransfer(p) \o Optional(8, key)
  BY <1>1 DEF EncodePayload, Optional
<1> QED BY <1>2, <1>3 DEF Envelope, p

-----------------------------------------------------------------------------
DelegatePayload(validator, amount) ==
  [kind |-> "delegate", validator |-> validator, amount |-> amount]

DelegateRules == << << "bytes", "validator" >>, << "number", "amount" >> >>

DelegateBody(validator, amount) == << Bytes(1, validator), Varint(2, amount) >>

\* What is read as a delegation has its parts.
LEMMA DelegateShape ==
  ASSUME NEW b, IsMessage(b), NEW p \in DecodeStakeDelegate(b)
  PROVE  p = DelegatePayload(p.validator, p.amount) /\ p.amount \in Nat
<1> DEFINE B == { b[i].b : i \in 1 .. Len(b) } \union {<< >>}
           P == { DelegatePayload(validator, amount) : validator \in B, amount \in Nat }
<1>1. DecodeStakeDelegate(b) = Decode(b, DelegatePayload(<< >>, 0), DelegateRules)
  BY DEF DecodeStakeDelegate, DelegatePayload, DelegateRules
<1>2. /\ DOMAIN DelegateRules = 1 .. 2 /\ 1 .. 2 = {1, 2}
      /\ DelegateRules[1] = Rule("bytes", "validator")
      /\ DelegateRules[2] = Rule("number", "amount")
  BY DEF DelegateRules, Rule
<1>3. DelegatePayload(<< >>, 0) \in P
  <2>1. 0 \in Nat /\ << >> \in B
    BY BlockStoreAssumption
  <2> HIDE DEF B
  <2> QED BY <2>1
<1>4. ASSUME NEW i \in 1 .. Len(b), NEW out \in P, b[i].num \in DOMAIN DelegateRules,
             NEW o \in SetField(out, b[i], DelegateRules[b[i].num])
      PROVE  o \in P
  <2>1. PICK validator \in B, amount \in Nat : out = DelegatePayload(validator, amount)
    OBVIOUS
  <2> DEFINE f == b[i]
  <2>2. f.n \in Nat /\ f.b \in B
    BY DEF IsMessage
  <2>3. f.num \in {1, 2} /\ o \in SetField(out, f, DelegateRules[f.num])
    BY <1>2, <1>4
  <2> HIDE DEF f, B
  <2>4. CASE f.num = 1
    <3>2. o = With(out, "validator", f.b)
      BY <1>2, <2>3, <2>4, RuleSets
    <3> DEFINE v == f.b
    <3>3. v \in B
      BY <2>2
    <3>4. o = With(out, "validator", v)
      BY <3>2
    <3> HIDE DEF v
    <3>6. With(DelegatePayload(validator, amount), "validator", v) = DelegatePayload(v, amount)
      BY DEF With, DelegatePayload
    <3>5. o = DelegatePayload(v, amount)
      BY <2>1, <3>4, <3>6
    <3> QED BY <3>3, <3>5
  <2>5. CASE f.num = 2
    <3>2. o = With(out, "amount", f.n)
      BY <1>2, <2>3, <2>5, RuleSets
    <3> DEFINE v == f.n
    <3>3. v \in Nat
      BY <2>2
    <3>4. o = With(out, "amount", v)
      BY <3>2
    <3> HIDE DEF v
    <3>6. With(DelegatePayload(validator, amount), "amount", v) = DelegatePayload(validator, v)
      BY DEF With, DelegatePayload
    <3>5. o = DelegatePayload(validator, v)
      BY <2>1, <3>4, <3>6
    <3> QED BY <3>3, <3>5
  <2> QED BY <2>3, <2>4, <2>5
<1> HIDE DEF P
<1>5. Decode(b, DelegatePayload(<< >>, 0), DelegateRules) \subseteq P
  BY <1>3, <1>4, DecodeStays DEF IsMessage
<1>6. PICK validator \in B, amount \in Nat : p = DelegatePayload(validator, amount)
  BY <1>1, <1>5 DEF P
<1>7. p.validator = validator /\ p.amount = amount
  BY <1>6 DEF DelegatePayload
<1> QED BY <1>6, <1>7

\* A delegation that was written is read as itself.
LEMMA DelegateReadBack ==
  ASSUME NEW validator, NEW amount
  PROVE  DecodeStakeDelegate(DelegateBody(validator, amount)) = Only(DelegatePayload(validator, amount))
<1> DEFINE b == DelegateBody(validator, amount)
           r0 == DelegatePayload(<< >>, 0)
           r1 == DelegatePayload(validator, 0)
           r2 == DelegatePayload(validator, amount)
<1>1. DecodeStakeDelegate(b) = Decode(b, r0, DelegateRules)
  BY DEF DecodeStakeDelegate, DelegatePayload, DelegateRules
<1>2. /\ DOMAIN DelegateRules = 1 .. 2 /\ 1 .. 2 = {1, 2}
      /\ DelegateRules[1] = Rule("bytes", "validator")
      /\ DelegateRules[2] = Rule("number", "amount")
  BY DEF DelegateRules, Rule
<1>3. /\ With(r0, "validator", validator) = r1
      /\ With(r1, "amount", amount) = r2
  <2>1. With(r0, "validator", validator) = r1
    BY DEF With, DelegatePayload
  <2>2. With(r1, "amount", amount) = r2
    BY DEF With, DelegatePayload
  <2> QED BY <2>1, <2>2
<1>4. /\ Len(b) = 2
      /\ b[1] = Bytes(1, validator) /\ b[2] = Varint(2, amount)
  BY DEF DelegateBody
<1>5. Len(b) \in Nat
  BY <1>4
<1> HIDE DEF b, r0, r1, r2
<1>6. PICK outs : DecodesTo(outs, b, r0, DelegateRules) /\ Decode(b, r0, DelegateRules) = outs[Len(b)]
  BY <1>5, DecodeDefined
<1>7. outs[0] = Only(r0) /\ \A i \in 1 .. Len(b) : outs[i] = FieldRead(outs[i - 1], b[i], DelegateRules)
  BY <1>6 DEF DecodesTo, Only
<1>8. /\ outs[1] = FieldRead(outs[0], b[1], DelegateRules)
      /\ outs[2] = FieldRead(outs[1], b[2], DelegateRules)
  BY <1>4, <1>7
<1>20. outs[1] = Only(r1)
  BY <1>2, <1>3, <1>4, <1>8, <1>7, BytesSet
<1>21. outs[2] = Only(r2)
  BY <1>2, <1>3, <1>4, <1>8, <1>20, NumberSet
<1> QED BY <1>1, <1>4, <1>6, <1>21 DEF b, r2

\* How a delegation is written.
LEMMA DelegateEncoded ==
  ASSUME NEW validator, NEW amount, NEW key
  PROVE  EncodePayload(DelegatePayload(validator, amount), key) = Envelope(2, DelegateBody(validator, amount), key)
<1> DEFINE p == DelegatePayload(validator, amount)
<1>1. p.kind = "delegate" /\ p.validator = validator /\ p.amount = amount
  BY DEF DelegatePayload
<1> HIDE DEF p
<1>2. EncodeStakeDelegate(p) = << Bytes(2, DelegateBody(validator, amount)) >>
  BY <1>1 DEF EncodeStakeDelegate, DelegateBody
<1>3. EncodePayload(p, key) = EncodeStakeDelegate(p) \o Optional(8, key)
  BY <1>1 DEF EncodePayload, Optional
<1> QED BY <1>2, <1>3 DEF Envelope, p

-----------------------------------------------------------------------------
UndelegatePayload(validator, amount) ==
  [kind |-> "undelegate", validator |-> validator, amount |-> amount]

UndelegateRules == << << "bytes", "validator" >>, << "number", "amount" >> >>

UndelegateBody(validator, amount) == << Bytes(1, validator), Varint(2, amount) >>

\* What is read as an undelegation has its parts.
LEMMA UndelegateShape ==
  ASSUME NEW b, IsMessage(b), NEW p \in DecodeStakeUndelegate(b)
  PROVE  p = UndelegatePayload(p.validator, p.amount) /\ p.amount \in Nat
<1> DEFINE B == { b[i].b : i \in 1 .. Len(b) } \union {<< >>}
           P == { UndelegatePayload(validator, amount) : validator \in B, amount \in Nat }
<1>1. DecodeStakeUndelegate(b) = Decode(b, UndelegatePayload(<< >>, 0), UndelegateRules)
  BY DEF DecodeStakeUndelegate, UndelegatePayload, UndelegateRules
<1>2. /\ DOMAIN UndelegateRules = 1 .. 2 /\ 1 .. 2 = {1, 2}
      /\ UndelegateRules[1] = Rule("bytes", "validator")
      /\ UndelegateRules[2] = Rule("number", "amount")
  BY DEF UndelegateRules, Rule
<1>3. UndelegatePayload(<< >>, 0) \in P
  <2>1. 0 \in Nat /\ << >> \in B
    BY BlockStoreAssumption
  <2> HIDE DEF B
  <2> QED BY <2>1
<1>4. ASSUME NEW i \in 1 .. Len(b), NEW out \in P, b[i].num \in DOMAIN UndelegateRules,
             NEW o \in SetField(out, b[i], UndelegateRules[b[i].num])
      PROVE  o \in P
  <2>1. PICK validator \in B, amount \in Nat : out = UndelegatePayload(validator, amount)
    OBVIOUS
  <2> DEFINE f == b[i]
  <2>2. f.n \in Nat /\ f.b \in B
    BY DEF IsMessage
  <2>3. f.num \in {1, 2} /\ o \in SetField(out, f, UndelegateRules[f.num])
    BY <1>2, <1>4
  <2> HIDE DEF f, B
  <2>4. CASE f.num = 1
    <3>2. o = With(out, "validator", f.b)
      BY <1>2, <2>3, <2>4, RuleSets
    <3> DEFINE v == f.b
    <3>3. v \in B
      BY <2>2
    <3>4. o = With(out, "validator", v)
      BY <3>2
    <3> HIDE DEF v
    <3>6. With(UndelegatePayload(validator, amount), "validator", v) = UndelegatePayload(v, amount)
      BY DEF With, UndelegatePayload
    <3>5. o = UndelegatePayload(v, amount)
      BY <2>1, <3>4, <3>6
    <3> QED BY <3>3, <3>5
  <2>5. CASE f.num = 2
    <3>2. o = With(out, "amount", f.n)
      BY <1>2, <2>3, <2>5, RuleSets
    <3> DEFINE v == f.n
    <3>3. v \in Nat
      BY <2>2
    <3>4. o = With(out, "amount", v)
      BY <3>2
    <3> HIDE DEF v
    <3>6. With(UndelegatePayload(validator, amount), "amount", v) = UndelegatePayload(validator, v)
      BY DEF With, UndelegatePayload
    <3>5. o = UndelegatePayload(validator, v)
      BY <2>1, <3>4, <3>6
    <3> QED BY <3>3, <3>5
  <2> QED BY <2>3, <2>4, <2>5
<1> HIDE DEF P
<1>5. Decode(b, UndelegatePayload(<< >>, 0), UndelegateRules) \subseteq P
  BY <1>3, <1>4, DecodeStays DEF IsMessage
<1>6. PICK validator \in B, amount \in Nat : p = UndelegatePayload(validator, amount)
  BY <1>1, <1>5 DEF P
<1>7. p.validator = validator /\ p.amount = amount
  BY <1>6 DEF UndelegatePayload
<1> QED BY <1>6, <1>7

\* An undelegation that was written is read as itself.
LEMMA UndelegateReadBack ==
  ASSUME NEW validator, NEW amount
  PROVE  DecodeStakeUndelegate(UndelegateBody(validator, amount)) = Only(UndelegatePayload(validator, amount))
<1> DEFINE b == UndelegateBody(validator, amount)
           r0 == UndelegatePayload(<< >>, 0)
           r1 == UndelegatePayload(validator, 0)
           r2 == UndelegatePayload(validator, amount)
<1>1. DecodeStakeUndelegate(b) = Decode(b, r0, UndelegateRules)
  BY DEF DecodeStakeUndelegate, UndelegatePayload, UndelegateRules
<1>2. /\ DOMAIN UndelegateRules = 1 .. 2 /\ 1 .. 2 = {1, 2}
      /\ UndelegateRules[1] = Rule("bytes", "validator")
      /\ UndelegateRules[2] = Rule("number", "amount")
  BY DEF UndelegateRules, Rule
<1>3. /\ With(r0, "validator", validator) = r1
      /\ With(r1, "amount", amount) = r2
  <2>1. With(r0, "validator", validator) = r1
    BY DEF With, UndelegatePayload
  <2>2. With(r1, "amount", amount) = r2
    BY DEF With, UndelegatePayload
  <2> QED BY <2>1, <2>2
<1>4. /\ Len(b) = 2
      /\ b[1] = Bytes(1, validator) /\ b[2] = Varint(2, amount)
  BY DEF UndelegateBody
<1>5. Len(b) \in Nat
  BY <1>4
<1> HIDE DEF b, r0, r1, r2
<1>6. PICK outs : DecodesTo(outs, b, r0, UndelegateRules) /\ Decode(b, r0, UndelegateRules) = outs[Len(b)]
  BY <1>5, DecodeDefined
<1>7. outs[0] = Only(r0) /\ \A i \in 1 .. Len(b) : outs[i] = FieldRead(outs[i - 1], b[i], UndelegateRules)
  BY <1>6 DEF DecodesTo, Only
<1>8. /\ outs[1] = FieldRead(outs[0], b[1], UndelegateRules)
      /\ outs[2] = FieldRead(outs[1], b[2], UndelegateRules)
  BY <1>4, <1>7
<1>20. outs[1] = Only(r1)
  BY <1>2, <1>3, <1>4, <1>8, <1>7, BytesSet
<1>21. outs[2] = Only(r2)
  BY <1>2, <1>3, <1>4, <1>8, <1>20, NumberSet
<1> QED BY <1>1, <1>4, <1>6, <1>21 DEF b, r2

\* How an undelegation is written.
LEMMA UndelegateEncoded ==
  ASSUME NEW validator, NEW amount, NEW key
  PROVE  EncodePayload(UndelegatePayload(validator, amount), key) = Envelope(3, UndelegateBody(validator, amount), key)
<1> DEFINE p == UndelegatePayload(validator, amount)
<1>1. p.kind = "undelegate" /\ p.validator = validator /\ p.amount = amount
  BY DEF UndelegatePayload
<1> HIDE DEF p
<1>2. EncodeStakeUndelegate(p) = << Bytes(3, UndelegateBody(validator, amount)) >>
  BY <1>1 DEF EncodeStakeUndelegate, UndelegateBody
<1>3. EncodePayload(p, key) = EncodeStakeUndelegate(p) \o Optional(8, key)
  BY <1>1 DEF EncodePayload, Optional
<1> QED BY <1>2, <1>3 DEF Envelope, p

-----------------------------------------------------------------------------
DeployPayload(code, salt) ==
  [kind |-> "deploy", code |-> code, salt |-> salt]

DeployRules == << << "bytes", "code" >>, << "bytes", "salt" >> >>

DeployBody(code, salt) == << Bytes(1, code), Bytes(2, salt) >>

\* What is read as a deployment has its parts.
LEMMA DeployShape ==
  ASSUME NEW b, IsMessage(b), NEW p \in DecodeContractDeploy(b)
  PROVE  p = DeployPayload(p.code, p.salt)
<1> DEFINE B == { b[i].b : i \in 1 .. Len(b) } \union {<< >>}
           P == { DeployPayload(code, salt) : code \in B, salt \in B }
<1>1. DecodeContractDeploy(b) = Decode(b, DeployPayload(<< >>, << >>), DeployRules)
  BY DEF DecodeContractDeploy, DeployPayload, DeployRules
<1>2. /\ DOMAIN DeployRules = 1 .. 2 /\ 1 .. 2 = {1, 2}
      /\ DeployRules[1] = Rule("bytes", "code")
      /\ DeployRules[2] = Rule("bytes", "salt")
  BY DEF DeployRules, Rule
<1>3. DeployPayload(<< >>, << >>) \in P
  <2>1. << >> \in B
    BY BlockStoreAssumption
  <2> HIDE DEF B
  <2> QED BY <2>1
<1>4. ASSUME NEW i \in 1 .. Len(b), NEW out \in P, b[i].num \in DOMAIN DeployRules,
             NEW o \in SetField(out, b[i], DeployRules[b[i].num])
      PROVE  o \in P
  <2>1. PICK code \in B, salt \in B : out = DeployPayload(code, salt)
    OBVIOUS
  <2> DEFINE f == b[i]
  <2>2. f.n \in Nat /\ f.b \in B
    BY DEF IsMessage
  <2>3. f.num \in {1, 2} /\ o \in SetField(out, f, DeployRules[f.num])
    BY <1>2, <1>4
  <2> HIDE DEF f, B
  <2>4. CASE f.num = 1
    <3>2. o = With(out, "code", f.b)
      BY <1>2, <2>3, <2>4, RuleSets
    <3> DEFINE v == f.b
    <3>3. v \in B
      BY <2>2
    <3>4. o = With(out, "code", v)
      BY <3>2
    <3> HIDE DEF v
    <3>6. With(DeployPayload(code, salt), "code", v) = DeployPayload(v, salt)
      BY DEF With, DeployPayload
    <3>5. o = DeployPayload(v, salt)
      BY <2>1, <3>4, <3>6
    <3> QED BY <3>3, <3>5
  <2>5. CASE f.num = 2
    <3>2. o = With(out, "salt", f.b)
      BY <1>2, <2>3, <2>5, RuleSets
    <3> DEFINE v == f.b
    <3>3. v \in B
      BY <2>2
    <3>4. o = With(out, "salt", v)
      BY <3>2
    <3> HIDE DEF v
    <3>6. With(DeployPayload(code, salt), "salt", v) = DeployPayload(code, v)
      BY DEF With, DeployPayload
    <3>5. o = DeployPayload(code, v)
      BY <2>1, <3>4, <3>6
    <3> QED BY <3>3, <3>5
  <2> QED BY <2>3, <2>4, <2>5
<1> HIDE DEF P
<1>5. Decode(b, DeployPayload(<< >>, << >>), DeployRules) \subseteq P
  BY <1>3, <1>4, DecodeStays DEF IsMessage
<1>6. PICK code \in B, salt \in B : p = DeployPayload(code, salt)
  BY <1>1, <1>5 DEF P
<1>7. p.code = code /\ p.salt = salt
  BY <1>6 DEF DeployPayload
<1> QED BY <1>6, <1>7

\* A deployment that was written is read as itself.
LEMMA DeployReadBack ==
  ASSUME NEW code, NEW salt
  PROVE  DecodeContractDeploy(DeployBody(code, salt)) = Only(DeployPayload(code, salt))
<1> DEFINE b == DeployBody(code, salt)
           r0 == DeployPayload(<< >>, << >>)
           r1 == DeployPayload(code, << >>)
           r2 == DeployPayload(code, salt)
<1>1. DecodeContractDeploy(b) = Decode(b, r0, DeployRules)
  BY DEF DecodeContractDeploy, DeployPayload, DeployRules
<1>2. /\ DOMAIN DeployRules = 1 .. 2 /\ 1 .. 2 = {1, 2}
      /\ DeployRules[1] = Rule("bytes", "code")
      /\ DeployRules[2] = Rule("bytes", "salt")
  BY DEF DeployRules, Rule
<1>3. /\ With(r0, "code", code) = r1
      /\ With(r1, "salt", salt) = r2
  <2>1. With(r0, "code", code) = r1
    BY DEF With, DeployPayload
  <2>2. With(r1, "salt", salt) = r2
    BY DEF With, DeployPayload
  <2> QED BY <2>1, <2>2
<1>4. /\ Len(b) = 2
      /\ b[1] = Bytes(1, code) /\ b[2] = Bytes(2, salt)
  BY DEF DeployBody
<1>5. Len(b) \in Nat
  BY <1>4
<1> HIDE DEF b, r0, r1, r2
<1>6. PICK outs : DecodesTo(outs, b, r0, DeployRules) /\ Decode(b, r0, DeployRules) = outs[Len(b)]
  BY <1>5, DecodeDefined
<1>7. outs[0] = Only(r0) /\ \A i \in 1 .. Len(b) : outs[i] = FieldRead(outs[i - 1], b[i], DeployRules)
  BY <1>6 DEF DecodesTo, Only
<1>8. /\ outs[1] = FieldRead(outs[0], b[1], DeployRules)
      /\ outs[2] = FieldRead(outs[1], b[2], DeployRules)
  BY <1>4, <1>7
<1>20. outs[1] = Only(r1)
  BY <1>2, <1>3, <1>4, <1>8, <1>7, BytesSet
<1>21. outs[2] = Only(r2)
  BY <1>2, <1>3, <1>4, <1>8, <1>20, BytesSet
<1> QED BY <1>1, <1>4, <1>6, <1>21 DEF b, r2

\* How a deployment is written.
LEMMA DeployEncoded ==
  ASSUME NEW code, NEW salt, NEW key
  PROVE  EncodePayload(DeployPayload(code, salt), key) = Envelope(4, DeployBody(code, salt), key)
<1> DEFINE p == DeployPayload(code, salt)
<1>1. p.kind = "deploy" /\ p.code = code /\ p.salt = salt
  BY DEF DeployPayload
<1> HIDE DEF p
<1>2. EncodeContractDeploy(p) = << Bytes(4, DeployBody(code, salt)) >>
  BY <1>1 DEF EncodeContractDeploy, DeployBody
<1>3. EncodePayload(p, key) = EncodeContractDeploy(p) \o Optional(8, key)
  BY <1>1 DEF EncodePayload, Optional
<1> QED BY <1>2, <1>3 DEF Envelope, p

-----------------------------------------------------------------------------
CallPayload(address, method, args) ==
  [kind |-> "call", address |-> address, method |-> method, args |-> args]

CallRules == << << "bytes", "address" >>, << "bytes", "method" >>, << "list", "args" >> >>

CallBody(address, method, args) == << Bytes(1, address), Bytes(2, method) >> \o ListOf(3, args)

\* What is read as a call has its parts.
LEMMA CallShape ==
  ASSUME NEW b, IsMessage(b), NEW p \in DecodeContractCall(b)
  PROVE  p = CallPayload(p.address, p.method, p.args) /\ (\E S : p.args \in Seq(S))
<1> DEFINE B == { b[i].b : i \in 1 .. Len(b) } \union {<< >>}
           Lists == Seq(B)
           P == { CallPayload(address, method, args) : address \in B, method \in B, args \in Lists }
<1>1. DecodeContractCall(b) = Decode(b, CallPayload(<< >>, << >>, << >>), CallRules)
  BY DEF DecodeContractCall, CallPayload, CallRules
<1>2. /\ DOMAIN CallRules = 1 .. 3 /\ 1 .. 3 = {1, 2, 3}
      /\ CallRules[1] = Rule("bytes", "address")
      /\ CallRules[2] = Rule("bytes", "method")
      /\ CallRules[3] = Rule("list", "args")
  BY DEF CallRules, Rule
<1>8. << >> \in Lists /\ << >> \in B
  OBVIOUS
<1>9. \A s \in Lists : \A v \in B : Append(s, v) \in Lists
  OBVIOUS
<1>10. \A s \in Lists : s \in Seq(B)
  OBVIOUS
<1> HIDE DEF Lists
<1>3. CallPayload(<< >>, << >>, << >>) \in P
  <2>1. << >> \in B /\ << >> \in Lists
    BY <1>8
  <2> HIDE DEF B
  <2> QED BY <2>1
<1>4. ASSUME NEW i \in 1 .. Len(b), NEW out \in P, b[i].num \in DOMAIN CallRules,
             NEW o \in SetField(out, b[i], CallRules[b[i].num])
      PROVE  o \in P
  <2>1. PICK address \in B, method \in B, args \in Lists : out = CallPayload(address, method, args)
    OBVIOUS
  <2> DEFINE f == b[i]
  <2>2. f.n \in Nat /\ f.b \in B
    BY DEF IsMessage
  <2>3. f.num \in {1, 2, 3} /\ o \in SetField(out, f, CallRules[f.num])
    BY <1>2, <1>4
  <2> HIDE DEF f, B
  <2>4. CASE f.num = 1
    <3>2. o = With(out, "address", f.b)
      BY <1>2, <2>3, <2>4, RuleSets
    <3> DEFINE v == f.b
    <3>3. v \in B
      BY <2>2
    <3>4. o = With(out, "address", v)
      BY <3>2
    <3> HIDE DEF v
    <3>6. With(CallPayload(address, method, args), "address", v) = CallPayload(v, method, args)
      BY DEF With, CallPayload
    <3>5. o = CallPayload(v, method, args)
      BY <2>1, <3>4, <3>6
    <3> QED BY <3>3, <3>5
  <2>5. CASE f.num = 2
    <3>2. o = With(out, "method", f.b)
      BY <1>2, <2>3, <2>5, RuleSets
    <3> DEFINE v == f.b
    <3>3. v \in B
      BY <2>2
    <3>4. o = With(out, "method", v)
      BY <3>2
    <3> HIDE DEF v
    <3>6. With(CallPayload(address, method, args), "method", v) = CallPayload(address, v, args)
      BY DEF With, CallPayload
    <3>5. o = CallPayload(address, v, args)
      BY <2>1, <3>4, <3>6
    <3> QED BY <3>3, <3>5
  <2>6. CASE f.num = 3
    <3>1. out["args"] = args
      BY <2>1 DEF CallPayload
    <3>2. o = With(out, "args", Append(args, f.b))
      BY <1>2, <2>3, <2>6, <3>1, RuleSets
    <3> DEFINE v == Append(args, f.b)
    <3>3. v \in Lists
      BY <1>9, <2>2
    <3>4. o = With(out, "args", v)
      BY <3>2
    <3> HIDE DEF v
    <3>6. With(CallPayload(address, method, args), "args", v) = CallPayload(address, method, v)
      BY DEF With, CallPayload
    <3>5. o = CallPayload(address, method, v)
      BY <2>1, <3>4, <3>6
    <3> QED BY <3>3, <3>5
  <2> QED BY <2>3, <2>4, <2>5, <2>6
<1> HIDE DEF P
<1>5. Decode(b, CallPayload(<< >>, << >>, << >>), CallRules) \subseteq P
  BY <1>3, <1>4, DecodeStays DEF IsMessage
<1>6. PICK address \in B, method \in B, args \in Lists : p = CallPayload(address, method, args)
  BY <1>1, <1>5 DEF P
<1>7. p.address = address /\ p.method = method /\ p.args = args
  BY <1>6 DEF CallPayload
<1> QED BY <1>6, <1>7, <1>10

\* A call that was written is read as itself.
LEMMA CallReadBack ==
  ASSUME NEW address, NEW method, NEW S, NEW args \in Seq(S)
  PROVE  DecodeContractCall(CallBody(address, method, args)) = Only(CallPayload(address, method, args))
<1> DEFINE b == CallBody(address, method, args)
           r0 == CallPayload(<< >>, << >>, << >>)
           r1 == CallPayload(address, << >>, << >>)
           r2 == CallPayload(address, method, << >>)
           r3 == CallPayload(address, method, args)
<1>1. DecodeContractCall(b) = Decode(b, r0, CallRules)
  BY DEF DecodeContractCall, CallPayload, CallRules
<1>2. /\ DOMAIN CallRules = 1 .. 3 /\ 1 .. 3 = {1, 2, 3}
      /\ CallRules[1] = Rule("bytes", "address")
      /\ CallRules[2] = Rule("bytes", "method")
      /\ CallRules[3] = Rule("list", "args")
  BY DEF CallRules, Rule
<1>3. /\ With(r0, "address", address) = r1
      /\ With(r1, "method", method) = r2
      /\ With(r2, "args", args) = r3
  <2>1. With(r0, "address", address) = r1
    BY DEF With, CallPayload
  <2>2. With(r1, "method", method) = r2
    BY DEF With, CallPayload
  <2>3. With(r2, "args", args) = r3
    BY DEF With, CallPayload
  <2> QED BY <2>1, <2>2, <2>3
<1> DEFINE head == << Bytes(1, address), Bytes(2, method) >>
           end == ListOf(3, args)
           A == {Bytes(1, address), Bytes(2, method)}
           C == { Bytes(3, v) : v \in S }
           All == A \union C
<1>10. head \in Seq(A) /\ Len(head) = 2 /\ head[1] = Bytes(1, address) /\ head[2] = Bytes(2, method)
  OBVIOUS
<1>11. end \in Seq(C) /\ Len(end) = Len(args) /\ \A i \in 1 .. Len(args) : end[i] = Bytes(3, args[i])
  BY DEF ListOf
<1>12. b = head \o end
  BY DEF CallBody
<1> HIDE DEF A, C, head, end, b
<1>13. head \in Seq(All) /\ end \in Seq(All)
  BY <1>10, <1>11
<1> HIDE DEF All
<1>14. /\ b \in Seq(All) /\ Len(b) = Len(head) + Len(end)
       /\ \A i \in 1 .. Len(head) : b[i] = head[i]
       /\ \A i \in 1 .. Len(end) : b[Len(head) + i] = end[i]
  BY <1>12, <1>13, Concatenation
<1>4. /\ Len(args) \in Nat /\ Len(b) = 2 + Len(args)
      /\ b[1] = Bytes(1, address) /\ b[2] = Bytes(2, method)
      /\ \A i \in 1 .. Len(args) : b[2 + i] = Bytes(3, args[i])
  BY <1>10, <1>11, <1>14
<1>5. Len(b) \in Nat
  BY <1>4
<1>15. "args" \in DOMAIN r2 /\ With(r2, "args", << >>) = r2
  BY DEF With, CallPayload
<1> HIDE DEF b, r0, r1, r2, r3
<1>6. PICK outs : DecodesTo(outs, b, r0, CallRules) /\ Decode(b, r0, CallRules) = outs[Len(b)]
  BY <1>5, DecodeDefined
<1>7. outs[0] = Only(r0) /\ \A i \in 1 .. Len(b) : outs[i] = FieldRead(outs[i - 1], b[i], CallRules)
  BY <1>6 DEF DecodesTo, Only
<1>8. /\ outs[1] = FieldRead(outs[0], b[1], CallRules)
      /\ outs[2] = FieldRead(outs[1], b[2], CallRules)
  BY <1>4, <1>7
<1>20. outs[1] = Only(r1)
  BY <1>2, <1>3, <1>4, <1>8, <1>7, BytesSet
<1>21. outs[2] = Only(r2)
  BY <1>2, <1>3, <1>4, <1>8, <1>20, BytesSet
<1>22. outs[2 + Len(args)] = Only(With(r2, "args", args))
  <2>1. ASSUME NEW i \in 1 .. Len(args)
        PROVE  outs[2 + i] = FieldRead(outs[2 + i - 1], Bytes(3, args[i]), CallRules)
    <3>1. 2 + i \in 1 .. Len(b) /\ b[2 + i] = Bytes(3, args[i])
      BY <1>4
    <3> QED BY <1>7, <3>1
  <2>2. ReadsList(outs, 2, args, 3, CallRules)
    BY <2>1 DEF ReadsList
  <2>3. /\ 3 # 0 /\ 3 \in DOMAIN CallRules /\ CallRules[3] = Rule("list", "args") /\ 2 \in Nat
        /\ "args" \in DOMAIN r2 /\ With(r2, "args", << >>) = r2
    BY <1>2, <1>15
  <2> QED BY <1>21, <2>2, <2>3, ListRead
<1> QED BY <1>1, <1>3, <1>4, <1>6, <1>22 DEF b, r3

\* How a call is written.
LEMMA CallEncoded ==
  ASSUME NEW address, NEW method, NEW args, NEW key
  PROVE  EncodePayload(CallPayload(address, method, args), key) = Envelope(5, CallBody(address, method, args), key)
<1> DEFINE p == CallPayload(address, method, args)
<1>1. p.kind = "call" /\ p.address = address /\ p.method = method /\ p.args = args
  BY DEF CallPayload
<1> HIDE DEF p
<1>2. EncodeContractCall(p) = << Bytes(5, CallBody(address, method, args)) >>
  BY <1>1 DEF EncodeContractCall, CallBody
<1>3. EncodePayload(p, key) = EncodeContractCall(p) \o Optional(8, key)
  BY <1>1 DEF EncodePayload, Optional
<1> QED BY <1>2, <1>3 DEF Envelope, p

-----------------------------------------------------------------------------
GovernPayload(title, description, paramKey, paramValue) ==
  [kind |-> "proposal", title |-> title, description |-> description, paramKey |-> paramKey, paramValue |-> paramValue]

GovernRules == << << "bytes", "title" >>, << "bytes", "description" >>, << "bytes", "paramKey" >>, << "bytes", "paramValue" >> >>

GovernBody(title, description, paramKey, paramValue) == << Bytes(1, title), Bytes(2, description), Bytes(3, paramKey), Bytes(4, paramValue) >>

\* What is read as a governance proposal has its parts.
LEMMA GovernShape ==
  ASSUME NEW b, IsMessage(b), NEW p \in DecodeGovernanceProposal(b)
  PROVE  p = GovernPayload(p.title, p.description, p.paramKey, p.paramValue)
<1> DEFINE B == { b[i].b : i \in 1 .. Len(b) } \union {<< >>}
           P == { GovernPayload(title, description, paramKey, paramValue) : title \in B, description \in B, paramKey \in B, paramValue \in B }
<1>1. DecodeGovernanceProposal(b) = Decode(b, GovernPayload(<< >>, << >>, << >>, << >>), GovernRules)
  BY DEF DecodeGovernanceProposal, GovernPayload, GovernRules
<1>2. /\ DOMAIN GovernRules = 1 .. 4 /\ 1 .. 4 = {1, 2, 3, 4}
      /\ GovernRules[1] = Rule("bytes", "title")
      /\ GovernRules[2] = Rule("bytes", "description")
      /\ GovernRules[3] = Rule("bytes", "paramKey")
      /\ GovernRules[4] = Rule("bytes", "paramValue")
  BY DEF GovernRules, Rule
<1>3. GovernPayload(<< >>, << >>, << >>, << >>) \in P
  <2>1. << >> \in B
    BY BlockStoreAssumption
  <2> HIDE DEF B
  <2> QED BY <2>1
<1>4. ASSUME NEW i \in 1 .. Len(b), NEW out \in P, b[i].num \in DOMAIN GovernRules,
             NEW o \in SetField(out, b[i], GovernRules[b[i].num])
      PROVE  o \in P
  <2>1. PICK title \in B, description \in B, paramKey \in B, paramValue \in B : out = GovernPayload(title, description, paramKey, paramValue)
    OBVIOUS
  <2> DEFINE f == b[i]
  <2>2. f.n \in Nat /\ f.b \in B
    BY DEF IsMessage
  <2>3. f.num \in {1, 2, 3, 4} /\ o \in SetField(out, f, GovernRules[f.num])
    BY <1>2, <1>4
  <2> HIDE DEF f, B
  <2>4. CASE f.num = 1
    <3>2. o = With(out, "title", f.b)
      BY <1>2, <2>3, <2>4, RuleSets
    <3> DEFINE v == f.b
    <3>3. v \in B
      BY <2>2
    <3>4. o = With(out, "title", v)
      BY <3>2
    <3> HIDE DEF v
    <3>6. With(GovernPayload(title, description, paramKey, paramValue), "title", v) = GovernPayload(v, description, paramKey, paramValue)
      BY DEF With, GovernPayload
    <3>5. o = GovernPayload(v, description, paramKey, paramValue)
      BY <2>1, <3>4, <3>6
    <3> QED BY <3>3, <3>5
  <2>5. CASE f.num = 2
    <3>2. o = With(out, "description", f.b)
      BY <1>2, <2>3, <2>5, RuleSets
    <3> DEFINE v == f.b
    <3>3. v \in B
      BY <2>2
    <3>4. o = With(out, "description", v)
      BY <3>2
    <3> HIDE DEF v
    <3>6. With(GovernPayload(title, description, paramKey, paramValue), "description", v) = GovernPayload(title, v, paramKey, paramValue)
      BY DEF With, GovernPayload
    <3>5. o = GovernPayload(title, v, paramKey, paramValue)
      BY <2>1, <3>4, <3>6
    <3> QED BY <3>3, <3>5
  <2>6. CASE f.num = 3
    <3>2. o = With(out, "paramKey", f.b)
      BY <1>2, <2>3, <2>6, RuleSets
    <3> DEFINE v == f.b
    <3>3. v \in B
      BY <2>2
    <3>4. o = With(out, "paramKey", v)
      BY <3>2
    <3> HIDE DEF v
    <3>6. With(GovernPayload(title, description, paramKey, paramValue), "paramKey", v) = GovernPayload(title, description, v, paramValue)
      BY DEF With, GovernPayload
    <3>5. o = GovernPayload(title, description, v, paramValue)
      BY <2>1, <3>4, <3>6
    <3> QED BY <3>3, <3>5
  <2>7. CASE f.num = 4
    <3>2. o = With(out, "paramValue", f.b)
      BY <1>2, <2>3, <2>7, RuleSets
    <3> DEFINE v == f.b
    <3>3. v \in B
      BY <2>2
    <3>4. o = With(out, "paramValue", v)
      BY <3>2
    <3> HIDE DEF v
    <3>6. With(GovernPayload(title, description, paramKey, paramValue), "paramValue", v) = GovernPayload(title, description, paramKey, v)
      BY DEF With, GovernPayload
    <3>5. o = GovernPayload(title, description, paramKey, v)
      BY <2>1, <3>4, <3>6
    <3> QED BY <3>3, <3>5
  <2> QED BY <2>3, <2>4, <2>5, <2>6, <2>7
<1> HIDE DEF P
<1>5. Decode(b, GovernPayload(<< >>, << >>, << >>, << >>), GovernRules) \subseteq P
  BY <1>3, <1>4, DecodeStays DEF IsMessage
<1>6. PICK title \in B, description \in B, paramKey \in B, paramValue \in B : p = GovernPayload(title, description, paramKey, paramValue)
  BY <1>1, <1>5 DEF P
<1>7. p.title = title /\ p.description = description /\ p.paramKey = paramKey /\ p.paramValue = paramValue
  BY <1>6 DEF GovernPayload
<1> QED BY <1>6, <1>7

\* A governance proposal that was written is read as itself.
LEMMA GovernReadBack ==
  ASSUME NEW title, NEW description, NEW paramKey, NEW paramValue
  PROVE  DecodeGovernanceProposal(GovernBody(title, description, paramKey, paramValue)) = Only(GovernPayload(title, description, paramKey, paramValue))
<1> DEFINE b == GovernBody(title, description, paramKey, paramValue)
           r0 == GovernPayload(<< >>, << >>, << >>, << >>)
           r1 == GovernPayload(title, << >>, << >>, << >>)
           r2 == GovernPayload(title, description, << >>, << >>)
           r3 == GovernPayload(title, description, paramKey, << >>)
           r4 == GovernPayload(title, description, paramKey, paramValue)
<1>1. DecodeGovernanceProposal(b) = Decode(b, r0, GovernRules)
  BY DEF DecodeGovernanceProposal, GovernPayload, GovernRules
<1>2. /\ DOMAIN GovernRules = 1 .. 4 /\ 1 .. 4 = {1, 2, 3, 4}
      /\ GovernRules[1] = Rule("bytes", "title")
      /\ GovernRules[2] = Rule("bytes", "description")
      /\ GovernRules[3] = Rule("bytes", "paramKey")
      /\ GovernRules[4] = Rule("bytes", "paramValue")
  BY DEF GovernRules, Rule
<1>3. /\ With(r0, "title", title) = r1
      /\ With(r1, "description", description) = r2
      /\ With(r2, "paramKey", paramKey) = r3
      /\ With(r3, "paramValue", paramValue) = r4
  <2>1. With(r0, "title", title) = r1
    BY DEF With, GovernPayload
  <2>2. With(r1, "description", description) = r2
    BY DEF With, GovernPayload
  <2>3. With(r2, "paramKey", paramKey) = r3
    BY DEF With, GovernPayload
  <2>4. With(r3, "paramValue", paramValue) = r4
    BY DEF With, GovernPayload
  <2> QED BY <2>1, <2>2, <2>3, <2>4
<1>4. /\ Len(b) = 4
      /\ b[1] = Bytes(1, title) /\ b[2] = Bytes(2, description) /\ b[3] = Bytes(3, paramKey) /\ b[4] = Bytes(4, paramValue)
  BY DEF GovernBody
<1>5. Len(b) \in Nat
  BY <1>4
<1> HIDE DEF b, r0, r1, r2, r3, r4
<1>6. PICK outs : DecodesTo(outs, b, r0, GovernRules) /\ Decode(b, r0, GovernRules) = outs[Len(b)]
  BY <1>5, DecodeDefined
<1>7. outs[0] = Only(r0) /\ \A i \in 1 .. Len(b) : outs[i] = FieldRead(outs[i - 1], b[i], GovernRules)
  BY <1>6 DEF DecodesTo, Only
<1>8. /\ outs[1] = FieldRead(outs[0], b[1], GovernRules)
      /\ outs[2] = FieldRead(outs[1], b[2], GovernRules)
      /\ outs[3] = FieldRead(outs[2], b[3], GovernRules)
      /\ outs[4] = FieldRead(outs[3], b[4], GovernRules)
  BY <1>4, <1>7
<1>20. outs[1] = Only(r1)
  BY <1>2, <1>3, <1>4, <1>8, <1>7, BytesSet
<1>21. outs[2] = Only(r2)
  BY <1>2, <1>3, <1>4, <1>8, <1>20, BytesSet
<1>22. outs[3] = Only(r3)
  BY <1>2, <1>3, <1>4, <1>8, <1>21, BytesSet
<1>23. outs[4] = Only(r4)
  BY <1>2, <1>3, <1>4, <1>8, <1>22, BytesSet
<1> QED BY <1>1, <1>4, <1>6, <1>23 DEF b, r4

\* How a governance proposal is written.
LEMMA GovernEncoded ==
  ASSUME NEW title, NEW description, NEW paramKey, NEW paramValue, NEW key
  PROVE  EncodePayload(GovernPayload(title, description, paramKey, paramValue), key) = Envelope(6, GovernBody(title, description, paramKey, paramValue), key)
<1> DEFINE p == GovernPayload(title, description, paramKey, paramValue)
<1>1. p.kind = "proposal" /\ p.title = title /\ p.description = description /\ p.paramKey = paramKey /\ p.paramValue = paramValue
  BY DEF GovernPayload
<1> HIDE DEF p
<1>2. EncodeGovernanceProposal(p) = << Bytes(6, GovernBody(title, description, paramKey, paramValue)) >>
  BY <1>1 DEF EncodeGovernanceProposal, GovernBody
<1>3. EncodePayload(p, key) = EncodeGovernanceProposal(p) \o Optional(8, key)
  BY <1>1 DEF EncodePayload, Optional
<1> QED BY <1>2, <1>3 DEF Envelope, p

-----------------------------------------------------------------------------
BallotPayload(proposalID, option) ==
  [kind |-> "vote", proposalID |-> proposalID, option |-> option]

BallotRules == << << "number", "proposalID" >>, << "option", "option" >> >>

BallotBody(proposalID, option) == << Varint(1, proposalID), Varint(2, option) >>

\* What is read as a governance vote has its parts.
LEMMA BallotShape ==
  ASSUME NEW b, IsMessage(b), NEW p \in DecodeGovernanceVote(b)
  PROVE  p = BallotPayload(p.proposalID, p.option) /\ p.proposalID \in Nat /\ p.option \in 0 .. U8 - 1
<1> DEFINE P == { BallotPayload(proposalID, option) : proposalID \in Nat, option \in 0 .. U8 - 1 }
<1>1. DecodeGovernanceVote(b) = Decode(b, BallotPayload(0, 0), BallotRules)
  BY DEF DecodeGovernanceVote, BallotPayload, BallotRules
<1>2. /\ DOMAIN BallotRules = 1 .. 2 /\ 1 .. 2 = {1, 2}
      /\ BallotRules[1] = Rule("number", "proposalID")
      /\ BallotRules[2] = Rule("option", "option")
  BY DEF BallotRules, Rule
<1>3. BallotPayload(0, 0) \in P
  <2>1. 0 \in 0 .. U8 - 1 /\ 0 \in Nat
    BY BlockStoreAssumption
  <2> QED BY <2>1
<1>4. ASSUME NEW i \in 1 .. Len(b), NEW out \in P, b[i].num \in DOMAIN BallotRules,
             NEW o \in SetField(out, b[i], BallotRules[b[i].num])
      PROVE  o \in P
  <2>1. PICK proposalID \in Nat, option \in 0 .. U8 - 1 : out = BallotPayload(proposalID, option)
    OBVIOUS
  <2> DEFINE f == b[i]
  <2>2. f.n \in Nat
    BY DEF IsMessage
  <2>3. f.num \in {1, 2} /\ o \in SetField(out, f, BallotRules[f.num])
    BY <1>2, <1>4
  <2> HIDE DEF f
  <2>4. CASE f.num = 1
    <3>2. o = With(out, "proposalID", f.n)
      BY <1>2, <2>3, <2>4, RuleSets
    <3> DEFINE v == f.n
    <3>3. v \in Nat
      BY <2>2
    <3>4. o = With(out, "proposalID", v)
      BY <3>2
    <3> HIDE DEF v
    <3>6. With(BallotPayload(proposalID, option), "proposalID", v) = BallotPayload(v, option)
      BY DEF With, BallotPayload
    <3>5. o = BallotPayload(v, option)
      BY <2>1, <3>4, <3>6
    <3> QED BY <3>3, <3>5
  <2>5. CASE f.num = 2
    <3>2. o = With(out, "option", f.n % U8)
      BY <1>2, <2>3, <2>5, RuleSets
    <3> DEFINE v == f.n % U8
    <3>3. v \in 0 .. U8 - 1
      BY <2>2, BlockStoreAssumption
    <3>4. o = With(out, "option", v)
      BY <3>2
    <3> HIDE DEF v
    <3>6. With(BallotPayload(proposalID, option), "option", v) = BallotPayload(proposalID, v)
      BY DEF With, BallotPayload
    <3>5. o = BallotPayload(proposalID, v)
      BY <2>1, <3>4, <3>6
    <3> QED BY <3>3, <3>5
  <2> QED BY <2>3, <2>4, <2>5
<1> HIDE DEF P
<1>5. Decode(b, BallotPayload(0, 0), BallotRules) \subseteq P
  BY <1>3, <1>4, DecodeStays DEF IsMessage
<1>6. PICK proposalID \in Nat, option \in 0 .. U8 - 1 : p = BallotPayload(proposalID, option)
  BY <1>1, <1>5 DEF P
<1>7. p.proposalID = proposalID /\ p.option = option
  BY <1>6 DEF BallotPayload
<1> QED BY <1>6, <1>7

\* A governance vote that was written is read as itself.
LEMMA BallotReadBack ==
  ASSUME NEW proposalID, NEW option \in 0 .. U8 - 1
  PROVE  DecodeGovernanceVote(BallotBody(proposalID, option)) = Only(BallotPayload(proposalID, option))
<1> DEFINE b == BallotBody(proposalID, option)
           r0 == BallotPayload(0, 0)
           r1 == BallotPayload(proposalID, 0)
           r2 == BallotPayload(proposalID, option)
<1>1. DecodeGovernanceVote(b) = Decode(b, r0, BallotRules)
  BY DEF DecodeGovernanceVote, BallotPayload, BallotRules
<1>2. /\ DOMAIN BallotRules = 1 .. 2 /\ 1 .. 2 = {1, 2}
      /\ BallotRules[1] = Rule("number", "proposalID")
      /\ BallotRules[2] = Rule("option", "option")
  BY DEF BallotRules, Rule
<1>3. /\ With(r0, "proposalID", proposalID) = r1
      /\ With(r1, "option", option) = r2
  <2>1. With(r0, "proposalID", proposalID) = r1
    BY DEF With, BallotPayload
  <2>2. With(r1, "option", option) = r2
    BY DEF With, BallotPayload
  <2> QED BY <2>1, <2>2
<1>4. /\ Len(b) = 2
      /\ b[1] = Varint(1, proposalID) /\ b[2] = Varint(2, option)
  BY DEF BallotBody
<1>5. Len(b) \in Nat
  BY <1>4
<1> HIDE DEF b, r0, r1, r2
<1>6. PICK outs : DecodesTo(outs, b, r0, BallotRules) /\ Decode(b, r0, BallotRules) = outs[Len(b)]
  BY <1>5, DecodeDefined
<1>7. outs[0] = Only(r0) /\ \A i \in 1 .. Len(b) : outs[i] = FieldRead(outs[i - 1], b[i], BallotRules)
  BY <1>6 DEF DecodesTo, Only
<1>8. /\ outs[1] = FieldRead(outs[0], b[1], BallotRules)
      /\ outs[2] = FieldRead(outs[1], b[2], BallotRules)
  BY <1>4, <1>7
<1>20. outs[1] = Only(r1)
  BY <1>2, <1>3, <1>4, <1>8, <1>7, NumberSet
<1>9. option % U8 = option
  BY BlockStoreAssumption
<1>21. outs[2] = Only(r2)
  BY <1>2, <1>3, <1>4, <1>8, <1>20, <1>9, OptionSet
<1> QED BY <1>1, <1>4, <1>6, <1>21 DEF b, r2

\* How a governance vote is written.
LEMMA BallotEncoded ==
  ASSUME NEW proposalID, NEW option, NEW key
  PROVE  EncodePayload(BallotPayload(proposalID, option), key) = Envelope(7, BallotBody(proposalID, option), key)
<1> DEFINE p == BallotPayload(proposalID, option)
<1>1. p.kind = "vote" /\ p.proposalID = proposalID /\ p.option = option
  BY DEF BallotPayload
<1> HIDE DEF p
<1>2. EncodeGovernanceVote(p) = << Bytes(7, BallotBody(proposalID, option)) >>
  BY <1>1 DEF EncodeGovernanceVote, BallotBody
<1>3. EncodePayload(p, key) = EncodeGovernanceVote(p) \o Optional(8, key)
  BY <1>1 DEF EncodePayload, Optional
<1> QED BY <1>2, <1>3 DEF Envelope, p

-----------------------------------------------------------------------------

\* Whatever its kind, a payload that was read is written as bytes of the number
\* of its kind that are read as it.
LEMMA PayloadBack ==
  ASSUME NEW num \in 1 .. 7, NEW b, IsMessage(b), NEW p \in DecodeKind(num, b), NEW key
  PROVE  \E inner : /\ EncodePayload(p, key) = Envelope(num, inner, key)
                    /\ DecodeKind(num, inner) = Only(p)
                    /\ p # NoPayload
<1>1. CASE num = 1
  <2>1. \A x : DecodeKind(num, x) = DecodeTransfer(x)
    BY <1>1 DEF DecodeKind
  <2>2. p \in DecodeTransfer(b)
    BY <2>1
  <2>3. p = TransferPayload(p.to, p.amount)
    BY <2>2, TransferShape
  <2> DEFINE inner == TransferBody(p.to, p.amount)
  <2>4. EncodePayload(p, key) = Envelope(num, inner, key)
    BY <1>1, <2>3, TransferEncoded
  <2>5. DecodeTransfer(inner) = Only(p)
    BY <2>3, TransferReadBack
  <2>6. p.kind = "transfer" /\ NoPayload.kind = "none"
    BY <2>3 DEF TransferPayload, NoPayload
  <2>7. p # NoPayload
    BY <2>6
  <2> HIDE DEF inner
  <2> QED BY <2>1, <2>4, <2>5, <2>7
<1>2. CASE num = 2
  <2>1. \A x : DecodeKind(num, x) = DecodeStakeDelegate(x)
    BY <1>2 DEF DecodeKind
  <2>2. p \in DecodeStakeDelegate(b)
    BY <2>1
  <2>3. p = DelegatePayload(p.validator, p.amount)
    BY <2>2, DelegateShape
  <2> DEFINE inner == DelegateBody(p.validator, p.amount)
  <2>4. EncodePayload(p, key) = Envelope(num, inner, key)
    BY <1>2, <2>3, DelegateEncoded
  <2>5. DecodeStakeDelegate(inner) = Only(p)
    BY <2>3, DelegateReadBack
  <2>6. p.kind = "delegate" /\ NoPayload.kind = "none"
    BY <2>3 DEF DelegatePayload, NoPayload
  <2>7. p # NoPayload
    BY <2>6
  <2> HIDE DEF inner
  <2> QED BY <2>1, <2>4, <2>5, <2>7
<1>3. CASE num = 3
  <2>1. \A x : DecodeKind(num, x) = DecodeStakeUndelegate(x)
    BY <1>3 DEF DecodeKind
  <2>2. p \in DecodeStakeUndelegate(b)
    BY <2>1
  <2>3. p = UndelegatePayload(p.validator, p.amount)
    BY <2>2, UndelegateShape
  <2> DEFINE inner == UndelegateBody(p.validator, p.amount)
  <2>4. EncodePayload(p, key) = Envelope(num, inner, key)
    BY <1>3, <2>3, UndelegateEncoded
  <2>5. DecodeStakeUndelegate(inner) = Only(p)
    BY <2>3, UndelegateReadBack
  <2>6. p.kind = "undelegate" /\ NoPayload.kind = "none"
    BY <2>3 DEF UndelegatePayload, NoPayload
  <2>7. p # NoPayload
    BY <2>6
  <2> HIDE DEF inner
  <2> QED BY <2>1, <2>4, <2>5, <2>7
<1>4. CASE num = 4
  <2>1. \A x : DecodeKind(num, x) = DecodeContractDeploy(x)
    BY <1>4 DEF DecodeKind
  <2>2. p \in DecodeContractDeploy(b)
    BY <2>1
  <2>3. p = DeployPayload(p.code, p.salt)
    BY <2>2, DeployShape
  <2> DEFINE inner == DeployBody(p.code, p.salt)
  <2>4. EncodePayload(p, key) = Envelope(num, inner, key)
    BY <1>4, <2>3, DeployEncoded
  <2>5. DecodeContractDeploy(inner) = Only(p)
    BY <2>3, DeployReadBack
  <2>6. p.kind = "deploy" /\ NoPayload.kind = "none"
    BY <2>3 DEF DeployPayload, NoPayload
  <2>7. p # NoPayload
    BY <2>6
  <2> HIDE DEF inner
  <2> QED BY <2>1, <2>4, <2>5, <2>7
<1>5. CASE num = 5
  <2>1. \A x : DecodeKind(num, x) = DecodeContractCall(x)
    BY <1>5 DEF DecodeKind
  <2>2. p \in DecodeContractCall(b)
    BY <2>1
  <2>3. p = CallPayload(p.address, p.method, p.args)
    BY <2>2, CallShape
  <2> DEFINE inner == CallBody(p.address, p.method, p.args)
  <2>4. EncodePayload(p, key) = Envelope(num, inner, key)
    BY <1>5, <2>3, CallEncoded
  <2>8. PICK S : p.args \in Seq(S)
    BY <2>2, CallShape
  <2>5. DecodeContractCall(inner) = Only(p)
    BY <2>3, <2>8, CallReadBack
  <2>6. p.kind = "call" /\ NoPayload.kind = "none"
    BY <2>3 DEF CallPayload, NoPayload
  <2>7. p # NoPayload
    BY <2>6
  <2> HIDE DEF inner
  <2> QED BY <2>1, <2>4, <2>5, <2>7
<1>6. CASE num = 6
  <2>1. \A x : DecodeKind(num, x) = DecodeGovernanceProposal(x)
    BY <1>6 DEF DecodeKind
  <2>2. p \in DecodeGovernanceProposal(b)
    BY <2>1
  <2>3. p = GovernPayload(p.title, p.description, p.paramKey, p.paramValue)
    BY <2>2, GovernShape
  <2> DEFINE inner == GovernBody(p.title, p.description, p.paramKey, p.paramValue)
  <2>4. EncodePayload(p, key) = Envelope(num, inner, key)
    BY <1>6, <2>3, GovernEncoded
  <2>5. DecodeGovernanceProposal(inner) = Only(p)
    BY <2>3, GovernReadBack
  <2>6. p.kind = "proposal" /\ NoPayload.kind = "none"
    BY <2>3 DEF GovernPayload, NoPayload
  <2>7. p # NoPayload
    BY <2>6
  <2> HIDE DEF inner
  <2> QED BY <2>1, <2>4, <2>5, <2>7
<1>7. CASE num = 7
  <2>1. \A x : DecodeKind(num, x) = DecodeGovernanceVote(x)
    BY <1>7 DEF DecodeKind
  <2>2. p \in DecodeGovernanceVote(b)
    BY <2>1
  <2>3. p = BallotPayload(p.proposalID, p.option)
    BY <2>2, BallotShape
  <2> DEFINE inner == BallotBody(p.proposalID, p.option)
  <2>4. EncodePayload(p, key) = Envelope(num, inner, key)
    BY <1>7, <2>3, BallotEncoded
  <2>8. p.option \in 0 .. U8 - 1
    BY <2>2, BallotShape
  <2>5. DecodeGovernanceVote(inner) = Only(p)
    BY <2>3, <2>8, BallotReadBack
  <2>6. p.kind = "vote" /\ NoPayload.kind = "none"
    BY <2>3 DEF BallotPayload, NoPayload
  <2>7. p # NoPayload
    BY <2>6
  <2> HIDE DEF inner
  <2> QED BY <2>1, <2>4, <2>5, <2>7
<1> QED BY <1>1, <1>2, <1>3, <1>4, <1>5, <1>6, <1>7

\* An envelope that was written is read as its payload and its key.
LEMMA EnvelopeBack ==
  ASSUME NEW num \in 1 .. 7, NEW inner, NEW key, NEW p,
         DecodeKind(num, inner) = Only(p), p # NoPayload
  PROVE  DecodePayload(Envelope(num, inner, key)) = Only(EnvelopeOf(p, key))
<1> DEFINE b == Envelope(num, inner, key)
           first == Bytes(num, inner)
           last == Bytes(8, key)
           S == {first, last}
           head == << first >>
           tail == Optional(8, key)
           none == << >>
           e0 == EnvelopeOf(NoPayload, none)
           e1 == EnvelopeOf(p, none)
           e2 == EnvelopeOf(p, key)
<1>1. head \in Seq(S) /\ Len(head) = 1 /\ head[1] = first
  OBVIOUS
<1>2. /\ tail \in Seq(S)
      /\ key = << >> => Len(tail) = 0
      /\ key # << >> => Len(tail) = 1 /\ tail[1] = last
  BY OptionalSeq
<1>3. b = head \o tail
  BY DEF Envelope
<1> HIDE DEF b, head, tail, S
<1>4. /\ b \in Seq(S) /\ Len(b) = 1 + Len(tail) /\ b[1] = first
      /\ \A i \in 1 .. Len(tail) : b[1 + i] = tail[i]
  <2>1. /\ b \in Seq(S) /\ Len(b) = Len(head) + Len(tail)
        /\ \A i \in 1 .. Len(head) : b[i] = head[i]
        /\ \A i \in 1 .. Len(tail) : b[Len(head) + i] = tail[i]
    <3>1. head \in Seq(S) /\ tail \in Seq(S)
      BY <1>1, <1>2
    <3> QED BY <1>3, <3>1, Concatenation
  <2> HIDE DEF first
  <2> QED BY <1>1, <2>1
<1>5. Len(b) \in Nat /\ (key = << >> => Len(b) = 1) /\ (key # << >> => Len(b) = 2 /\ b[2] = last)
  BY <1>2, <1>4
<1>6. /\ first.num = num /\ first.type = "bytes" /\ first.b = inner
      /\ last.num = 8 /\ last.type = "bytes" /\ last.b = key
  BY BytesFields
<1>7. /\ e0.payload = NoPayload /\ e1.senderPubKey = none /\ [e0 EXCEPT !.payload = p] = e1
      /\ e2.payload = p /\ (key = none => e1 = e2)
  BY DEF EnvelopeOf
<1>8. [e1 EXCEPT !.senderPubKey = key] = e2
  BY DEF EnvelopeOf
<1>9. PICK envs : EnvelopeSteps(envs, b) /\ DecodeEnvelope(b) = envs[Len(b)]
  BY <1>5, EnvelopeStepDefined
<1>10. envs[0] = Only(e0) /\ \A i \in 1 .. Len(b) : envs[i] = EnvelopeStep(b, i, envs[i - 1])
  BY <1>9 DEF EnvelopeSteps, EnvelopeOf, Only
<1> HIDE DEF first, last, e0, e1, e2
<1>11. envs[1] = Only(e1)
  <2>1. envs[1] = EnvelopeStep(b, 1, envs[0])
    BY <1>5, <1>10
  <2>2. num # 0
    OBVIOUS
  <2>3. envs[1] = UNION { SetPayload(env, first) : env \in envs[0] }
    BY <1>4, <1>6, <2>1, <2>2 DEF EnvelopeStep
  <2>4. SetPayload(e0, first) = Only(e1)
    <3>1. SetPayload(e0, first) = { [e0 EXCEPT !.payload = q] : q \in Only(p) }
      BY <1>6, <1>7 DEF SetPayload
    <3> QED BY <1>7, <3>1 DEF Only
  <2> QED BY <1>10, <2>3, <2>4 DEF Only
<1>12. envs[Len(b)] = Only(e2)
  <2>1. CASE key = << >>
    BY <1>5, <1>7, <1>11, <2>1
  <2>2. CASE key # << >>
    <3>1. Len(b) = 2 /\ b[2] = last
      BY <1>5, <2>2
    <3>2. envs[2] = EnvelopeStep(b, 2, envs[1])
      BY <1>10, <3>1
    <3>3. envs[2] = UNION { SetSenderPubKey(env, last) : env \in envs[1] }
      BY <1>6, <3>1, <3>2 DEF EnvelopeStep
    <3>4. SetSenderPubKey(e1, last) = Only(e2)
      BY <1>6, <1>7, <1>8 DEF SetSenderPubKey, Only
    <3> QED BY <1>11, <3>1, <3>3, <3>4 DEF Only
  <2> QED BY <2>1, <2>2
<1>13. DecodeEnvelope(b) = Only(e2)
  BY <1>9, <1>12
<1>14. DecodePayload(b) = Only(e2)
  BY <1>7, <1>13 DEF DecodePayload, Only
<1> QED BY <1>14 DEF b, e2

\* The amounts that are moved are naturals.
LEMMA AmountRead ==
  ASSUME NEW num \in 1 .. 7, NEW b, IsMessage(b), NEW p \in DecodeKind(num, b)
  PROVE  p.kind \in {"transfer", "delegate", "undelegate"} => p.amount \in Nat
<1>1. CASE num = 1
  BY <1>1, TransferShape DEF DecodeKind
<1>2. CASE num = 2
  BY <1>2, DelegateShape DEF DecodeKind
<1>3. CASE num = 3
  BY <1>3, UndelegateShape DEF DecodeKind
<1>4. CASE num = 4
  <2>1. p = DeployPayload(p.code, p.salt)
    BY <1>4, DeployShape DEF DecodeKind
  <2> QED BY <2>1 DEF DeployPayload
<1>5. CASE num = 5
  <2>1. p = CallPayload(p.address, p.method, p.args)
    BY <1>5, CallShape DEF DecodeKind
  <2> QED BY <2>1 DEF CallPayload
<1>6. CASE num = 6
  <2>1. p = GovernPayload(p.title, p.description, p.paramKey, p.paramValue)
    BY <1>6, GovernShape DEF DecodeKind
  <2> QED BY <2>1 DEF GovernPayload
<1>7. CASE num = 7
  <2>1. p = BallotPayload(p.proposalID, p.option)
    BY <1>7, BallotShape DEF DecodeKind
  <2> QED BY <2>1 DEF BallotPayload
<1> QED BY <1>1, <1>2, <1>3, <1>4, <1>5, <1>6, <1>7

-----------------------------------------------------------------------------
(* What a transaction changes.                                               *)

\* What is changed of an account, and what is not.
LEMMA AccountChanged ==
  ASSUME NEW a, IsAccount(a)
  PROVE  /\ \A x \in Int : LET b == [a EXCEPT !.balance = x]
                           IN  /\ IsAccount(b) /\ b.balance = x /\ b.address = a.address
                               /\ b.nonce = a.nonce /\ b.stake = a.stake /\ b.pubKey = a.pubKey
         /\ \A x \in Int : LET b == [a EXCEPT !.stake = x]
                           IN  /\ IsAccount(b) /\ b.balance = a.balance /\ b.address = a.address
                               /\ b.nonce = a.nonce /\ b.stake = x /\ b.pubKey = a.pubKey
         /\ \A x \in Nat : LET b == [a EXCEPT !.nonce = x]
                           IN  /\ IsAccount(b) /\ b.balance = a.balance /\ b.address = a.address
                               /\ b.nonce = x /\ b.stake = a.stake /\ b.pubKey = a.pubKey
         /\ \A x : LET b == [a EXCEPT !.pubKey = x]
                   IN  /\ IsAccount(b) /\ b.balance = a.balance /\ b.address = a.address
                       /\ b.nonce = a.nonce /\ b.stake = a.stake /\ b.pubKey = x
<1>1. ASSUME NEW x \in Int
      PROVE  LET b == [a EXCEPT !.balance = x]
             IN  /\ IsAccount(b) /\ b.balance = x /\ b.address = a.address
                 /\ b.nonce = a.nonce /\ b.stake = a.stake /\ b.pubKey = a.pubKey
  BY DEF IsAccount, AccountRecord
<1>2. ASSUME NEW x \in Int
      PROVE  LET b == [a EXCEPT !.stake = x]
             IN  /\ IsAccount(b) /\ b.balance = a.balance /\ b.address = a.address
                 /\ b.nonce = a.nonce /\ b.stake = x /\ b.pubKey = a.pubKey
  BY DEF IsAccount, AccountRecord
<1>3. ASSUME NEW x \in Nat
      PROVE  LET b == [a EXCEPT !.nonce = x]
             IN  /\ IsAccount(b) /\ b.balance = a.balance /\ b.address = a.address
                 /\ b.nonce = x /\ b.stake = a.stake /\ b.pubKey = a.pubKey
  BY DEF IsAccount, AccountRecord
<1>4. ASSUME NEW x
      PROVE  LET b == [a EXCEPT !.pubKey = x]
             IN  /\ IsAccount(b) /\ b.balance = a.balance /\ b.address = a.address
                 /\ b.nonce = a.nonce /\ b.stake = a.stake /\ b.pubKey = x
  BY DEF IsAccount, AccountRecord
<1> QED BY <1>1, <1>2, <1>3, <1>4

-----------------------------------------------------------------------------
(* Execution.                                                                *)

\* The accounts that a transaction may read.
Readable(get) == \A a \in Addr : IsAccount(get[a]) /\ get[a].address = a

\* What a transaction writes, of the accounts it reads: others' keys and nonces
\* stay; its sender's nonce is its own, and grows, and its signature verifies
\* under the key that the sender has from then on.
Effect(w, tx, get) ==
  /\ w = << w[1], w[2] >>
  /\ Apart(w[1])
  /\ \A a \in w[1] : /\ IsAccount(a)
                     /\ a.nonce = get[a.address].nonce /\ a.pubKey = get[a.address].pubKey
  /\ IsAccount(w[2]) /\ w[2].address = tx.from
  /\ get[tx.from].nonce = tx.nonce /\ w[2].nonce = tx.nonce + 1
  /\ w[2].pubKey # << >>
  /\ AddressFromPubKey(w[2].pubKey) = tx.from /\ VerifySignature(tx, w[2].pubKey)
  /\ get[tx.from].pubKey # << >> => w[2].pubKey = get[tx.from].pubKey

\* What a transaction writes: accounts of different addresses, whose fields are of
\* the right kind, the last one the sender's with its nonce counted up and the key
\* that its signature verifies under (applyTransactionWithKV).
LEMMA WritesEffect ==
  ASSUME NEW get, Readable(get), NEW tx, tx.from \in Addr, tx.payload \in Seq(PayloadField),
         NEW w \in Writes(tx, get)
  PROVE  Effect(w, tx, get)
<1> DEFINE sender == get[tx.from]
           s(t) == [sender EXCEPT !.pubKey = t.key, !.nonce = @ + 1]
           Spent(t) == [s(t) EXCEPT !.balance = @ - t.payload.amount]
           After(t) ==
             CASE t.payload.kind = "transfer" /\ s(t).balance >= t.payload.amount ->
                    { << {[get[t.payload.to] EXCEPT !.balance = (@ + t.payload.amount) % U64]},
                         Spent(t) >> }
               [] t.payload.kind = "delegate" /\ s(t).balance >= t.payload.amount ->
                    { << {}, [Spent(t) EXCEPT !.stake = (@ + t.payload.amount) % U64] >> }
               [] t.payload.kind = "undelegate" /\ s(t).stake >= t.payload.amount ->
                    { << {}, [s(t) EXCEPT !.stake = @ - t.payload.amount,
                                          !.balance = (@ + t.payload.amount) % U64] >> }
               [] t.payload.kind \in {"proposal", "vote"} -> { << {}, s(t) >> }
               [] OTHER -> {}
<1>1. sender.nonce = tx.nonce /\ \E t \in Accepted(tx, sender) : w \in After(t)
  BY DEF Writes
<1>2. PICK t \in Accepted(tx, sender) : w \in After(t)
  BY <1>1
<1>3. PICK env \in DecodePayload(tx.payload) :
        \E k \in ResolveSenderPubKey(tx, sender.pubKey, env.senderPubKey) :
          VerifySignature(tx, k) /\ t = [payload |-> env.payload, key |-> k]
  BY <1>2 DEF Accepted
<1>4. PICK k \in ResolveSenderPubKey(tx, sender.pubKey, env.senderPubKey) :
        VerifySignature(tx, k) /\ t = [payload |-> env.payload, key |-> k]
  BY <1>3
<1> DEFINE p == env.payload
           n == tx.nonce + 1
           u == [sender EXCEPT !.pubKey = k]
           v == [u EXCEPT !.nonce = n]
<1>5. t.payload = p /\ t.key = k
  BY <1>4
<1>6. IsAccount(sender) /\ sender.address = tx.from /\ tx.nonce \in Nat
  BY <1>1 DEF Readable, IsAccount
<1>7. /\ AddressFromPubKey(k) = tx.from /\ VerifySignature(tx, k) /\ k # << >>
      /\ sender.pubKey # << >> => k = sender.pubKey
  BY <1>4 DEF ResolveSenderPubKey
<1>8. /\ p.kind = "transfer" => p.to \in Addr
      /\ p.kind \in {"transfer", "delegate", "undelegate"} => p.amount \in Nat
  <2>1. PICK f \in PayloadField : f.num \in 1 .. 7 /\ p \in DecodeKind(f.num, f.b)
    BY PayloadRead
  <2> HIDE DEF p
  <2>2. p.kind = "transfer" => p.to \in Addr
    BY <2>1, BlockStoreAssumption
  <2>3. IsMessage(f.b)
    BY <2>1, FieldIsMessage
  <2> QED BY <2>1, <2>2, <2>3, AmountRead
<1>9. s(t) = v
  <2>1. sender.nonce + 1 = n
    BY <1>1
  <2> HIDE DEF sender, n
  <2> QED BY <1>5, <2>1
<1> HIDE DEF p, s, Spent, sender, n
<1>10. /\ IsAccount(v) /\ v.address = tx.from /\ v.nonce = n /\ v.pubKey = k
       /\ n \in Nat /\ v.balance \in Int /\ v.stake \in Int
  <2>1. n \in Nat
    BY <1>6 DEF n
  <2>2. IsAccount(u) /\ u.address = tx.from /\ u.pubKey = k
    BY <1>6, AccountChanged
  <2> HIDE DEF u
  <2>3. IsAccount(v) /\ v.address = tx.from /\ v.nonce = n /\ v.pubKey = k
    BY <2>1, <2>2, AccountChanged
  <2> QED BY <2>1, <2>3 DEF IsAccount
<1> HIDE DEF u, v
<1> DEFINE Fits(x) == IsAccount(x) /\ x.address = tx.from /\ x.nonce = n /\ x.pubKey = k
<1>11. ASSUME NEW a, NEW b, w = << a, b >>, Fits(b), Apart(a),
              \A x \in a : /\ IsAccount(x) /\ x.nonce = get[x.address].nonce
                           /\ x.pubKey = get[x.address].pubKey
       PROVE  Effect(w, tx, get)
  <2>1. w[1] = a /\ w[2] = b
    BY <1>11
  <2>2. get[tx.from].nonce = tx.nonce /\ get[tx.from] = sender
    BY <1>1 DEF sender
  <2> QED BY <1>7, <1>11, <2>1, <2>2 DEF Effect, n
<1>19. ASSUME NEW b, w = << {}, b >>, Fits(b) PROVE Effect(w, tx, get)
  <2> DEFINE none == {}
  <2>1. w = << none, b >> /\ \A x \in none : FALSE
    BY <1>19
  <2> HIDE DEF none
  <2>2. Apart(none)
    BY <2>1 DEF Apart
  <2> HIDE DEF Fits
  <2> QED BY <1>11, <1>19, <2>1, <2>2
<1>12. \A x, y \in Int : (x + y) % U64 \in Int /\ x - y \in Int
  BY BlockStoreAssumption
<1>13. Spent(t) = [v EXCEPT !.balance = v.balance - p.amount]
  BY <1>5, <1>9 DEF Spent
<1>14. CASE p.kind = "transfer" /\ v.balance >= p.amount
  <2> DEFINE r == get[p.to]
             x == (r.balance + p.amount) % U64
             c == [r EXCEPT !.balance = x]
             d == [v EXCEPT !.balance = v.balance - p.amount]
  <2>1. w = << {c}, d >>
    BY <1>2, <1>5, <1>9, <1>13, <1>14
  <2>2. IsAccount(r) /\ r.address = p.to /\ p.to \in Addr /\ p.amount \in Nat
    BY <1>8, <1>14 DEF Readable
  <2>8. r.balance \in Int /\ p.amount \in Int /\ v.balance \in Int
    BY <1>10, <2>2 DEF IsAccount
  <2>3. x \in Int /\ v.balance - p.amount \in Int
    BY <1>12, <2>8
  <2> HIDE DEF x
  <2>4. IsAccount(c) /\ c.address = p.to /\ c.nonce = r.nonce /\ c.pubKey = r.pubKey
    BY <2>2, <2>3, AccountChanged
  <2>5. Fits(d)
    BY <1>10, <2>3, AccountChanged
  <2> HIDE DEF c, d, Fits
  <2>6. Apart({c})
    BY DEF Apart
  <2> QED BY <1>11, <2>1, <2>4, <2>5, <2>6
<1>15. CASE p.kind = "delegate" /\ v.balance >= p.amount
  <2> DEFINE c == [v EXCEPT !.balance = v.balance - p.amount]
             x == (v.stake + p.amount) % U64
             d == [c EXCEPT !.stake = x]
  <2>5. p.amount \in Nat
    BY <1>8, <1>15
  <2>6. p.amount \in Int /\ v.balance \in Int /\ v.stake \in Int
    BY <1>10, <2>5
  <2>1. p.amount \in Nat /\ v.balance - p.amount \in Int /\ x \in Int
    BY <1>12, <2>5, <2>6
  <2>2. Fits(c) /\ c.stake = v.stake
    BY <1>10, <2>1, AccountChanged
  <2>3. w = << {}, d >>
    BY <1>2, <1>5, <1>9, <1>13, <1>15, <2>2
  <2> HIDE DEF c, x
  <2>4. Fits(d)
    BY <2>1, <2>2, AccountChanged
  <2> HIDE DEF d, Fits
  <2> QED BY <1>19, <2>3, <2>4
<1>16. CASE p.kind = "undelegate" /\ v.stake >= p.amount
  <2> DEFINE x == (v.balance + p.amount) % U64
             c == [v EXCEPT !.stake = v.stake - p.amount]
             d == [c EXCEPT !.balance = x]
  <2>5. p.amount \in Nat
    BY <1>8, <1>16
  <2>6. p.amount \in Int /\ v.balance \in Int /\ v.stake \in Int
    BY <1>10, <2>5
  <2>1. p.amount \in Nat /\ v.stake - p.amount \in Int /\ x \in Int
    BY <1>12, <2>5, <2>6
  <2>2. Fits(c) /\ c.balance = v.balance
    BY <1>10, <2>1, AccountChanged
  <2>3. w = << {}, d >>
    BY <1>2, <1>5, <1>9, <1>16, <2>2
  <2> HIDE DEF c, x
  <2>4. Fits(d)
    BY <2>1, <2>2, AccountChanged
  <2> HIDE DEF d, Fits
  <2> QED BY <1>19, <2>3, <2>4
<1>17. CASE p.kind \in {"proposal", "vote"}
  <2>1. w = << {}, v >>
    BY <1>2, <1>5, <1>9, <1>17
  <2>2. Fits(v)
    BY <1>10
  <2> HIDE DEF Fits
  <2> QED BY <1>19, <2>1, <2>2
<1>18. \/ p.kind = "transfer" /\ v.balance >= p.amount
       \/ p.kind = "delegate" /\ v.balance >= p.amount
       \/ p.kind = "undelegate" /\ v.stake >= p.amount
       \/ p.kind \in {"proposal", "vote"}
  BY <1>2, <1>5, <1>9
<1> QED BY <1>14, <1>15, <1>16, <1>17, <1>18

\* The accounts of a store, by address.
Gets(store) == [a \in Addr |-> GetAccount(store, a)]

IsSent(tx) ==
  IsTx(tx) /\ tx.from \in Addr /\ tx.nonce \in Nat /\ tx.payload \in Seq(PayloadField)

\* The transaction is signed with the key of its sender, and its nonce is used.
Audited(tx, store) ==
  /\ GetAccount(store, tx.from).pubKey # << >>
  /\ AddressFromPubKey(GetAccount(store, tx.from).pubKey) = tx.from
  /\ VerifySignature(tx, GetAccount(store, tx.from).pubKey)
  /\ tx.nonce < GetAccount(store, tx.from).nonce

\* The store after a transaction: the sender's nonce was the transaction's, the
\* transaction can be audited, those that could be audited still can, and the
\* accounts are an outcome of the transaction on the accounts there were.
LEMMA WrittenEffect ==
  ASSUME NEW store, AccountsHeld(store), NEW tx, IsSent(tx),
         NEW after \in Written(store, Gets(store), tx)
  PROVE  /\ AccountsHeld(after) /\ SameBlocks(store, after)
         /\ Present(store) \subseteq Present(after)
         /\ GetAccount(store, tx.from).nonce = tx.nonce
         /\ Audited(tx, after)
         /\ \A t : IsSent(t) /\ Audited(t, store) => Audited(t, after)
         /\ Accounts(after) \in Outcomes(Accounts(store), tx)
<1> DEFINE get == Gets(store)
<1>1. Readable(get)
  BY AccountRead DEF Readable, Gets
<1>2. PICK w \in Writes(tx, get) : after = SetAccounts(SetAccounts(store, w[1]), {w[2]})
  BY DEF Written
<1>3. Effect(w, tx, get)
  BY <1>1, WritesEffect DEF IsSent
<1>4. \A a \in Addr : get[a] = GetAccount(store, a)
  BY DEF Gets
<1> DEFINE mid == SetAccounts(store, w[1])
           one == {w[2]}
<1>5. /\ Apart(w[1]) /\ Apart(one)
      /\ (\A a \in w[1] : IsAccount(a)) /\ (\A a \in one : IsAccount(a))
  BY <1>3 DEF Effect, Apart
<1>6. /\ AccountsHeld(mid) /\ SameBlocks(store, mid) /\ Present(store) \subseteq Present(mid)
      /\ \A a \in w[1] : GetAccount(mid, a.address) = a
      /\ \A addr \in Addr : (\A a \in w[1] : a.address # addr) =>
           GetAccount(mid, addr) = GetAccount(store, addr)
  BY <1>5, AccountsSet
<1>7. Accounts(mid) = Overwrite(Accounts(store), w[1])
  BY <1>5, AccountsOverwritten
<1> HIDE DEF mid
<1>8. /\ AccountsHeld(after) /\ SameBlocks(mid, after) /\ Present(mid) \subseteq Present(after)
      /\ \A a \in one : GetAccount(after, a.address) = a
      /\ \A addr \in Addr : (\A a \in one : a.address # addr) =>
           GetAccount(after, addr) = GetAccount(mid, addr)
  <2>1. after = SetAccounts(mid, one)
    BY <1>2 DEF mid
  <2> HIDE DEF one
  <2> QED BY <1>5, <1>6, <2>1, AccountsSet
<1>9. Accounts(after) = Overwrite(Accounts(mid), one)
  <2>1. after = SetAccounts(mid, one)
    BY <1>2 DEF mid
  <2> HIDE DEF one
  <2> QED BY <1>5, <1>6, <2>1, AccountsOverwritten
<1>10. SameBlocks(store, after)
  BY <1>6, <1>8 DEF SameBlocks
<1>11. tx.from \in Addr /\ tx.nonce \in Nat
  BY DEF IsSent
<1>12. GetAccount(store, tx.from).nonce = tx.nonce
  BY <1>3, <1>4, <1>11 DEF Effect
<1>13. GetAccount(after, tx.from) = w[2]
  BY <1>3, <1>8 DEF Effect
<1>14. Audited(tx, after)
  BY <1>3, <1>11, <1>13 DEF Effect, Audited
<1>15. ASSUME NEW addr \in Addr, addr # tx.from
       PROVE  /\ GetAccount(after, addr).pubKey = GetAccount(store, addr).pubKey
              /\ GetAccount(after, addr).nonce = GetAccount(store, addr).nonce
  <2>1. GetAccount(after, addr) = GetAccount(mid, addr)
    BY <1>3, <1>8, <1>15 DEF Effect
  <2>2. CASE \E a \in w[1] : a.address = addr
    <3>1. PICK a \in w[1] : a.address = addr
      BY <2>2
    <3>2. GetAccount(mid, addr) = a
      BY <1>6, <3>1
    <3> QED BY <1>3, <1>4, <2>1, <3>1, <3>2 DEF Effect
  <2>3. CASE \A a \in w[1] : a.address # addr
    BY <1>6, <2>1, <2>3
  <2> QED BY <2>2, <2>3
<1>16. ASSUME NEW t, IsSent(t), Audited(t, store) PROVE Audited(t, after)
  <2>1. CASE t.from = tx.from
    <3>1. w[2].pubKey = GetAccount(store, t.from).pubKey
      BY <1>3, <1>4, <1>11, <1>16, <2>1 DEF Effect, Audited
    <3>2. t.nonce < tx.nonce + 1 /\ w[2].nonce = tx.nonce + 1
      BY <1>3, <1>11, <1>12, <1>16, <2>1 DEF Effect, Audited, IsSent
    <3> QED BY <1>13, <1>16, <2>1, <3>1, <3>2 DEF Audited
  <2>2. CASE t.from # tx.from
    <3>1. t.from \in Addr
      BY <1>16 DEF IsSent
    <3> QED BY <1>15, <1>16, <2>2, <3>1 DEF Audited
  <2> QED BY <2>1, <2>2
<1>17. Accounts(after) \in Outcomes(Accounts(store), tx)
  <2>1. [a \in Addr |-> AccountOf(Accounts(store), a)] = get
    BY AccountOfRead DEF Gets
  <2>2. Accounts(after) = Overwrite(Overwrite(Accounts(store), w[1]), {w[2]})
    BY <1>7, <1>9
  <2> QED BY <1>2, <2>1, <2>2 DEF Outcomes
<1>18. Present(store) \subseteq Present(after)
  BY <1>6, <1>8
<1> QED BY <1>8, <1>18, <1>10, <1>12, <1>14, <1>16, <1>17

\* What a transaction makes of the stores before it.
ApplyStep(txs, i, last) ==
  UNION { Written(store, [a \in Addr |-> GetAccount(store, a)], txs[i]) : store \in last }

ApplySteps(f, txs) ==
  /\ DOMAIN f = 0 .. Len(txs)
  /\ f[0] = {kv}
  /\ \A i \in 1 .. Len(txs) : f[i] = ApplyStep(txs, i, f[i - 1])

\* The loop over a block's transactions is what its definition says.
LEMMA ApplyStepDefined ==
  ASSUME NEW txs, Len(txs) \in Nat
  PROVE  \E f : ApplySteps(f, txs) /\ ApplyTransactions(txs) = f[Len(txs)]
<1> DEFINE n == Len(txs)
           Step(i, last) == ApplyStep(txs, i, last)
           Is(f) == f = [i \in 0 .. n |-> IF i = 0 THEN {kv} ELSE Step(i, f[i - 1])]
           pick == CHOOSE f : Is(f)
           D == { m \in 0 .. n : \E f : /\ DOMAIN f = 0 .. m
                                        /\ f[0] = {kv}
                                        /\ \A i \in 1 .. m : f[i] = Step(i, f[i - 1]) }
<1>1. ApplyTransactions(txs) = pick[n]
  BY DEF ApplyTransactions, ApplyStep
<1> HIDE DEF Step
<1>2. 0 \in D
  <2> DEFINE f == [i \in 0 .. 0 |-> {kv}]
  <2>1. DOMAIN f = 0 .. 0 /\ f[0] = {kv} /\ 1 .. 0 = {}
    OBVIOUS
  <2> HIDE DEF f
  <2> QED BY <2>1
<1>3. ASSUME NEW m \in 1 .. n, m - 1 \in D PROVE m \in D
  <2>1. PICK f : /\ DOMAIN f = 0 .. m - 1
                 /\ f[0] = {kv}
                 /\ \A i \in 1 .. m - 1 : f[i] = Step(i, f[i - 1])
    BY <1>3
  <2> DEFINE g == [i \in 0 .. m |-> IF i = m THEN Step(m, f[m - 1]) ELSE f[i]]
  <2>2. /\ DOMAIN g = 0 .. m /\ g[m] = Step(m, f[m - 1])
        /\ \A i \in 0 .. m - 1 : g[i] = f[i]
    OBVIOUS
  <2> HIDE DEF g
  <2>3. ASSUME NEW i \in 1 .. m PROVE g[i] = Step(i, g[i - 1])
    <3>1. g[i - 1] = f[i - 1]
      BY <2>2
    <3>2. CASE i = m
      BY <2>2, <3>1, <3>2
    <3>3. CASE i # m
      BY <2>1, <2>2, <3>1, <3>3
    <3> QED BY <3>2, <3>3
  <2>4. g[0] = {kv} /\ m \in 0 .. n
    BY <2>1, <2>2
  <2> QED BY <2>2, <2>3, <2>4
<1>4. n \in D
  <2> HIDE DEF D
  <2>1. 0 .. n \subseteq D
    BY <1>2, <1>3, BoundedInduction
  <2> QED BY <2>1
<1>5. \E f : Is(f)
  <2>1. PICK f : /\ DOMAIN f = 0 .. n
                 /\ f[0] = {kv}
                 /\ \A i \in 1 .. n : f[i] = Step(i, f[i - 1])
    BY <1>4
  <2> DEFINE g == [i \in 0 .. n |-> f[i]]
  <2>2. /\ DOMAIN g = 0 .. n /\ g = [i \in DOMAIN g |-> g[i]]
        /\ \A i \in 0 .. n : g[i] = f[i]
    OBVIOUS
  <2> HIDE DEF g
  <2>3. \A i \in 0 .. n : g[i] = IF i = 0 THEN {kv} ELSE Step(i, g[i - 1])
    BY <2>1, <2>2
  <2>4. Is(g)
    BY <2>2, <2>3
  <2> HIDE DEF Is
  <2> QED BY <2>4
<1>6. Is(pick)
  <2> HIDE DEF Is
  <2> QED BY <1>5
<1> HIDE DEF pick
<1>7. /\ DOMAIN pick = 0 .. n /\ pick[0] = {kv}
      /\ \A i \in 1 .. n : pick[i] = Step(i, pick[i - 1])
  <2>1. DOMAIN pick = 0 .. n /\ pick[0] = {kv}
    BY <1>6
  <2>2. ASSUME NEW i \in 1 .. n PROVE pick[i] = Step(i, pick[i - 1])
    <3>1. i \in 0 .. n /\ i # 0
      OBVIOUS
    <3> QED BY <1>6, <3>1
  <2> QED BY <2>1, <2>2
<1> QED BY <1>1, <1>7 DEF ApplySteps, Step

\* And of the accounts of the log.
ExecuteStep(txs, accts, i, last) ==
  UNION { Outcomes(before, txs[i]) : before \in last }

ExecuteSteps(f, txs, accts) ==
  /\ DOMAIN f = 0 .. Len(txs)
  /\ f[0] = {accts}
  /\ \A i \in 1 .. Len(txs) : f[i] = ExecuteStep(txs, accts, i, f[i - 1])

\* The loop of the abstract execution is what its definition says.
LEMMA ExecuteStepDefined ==
  ASSUME NEW txs, NEW accts, Len(txs) \in Nat
  PROVE  \E f : ExecuteSteps(f, txs, accts) /\ Log!Execute(txs, accts) = f[Len(txs)]
<1> DEFINE n == Len(txs)
           Step(i, last) == ExecuteStep(txs, accts, i, last)
           Is(f) == f = [i \in 0 .. n |-> IF i = 0 THEN {accts} ELSE Step(i, f[i - 1])]
           pick == CHOOSE f : Is(f)
           D == { m \in 0 .. n : \E f : /\ DOMAIN f = 0 .. m
                                        /\ f[0] = {accts}
                                        /\ \A i \in 1 .. m : f[i] = Step(i, f[i - 1]) }
<1>1. Log!Execute(txs, accts) = pick[n]
  BY DEF Log!Execute, ExecuteStep
<1> HIDE DEF Step
<1>2. 0 \in D
  <2> DEFINE f == [i \in 0 .. 0 |-> {accts}]
  <2>1. DOMAIN f = 0 .. 0 /\ f[0] = {accts} /\ 1 .. 0 = {}
    OBVIOUS
  <2> HIDE DEF f
  <2> QED BY <2>1
<1>3. ASSUME NEW m \in 1 .. n, m - 1 \in D PROVE m \in D
  <2>1. PICK f : /\ DOMAIN f = 0 .. m - 1
                 /\ f[0] = {accts}
                 /\ \A i \in 1 .. m - 1 : f[i] = Step(i, f[i - 1])
    BY <1>3
  <2> DEFINE g == [i \in 0 .. m |-> IF i = m THEN Step(m, f[m - 1]) ELSE f[i]]
  <2>2. /\ DOMAIN g = 0 .. m /\ g[m] = Step(m, f[m - 1])
        /\ \A i \in 0 .. m - 1 : g[i] = f[i]
    OBVIOUS
  <2> HIDE DEF g
  <2>3. ASSUME NEW i \in 1 .. m PROVE g[i] = Step(i, g[i - 1])
    <3>1. g[i - 1] = f[i - 1]
      BY <2>2
    <3>2. CASE i = m
      BY <2>2, <3>1, <3>2
    <3>3. CASE i # m
      BY <2>1, <2>2, <3>1, <3>3
    <3> QED BY <3>2, <3>3
  <2>4. g[0] = {accts} /\ m \in 0 .. n
    BY <2>1, <2>2
  <2> QED BY <2>2, <2>3, <2>4
<1>4. n \in D
  <2> HIDE DEF D
  <2>1. 0 .. n \subseteq D
    BY <1>2, <1>3, BoundedInduction
  <2> QED BY <2>1
<1>5. \E f : Is(f)
  <2>1. PICK f : /\ DOMAIN f = 0 .. n
                 /\ f[0] = {accts}
                 /\ \A i \in 1 .. n : f[i] = Step(i, f[i - 1])
    BY <1>4
  <2> DEFINE g == [i \in 0 .. n |-> f[i]]
  <2>2. /\ DOMAIN g = 0 .. n /\ g = [i \in DOMAIN g |-> g[i]]
        /\ \A i \in 0 .. n : g[i] = f[i]
    OBVIOUS
  <2> HIDE DEF g
  <2>3. \A i \in 0 .. n : g[i] = IF i = 0 THEN {accts} ELSE Step(i, g[i - 1])
    BY <2>1, <2>2
  <2>4. Is(g)
    BY <2>2, <2>3
  <2> HIDE DEF Is
  <2> QED BY <2>4
<1>6. Is(pick)
  <2> HIDE DEF Is
  <2> QED BY <1>5
<1> HIDE DEF pick
<1>7. /\ DOMAIN pick = 0 .. n /\ pick[0] = {accts}
      /\ \A i \in 1 .. n : pick[i] = Step(i, pick[i - 1])
  <2>1. DOMAIN pick = 0 .. n /\ pick[0] = {accts}
    BY <1>6
  <2>2. ASSUME NEW i \in 1 .. n PROVE pick[i] = Step(i, pick[i - 1])
    <3>1. i \in 0 .. n /\ i # 0
      OBVIOUS
    <3> QED BY <1>6, <3>1
  <2> QED BY <2>1, <2>2
<1> QED BY <1>1, <1>7 DEF ExecuteSteps, Step

IsSentAll(txs) ==
  txs \in Seq({ txs[i] : i \in DOMAIN txs }) /\ \A i \in DOMAIN txs : IsSent(txs[i])

\* What a store is that executing the first m of txs leads to from the state's.
Executed(store, txs, m) ==
  /\ AccountsHeld(store) /\ Present(kv) \subseteq Present(store) /\ SameBlocks(kv, store)
  /\ \A t : IsSent(t) /\ Audited(t, kv) => Audited(t, store)
  /\ \A i \in 1 .. m : Audited(txs[i], store)
  /\ \A i, j \in 1 .. m :
       txs[i].from = txs[j].from /\ txs[i].nonce = txs[j].nonce => i = j
  /\ \A i \in 1 .. m : \A t : IsSent(t) /\ Audited(t, kv) =>
       ~ (t.from = txs[i].from /\ t.nonce = txs[i].nonce)

\* One more transaction executed keeps what is known of those before it: all can
\* be audited, and no two of them, nor one of them and an older one, have the same
\* sender and nonce.
LEMMA ExecutedStep ==
  ASSUME AccountsHeld(kv), NEW txs, NEW m \in Nat \ {0}, \A i \in 1 .. m : IsSent(txs[i]),
         NEW store, Executed(store, txs, m - 1),
         NEW after \in Written(store, Gets(store), txs[m])
  PROVE  Executed(after, txs, m)
<1> DEFINE tx == txs[m]
<1>1. IsSent(tx)
  OBVIOUS
<1>2. AccountsHeld(store)
  BY DEF Executed
<1> HIDE DEF tx
<1>3. after \in Written(store, Gets(store), tx)
  BY DEF tx
<1>4. /\ AccountsHeld(after) /\ SameBlocks(store, after) /\ Present(store) \subseteq Present(after)
      /\ GetAccount(store, tx.from).nonce = tx.nonce
      /\ Audited(tx, after)
      /\ \A t : IsSent(t) /\ Audited(t, store) => Audited(t, after)
  BY <1>1, <1>2, <1>3, WrittenEffect
<1>5. SameBlocks(kv, after)
  <2>1. SameBlocks(kv, store)
    BY DEF Executed
  <2> QED BY <1>4, <2>1 DEF SameBlocks
<1>6. \A t : IsSent(t) /\ Audited(t, kv) => Audited(t, store)
  BY DEF Executed
<1>7. \A i \in 1 .. m - 1 : Audited(txs[i], store) /\ IsSent(txs[i])
  BY DEF Executed
<1>8. \A i \in 1 .. m : i = m \/ i \in 1 .. m - 1
  OBVIOUS
<1>9. \A i \in 1 .. m : Audited(txs[i], after)
  BY <1>4, <1>7, <1>8 DEF tx
<1>10. ASSUME NEW t, IsSent(t), Audited(t, store), t.from = tx.from PROVE t.nonce # tx.nonce
  <2>1. t.nonce < tx.nonce /\ tx.nonce \in Nat /\ t.nonce \in Nat
    BY <1>1, <1>4, <1>10 DEF Audited, IsSent
  <2> QED BY <2>1
<1>11. ASSUME NEW i \in 1 .. m, NEW j \in 1 .. m,
              txs[i].from = txs[j].from, txs[i].nonce = txs[j].nonce
       PROVE  i = j
  <2>1. CASE i \in 1 .. m - 1 /\ j \in 1 .. m - 1
    BY <1>11, <2>1 DEF Executed
  <2>2. CASE i = m /\ j \in 1 .. m - 1
    BY <1>7, <1>10, <1>11, <2>2 DEF tx
  <2>3. CASE j = m /\ i \in 1 .. m - 1
    BY <1>7, <1>10, <1>11, <2>3 DEF tx
  <2> QED BY <1>8, <2>1, <2>2, <2>3
<1>12. ASSUME NEW i \in 1 .. m, NEW t, IsSent(t), Audited(t, kv)
       PROVE  ~ (t.from = txs[i].from /\ t.nonce = txs[i].nonce)
  <2>1. CASE i \in 1 .. m - 1
    BY <1>12, <2>1 DEF Executed
  <2>2. CASE i = m
    BY <1>6, <1>10, <1>12, <2>2 DEF tx
  <2> QED BY <1>8, <2>1, <2>2
<1>13. \A t : IsSent(t) /\ Audited(t, kv) => Audited(t, after)
  BY <1>4, <1>6
<1>14. Present(kv) \subseteq Present(after)
  BY <1>4 DEF Executed
<1> QED BY <1>4, <1>14, <1>5, <1>9, <1>11, <1>12, <1>13 DEF Executed

\* What a block's transactions leave in the store, and that the accounts read from
\* it are an abstract execution on the accounts read before.
LEMMA ApplyEffect ==
  ASSUME AccountsHeld(kv), NEW txs, IsSentAll(txs), NEW store \in ApplyTransactions(txs)
  PROVE  /\ Executed(store, txs, Len(txs))
         /\ Accounts(store) \in Log!Execute(txs, Accounts(kv))
<1>1. Len(txs) \in Nat /\ DOMAIN txs = 1 .. Len(txs) /\ \A i \in 1 .. Len(txs) : IsSent(txs[i])
  BY DEF IsSentAll
<1>2. PICK f : ApplySteps(f, txs) /\ ApplyTransactions(txs) = f[Len(txs)]
  BY <1>1, ApplyStepDefined
<1> DEFINE accts == Accounts(kv)
<1>3. PICK g : ExecuteSteps(g, txs, accts) /\ Log!Execute(txs, accts) = g[Len(txs)]
  BY <1>1, ExecuteStepDefined
<1> HIDE DEF accts
<1> DEFINE D == { m \in 0 .. Len(txs) :
                    \A s \in f[m] : Executed(s, txs, m) /\ Accounts(s) \in g[m] }
<1>4. 0 \in D
  <2>1. f[0] = {kv} /\ g[0] = {accts}
    BY <1>2, <1>3 DEF ApplySteps, ExecuteSteps
  <2>2. Executed(kv, txs, 0)
    BY DEF Executed, SameBlocks
  <2> QED BY <1>1, <2>1, <2>2 DEF accts
<1>5. ASSUME NEW m \in 1 .. Len(txs), m - 1 \in D PROVE m \in D
  <2>1. f[m] = ApplyStep(txs, m, f[m - 1]) /\ g[m] = ExecuteStep(txs, accts, m, g[m - 1])
    BY <1>2, <1>3 DEF ApplySteps, ExecuteSteps
  <2>2. ASSUME NEW s \in f[m] PROVE Executed(s, txs, m) /\ Accounts(s) \in g[m]
    <3>1. PICK before \in f[m - 1] : s \in Written(before, Gets(before), txs[m])
      BY <2>1 DEF ApplyStep, Gets
    <3>2. Executed(before, txs, m - 1) /\ Accounts(before) \in g[m - 1]
      BY <1>5
    <3>3. m \in Nat \ {0} /\ \A i \in 1 .. m : IsSent(txs[i])
      BY <1>1
    <3>4. Executed(s, txs, m)
      BY <3>1, <3>2, <3>3, ExecutedStep
    <3>5. IsSent(txs[m]) /\ AccountsHeld(before)
      BY <1>1, <3>2 DEF Executed
    <3>6. Accounts(s) \in Outcomes(Accounts(before), txs[m])
      BY <3>1, <3>5, WrittenEffect
    <3>7. Accounts(s) \in g[m]
      BY <2>1, <3>2, <3>6 DEF ExecuteStep
    <3> QED BY <3>4, <3>7
  <2> QED BY <2>2
<1>6. Len(txs) \in D
  <2> HIDE DEF D
  <2>1. 0 .. Len(txs) \subseteq D
    BY <1>1, <1>4, <1>5, BoundedInduction
  <2> QED BY <1>1, <2>1
<1> QED BY <1>2, <1>3, <1>6 DEF accts

-----------------------------------------------------------------------------
(* The state root.                                                           *)

\* The accounts of an address, by its place.
At(accounts, i) == { a \in accounts : a.address = AddrOrder[i] }

Leaf(a) ==
  HashBytes(Opaque("leaf", 0, << >>) \o AccountKey(a.address) \o MarshalAccount(a))

Pair(u, v) == HashBytes(Opaque("inner", 0, << >>) \o u \o v)

\* The leaves with those of the accounts of an address.
LeafStep(accounts, i, last) ==
  IF At(accounts, i) = {} THEN last
  ELSE Append(last, Leaf(CHOOSE a \in At(accounts, i) : TRUE))

LeafSteps(f, accounts) ==
  /\ DOMAIN f = 0 .. UpperBound
  /\ f[0] = << >>
  /\ \A i \in 1 .. UpperBound : f[i] = LeafStep(accounts, i, f[i - 1])

\* The loop over the ordered accounts is what its definition says.
LEMMA LeafStepDefined ==
  ASSUME NEW accounts, UpperBound \in Nat
  PROVE  \E f : LeafSteps(f, accounts) /\ Leaves(accounts) = f[UpperBound]
<1> DEFINE n == UpperBound
           Step(i, last) == LeafStep(accounts, i, last)
           Is(f) == f = [i \in 0 .. n |-> IF i = 0 THEN << >> ELSE Step(i, f[i - 1])]
           pick == CHOOSE f : Is(f)
           D == { m \in 0 .. n : \E f : /\ DOMAIN f = 0 .. m
                                        /\ f[0] = << >>
                                        /\ \A i \in 1 .. m : f[i] = Step(i, f[i - 1]) }
<1>1. Leaves(accounts) = pick[n]
  BY DEF Leaves, At, Leaf, LeafStep
<1> HIDE DEF Step
<1>2. 0 \in D
  <2> DEFINE f == [i \in 0 .. 0 |-> << >>]
  <2>1. DOMAIN f = 0 .. 0 /\ f[0] = << >> /\ 1 .. 0 = {}
    OBVIOUS
  <2> HIDE DEF f
  <2> QED BY <2>1
<1>3. ASSUME NEW m \in 1 .. n, m - 1 \in D PROVE m \in D
  <2>1. PICK f : /\ DOMAIN f = 0 .. m - 1
                 /\ f[0] = << >>
                 /\ \A i \in 1 .. m - 1 : f[i] = Step(i, f[i - 1])
    BY <1>3
  <2> DEFINE g == [i \in 0 .. m |-> IF i = m THEN Step(m, f[m - 1]) ELSE f[i]]
  <2>2. /\ DOMAIN g = 0 .. m /\ g[m] = Step(m, f[m - 1])
        /\ \A i \in 0 .. m - 1 : g[i] = f[i]
    OBVIOUS
  <2> HIDE DEF g
  <2>3. ASSUME NEW i \in 1 .. m PROVE g[i] = Step(i, g[i - 1])
    <3>1. g[i - 1] = f[i - 1]
      BY <2>2
    <3>2. CASE i = m
      BY <2>2, <3>1, <3>2
    <3>3. CASE i # m
      BY <2>1, <2>2, <3>1, <3>3
    <3> QED BY <3>2, <3>3
  <2>4. g[0] = << >> /\ m \in 0 .. n
    BY <2>1, <2>2
  <2> QED BY <2>2, <2>3, <2>4
<1>4. n \in D
  <2> HIDE DEF D
  <2>1. 0 .. n \subseteq D
    BY <1>2, <1>3, BoundedInduction
  <2> QED BY <2>1
<1>5. \E f : Is(f)
  <2>1. PICK f : /\ DOMAIN f = 0 .. n
                 /\ f[0] = << >>
                 /\ \A i \in 1 .. n : f[i] = Step(i, f[i - 1])
    BY <1>4
  <2> DEFINE g == [i \in 0 .. n |-> f[i]]
  <2>2. /\ DOMAIN g = 0 .. n /\ g = [i \in DOMAIN g |-> g[i]]
        /\ \A i \in 0 .. n : g[i] = f[i]
    OBVIOUS
  <2> HIDE DEF g
  <2>3. \A i \in 0 .. n : g[i] = IF i = 0 THEN << >> ELSE Step(i, g[i - 1])
    BY <2>1, <2>2
  <2>4. Is(g)
    BY <2>2, <2>3
  <2> HIDE DEF Is
  <2> QED BY <2>4
<1>6. Is(pick)
  <2> HIDE DEF Is
  <2> QED BY <1>5
<1> HIDE DEF pick
<1>7. /\ DOMAIN pick = 0 .. n /\ pick[0] = << >>
      /\ \A i \in 1 .. n : pick[i] = Step(i, pick[i - 1])
  <2>1. DOMAIN pick = 0 .. n /\ pick[0] = << >>
    BY <1>6
  <2>2. ASSUME NEW i \in 1 .. n PROVE pick[i] = Step(i, pick[i - 1])
    <3>1. i \in 0 .. n /\ i # 0
      OBVIOUS
    <3> QED BY <1>6, <3>1
  <2> QED BY <2>1, <2>2
<1> QED BY <1>1, <1>7 DEF LeafSteps, Step

\* The level above.
RootStep(leaves, i, last) ==
  IF Len(last) = 1 THEN last ELSE Level(last)

RootSteps(f, leaves) ==
  /\ DOMAIN f = 0 .. Len(leaves)
  /\ f[0] = leaves
  /\ \A i \in 1 .. Len(leaves) : f[i] = RootStep(leaves, i, f[i - 1])

\* The loop over the levels of the tree is what its definition says.
LEMMA RootStepDefined ==
  ASSUME NEW leaves, Len(leaves) \in Nat
  PROVE  \E f : RootSteps(f, leaves) /\ MerkleRoot(leaves) = f[Len(leaves)][1]
<1> DEFINE n == Len(leaves)
           Step(i, last) == RootStep(leaves, i, last)
           Is(f) == f = [i \in 0 .. n |-> IF i = 0 THEN leaves ELSE Step(i, f[i - 1])]
           pick == CHOOSE f : Is(f)
           D == { m \in 0 .. n : \E f : /\ DOMAIN f = 0 .. m
                                        /\ f[0] = leaves
                                        /\ \A i \in 1 .. m : f[i] = Step(i, f[i - 1]) }
<1>1. MerkleRoot(leaves) = pick[n][1]
  BY DEF MerkleRoot, RootStep
<1> HIDE DEF Step
<1>2. 0 \in D
  <2> DEFINE f == [i \in 0 .. 0 |-> leaves]
  <2>1. DOMAIN f = 0 .. 0 /\ f[0] = leaves /\ 1 .. 0 = {}
    OBVIOUS
  <2> HIDE DEF f
  <2> QED BY <2>1
<1>3. ASSUME NEW m \in 1 .. n, m - 1 \in D PROVE m \in D
  <2>1. PICK f : /\ DOMAIN f = 0 .. m - 1
                 /\ f[0] = leaves
                 /\ \A i \in 1 .. m - 1 : f[i] = Step(i, f[i - 1])
    BY <1>3
  <2> DEFINE g == [i \in 0 .. m |-> IF i = m THEN Step(m, f[m - 1]) ELSE f[i]]
  <2>2. /\ DOMAIN g = 0 .. m /\ g[m] = Step(m, f[m - 1])
        /\ \A i \in 0 .. m - 1 : g[i] = f[i]
    OBVIOUS
  <2> HIDE DEF g
  <2>3. ASSUME NEW i \in 1 .. m PROVE g[i] = Step(i, g[i - 1])
    <3>1. g[i - 1] = f[i - 1]
      BY <2>2
    <3>2. CASE i = m
      BY <2>2, <3>1, <3>2
    <3>3. CASE i # m
      BY <2>1, <2>2, <3>1, <3>3
    <3> QED BY <3>2, <3>3
  <2>4. g[0] = leaves /\ m \in 0 .. n
    BY <2>1, <2>2
  <2> QED BY <2>2, <2>3, <2>4
<1>4. n \in D
  <2> HIDE DEF D
  <2>1. 0 .. n \subseteq D
    BY <1>2, <1>3, BoundedInduction
  <2> QED BY <2>1
<1>5. \E f : Is(f)
  <2>1. PICK f : /\ DOMAIN f = 0 .. n
                 /\ f[0] = leaves
                 /\ \A i \in 1 .. n : f[i] = Step(i, f[i - 1])
    BY <1>4
  <2> DEFINE g == [i \in 0 .. n |-> f[i]]
  <2>2. /\ DOMAIN g = 0 .. n /\ g = [i \in DOMAIN g |-> g[i]]
        /\ \A i \in 0 .. n : g[i] = f[i]
    OBVIOUS
  <2> HIDE DEF g
  <2>3. \A i \in 0 .. n : g[i] = IF i = 0 THEN leaves ELSE Step(i, g[i - 1])
    BY <2>1, <2>2
  <2>4. Is(g)
    BY <2>2, <2>3
  <2> HIDE DEF Is
  <2> QED BY <2>4
<1>6. Is(pick)
  <2> HIDE DEF Is
  <2> QED BY <1>5
<1> HIDE DEF pick
<1>7. /\ DOMAIN pick = 0 .. n /\ pick[0] = leaves
      /\ \A i \in 1 .. n : pick[i] = Step(i, pick[i - 1])
  <2>1. DOMAIN pick = 0 .. n /\ pick[0] = leaves
    BY <1>6
  <2>2. ASSUME NEW i \in 1 .. n PROVE pick[i] = Step(i, pick[i - 1])
    <3>1. i \in 0 .. n /\ i # 0
      OBVIOUS
    <3> QED BY <1>6, <3>1
  <2> QED BY <2>1, <2>2
<1> QED BY <1>1, <1>7 DEF RootSteps, Step

\* Hashes of things; only the empty state has the hash of nothing.
IsNode(v) == \E b : v = HashBytes(b) /\ b # << >>

Nodes(x) == \E S : x \in Seq(S) /\ \A v \in S : IsNode(v)

\* A hash has the form of a hash, and holds what was hashed.
LEMMA HashFields ==
  ASSUME NEW b
  PROVE  /\ IsHash(HashBytes(b)) /\ HashBytes(b)[1].b = b
         /\ \E S : HashBytes(b) \in Seq(S) /\ Len(HashBytes(b)) = 1
<1> DEFINE cell == [num |-> 0, type |-> "hash", n |-> 0, b |-> b]
<1>1. cell.type = "hash" /\ cell.b = b
  OBVIOUS
<1>2. HashBytes(b) = << cell >>
  BY DEF HashBytes, Opaque
<1> HIDE DEF cell
<1> DEFINE S == {cell}
<1>3. cell \in S
  OBVIOUS
<1> HIDE DEF S
<1>4. HashBytes(b) \in Seq(S) /\ Len(HashBytes(b)) = 1 /\ HashBytes(b)[1] = cell
  BY <1>2, <1>3, OneSeq
<1> QED BY <1>1, <1>4 DEF IsHash

\* Lengths and elements of three sequences written one after the other.
LEMMA Concatenation3 ==
  ASSUME NEW S, NEW s \in Seq(S), NEW t \in Seq(S), NEW u \in Seq(S)
  PROVE  LET r == s \o t \o u
         IN  /\ r \in Seq(S) /\ Len(r) = Len(s) + Len(t) + Len(u)
             /\ \A i \in 1 .. Len(s) : r[i] = s[i]
             /\ \A i \in 1 .. Len(t) : r[Len(s) + i] = t[i]
             /\ \A i \in 1 .. Len(u) : r[Len(s) + Len(t) + i] = u[i]
<1> DEFINE q == s \o t
           r == q \o u
<1>1. /\ q \in Seq(S) /\ Len(q) = Len(s) + Len(t)
      /\ \A i \in 1 .. Len(s) : q[i] = s[i]
      /\ \A i \in 1 .. Len(t) : q[Len(s) + i] = t[i]
  <2>1. q = s \o t
    OBVIOUS
  <2> HIDE DEF q
  <2> QED BY <2>1, Concatenation
<1> HIDE DEF q
<1>2. /\ r \in Seq(S) /\ Len(r) = Len(q) + Len(u)
      /\ \A i \in 1 .. Len(q) : r[i] = q[i]
      /\ \A i \in 1 .. Len(u) : r[Len(q) + i] = u[i]
  <2>1. r = q \o u
    OBVIOUS
  <2>2. q \in Seq(S)
    BY <1>1
  <2> HIDE DEF r
  <2> QED BY <2>1, <2>2, Concatenation
<1> HIDE DEF r
<1>3. Len(s) \in Nat /\ Len(t) \in Nat /\ Len(u) \in Nat
  OBVIOUS
<1>4. ASSUME NEW i \in 1 .. Len(s) PROVE r[i] = s[i]
  BY <1>1, <1>2, <1>3
<1>5. ASSUME NEW i \in 1 .. Len(t) PROVE r[Len(s) + i] = t[i]
  BY <1>1, <1>2, <1>3
<1>6. Len(r) = Len(s) + Len(t) + Len(u)
  BY <1>1, <1>2
<1>7. \A i \in 1 .. Len(u) : r[Len(s) + Len(t) + i] = u[i]
  BY <1>1, <1>2
<1> QED BY <1>2, <1>4, <1>5, <1>6, <1>7 DEF q, r

\* A part of one field, another, and a third part.
LEMMA Headed ==
  ASSUME NEW S, NEW s \in Seq(S), NEW t \in Seq(S), NEW u \in Seq(S)
  PROVE  LET r == s \o t \o u
         IN  Len(s) = 1 /\ Len(t) = 1 =>
               /\ r \in Seq(S) /\ Len(r) = 2 + Len(u) /\ r[1] = s[1] /\ r[2] = t[1]
               /\ \A i \in 1 .. Len(u) : r[2 + i] = u[i]
<1> DEFINE r == s \o t \o u
<1>2. /\ r \in Seq(S) /\ Len(r) = Len(s) + Len(t) + Len(u)
      /\ \A i \in 1 .. Len(s) : r[i] = s[i]
      /\ \A i \in 1 .. Len(t) : r[Len(s) + i] = t[i]
      /\ \A i \in 1 .. Len(u) : r[Len(s) + Len(t) + i] = u[i]
  BY Concatenation3
<1> HIDE DEF r
<1> QED BY <1>2 DEF r

\* A sequence is one over any set that has its elements.
LEMMA SeqOver ==
  ASSUME NEW S, NEW T, NEW v \in Seq(S), \A i \in 1 .. Len(v) : v[i] \in T
  PROVE  v \in Seq(T)
OBVIOUS

\* A sequence of length one is over its own element.
LEMMA OneOfItself ==
  ASSUME NEW S, NEW v \in Seq(S)
  PROVE  Len(v) = 1 => v \in Seq({v[1]})
<1> DEFINE T == {v[1]}
<1>1. Len(v) = 1 => \A i \in 1 .. Len(v) : v[i] \in T
  OBVIOUS
<1> HIDE DEF T
<1>2. (\A i \in 1 .. Len(v) : v[i] \in T) => v \in Seq(T)
  BY SeqOver
<1> QED BY <1>1, <1>2, Zenon DEF T

\* A node of the tree is one hash cell.
LEMMA NodeSeq ==
  ASSUME NEW v, IsNode(v)
  PROVE  v \in Seq({v[1]}) /\ Len(v) = 1 /\ IsHash(v)
<1>1. PICK b : v = HashBytes(b)
  BY DEF IsNode
<1>2. PICK S : HashBytes(b) \in Seq(S) /\ Len(HashBytes(b)) = 1
  BY HashFields
<1>3. v \in Seq(S) /\ Len(v) = 1
  BY <1>1, <1>2
<1>4. v \in Seq({v[1]})
  BY <1>3, OneOfItself
<1> QED BY <1>1, <1>3, <1>4, HashFields

\* The part before a leaf's or a pair's others.
LEMMA TagSeq ==
  ASSUME NEW type, NEW n, NEW b
  PROVE  LET o == Opaque(type, n, b)
         IN  o \in Seq({o[1]}) /\ Len(o) = 1 /\ o[1].type = type /\ o[1].b = b
<1> DEFINE cell == [num |-> 0, type |-> type, n |-> n, b |-> b]
           o == Opaque(type, n, b)
<1>1. cell.type = type /\ cell.b = b
  OBVIOUS
<1>2. o = << cell >>
  BY DEF Opaque
<1> HIDE DEF cell, o
<1>3. o \in Seq({o[1]}) /\ Len(o) = 1 /\ o[1] = cell
  BY <1>2
<1> QED BY <1>1, <1>3 DEF o

\* A pair's bytes.
LEMMA PairBytes ==
  ASSUME NEW u, NEW v, IsNode(u), IsNode(v)
  PROVE  LET r == Opaque("inner", 0, << >>) \o u \o v
         IN  Len(r) = 3 /\ r[1].type = "inner" /\ r[2] = u[1] /\ r[3] = v[1] /\ r # << >>
<1> DEFINE o == Opaque("inner", 0, << >>)
           S == {o[1], u[1], v[1]}
           r == o \o u \o v
<1>1. o \in Seq({o[1]}) /\ Len(o) = 1 /\ o[1].type = "inner"
  BY TagSeq
<1> HIDE DEF o
<1>2. u \in Seq({u[1]}) /\ v \in Seq({v[1]}) /\ Len(u) = 1 /\ Len(v) = 1
  BY NodeSeq
<1>3. o \in Seq(S) /\ u \in Seq(S) /\ v \in Seq(S)
  BY <1>1, <1>2
<1> HIDE DEF S
<1>4. /\ Len(r) = 2 + Len(v) /\ r[1] = o[1] /\ r[2] = u[1]
      /\ \A i \in 1 .. Len(v) : r[2 + i] = v[i]
  <2>1. Len(o) = 1 /\ Len(u) = 1 =>
          /\ r \in Seq(S) /\ Len(r) = 2 + Len(v) /\ r[1] = o[1] /\ r[2] = u[1]
          /\ \A i \in 1 .. Len(v) : r[2 + i] = v[i]
    BY <1>3, Headed
  <2> HIDE DEF r
  <2> QED BY <1>1, <1>2, <2>1
<1> HIDE DEF r
<1>5. r[3] = v[1] /\ Len(r) = 3
  BY <1>2, <1>4
<1>6. r # << >>
  BY <1>5
<1> QED BY <1>1, <1>4, <1>5, <1>6 DEF r, o

\* Hashes are free: equal hashes have equal contents.
LEMMA HashInjective ==
  ASSUME NEW b, NEW c, HashBytes(b) = HashBytes(c)
  PROVE  b = c
<1>1. HashBytes(b)[1].b = b /\ HashBytes(c)[1].b = c
  BY HashFields
<1> QED BY <1>1

\* Nodes are told apart by their cells.
LEMMA SameNode ==
  ASSUME NEW u, NEW v, IsNode(u), IsNode(v), u[1] = v[1]
  PROVE  u = v
<1>1. u \in Seq({u[1]}) /\ v \in Seq({v[1]}) /\ Len(u) = 1 /\ Len(v) = 1
  BY NodeSeq
<1> QED BY <1>1

\* An inner node determines both its children, in their order.
LEMMA PairInjective ==
  ASSUME NEW u, NEW v, NEW x, NEW y, IsNode(u), IsNode(v), IsNode(x), IsNode(y)
  PROVE  /\ IsNode(Pair(u, v))
         /\ Pair(u, v) = Pair(x, y) => u = x /\ v = y
<1> DEFINE r == Opaque("inner", 0, << >>) \o u \o v
           q == Opaque("inner", 0, << >>) \o x \o y
<1>1. r[2] = u[1] /\ r[3] = v[1] /\ r # << >>
  BY PairBytes
<1>2. q[2] = x[1] /\ q[3] = y[1]
  BY PairBytes
<1>3. Pair(u, v) = HashBytes(r) /\ Pair(x, y) = HashBytes(q)
  BY DEF Pair
<1> HIDE DEF r, q
<1>4. Pair(u, v) = Pair(x, y) => r = q
  BY <1>3, HashInjective
<1>5. IsNode(Pair(u, v))
  BY <1>1, <1>3 DEF IsNode
<1>6. ASSUME Pair(u, v) = Pair(x, y) PROVE u = x /\ v = y
  <2>1. u[1] = x[1] /\ v[1] = y[1]
    BY <1>1, <1>2, <1>4, <1>6
  <2> QED BY <2>1, SameNode
<1> QED BY <1>5, <1>6

\* The second node of a pair of a level.
Mate(x, i) == IF 2 * i <= Len(x) THEN 2 * i ELSE 2 * i - 1

Distinct(x) == \A i, j \in DOMAIN x : x[i] = x[j] => i = j

\* A level pairs the nodes of the one below, its last with itself if it has to.
LEMMA LevelNodes ==
  ASSUME NEW x, Nodes(x), Len(x) > 0
  PROVE  /\ Nodes(Level(x)) /\ 2 * Len(Level(x)) \in {Len(x), Len(x) + 1}
         /\ \A i \in 1 .. Len(Level(x)) :
              /\ Level(x)[i] = Pair(x[2 * i - 1], x[Mate(x, i)])
              /\ 2 * i - 1 \in 1 .. Len(x) /\ Mate(x, i) \in 1 .. Len(x)
              /\ IsNode(x[2 * i - 1]) /\ IsNode(x[Mate(x, i)])
<1>1. PICK S : x \in Seq(S) /\ \A v \in S : IsNode(v)
  BY DEF Nodes
<1> DEFINE n == Len(x)
           m == (n + 1) \div 2
           T == { Pair(u, v) : u \in S, v \in S }
           y == [i \in 1 .. m |-> Pair(x[2 * i - 1], x[Mate(x, i)])]
<1>2. n \in Nat /\ n > 0 /\ DOMAIN x = 1 .. n /\ \A i \in 1 .. n : x[i] \in S
  BY <1>1
<1>3. Level(x) = y
  BY DEF Level, Pair, Mate
<1>4. m \in Nat /\ 2 * m \in {n, n + 1}
  <2> HIDE DEF n
  <2> QED BY <1>2
<1> HIDE DEF n, m
<1>5. ASSUME NEW i \in 1 .. m
      PROVE  /\ 2 * i - 1 \in 1 .. n /\ Mate(x, i) \in 1 .. n
             /\ x[2 * i - 1] \in S /\ x[Mate(x, i)] \in S
  <2>1. 2 * i - 1 \in 1 .. n
    BY <1>2, <1>4
  <2>2. Mate(x, i) \in 1 .. n
    <3>1. Mate(x, i) = IF 2 * i <= n THEN 2 * i ELSE 2 * i - 1
      BY DEF Mate, n
    <3> QED BY <1>2, <2>1, <3>1
  <2> QED BY <1>2, <2>1, <2>2
<1>6. \A v \in T : IsNode(v)
  BY <1>1, PairInjective
<1>7. y \in Seq(T) /\ Len(y) = m /\ \A i \in 1 .. m : y[i] = Pair(x[2 * i - 1], x[Mate(x, i)])
  <2>1. \A i \in 1 .. m : Pair(x[2 * i - 1], x[Mate(x, i)]) \in T
    BY <1>5
  <2> HIDE DEF T
  <2> QED BY <1>4, <2>1
<1> HIDE DEF y, T
<1>8. Nodes(y)
  BY <1>6, <1>7 DEF Nodes
<1> QED BY <1>1, <1>3, <1>4, <1>5, <1>7, <1>8 DEF n

\* Arithmetic: the two levels that a level of m nodes may be made from.
LEMMA Halves ==
  ASSUME NEW n \in Nat, NEW m \in Nat, 2 * m \in {n, n + 1}
  PROVE  n <= 2 * m /\ n \in {2 * m, 2 * m - 1} /\ (n > 0 => m > 0 /\ m \in 1 .. m)
OBVIOUS

\* A level with distinct nodes determines the one it was made from, whether its
\* last node was paired with itself or not.
LEMMA LevelInjective ==
  ASSUME NEW x, NEW y, Nodes(x), Nodes(y), Len(x) > 0, Len(y) > 0,
         Distinct(x), Distinct(y)
  PROVE  /\ Distinct(Level(x))
         /\ Level(x) = Level(y) => x = y
<1>1. /\ Len(x) \in Nat /\ Len(y) \in Nat /\ Len(Level(x)) \in Nat
      /\ DOMAIN x = 1 .. Len(x) /\ DOMAIN y = 1 .. Len(y)
      /\ DOMAIN Level(x) = 1 .. Len(Level(x))
  <2>1. Nodes(Level(x))
    BY LevelNodes
  <2> QED BY <2>1 DEF Nodes
<1> DEFINE m == Len(Level(x))
<1>2. /\ 2 * m \in {Len(x), Len(x) + 1}
      /\ \A i \in 1 .. m :
           /\ Level(x)[i] = Pair(x[2 * i - 1], x[Mate(x, i)])
           /\ 2 * i - 1 \in 1 .. Len(x) /\ Mate(x, i) \in 1 .. Len(x)
           /\ IsNode(x[2 * i - 1]) /\ IsNode(x[Mate(x, i)])
  BY LevelNodes
<1>5. /\ m \in Nat /\ m > 0 /\ m \in 1 .. m
      /\ Len(x) <= 2 * m /\ Len(x) \in {2 * m, 2 * m - 1}
  <2>1. m \in Nat /\ Len(x) \in Nat /\ 2 * m \in {Len(x), Len(x) + 1}
    BY <1>1, <1>2
  <2> HIDE DEF m
  <2> QED BY <2>1, Halves
<1>3. Distinct(Level(x))
  <2>1. ASSUME NEW i \in 1 .. m, NEW j \in 1 .. m, Level(x)[i] = Level(x)[j] PROVE i = j
    <3>1. x[2 * i - 1] = x[2 * j - 1]
      BY <1>2, <2>1, PairInjective
    <3>2. 2 * i - 1 = 2 * j - 1
      BY <1>1, <1>2, <3>1 DEF Distinct
    <3> QED BY <3>2
  <2> QED BY <1>1, <2>1 DEF Distinct
<1>4. ASSUME Level(x) = Level(y) PROVE x = y
  <2>1. /\ 2 * m \in {Len(y), Len(y) + 1}
        /\ \A i \in 1 .. m :
             /\ Level(y)[i] = Pair(y[2 * i - 1], y[Mate(y, i)])
             /\ 2 * i - 1 \in 1 .. Len(y) /\ Mate(y, i) \in 1 .. Len(y)
             /\ IsNode(y[2 * i - 1]) /\ IsNode(y[Mate(y, i)])
    <3>1. Len(Level(y)) = m
      BY <1>4
    <3> HIDE DEF m
    <3> QED BY <3>1, LevelNodes
  <2> HIDE DEF m
  <2>2. ASSUME NEW i \in 1 .. m
        PROVE  x[2 * i - 1] = y[2 * i - 1] /\ x[Mate(x, i)] = y[Mate(y, i)]
    <3>1. Pair(x[2 * i - 1], x[Mate(x, i)]) = Pair(y[2 * i - 1], y[Mate(y, i)])
      BY <1>2, <1>4, <2>1
    <3> QED BY <1>2, <2>1, <3>1, PairInjective
  <2>3. m \in Nat /\ m > 0 /\ m \in 1 .. m
    BY <1>1, <1>5
  <2>4. Len(x) = Len(y)
    <3>1. ASSUME Len(x) = 2 * m, Len(y) = 2 * m - 1 PROVE FALSE
      <4>1. Mate(x, m) = 2 * m /\ Mate(y, m) = 2 * m - 1
        BY <2>3, <3>1 DEF Mate
      <4>2. x[2 * m] = x[2 * m - 1]
        BY <2>2, <2>3, <4>1
      <4>3. 2 * m \in DOMAIN x /\ 2 * m - 1 \in DOMAIN x /\ 2 * m # 2 * m - 1
        BY <1>1, <2>3, <3>1
      <4> QED BY <4>2, <4>3 DEF Distinct
    <3>2. ASSUME Len(y) = 2 * m, Len(x) = 2 * m - 1 PROVE FALSE
      <4>1. Mate(y, m) = 2 * m /\ Mate(x, m) = 2 * m - 1
        BY <2>3, <3>2 DEF Mate
      <4>2. y[2 * m] = y[2 * m - 1]
        BY <2>2, <2>3, <4>1
      <4>3. 2 * m \in DOMAIN y /\ 2 * m - 1 \in DOMAIN y /\ 2 * m # 2 * m - 1
        BY <1>1, <2>3, <3>2
      <4> QED BY <4>2, <4>3 DEF Distinct
    <3>3. Len(x) \in {2 * m, 2 * m - 1} /\ Len(y) \in {2 * m, 2 * m - 1}
      <4>1. m \in Nat /\ Len(y) \in Nat /\ 2 * m \in {Len(y), Len(y) + 1}
        BY <1>1, <2>1, <2>3
      <4> QED BY <1>5, <4>1, Halves
    <3> QED BY <3>1, <3>2, <3>3
  <2>5. ASSUME NEW k \in 1 .. Len(x) PROVE x[k] = y[k]
    <3>1. PICK i \in 1 .. m : k = 2 * i - 1 \/ k = 2 * i
      <4>1. Len(x) <= 2 * m
        BY <1>5
      <4>2. CASE k % 2 = 1
        <5>1. (k + 1) \div 2 \in 1 .. m /\ k = 2 * ((k + 1) \div 2) - 1
          BY <1>1, <2>3, <4>1, <4>2
        <5> QED BY <5>1
      <4>3. CASE k % 2 = 0
        <5>1. k \div 2 \in 1 .. m /\ k = 2 * (k \div 2)
          BY <1>1, <2>3, <4>1, <4>3
        <5> QED BY <5>1
      <4>4. k % 2 \in {0, 1}
        BY <1>1
      <4> QED BY <4>2, <4>3, <4>4
    <3>2. CASE k = 2 * i - 1
      BY <2>2, <3>2
    <3>3. CASE k = 2 * i
      <4>1. 2 * i <= Len(x) /\ 2 * i <= Len(y)
        BY <1>1, <2>4, <3>3
      <4>2. Mate(x, i) = k /\ Mate(y, i) = k
        BY <3>3, <4>1 DEF Mate
      <4> QED BY <2>2, <4>2
    <3> QED BY <3>1, <3>2, <3>3
  <2>6. \E S : x \in Seq(S)
    BY DEF Nodes
  <2>7. \E S : y \in Seq(S)
    BY DEF Nodes
  <2> QED BY <2>4, <2>5, <2>6, <2>7
<1> QED BY <1>3, <1>4

\* The levels above some leaves are distinct nodes, and the last is one node.
Tower(f, n) ==
  /\ \A i \in 0 .. n : Nodes(f[i]) /\ Len(f[i]) > 0 /\ Distinct(f[i])
  /\ Len(f[n]) = 1

\* Arithmetic: a level of more than one node is longer than the one above.
LEMMA Shorter ==
  ASSUME NEW k \in Nat, NEW m \in Nat, 2 * m \in {k, k + 1}, k > 0, k # 1
  PROVE  m > 0 /\ m <= k - 1
OBVIOUS

\* The levels over distinct leaves are distinct nodes, and the last is the root.
LEMMA TowerBuilt ==
  ASSUME NEW leaves, Nodes(leaves), Len(leaves) > 0, Distinct(leaves),
         NEW f, RootSteps(f, leaves)
  PROVE  Tower(f, Len(leaves))
<1> DEFINE n == Len(leaves)
           Low(k, i) == k = 1 \/ k <= n - i
           D == { i \in 0 .. n : /\ Nodes(f[i]) /\ Len(f[i]) > 0 /\ Distinct(f[i])
                                 /\ Low(Len(f[i]), i) }
<1>1. n \in Nat
  BY DEF Nodes
<1>2. 0 \in D
  <2>1. f[0] = leaves
    BY DEF RootSteps
  <2>2. Low(n, 0)
    BY <1>1
  <2> HIDE DEF Low
  <2> QED BY <1>1, <2>1, <2>2
<1>3. ASSUME NEW i \in 1 .. n, i - 1 \in D PROVE i \in D
  <2> DEFINE x == f[i - 1]
             k == Len(x)
             m == Len(Level(x))
  <2>1. f[i] = RootStep(leaves, i, x)
    BY DEF RootSteps
  <2>2. /\ Nodes(x) /\ k > 0 /\ Distinct(x) /\ Low(k, i - 1) /\ k \in Nat
    <3>1. Nodes(x) /\ k > 0 /\ Distinct(x) /\ Low(k, i - 1)
      BY <1>3
    <3> HIDE DEF x, Low
    <3> QED BY <3>1 DEF Nodes
  <2> HIDE DEF x
  <2>3. CASE k = 1
    <3>1. f[i] = x
      BY <2>1, <2>3 DEF RootStep
    <3>2. Low(k, i)
      BY <2>3
    <3>3. i \in 0 .. n
      BY <1>1
    <3>4. Len(f[i]) = k
      BY <3>1
    <3> HIDE DEF k, Low
    <3> QED BY <2>2, <3>1, <3>2, <3>3, <3>4
  <2>4. CASE k # 1
    <3>1. f[i] = Level(x)
      BY <2>1, <2>4 DEF RootStep
    <3>2. Nodes(Level(x)) /\ 2 * m \in {k, k + 1}
      BY <2>2, LevelNodes
    <3>3. Distinct(Level(x))
      BY <2>2, LevelInjective
    <3>4. m \in Nat
      BY <3>2 DEF Nodes
    <3> HIDE DEF k, m
    <3>5. m > 0 /\ m <= k - 1
      BY <2>2, <2>4, <3>2, <3>4, Shorter
    <3>6. Low(m, i)
      BY <1>1, <2>2, <2>4, <3>4, <3>5
    <3> HIDE DEF Low
    <3>7. Len(f[i]) = m
      BY <3>1 DEF m
    <3> QED BY <3>1, <3>2, <3>3, <3>5, <3>6, <3>7
  <2> QED BY <2>3, <2>4
<1>4. 0 .. n \subseteq D
  <2> HIDE DEF D, n
  <2> QED BY <1>1, <1>2, <1>3, BoundedInduction
<1>5. \A i \in 0 .. n : Nodes(f[i]) /\ Len(f[i]) > 0 /\ Distinct(f[i])
  BY <1>4
<1>6. Len(f[n]) = 1
  <2>1. n \in D
    BY <1>1, <1>4
  <2>2. Len(f[n]) > 0 /\ (Len(f[n]) = 1 \/ Len(f[n]) <= n - n)
    BY <2>1
  <2>3. Nodes(f[n])
    BY <2>1
  <2>4. Len(f[n]) \in Nat
    BY <2>3 DEF Nodes
  <2> HIDE DEF n
  <2> QED BY <1>1, <2>2, <2>4
<1> QED BY <1>5, <1>6 DEF Tower

\* The root of a tree is a node.
LEMMA RootIsNode ==
  ASSUME NEW leaves, Nodes(leaves), Len(leaves) > 0, Distinct(leaves)
  PROVE  IsNode(MerkleRoot(leaves))
<1>1. Len(leaves) \in Nat
  BY DEF Nodes
<1>2. PICK f : RootSteps(f, leaves) /\ MerkleRoot(leaves) = f[Len(leaves)][1]
  BY <1>1, RootStepDefined
<1>3. Tower(f, Len(leaves))
  BY <1>2, TowerBuilt
<1> DEFINE x == f[Len(leaves)]
<1>4. Nodes(x) /\ Len(x) = 1
  BY <1>1, <1>3 DEF Tower
<1> HIDE DEF x
<1>5. IsNode(x[1])
  BY <1>4 DEF Nodes
<1> QED BY <1>2, <1>5 DEF x

NoPair(x) == \A i \in DOMAIN x : \A u, v : IsNode(u) /\ IsNode(v) => x[i] # Pair(u, v)

\* A root determines its leaves, however many they are, when no leaf is a pair.
LEMMA RootInjective ==
  ASSUME NEW a, Nodes(a), Len(a) > 0, Distinct(a),
         NEW b, Nodes(b), Len(b) > 0, Distinct(b),
         NoPair(a), NoPair(b),
         MerkleRoot(a) = MerkleRoot(b)
  PROVE  a = b
<1> DEFINE n == Len(a)
           m == Len(b)
<1>1. n \in Nat /\ m \in Nat
  BY DEF Nodes
<1>2. PICK f : RootSteps(f, a) /\ MerkleRoot(a) = f[n][1]
  BY <1>1, RootStepDefined
<1>3. PICK g : RootSteps(g, b) /\ MerkleRoot(b) = g[m][1]
  BY <1>1, RootStepDefined
<1>4. Tower(f, n) /\ Tower(g, m)
  BY <1>2, <1>3, TowerBuilt
<1>5. f[0] = a /\ g[0] = b
  BY <1>2, <1>3 DEF RootSteps
<1>6. \A i \in 1 .. n : f[i] = f[i - 1] \/ f[i] = Level(f[i - 1])
  BY <1>2 DEF RootSteps, RootStep
<1>7. \A j \in 1 .. m : g[j] = g[j - 1] \/ g[j] = Level(g[j - 1])
  BY <1>3 DEF RootSteps, RootStep
<1> HIDE DEF n, m
<1>8. \A i \in 0 .. n : Nodes(f[i]) /\ Len(f[i]) > 0 /\ Distinct(f[i])
  BY <1>4 DEF Tower
<1>9. \A j \in 0 .. m : Nodes(g[j]) /\ Len(g[j]) > 0 /\ Distinct(g[j])
  BY <1>4 DEF Tower
\* A level above starts with a pair.
<1>10. ASSUME NEW x, Nodes(x), Len(x) > 0
       PROVE  \E u, v : /\ IsNode(u) /\ IsNode(v)
                        /\ 1 \in DOMAIN Level(x) /\ Level(x)[1] = Pair(u, v)
  <2>1. /\ Nodes(Level(x)) /\ 2 * Len(Level(x)) \in {Len(x), Len(x) + 1}
        /\ \A i \in 1 .. Len(Level(x)) :
             /\ Level(x)[i] = Pair(x[2 * i - 1], x[Mate(x, i)])
             /\ IsNode(x[2 * i - 1]) /\ IsNode(x[Mate(x, i)])
    BY <1>10, LevelNodes
  <2>2. Len(Level(x)) \in Nat /\ Len(x) \in Nat /\ DOMAIN Level(x) = 1 .. Len(Level(x))
    BY <1>10, <2>1 DEF Nodes
  <2>3. Len(Level(x)) > 0
    BY <1>10, <2>1, <2>2, Halves
  <2>4. 1 \in 1 .. Len(Level(x))
    BY <2>2, <2>3
  <2> QED BY <2>1, <2>2, <2>4
<1>11. ASSUME NEW x, Nodes(x), Len(x) > 0 PROVE a # Level(x) /\ b # Level(x)
  <2>1. PICK u, v : /\ IsNode(u) /\ IsNode(v)
                    /\ 1 \in DOMAIN Level(x) /\ Level(x)[1] = Pair(u, v)
    BY <1>10, <1>11
  <2> QED BY <2>1 DEF NoPair
<1> DEFINE D == { s \in 0 .. n + m :
                    \A i \in 0 .. n, j \in 0 .. m : i + j <= s /\ f[i] = g[j] => a = b }
<1>12. 0 \in D
  <2>1. ASSUME NEW i \in 0 .. n, NEW j \in 0 .. m, i + j <= 0, f[i] = g[j] PROVE a = b
    <3>1. i = 0 /\ j = 0
      BY <1>1, <2>1
    <3> QED BY <1>5, <2>1, <3>1
  <2> QED BY <1>1, <2>1
<1>13. ASSUME NEW s \in 1 .. n + m, s - 1 \in D PROVE s \in D
  <2>1. ASSUME NEW i \in 0 .. n, NEW j \in 0 .. m, i + j <= s, f[i] = g[j] PROVE a = b
    <3>1. \A k \in 0 .. n, l \in 0 .. m : k + l <= s - 1 /\ f[k] = g[l] => a = b
      BY <1>13
    <3>2. CASE i = 0 /\ j = 0
      BY <1>5, <2>1, <3>2
    <3>3. CASE i # 0 /\ f[i] = f[i - 1]
      <4>1. i - 1 \in 0 .. n /\ (i - 1) + j <= s - 1
        BY <1>1, <2>1, <3>3
      <4> QED BY <2>1, <3>1, <3>3, <4>1
    <3>4. CASE j # 0 /\ g[j] = g[j - 1]
      <4>1. j - 1 \in 0 .. m /\ i + (j - 1) <= s - 1
        BY <1>1, <2>1, <3>4
      <4> QED BY <2>1, <3>1, <3>4, <4>1
    <3>5. CASE i # 0 /\ j = 0 /\ f[i] = Level(f[i - 1])
      <4>1. i - 1 \in 0 .. n
        BY <1>1, <3>5
      <4> QED BY <1>5, <1>8, <1>11, <2>1, <3>5, <4>1
    <3>6. CASE j # 0 /\ i = 0 /\ g[j] = Level(g[j - 1])
      <4>1. j - 1 \in 0 .. m
        BY <1>1, <3>6
      <4> QED BY <1>5, <1>9, <1>11, <2>1, <3>6, <4>1
    <3>7. CASE i # 0 /\ j # 0 /\ f[i] = Level(f[i - 1]) /\ g[j] = Level(g[j - 1])
      <4>1. i - 1 \in 0 .. n /\ j - 1 \in 0 .. m /\ (i - 1) + (j - 1) <= s - 1
        BY <1>1, <2>1, <3>7
      <4>2. f[i - 1] = g[j - 1]
        <5> DEFINE x == f[i - 1]
                   y == g[j - 1]
        <5>1. /\ Nodes(x) /\ Len(x) > 0 /\ Distinct(x)
              /\ Nodes(y) /\ Len(y) > 0 /\ Distinct(y)
          BY <1>8, <1>9, <4>1
        <5>2. Level(x) = Level(y)
          BY <2>1, <3>7
        <5> HIDE DEF x, y
        <5>3. x = y
          BY <5>1, <5>2, LevelInjective
        <5> QED BY <5>3 DEF x, y
      <4> QED BY <3>1, <4>1, <4>2
    <3>8. i # 0 => i \in 1 .. n
      BY <1>1
    <3>9. j # 0 => j \in 1 .. m
      BY <1>1
    <3> QED BY <1>6, <1>7, <3>2, <3>3, <3>4, <3>5, <3>6, <3>7, <3>8, <3>9
  <2> QED BY <1>1, <2>1
<1>14. n + m \in D
  <2>1. n + m \in Nat
    BY <1>1
  <2> HIDE DEF D
  <2>2. 0 .. n + m \subseteq D
    BY <1>12, <1>13, <2>1, BoundedInduction
  <2> QED BY <2>1, <2>2
<1>15. f[n] = g[m]
  <2> DEFINE x == f[n]
             y == g[m]
  <2>1. Nodes(x) /\ Nodes(y) /\ Len(x) = 1 /\ Len(y) = 1 /\ x[1] = y[1]
    <3>1. Nodes(x) /\ Nodes(y)
      BY <1>1, <1>8, <1>9
    <3>2. Len(x) = 1 /\ Len(y) = 1
      BY <1>4 DEF Tower
    <3> QED BY <1>2, <1>3, <3>1, <3>2
  <2> HIDE DEF x, y
  <2>2. x \in Seq({x[1]}) /\ y \in Seq({y[1]})
    BY <2>1, OneOfItself DEF Nodes
  <2>3. x = y
    BY <2>1, <2>2
  <2> QED BY <2>3 DEF x, y
<1> QED BY <1>1, <1>14, <1>15

\* An account of one of the addresses, whatever its numbers.
IsKept(a) ==
  /\ a = AccountRecord(a.address, a.balance, a.nonce, a.stake, a.rc, a.rcMax, a.time,
                       a.code, a.pubKey)
  /\ a.address \in Addr

\* Accounts of different addresses that are iterated.
Kept(accounts) ==
  Apart(accounts) /\ \A a \in accounts : IsKept(a) /\ a.address \in Iterated

\* A leaf's bytes: a tag, the address, and the account's bytes.
LEMMA LeafBytes ==
  ASSUME NEW a, IsKept(a)
  PROVE  LET r == Opaque("leaf", 0, << >>) \o AccountKey(a.address) \o MarshalAccount(a)
             b == MarshalAccount(a)
         IN  /\ r # << >> /\ r[1].type = "leaf" /\ r[2].b = a.address
             /\ Len(r) = 2 + Len(b) /\ \A i \in 1 .. Len(b) : r[2 + i] = b[i]
             /\ Len(b) \in Nat /\ \E S : b \in Seq(S)
<1> DEFINE o == Opaque("leaf", 0, << >>)
           k == AccountKey(a.address)
           b == MarshalAccount(a)
           r == o \o k \o b
<1>1. o \in Seq({o[1]}) /\ Len(o) = 1 /\ o[1].type = "leaf"
  BY TagSeq
<1>2. k \in Seq({k[1]}) /\ Len(k) = 1 /\ k[1].b = a.address
  BY TagSeq DEF AccountKey
<1>3. PICK T : b \in Seq(T)
  <2>1. MarshalAccount(a) = MarshalAccount(AccountRecord(a.address, a.balance, a.nonce,
          a.stake, a.rc, a.rcMax, a.time, a.code, a.pubKey))
    BY DEF IsKept
  <2>2. \E S : MarshalAccount(AccountRecord(a.address, a.balance, a.nonce,
          a.stake, a.rc, a.rcMax, a.time, a.code, a.pubKey)) \in Seq(S)
    BY AccountBytes
  <2> QED BY <2>1, <2>2
<1> HIDE DEF o, k, b
<1> DEFINE S == {o[1], k[1]} \union T
<1>4. o \in Seq(S) /\ k \in Seq(S) /\ b \in Seq(S)
  <2>1. {o[1]} \subseteq S /\ {k[1]} \subseteq S /\ T \subseteq S
    OBVIOUS
  <2> HIDE DEF S
  <2> QED BY <1>1, <1>2, <1>3, <2>1
<1> HIDE DEF S
<1>5. Len(o) = 1 /\ Len(k) = 1 =>
        /\ r \in Seq(S) /\ Len(r) = 2 + Len(b) /\ r[1] = o[1] /\ r[2] = k[1]
        /\ \A i \in 1 .. Len(b) : r[2 + i] = b[i]
  BY <1>4, Headed
<1> HIDE DEF r
<1>6. /\ r[1] = o[1] /\ r[2] = k[1] /\ Len(r) = 2 + Len(b)
      /\ \A i \in 1 .. Len(b) : r[2 + i] = b[i]
  BY <1>1, <1>2, <1>5
<1>7. Len(b) \in Nat
  BY <1>3
<1>8. r # << >>
  BY <1>6, <1>7
<1> QED BY <1>1, <1>2, <1>3, <1>6, <1>7, <1>8 DEF r, o, k, b

\* A leaf determines its address and its account's bytes, and is no pair.
LEMMA LeafInjective ==
  ASSUME NEW a, IsKept(a)
  PROVE  /\ IsNode(Leaf(a))
         /\ \A u, v : IsNode(u) /\ IsNode(v) => Leaf(a) # Pair(u, v)
         /\ \A c : IsKept(c) /\ Leaf(a) = Leaf(c) =>
              a.address = c.address /\ MarshalAccount(a) = MarshalAccount(c)
<1> DEFINE r == Opaque("leaf", 0, << >>) \o AccountKey(a.address) \o MarshalAccount(a)
           b == MarshalAccount(a)
<1>1. /\ r # << >> /\ r[1].type = "leaf" /\ r[2].b = a.address
      /\ Len(r) = 2 + Len(b) /\ \A i \in 1 .. Len(b) : r[2 + i] = b[i]
      /\ Len(b) \in Nat /\ \E S : b \in Seq(S)
  BY LeafBytes
<1>2. Leaf(a) = HashBytes(r)
  BY DEF Leaf
<1> HIDE DEF r
<1>3. IsNode(Leaf(a))
  BY <1>1, <1>2 DEF IsNode
<1>4. ASSUME NEW u, NEW v, IsNode(u), IsNode(v), Leaf(a) = Pair(u, v) PROVE FALSE
  <2> DEFINE q == Opaque("inner", 0, << >>) \o u \o v
  <2>1. q[1].type = "inner"
    BY <1>4, PairBytes
  <2>2. HashBytes(r) = HashBytes(q)
    BY <1>2, <1>4 DEF Pair
  <2> HIDE DEF q
  <2>3. r = q
    BY <2>2, HashInjective
  <2> QED BY <1>1, <2>1, <2>3
<1>5. ASSUME NEW c, IsKept(c), Leaf(a) = Leaf(c)
      PROVE  a.address = c.address /\ MarshalAccount(a) = MarshalAccount(c)
  <2> DEFINE q == Opaque("leaf", 0, << >>) \o AccountKey(c.address) \o MarshalAccount(c)
             d == MarshalAccount(c)
  <2>1. /\ q[2].b = c.address
        /\ Len(q) = 2 + Len(d) /\ \A i \in 1 .. Len(d) : q[2 + i] = d[i]
        /\ Len(d) \in Nat /\ \E S : d \in Seq(S)
    BY <1>5, LeafBytes
  <2>2. HashBytes(r) = HashBytes(q)
    BY <1>2, <1>5 DEF Leaf
  <2> HIDE DEF q, b, d
  <2>3. r = q
    BY <2>2, HashInjective
  <2>4. a.address = c.address
    BY <1>1, <2>1, <2>3
  <2>5. Len(b) = Len(d)
    BY <1>1, <2>1, <2>3
  <2>6. \A i \in 1 .. Len(b) : b[i] = d[i]
    BY <1>1, <2>1, <2>3, <2>5
  <2>7. b = d
    BY <1>1, <2>1, <2>5, <2>6
  <2> QED BY <2>4, <2>7 DEF b, d
<1> QED BY <1>3, <1>4, <1>5

\* The accounts of the first i addresses.
First(accounts, i) == { a \in accounts : \E j \in 1 .. i : a.address = AddrOrder[j] }

LeafSet(accounts) == { Leaf(a) : a \in accounts }

\* A list of different leaves: of these accounts, and of each of them.
LeavesOf(x, accounts) ==
  /\ x \in Seq(LeafSet(accounts)) /\ Distinct(x)
  /\ \A a \in accounts : \E i \in DOMAIN x : x[i] = Leaf(a)

\* The leaves of one more account.
LEMMA LeafAdded ==
  ASSUME NEW X, NEW x, LeavesOf(x, X), NEW a, Leaf(a) \notin LeafSet(X)
  PROVE  LeavesOf(Append(x, Leaf(a)), X \union {a})
<1> DEFINE y == Append(x, Leaf(a))
           Y == X \union {a}
<1>1. x \in Seq(LeafSet(X)) /\ Distinct(x) /\ Len(x) \in Nat
  BY DEF LeavesOf
<1>2. LeafSet(X) \subseteq LeafSet(Y) /\ Leaf(a) \in LeafSet(Y)
  BY DEF LeafSet
<1>3. x \in Seq(LeafSet(Y))
  <2> HIDE DEF Y
  <2> QED BY <1>1, <1>2
<1>4. /\ y \in Seq(LeafSet(Y)) /\ Len(y) = Len(x) + 1 /\ y[Len(x) + 1] = Leaf(a)
      /\ \A i \in 1 .. Len(x) : y[i] = x[i]
  <2> HIDE DEF Y
  <2> QED BY <1>1, <1>2, <1>3
<1> HIDE DEF y
<1>5. \A i \in 1 .. Len(x) : x[i] # Leaf(a)
  BY <1>1
<1>6. DOMAIN y = 1 .. Len(x) + 1 /\ DOMAIN x = 1 .. Len(x)
  BY <1>1, <1>4
<1>7. ASSUME NEW i \in DOMAIN y, NEW j \in DOMAIN y, y[i] = y[j] PROVE i = j
  <2>1. \A p, q \in 1 .. Len(x) : x[p] = x[q] => p = q
    BY <1>1, <1>6 DEF Distinct
  <2>2. /\ i \in 1 .. Len(x) \/ i = Len(x) + 1
        /\ j \in 1 .. Len(x) \/ j = Len(x) + 1
    BY <1>1, <1>6
  <2> QED BY <1>4, <1>5, <1>7, <2>1, <2>2
<1>8. ASSUME NEW c \in Y PROVE \E i \in DOMAIN y : y[i] = Leaf(c)
  <2>1. CASE c \in X
    <3>1. PICK i \in DOMAIN x : x[i] = Leaf(c)
      BY <2>1 DEF LeavesOf
    <3>2. i \in 1 .. Len(x)
      BY <1>6
    <3>3. i \in DOMAIN y /\ y[i] = x[i]
      BY <1>1, <1>4, <1>6, <3>2
    <3> QED BY <3>1, <3>3
  <2>2. CASE c = a
    <3>1. Len(x) + 1 \in DOMAIN y
      BY <1>1, <1>6
    <3> QED BY <1>4, <2>2, <3>1
  <2> QED BY <2>1, <2>2
<1>9. Distinct(y)
  BY <1>7 DEF Distinct
<1> QED BY <1>4, <1>8, <1>9 DEF LeavesOf, y

\* The leaves of accounts are those of each of them.
LEMMA LeavesRead ==
  ASSUME NEW accounts, Kept(accounts)
  PROVE  LeavesOf(Leaves(accounts), accounts)
<1> DEFINE n == UpperBound
<1>1. /\ n \in Nat
      /\ \A i, j \in 1 .. n : AddrOrder[i] = AddrOrder[j] => i = j
  <2>1. n \in 0 .. Len(AddrOrder) /\ Len(AddrOrder) \in Nat /\ DOMAIN AddrOrder = 1 .. Len(AddrOrder)
    BY BlockStoreAssumption
  <2>2. n \in Nat /\ \A i \in 1 .. n : i \in DOMAIN AddrOrder
    BY <2>1
  <2> QED BY <2>2, BlockStoreAssumption
<1>2. PICK f : LeafSteps(f, accounts) /\ Leaves(accounts) = f[n]
  BY <1>1, LeafStepDefined
<1> HIDE DEF n
<1> DEFINE D == { i \in 0 .. n : LeavesOf(f[i], First(accounts, i)) }
<1>3. 0 \in D
  <2>1. f[0] = << >>
    BY <1>2 DEF LeafSteps
  <2>2. First(accounts, 0) = {}
    BY DEF First
  <2>3. LeavesOf(<< >>, {})
    BY DEF LeavesOf, LeafSet, Distinct
  <2> QED BY <1>1, <2>1, <2>2, <2>3
<1>4. ASSUME NEW i \in 1 .. n, i - 1 \in D PROVE i \in D
  <2>1. f[i] = LeafStep(accounts, i, f[i - 1])
    BY <1>2 DEF LeafSteps, n
  <2>2. LeavesOf(f[i - 1], First(accounts, i - 1))
    BY <1>4
  <2>3. CASE At(accounts, i) = {}
    <3>1. f[i] = f[i - 1]
      BY <2>1, <2>3 DEF LeafStep
    <3>2. First(accounts, i) = First(accounts, i - 1)
      <4>1. \A a \in accounts : a.address # AddrOrder[i]
        BY <2>3 DEF At
      <4>2. \A j \in 1 .. i : j = i \/ j \in 1 .. i - 1
        BY <1>1
      <4>3. \A j \in 1 .. i - 1 : j \in 1 .. i
        BY <1>1
      <4> QED BY <4>1, <4>2, <4>3 DEF First
    <3> QED BY <2>2, <3>1, <3>2
  <2>4. CASE At(accounts, i) # {}
    <3> DEFINE a == CHOOSE a \in At(accounts, i) : TRUE
    <3>1. a \in At(accounts, i)
      BY <2>4
    <3>2. f[i] = Append(f[i - 1], Leaf(a))
      BY <2>1, <2>4 DEF LeafStep
    <3> HIDE DEF a
    <3>3. a \in accounts /\ a.address = AddrOrder[i]
      BY <3>1 DEF At
    <3>4. First(accounts, i) = First(accounts, i - 1) \union {a}
      <4>1. \A c \in accounts : c.address = AddrOrder[i] <=> c = a
        BY <3>3 DEF Kept, Apart
      <4>2. \A j \in 1 .. i : j = i \/ j \in 1 .. i - 1
        BY <1>1
      <4>3. (\A j \in 1 .. i - 1 : j \in 1 .. i) /\ i \in 1 .. i
        BY <1>1
      <4> QED BY <3>3, <4>1, <4>2, <4>3 DEF First
    <3>5. Leaf(a) \notin LeafSet(First(accounts, i - 1))
      <4>1. SUFFICES ASSUME NEW c \in First(accounts, i - 1), Leaf(a) = Leaf(c) PROVE FALSE
        BY DEF LeafSet
      <4>2. PICK j \in 1 .. i - 1 : c.address = AddrOrder[j]
        BY DEF First
      <4>3. c \in accounts
        BY DEF First
      <4>4. c.address = a.address
        BY <3>3, <4>1, <4>3, LeafInjective DEF Kept
      <4>5. j \in 1 .. n /\ j # i
        BY <1>1
      <4> QED BY <1>1, <3>3, <4>2, <4>4, <4>5
    <3>6. LeavesOf(Append(f[i - 1], Leaf(a)), First(accounts, i - 1) \union {a})
      BY <2>2, <3>5, LeafAdded
    <3>7. LeavesOf(f[i], First(accounts, i))
      BY <3>2, <3>4, <3>6
    <3>8. i \in 0 .. n
      BY <1>1
    <3> QED BY <3>7, <3>8
  <2> QED BY <2>3, <2>4
<1>5. 0 .. n \subseteq D
  <2> HIDE DEF D
  <2> QED BY <1>1, <1>3, <1>4, BoundedInduction
<1>6. First(accounts, n) = accounts
  <2>1. \A a \in accounts : \E j \in 1 .. n : a.address = AddrOrder[j]
    BY DEF Kept, Iterated, n
  <2> QED BY <2>1 DEF First
<1>7. LeavesOf(f[n], First(accounts, n))
  <2>1. n \in 0 .. n
    BY <1>1
  <2> QED BY <1>5, <2>1
<1> QED BY <1>2, <1>6, <1>7

\* The leaves are different nodes, and none is a pair.
LEMMA LeafNodes ==
  ASSUME NEW accounts, Kept(accounts)
  PROVE  LET x == Leaves(accounts)
         IN  /\ Nodes(x) /\ Distinct(x) /\ NoPair(x) /\ Len(x) \in Nat
             /\ x = << >> <=> accounts = {}
             /\ x # << >> => Len(x) > 0
<1> DEFINE x == Leaves(accounts)
<1>1. LeavesOf(x, accounts)
  BY LeavesRead
<1> HIDE DEF x
<1>2. x \in Seq(LeafSet(accounts)) /\ Distinct(x)
  BY <1>1 DEF LeavesOf
<1>3. \A v \in LeafSet(accounts) : IsNode(v)
  BY LeafInjective DEF LeafSet, Kept
<1>4. Nodes(x)
  BY <1>2, <1>3 DEF Nodes
<1>5. NoPair(x)
  <2>1. SUFFICES ASSUME NEW i \in DOMAIN x, NEW u, NEW v, IsNode(u), IsNode(v) PROVE x[i] # Pair(u, v)
    BY DEF NoPair
  <2>2. x[i] \in LeafSet(accounts)
    BY <1>2
  <2>3. PICK a \in accounts : x[i] = Leaf(a)
    BY <2>2 DEF LeafSet
  <2>4. IsKept(a)
    BY DEF Kept
  <2> QED BY <2>1, <2>3, <2>4, LeafInjective
<1>6. Len(x) \in Nat /\ DOMAIN x = 1 .. Len(x) /\ (x # << >> => Len(x) > 0)
  BY <1>2
<1>7. x = << >> => accounts = {}
  <2>1. x = << >> => DOMAIN x = {}
    OBVIOUS
  <2> QED BY <1>1, <2>1 DEF LeavesOf
<1>8. accounts = {} => x = << >>
  <2>1. accounts = {} => LeafSet(accounts) = {}
    BY DEF LeafSet
  <2>2. ASSUME x # << >> PROVE x[1] \in LeafSet(accounts)
    BY <1>2, <1>6, <2>2
  <2> QED BY <2>1, <2>2
<1> QED BY <1>2, <1>4, <1>5, <1>6, <1>7, <1>8 DEF x

\* The root of some accounts is a hash, and not that of none.
LEMMA StateRootIsHash ==
  ASSUME NEW accounts, Kept(accounts)
  PROVE  /\ IsHash(StateRoot(accounts))
         /\ StateRoot(accounts) = ZeroHash <=> accounts = {}
<1> DEFINE x == Leaves(accounts)
<1>1. /\ Nodes(x) /\ Distinct(x) /\ (x = << >> <=> accounts = {})
      /\ x # << >> => Len(x) > 0
  BY LeafNodes
<1>2. StateRoot(accounts) = IF x = << >> THEN ZeroHash ELSE MerkleRoot(x)
  BY DEF StateRoot
<1> HIDE DEF x
<1>3. IsHash(ZeroHash)
  BY HashFields DEF ZeroHash
<1>4. ASSUME NEW v, IsNode(v) PROVE v # ZeroHash
  BY <1>4, HashInjective DEF IsNode, ZeroHash
<1>5. x # << >> => IsNode(MerkleRoot(x))
  BY <1>1, RootIsNode
<1> QED BY <1>1, <1>2, <1>3, <1>4, <1>5, NodeSeq

\* Accounts with the same root have the same bytes.
LEMMA StateRootInjective ==
  ASSUME NEW X, Kept(X), NEW Y, Kept(Y), StateRoot(X) = StateRoot(Y), NEW a \in X
  PROVE  \E c \in Y : a.address = c.address /\ MarshalAccount(a) = MarshalAccount(c)
<1> DEFINE x == Leaves(X)
           y == Leaves(Y)
<1>1. /\ Nodes(x) /\ Distinct(x) /\ NoPair(x) /\ (x = << >> <=> X = {})
      /\ x # << >> => Len(x) > 0
  BY LeafNodes
<1>2. /\ Nodes(y) /\ Distinct(y) /\ NoPair(y) /\ (y = << >> <=> Y = {})
      /\ y # << >> => Len(y) > 0
  BY LeafNodes
<1>3. X # {} /\ Y # {}
  BY StateRootIsHash
<1>4. MerkleRoot(x) = MerkleRoot(y)
  BY <1>1, <1>2, <1>3 DEF StateRoot
<1>5. x = y
  <2> HIDE DEF x, y
  <2> QED BY <1>1, <1>2, <1>3, <1>4, RootInjective
<1>6. LeavesOf(x, X) /\ LeavesOf(y, Y)
  BY LeavesRead
<1> HIDE DEF x, y
<1>7. PICK i \in DOMAIN x : x[i] = Leaf(a)
  BY <1>6 DEF LeavesOf
<1>8. y \in Seq(LeafSet(Y)) /\ i \in DOMAIN y
  BY <1>5, <1>6 DEF LeavesOf
<1>9. y[i] \in LeafSet(Y)
  BY <1>8
<1>10. PICK c \in Y : y[i] = Leaf(c)
  BY <1>9 DEF LeafSet
<1>11. IsKept(a) /\ IsKept(c) /\ Leaf(a) = Leaf(c)
  BY <1>5, <1>7, <1>10 DEF Kept
<1> QED BY <1>11, LeafInjective

\* Those of some accounts that are iterated.
InRange(accounts) == { a \in accounts : a.address \in Iterated }

\* The loop over the accounts has one result.
LEMMA LeafStepsUnique ==
  ASSUME NEW accounts, UpperBound \in Nat, NEW f, LeafSteps(f, accounts),
         NEW g, LeafSteps(g, accounts)
  PROVE  f[UpperBound] = g[UpperBound]
<1> DEFINE n == UpperBound
           D == { i \in 0 .. n : f[i] = g[i] }
<1>1. 0 \in D
  BY DEF LeafSteps
<1>2. ASSUME NEW i \in 1 .. n, i - 1 \in D PROVE i \in D
  <2>1. f[i] = LeafStep(accounts, i, f[i - 1]) /\ g[i] = LeafStep(accounts, i, g[i - 1])
    BY DEF LeafSteps
  <2>2. f[i - 1] = g[i - 1] /\ i \in 0 .. n
    BY <1>2
  <2> QED BY <2>1, <2>2
<1> HIDE DEF D
<1>3. 0 .. n \subseteq D
  BY <1>1, <1>2, BoundedInduction
<1> QED BY <1>3 DEF D

\* The root is that of the accounts that are iterated.
LEMMA RootInRange ==
  ASSUME NEW X
  PROVE  StateRoot(X) = StateRoot(InRange(X))
<1> DEFINE Y == InRange(X)
<1>1. UpperBound \in Nat
  <2>1. UpperBound \in 0 .. Len(AddrOrder) /\ Len(AddrOrder) \in Nat
    BY BlockStoreAssumption
  <2> QED BY <2>1
<1>2. \A i \in 1 .. UpperBound : At(X, i) = At(Y, i)
  BY DEF At, InRange, Iterated
<1> HIDE DEF Y
<1>3. ASSUME NEW i \in 1 .. UpperBound, NEW last
      PROVE  LeafStep(X, i, last) = LeafStep(Y, i, last)
  <2>1. At(X, i) = At(Y, i)
    BY <1>2
  <2> QED BY <2>1 DEF LeafStep
<1>4. PICK f : LeafSteps(f, X) /\ Leaves(X) = f[UpperBound]
  BY <1>1, LeafStepDefined
<1>5. PICK g : LeafSteps(g, Y) /\ Leaves(Y) = g[UpperBound]
  BY <1>1, LeafStepDefined
<1>6. LeafSteps(f, Y)
  BY <1>3, <1>4 DEF LeafSteps
<1>7. Leaves(X) = Leaves(Y)
  BY <1>1, <1>4, <1>5, <1>6, LeafStepsUnique
<1> QED BY <1>7 DEF StateRoot, Y

\* Accounts of different addresses have a state.
LEMMA InRangeKept ==
  ASSUME NEW X, Apart(X), \A a \in X : IsKept(a)
  PROVE  Kept(InRange(X))
BY DEF Kept, InRange, Apart

\* The root determines the accounts that are iterated: of two sets of accounts of
\* different addresses, however many, only those with the same ones have equal roots
\* (iterateAccounts, marshalAccount, merkleRoot, ComputeStateRootFromReader).
THEOREM RootDetermines ==
  ASSUME NEW X, Apart(X), \A a \in X : IsAccount(a),
         NEW Y, Apart(Y), \A a \in Y : IsAccount(a),
         StateRoot(X) = StateRoot(Y)
  PROVE  \A a : a.address \in Iterated => (a \in X <=> a \in Y)
<1> DEFINE P == InRange(X)
           Q == InRange(Y)
<1>1. Kept(P) /\ Kept(Q)
  BY InRangeKept DEF IsKept, IsAccount
<1>2. StateRoot(P) = StateRoot(Q)
  BY RootInRange
<1>3. (\A a \in P : IsAccount(a)) /\ \A a \in Q : IsAccount(a)
  BY DEF InRange
<1> HIDE DEF P, Q
<1>4. ASSUME NEW a \in P PROVE a \in Q
  <2>1. PICK c \in Q : MarshalAccount(a) = MarshalAccount(c)
    BY <1>1, <1>2, StateRootInjective
  <2>2. UnmarshalAccount(MarshalAccount(a)) = {a} /\ UnmarshalAccount(MarshalAccount(c)) = {c}
    BY <1>3, AccountBack
  <2> QED BY <2>1, <2>2
<1>5. ASSUME NEW a \in Q PROVE a \in P
  <2>1. PICK c \in P : MarshalAccount(a) = MarshalAccount(c)
    BY <1>1, <1>2, StateRootInjective
  <2>2. UnmarshalAccount(MarshalAccount(a)) = {a} /\ UnmarshalAccount(MarshalAccount(c)) = {c}
    BY <1>3, AccountBack
  <2> QED BY <2>1, <2>2
<1> QED BY <1>4, <1>5 DEF InRange, P, Q

-----------------------------------------------------------------------------
(* The root covers the state.                                                *)

\* The parts of an account in its bytes.
LEMMA AccountParts ==
  ASSUME NEW a, IsKept(a)
  PROVE  LET b == MarshalAccount(a)
         IN  /\ b[2].n = a.balance /\ b[3].n = a.nonce /\ b[4].n = a.stake
             /\ b[5].n = a.rc /\ b[6].n = a.rcMax /\ b[7].n = Uint64(a.time)
             /\ Len(b) = 7 + (IF a.code = << >> THEN 0 ELSE 1)
                           + (IF a.pubKey = << >> THEN 0 ELSE 1)
<1> DEFINE r == AccountRecord(a.address, a.balance, a.nonce, a.stake, a.rc, a.rcMax, a.time,
                              a.code, a.pubKey)
           b == MarshalAccount(r)
           codes == Len(Optional(8, a.code))
           keys == Len(Optional(9, a.pubKey))
<1>1. /\ codes \in {0, 1} /\ (a.code = << >> <=> codes = 0)
      /\ keys \in {0, 1} /\ (a.pubKey = << >> <=> keys = 0)
      /\ Len(b) = 7 + codes + keys
      /\ b[2] = Varint(2, a.balance)
      /\ b[3] = Varint(3, a.nonce) /\ b[4] = Varint(4, a.stake) /\ b[5] = Varint(5, a.rc)
      /\ b[6] = Varint(6, a.rcMax) /\ b[7] = Varint(7, Uint64(a.time))
  BY AccountBytes
<1>2. MarshalAccount(a) = b
  BY DEF IsKept
<1> HIDE DEF b, codes, keys
<1>3. /\ codes = IF a.code = << >> THEN 0 ELSE 1
      /\ keys = IF a.pubKey = << >> THEN 0 ELSE 1
  BY <1>1
<1>4. Len(b) = 7 + (IF a.code = << >> THEN 0 ELSE 1) + (IF a.pubKey = << >> THEN 0 ELSE 1)
  BY <1>1, <1>3
<1>5. /\ b[2].n = a.balance /\ b[3].n = a.nonce /\ b[4].n = a.stake
      /\ b[5].n = a.rc /\ b[6].n = a.rcMax /\ b[7].n = Uint64(a.time)
  BY <1>1, BytesFields
<1> QED BY <1>2, <1>4, <1>5

\* Times that follow each other are different varints.
LEMMA TimesApart ==
  ASSUME NEW t \in Int64s
  PROVE  Uint64(t) # Uint64(t + 1)
<1>1. U64 \in Nat \ {0} /\ U64 = 2 * (U64 \div 2) /\ U64 \div 2 \in Nat
  BY BlockStoreAssumption
<1> DEFINE H == U64 \div 2
<1>2. U64 = 2 * H /\ H \in Nat /\ t \in -H .. H - 1 /\ H > 0
  BY <1>1 DEF Int64s
<1> HIDE DEF H
<1>3. CASE t >= 0
  <2>1. t % U64 = t
    BY <1>1, <1>2, <1>3
  <2>2. (t + 1) % U64 = t + 1
    BY <1>1, <1>2, <1>3
  <2> QED BY <1>2, <2>1, <2>2 DEF Uint64
<1>4. CASE t < 0
  <2>1. t % U64 = t + U64
    BY <1>1, <1>2, <1>4
  <2>2. CASE t = -1
    <3>1. (t + 1) % U64 = 0
      BY <1>1, <2>2
    <3> QED BY <1>1, <1>2, <2>1, <2>2, <3>1 DEF Uint64
  <2>3. CASE t # -1
    <3>1. (t + 1) % U64 = t + 1 + U64
      BY <1>1, <1>2, <1>4, <2>3
    <3> QED BY <1>1, <1>2, <2>1, <3>1 DEF Uint64
  <2> QED BY <2>2, <2>3
<1> QED BY <1>2, <1>3, <1>4

Numbers == {"balance", "nonce", "stake", "rc", "rcMax", "time"}

\* A record of account fields with an address is an account that is kept.
LEMMA KeptRecord ==
  ASSUME NEW address \in Addr, NEW balance, NEW nonce, NEW stake, NEW rc, NEW rcMax, NEW time,
         NEW code, NEW pubKey
  PROVE  LET r == AccountRecord(address, balance, nonce, stake, rc, rcMax, time, code, pubKey)
         IN  /\ IsKept(r) /\ r.address = address /\ r.balance = balance /\ r.nonce = nonce
             /\ r.stake = stake /\ r.rc = rc /\ r.rcMax = rcMax /\ r.time = time
             /\ r.code = code /\ r.pubKey = pubKey
BY DEF AccountRecord, IsKept

\* An account with one part set.
LEMMA AccountWith ==
  ASSUME NEW a, IsKept(a), NEW v
  PROVE  /\ \A name \in Numbers \union {"code", "pubKey"} :
              IsKept(With(a, name, v)) /\ With(a, name, v).address = a.address
         /\ With(a, "balance", v).balance = v
         /\ With(a, "nonce", v).nonce = v
         /\ With(a, "stake", v).stake = v
         /\ With(a, "rc", v).rc = v
         /\ With(a, "rcMax", v).rcMax = v
         /\ With(a, "time", v).time = v
         /\ With(a, "code", v).code = v /\ With(a, "code", v).pubKey = a.pubKey
         /\ With(a, "pubKey", v).pubKey = v /\ With(a, "pubKey", v).code = a.code
<1> DEFINE r == AccountRecord(a.address, a.balance, a.nonce, a.stake, a.rc, a.rcMax, a.time,
                              a.code, a.pubKey)
<1>0. a = r /\ a.address \in Addr
  BY DEF IsKept
<1>1. /\ IsKept(With(a, "balance", v)) /\ With(a, "balance", v).address = a.address
      /\ With(a, "balance", v).balance = v
  <2>1. With(r, "balance", v) =
         AccountRecord(a.address, v, a.nonce, a.stake, a.rc, a.rcMax, a.time, a.code, a.pubKey)
    BY DEF AccountRecord, With
  <2>2. With(a, "balance", v) =
         AccountRecord(a.address, v, a.nonce, a.stake, a.rc, a.rcMax, a.time, a.code, a.pubKey)
    BY <1>0, <2>1
  <2> QED BY <1>0, <2>2, KeptRecord
<1>2. /\ IsKept(With(a, "nonce", v)) /\ With(a, "nonce", v).address = a.address
      /\ With(a, "nonce", v).nonce = v
  <2>1. With(r, "nonce", v) =
         AccountRecord(a.address, a.balance, v, a.stake, a.rc, a.rcMax, a.time, a.code, a.pubKey)
    BY DEF AccountRecord, With
  <2>2. With(a, "nonce", v) =
         AccountRecord(a.address, a.balance, v, a.stake, a.rc, a.rcMax, a.time, a.code, a.pubKey)
    BY <1>0, <2>1
  <2> QED BY <1>0, <2>2, KeptRecord
<1>3. /\ IsKept(With(a, "stake", v)) /\ With(a, "stake", v).address = a.address
      /\ With(a, "stake", v).stake = v
  <2>1. With(r, "stake", v) =
         AccountRecord(a.address, a.balance, a.nonce, v, a.rc, a.rcMax, a.time, a.code, a.pubKey)
    BY DEF AccountRecord, With
  <2>2. With(a, "stake", v) =
         AccountRecord(a.address, a.balance, a.nonce, v, a.rc, a.rcMax, a.time, a.code, a.pubKey)
    BY <1>0, <2>1
  <2> QED BY <1>0, <2>2, KeptRecord
<1>4. /\ IsKept(With(a, "rc", v)) /\ With(a, "rc", v).address = a.address
      /\ With(a, "rc", v).rc = v
  <2>1. With(r, "rc", v) =
         AccountRecord(a.address, a.balance, a.nonce, a.stake, v, a.rcMax, a.time, a.code, a.pubKey)
    BY DEF AccountRecord, With
  <2>2. With(a, "rc", v) =
         AccountRecord(a.address, a.balance, a.nonce, a.stake, v, a.rcMax, a.time, a.code, a.pubKey)
    BY <1>0, <2>1
  <2> QED BY <1>0, <2>2, KeptRecord
<1>5. /\ IsKept(With(a, "rcMax", v)) /\ With(a, "rcMax", v).address = a.address
      /\ With(a, "rcMax", v).rcMax = v
  <2>1. With(r, "rcMax", v) =
         AccountRecord(a.address, a.balance, a.nonce, a.stake, a.rc, v, a.time, a.code, a.pubKey)
    BY DEF AccountRecord, With
  <2>2. With(a, "rcMax", v) =
         AccountRecord(a.address, a.balance, a.nonce, a.stake, a.rc, v, a.time, a.code, a.pubKey)
    BY <1>0, <2>1
  <2> QED BY <1>0, <2>2, KeptRecord
<1>6. /\ IsKept(With(a, "time", v)) /\ With(a, "time", v).address = a.address
      /\ With(a, "time", v).time = v
  <2>1. With(r, "time", v) =
         AccountRecord(a.address, a.balance, a.nonce, a.stake, a.rc, a.rcMax, v, a.code, a.pubKey)
    BY DEF AccountRecord, With
  <2>2. With(a, "time", v) =
         AccountRecord(a.address, a.balance, a.nonce, a.stake, a.rc, a.rcMax, v, a.code, a.pubKey)
    BY <1>0, <2>1
  <2> QED BY <1>0, <2>2, KeptRecord
<1>7. /\ IsKept(With(a, "code", v)) /\ With(a, "code", v).address = a.address
      /\ With(a, "code", v).code = v /\ With(a, "code", v).pubKey = a.pubKey
  <2>1. With(r, "code", v) =
         AccountRecord(a.address, a.balance, a.nonce, a.stake, a.rc, a.rcMax, a.time, v, a.pubKey)
    BY DEF AccountRecord, With
  <2>2. With(a, "code", v) =
         AccountRecord(a.address, a.balance, a.nonce, a.stake, a.rc, a.rcMax, a.time, v, a.pubKey)
    BY <1>0, <2>1
  <2> QED BY <1>0, <2>2, KeptRecord
<1>8. /\ IsKept(With(a, "pubKey", v)) /\ With(a, "pubKey", v).address = a.address
      /\ With(a, "pubKey", v).pubKey = v /\ With(a, "pubKey", v).code = a.code
  <2>1. With(r, "pubKey", v) =
         AccountRecord(a.address, a.balance, a.nonce, a.stake, a.rc, a.rcMax, a.time, a.code, v)
    BY DEF AccountRecord, With
  <2>2. With(a, "pubKey", v) =
         AccountRecord(a.address, a.balance, a.nonce, a.stake, a.rc, a.rcMax, a.time, a.code, v)
    BY <1>0, <2>1
  <2> QED BY <1>0, <2>2, KeptRecord
<1> HIDE DEF r
<1> QED BY <1>1, <1>2, <1>3, <1>4, <1>5, <1>6, <1>7, <1>8 DEF Numbers

\* Whose bytes differ when the part does, and a code or key is there or not.
LEMMA BytesDiffer ==
  ASSUME NEW a, IsAccount(a)
  PROVE  /\ \A name \in Numbers :
              /\ IsKept(With(a, name, a[name] + 1))
              /\ With(a, name, a[name] + 1).address = a.address
              /\ MarshalAccount(With(a, name, a[name] + 1)) # MarshalAccount(a)
         /\ \A name \in {"code", "pubKey"} : \A v : (v = << >> <=> a[name] # << >>) =>
              /\ IsKept(With(a, name, v)) /\ With(a, name, v).address = a.address
              /\ MarshalAccount(With(a, name, v)) # MarshalAccount(a)
<1> DEFINE b == MarshalAccount(a)
<1>1. /\ IsKept(a) /\ a.balance \in Int /\ a.nonce \in Int /\ a.stake \in Int /\ a.rc \in Int
      /\ a.rcMax \in Int /\ a.time \in Int64s
  BY DEF IsAccount, IsKept
<1>2. /\ b[2].n = a.balance /\ b[3].n = a.nonce /\ b[4].n = a.stake
      /\ b[5].n = a.rc /\ b[6].n = a.rcMax /\ b[7].n = Uint64(a.time)
      /\ Len(b) = 7 + (IF a.code = << >> THEN 0 ELSE 1) + (IF a.pubKey = << >> THEN 0 ELSE 1)
  BY <1>1, AccountParts
<1>3. ASSUME NEW c, IsKept(c)
      PROVE  LET d == MarshalAccount(c)
             IN  /\ d[2].n = c.balance /\ d[3].n = c.nonce /\ d[4].n = c.stake
                 /\ d[5].n = c.rc /\ d[6].n = c.rcMax /\ d[7].n = Uint64(c.time)
                 /\ Len(d) = 7 + (IF c.code = << >> THEN 0 ELSE 1)
                               + (IF c.pubKey = << >> THEN 0 ELSE 1)
  BY <1>3, AccountParts
<1> HIDE DEF b
<1>4. \A name \in Numbers \union {"code", "pubKey"} : \A v :
        IsKept(With(a, name, v)) /\ With(a, name, v).address = a.address
  BY <1>1, AccountWith
<1>5. MarshalAccount(With(a, "balance", a.balance + 1)) # b
  <2> DEFINE c == With(a, "balance", a.balance + 1)
  <2>1. IsKept(c) /\ c.balance = a.balance + 1
    BY <1>1, AccountWith DEF Numbers
  <2> HIDE DEF c
  <2>2. MarshalAccount(c)[2].n = a.balance + 1
    BY <1>3, <2>1
  <2>3. MarshalAccount(c)[2].n # b[2].n
    BY <1>1, <1>2, <2>2
  <2>4. MarshalAccount(c) # b
    BY <2>3
  <2> QED BY <2>4 DEF c
<1>6. MarshalAccount(With(a, "nonce", a.nonce + 1)) # b
  <2> DEFINE c == With(a, "nonce", a.nonce + 1)
  <2>1. IsKept(c) /\ c.nonce = a.nonce + 1
    BY <1>1, AccountWith DEF Numbers
  <2> HIDE DEF c
  <2>2. MarshalAccount(c)[3].n = a.nonce + 1
    BY <1>3, <2>1
  <2>3. MarshalAccount(c)[3].n # b[3].n
    BY <1>1, <1>2, <2>2
  <2>4. MarshalAccount(c) # b
    BY <2>3
  <2> QED BY <2>4 DEF c
<1>7. MarshalAccount(With(a, "stake", a.stake + 1)) # b
  <2> DEFINE c == With(a, "stake", a.stake + 1)
  <2>1. IsKept(c) /\ c.stake = a.stake + 1
    BY <1>1, AccountWith DEF Numbers
  <2> HIDE DEF c
  <2>2. MarshalAccount(c)[4].n = a.stake + 1
    BY <1>3, <2>1
  <2>3. MarshalAccount(c)[4].n # b[4].n
    BY <1>1, <1>2, <2>2
  <2>4. MarshalAccount(c) # b
    BY <2>3
  <2> QED BY <2>4 DEF c
<1>8. MarshalAccount(With(a, "rc", a.rc + 1)) # b
  <2> DEFINE c == With(a, "rc", a.rc + 1)
  <2>1. IsKept(c) /\ c.rc = a.rc + 1
    BY <1>1, AccountWith DEF Numbers
  <2> HIDE DEF c
  <2>2. MarshalAccount(c)[5].n = a.rc + 1
    BY <1>3, <2>1
  <2>3. MarshalAccount(c)[5].n # b[5].n
    BY <1>1, <1>2, <2>2
  <2>4. MarshalAccount(c) # b
    BY <2>3
  <2> QED BY <2>4 DEF c
<1>9. MarshalAccount(With(a, "rcMax", a.rcMax + 1)) # b
  <2> DEFINE c == With(a, "rcMax", a.rcMax + 1)
  <2>1. IsKept(c) /\ c.rcMax = a.rcMax + 1
    BY <1>1, AccountWith DEF Numbers
  <2> HIDE DEF c
  <2>2. MarshalAccount(c)[6].n = a.rcMax + 1
    BY <1>3, <2>1
  <2>3. MarshalAccount(c)[6].n # b[6].n
    BY <1>1, <1>2, <2>2
  <2>4. MarshalAccount(c) # b
    BY <2>3
  <2> QED BY <2>4 DEF c
<1>10. MarshalAccount(With(a, "time", a.time + 1)) # b
  <2> DEFINE c == With(a, "time", a.time + 1)
  <2>1. IsKept(c) /\ c.time = a.time + 1
    BY <1>1, AccountWith DEF Numbers
  <2> HIDE DEF c
  <2>2. MarshalAccount(c)[7].n = Uint64(a.time + 1)
    BY <1>3, <2>1
  <2>3. MarshalAccount(c)[7].n # b[7].n
    BY <1>1, <1>2, <2>2, TimesApart
  <2>4. MarshalAccount(c) # b
    BY <2>3
  <2> QED BY <2>4 DEF c
<1>11. ASSUME NEW v, v = << >> <=> a.code # << >> PROVE MarshalAccount(With(a, "code", v)) # b
  <2> DEFINE c == With(a, "code", v)
             d == MarshalAccount(c)
  <2>1. IsKept(c) /\ c.code = v /\ c.pubKey = a.pubKey
    BY <1>1, AccountWith
  <2> HIDE DEF c
  <2>2. Len(d) = 7 + (IF c.code = << >> THEN 0 ELSE 1) + (IF c.pubKey = << >> THEN 0 ELSE 1)
    BY <1>3, <2>1
  <2> HIDE DEF d
  <2>3. c.code = << >> <=> a.code # << >>
    BY <1>11, <2>1
  <2>4. Len(d) # Len(b)
    BY <1>2, <2>1, <2>2, <2>3
  <2>5. d # b
    BY <2>4
  <2> QED BY <2>5 DEF c, d
<1>12. ASSUME NEW v, v = << >> <=> a.pubKey # << >> PROVE MarshalAccount(With(a, "pubKey", v)) # b
  <2> DEFINE c == With(a, "pubKey", v)
             d == MarshalAccount(c)
  <2>1. IsKept(c) /\ c.pubKey = v /\ c.code = a.code
    BY <1>1, AccountWith
  <2> HIDE DEF c
  <2>2. Len(d) = 7 + (IF c.code = << >> THEN 0 ELSE 1) + (IF c.pubKey = << >> THEN 0 ELSE 1)
    BY <1>3, <2>1
  <2> HIDE DEF d
  <2>3. c.pubKey = << >> <=> a.pubKey # << >>
    BY <1>12, <2>1
  <2>4. Len(d) # Len(b)
    BY <1>2, <2>1, <2>2, <2>3
  <2>5. d # b
    BY <2>4
  <2> QED BY <2>5 DEF c, d
<1> QED BY <1>4, <1>5, <1>6, <1>7, <1>8, <1>9, <1>10, <1>11, <1>12 DEF Numbers, b

\* Accounts without one of these, or with another in its place, have another root.
LEMMA RootDiffers ==
  ASSUME NEW X, Kept(X), NEW a \in X
  PROVE  /\ StateRoot(X \ {a}) # StateRoot(X)
         /\ \A c : IsKept(c) /\ c.address = a.address /\ MarshalAccount(c) # MarshalAccount(a) =>
              StateRoot((X \ {a}) \union {c}) # StateRoot(X)
<1>1. \A x, y \in X : x.address = y.address => x = y
  BY DEF Kept, Apart
<1>2. ASSUME StateRoot(X \ {a}) = StateRoot(X) PROVE FALSE
  <2> DEFINE Y == X \ {a}
  <2>1. Kept(Y)
    BY DEF Kept, Apart
  <2>2. StateRoot(X) = StateRoot(Y)
    BY <1>2
  <2>3. \A c \in Y : c.address # a.address
    BY <1>1
  <2> HIDE DEF Y
  <2> QED BY <2>1, <2>2, <2>3, StateRootInjective
<1>3. ASSUME NEW c, IsKept(c), c.address = a.address, MarshalAccount(c) # MarshalAccount(a),
             StateRoot((X \ {a}) \union {c}) = StateRoot(X)
      PROVE  FALSE
  <2> DEFINE Y == (X \ {a}) \union {c}
  <2>1. Kept(Y)
    BY <1>1, <1>3 DEF Kept, Apart
  <2>2. StateRoot(X) = StateRoot(Y)
    BY <1>3
  <2>3. \A d \in Y : d.address = a.address => d = c
    BY <1>1
  <2> HIDE DEF Y
  <2>4. PICK d \in Y : a.address = d.address /\ MarshalAccount(a) = MarshalAccount(d)
    BY <2>1, <2>2, StateRootInjective
  <2>5. d = c
    BY <2>3, <2>4
  <2> QED BY <1>3, <2>4, <2>5
<1> QED BY <1>2, <1>3

\* Of any accounts, the root of those that are iterated depends on these only.
LEMMA RootDiffersWhere ==
  ASSUME NEW X, Apart(X), \A x \in X : IsKept(x), NEW a \in X
  PROVE  /\ StateRoot(X \ {a}) # StateRoot(X) <=> a.address \in Iterated
         /\ \A c : IsKept(c) /\ c.address = a.address /\ MarshalAccount(c) # MarshalAccount(a) =>
              (StateRoot((X \ {a}) \union {c}) # StateRoot(X) <=> a.address \in Iterated)
<1> DEFINE Y == InRange(X)
<1>1. Kept(Y)
  BY InRangeKept
<1>2. StateRoot(X) = StateRoot(Y)
  BY RootInRange
<1>3. CASE a.address \in Iterated
  <2>1. a \in Y
    BY <1>3 DEF InRange
  <2>2. StateRoot(X \ {a}) # StateRoot(X)
    <3>1. InRange(X \ {a}) = Y \ {a}
      BY DEF InRange
    <3>2. StateRoot(X \ {a}) = StateRoot(Y \ {a})
      BY <3>1, RootInRange
    <3> HIDE DEF Y
    <3> QED BY <1>1, <1>2, <2>1, <3>2, RootDiffers
  <2>3. ASSUME NEW c, IsKept(c), c.address = a.address, MarshalAccount(c) # MarshalAccount(a)
        PROVE  StateRoot((X \ {a}) \union {c}) # StateRoot(X)
    <3>1. InRange((X \ {a}) \union {c}) = (Y \ {a}) \union {c}
      BY <1>3, <2>3 DEF InRange
    <3>2. StateRoot((X \ {a}) \union {c}) = StateRoot((Y \ {a}) \union {c})
      BY <3>1, RootInRange
    <3> HIDE DEF Y
    <3> QED BY <1>1, <1>2, <2>1, <2>3, <3>2, RootDiffers
  <2> QED BY <1>3, <2>2, <2>3
<1>4. CASE a.address \notin Iterated
  <2>1. StateRoot(X \ {a}) = StateRoot(X)
    <3>1. InRange(X \ {a}) = Y
      BY <1>4 DEF InRange
    <3>2. StateRoot(X \ {a}) = StateRoot(Y)
      BY <3>1, RootInRange
    <3> QED BY <1>2, <3>2
  <2>2. ASSUME NEW c, IsKept(c), c.address = a.address
        PROVE  StateRoot((X \ {a}) \union {c}) = StateRoot(X)
    <3>1. InRange((X \ {a}) \union {c}) = Y
      BY <1>4, <2>2 DEF InRange
    <3>2. StateRoot((X \ {a}) \union {c}) = StateRoot(Y)
      BY <3>1, RootInRange
    <3> QED BY <1>2, <3>2
  <2> QED BY <1>4, <2>1, <2>2
<1> QED BY <1>3, <1>4

\* The accounts of a store can be its state.
LEMMA AccountsKept ==
  ASSUME NEW store, AccountsHeld(store)
  PROVE  /\ Apart(Accounts(store))
         /\ \A a \in Accounts(store) : IsAccount(a) /\ IsKept(a)
         /\ IsHash(StateRoot(Accounts(store)))
<1>1. Accounts(store) = { GetAccount(store, addr) : addr \in Present(store) }
  BY AccountsRead
<1>2. \A addr \in Addr : /\ IsAccount(GetAccount(store, addr))
                         /\ GetAccount(store, addr).address = addr
  BY AccountRead
<1>3. Present(store) \subseteq Addr
  BY DEF Present
<1>4. \A a \in Accounts(store) : IsAccount(a) /\ a = GetAccount(store, a.address)
  BY <1>1, <1>2, <1>3
<1>5. \A a \in Accounts(store) : IsKept(a)
  BY <1>4 DEF IsAccount, IsKept
<1>6. Apart(Accounts(store))
  BY <1>4 DEF Apart
<1>7. IsHash(StateRoot(Accounts(store)))
  <2> DEFINE X == Accounts(store)
             Y == InRange(X)
  <2>1. Kept(Y)
    BY <1>5, <1>6, InRangeKept
  <2>2. StateRoot(X) = StateRoot(Y)
    BY RootInRange
  <2> HIDE DEF X, Y
  <2>3. IsHash(StateRoot(X))
    BY <2>1, <2>2, StateRootIsHash
  <2> QED BY <2>3 DEF X
<1> QED BY <1>4, <1>5, <1>6, <1>7

\* Where the keys hold accounts, the root covers those that are iterated: a
\* neighbour's leaves differ, so its root does; and no others.
LEMMA RootCovers ==
  ASSUME AccountsHeld(kv)
  PROVE  RootCoversState
<1> DEFINE X == Accounts(kv)
<1>1. Apart(X) /\ \A a \in X : IsAccount(a) /\ IsKept(a)
  BY AccountsKept
<1> HIDE DEF X
<1>2. ASSUME NEW a \in X, NEW name \in Numbers
      PROVE  StateRoot((X \ {a}) \union {[a EXCEPT ![name] = @ + 1]}) # StateRoot(X)
               <=> a.address \in Iterated
  <2> DEFINE c == With(a, name, a[name] + 1)
  <2>1. IsKept(c) /\ c.address = a.address /\ MarshalAccount(c) # MarshalAccount(a)
    BY <1>1, BytesDiffer
  <2>2. c = [a EXCEPT ![name] = @ + 1]
    BY DEF With
  <2> HIDE DEF c
  <2>3. StateRoot((X \ {a}) \union {c}) # StateRoot(X) <=> a.address \in Iterated
    BY <1>1, <2>1, RootDiffersWhere
  <2> QED BY <2>2, <2>3
<1>3. ASSUME NEW a \in X, NEW name \in {"code", "pubKey"}
      PROVE  StateRoot((X \ {a}) \union
               {[a EXCEPT ![name] = IF @ = << >> THEN Text(1) ELSE << >>]}) # StateRoot(X)
               <=> a.address \in Iterated
  <2> DEFINE v == IF a[name] = << >> THEN Text(1) ELSE << >>
             c == With(a, name, v)
  <2>1. Text(1) # << >>
    <3> DEFINE o == Opaque("text", 1, << >>)
    <3>1. o \in Seq({o[1]}) /\ Len(o) = 1 /\ o[1].type = "text"
      BY TagSeq
    <3>2. Text(1) = o
      BY DEF Text
    <3> HIDE DEF o
    <3>3. o # << >>
      BY <3>1
    <3> QED BY <3>2, <3>3
  <2>2. v = << >> <=> a[name] # << >>
    BY <2>1
  <2>3. c = [a EXCEPT ![name] = IF @ = << >> THEN Text(1) ELSE << >>]
    BY DEF With
  <2>4. IsKept(c) /\ c.address = a.address /\ MarshalAccount(c) # MarshalAccount(a)
    <3> HIDE DEF v
    <3> QED BY <1>1, <2>2, BytesDiffer
  <2> HIDE DEF c
  <2>5. StateRoot((X \ {a}) \union {c}) # StateRoot(X) <=> a.address \in Iterated
    BY <1>1, <2>4, RootDiffersWhere
  <2> QED BY <2>3, <2>5
<1>4. ASSUME NEW a \in X PROVE StateRoot(X \ {a}) # StateRoot(X) <=> a.address \in Iterated
  BY <1>1, RootDiffersWhere
<1>5. ASSUME NEW a \in X, NEW other \in Neighbours(X, a)
      PROVE  StateRoot(other) # StateRoot(X) <=> a.address \in Iterated
  <2>1. CASE \E name \in Numbers : other = (X \ {a}) \union {[a EXCEPT ![name] = @ + 1]}
    BY <1>2, <2>1
  <2>2. CASE \E name \in {"code", "pubKey"} :
               other = (X \ {a}) \union {[a EXCEPT ![name] = IF @ = << >> THEN Text(1) ELSE << >>]}
    BY <1>3, <2>2
  <2>3. CASE other = X \ {a}
    BY <1>4, <2>3
  <2> QED BY <2>1, <2>2, <2>3 DEF Neighbours, Numbers
<1> QED BY <1>5 DEF RootCoversState, X

-----------------------------------------------------------------------------
(* The blocks in the store.                                                  *)

\* The block at a height of a store.
BlockIn(store, h) == CHOOSE b \in GetBlockByHeight(store, h) : TRUE

\* Under its height and its hash a block's bytes are stored, with transactions
\* that clients have sent.
Holds(store, b, h) ==
  /\ b = BlockRecord(h, b.prev, b.root, b.timestamp, b.proposer, b.txs, b.sigs)
  /\ IsHash(b.prev) /\ IsHash(b.root) /\ b.timestamp \in Timestamps /\ b.sigs \in SigLists
  /\ IsSentAll(b.txs) /\ Len(b.txs) <= MaxTxs
  /\ HeightKey(h) \in DOMAIN store /\ store[HeightKey(h)] = HashBlock(b)
  /\ BlockKey(HashBlock(b)) \in DOMAIN store
  /\ store[BlockKey(HashBlock(b))] = MarshalBlock(b)

BlocksHeld(store, n) == \A h \in 1 .. n : Holds(store, BlockIn(store, h), h)

\* Which is what is read.
LEMMA BlockBack ==
  ASSUME NEW store, NEW b, NEW h, Holds(store, b, h)
  PROVE  /\ GetBlockByHash(store, HashBlock(b)) = {b}
         /\ GetBlockByHeight(store, h) = {b}
         /\ BlockIn(store, h) = b
<1> DEFINE S == { b.txs[i] : i \in DOMAIN b.txs }
           R == { b.sigs[i] : i \in DOMAIN b.sigs }
           r == BlockRecord(h, b.prev, b.root, b.timestamp, b.proposer, b.txs, b.sigs)
<1>1. b = r
  BY DEF Holds
<1>2. b.txs \in Seq(S) /\ \A tx \in S : IsTx(tx)
  BY DEF Holds, IsSentAll, IsSent
<1>3. b.sigs \in Seq(R)
  BY BlockStoreAssumption DEF Holds
<1>4. IsHash(b.prev) /\ IsHash(b.root)
  BY DEF Holds
<1>5. Int64(Uint64(b.timestamp)) = b.timestamp
  <2>1. b.timestamp \in Int64s
    BY BlockStoreAssumption DEF Holds
  <2> QED BY <2>1, Int64ReadBack
<1> HIDE DEF S, R
<1>6. UnmarshalBlock(MarshalBlock(r)) = {r}
  BY <1>2, <1>3, <1>4, <1>5, BlockReadBack
<1> HIDE DEF r
<1>7. UnmarshalBlock(MarshalBlock(b)) = {b}
  BY <1>1, <1>6
<1>8. GetBlockByHash(store, HashBlock(b)) = {b}
  BY <1>7 DEF Holds, GetBlockByHash
<1>9. GetBlockByHeight(store, h) = {b}
  BY <1>8 DEF Holds, GetBlockByHeight
<1>10. BlockIn(store, h) = b
  BY <1>9 DEF BlockIn
<1> QED BY <1>8, <1>9, <1>10

\* A header starts with its height.
LEMMA HeightHashed ==
  ASSUME NEW b, NEW c, NEW S, NEW T, b.txs \in Seq(S), c.txs \in Seq(T),
         HashBlock(b) = HashBlock(c)
  PROVE  b.height = c.height
<1>1. ASSUME NEW d, NEW U, d.txs \in Seq(U)
      PROVE  MarshalBlockForHash(d)[1].n = d.height
  <2> DEFINE head == << Varint(1, d.height), Bytes(2, d.prev), Bytes(3, d.root),
                        Varint(4, Uint64(d.timestamp)), Bytes(5, d.proposer) >>
             mid == [i \in DOMAIN d.txs |-> Bytes(6, MarshalTransaction(d.txs[i]))]
             A == {Varint(1, d.height), Bytes(2, d.prev), Bytes(3, d.root),
                   Varint(4, Uint64(d.timestamp)), Bytes(5, d.proposer)}
             B == { mid[i] : i \in DOMAIN d.txs }
             All == A \union B
  <2>1. head \in Seq(A) /\ Len(head) = 5 /\ head[1] = Varint(1, d.height)
    OBVIOUS
  <2>2. mid \in Seq(B)
    BY <1>1
  <2>3. MarshalBlockForHash(d) = head \o mid
    BY DEF MarshalBlockForHash
  <2> HIDE DEF head, mid, A, B
  <2>4. head \in Seq(All) /\ mid \in Seq(All)
    BY <2>1, <2>2
  <2> HIDE DEF All
  <2> DEFINE r == head \o mid
  <2>5. r = head \o mid
    OBVIOUS
  <2> HIDE DEF r
  <2>6. \A i \in 1 .. Len(head) : r[i] = head[i]
    BY <2>4, <2>5, Concatenation
  <2>7. r[1] = Varint(1, d.height)
    BY <2>1, <2>6
  <2> QED BY <2>3, <2>5, <2>7, BytesFields
<1>2. MarshalBlockForHash(b) = MarshalBlockForHash(c)
  BY HashInjective DEF HashBlock
<1>3. MarshalBlockForHash(b)[1].n = b.height /\ MarshalBlockForHash(c)[1].n = c.height
  BY <1>1
<1> QED BY <1>2, <1>3

\* A block put on top is read, and those below it are as before.
LEMMA BlockAdded ==
  ASSUME NEW store, NEW n \in Nat, BlocksHeld(store, n),
         NEW b, b = BlockRecord(n + 1, b.prev, b.root, b.timestamp, b.proposer, b.txs, b.sigs),
         IsHash(b.prev), IsHash(b.root), b.timestamp \in Timestamps, b.sigs \in SigLists,
         IsSentAll(b.txs), Len(b.txs) <= MaxTxs
  PROVE  LET after == SetBlock(store, b, HashBlock(b))
         IN  /\ BlocksHeld(after, n + 1) /\ BlockIn(after, n + 1) = b
             /\ \A h \in 1 .. n : BlockIn(after, h) = BlockIn(store, h)
             /\ SameAccounts(store, after)
<1> DEFINE hash == HashBlock(b)
           after == SetBlock(store, b, hash)
           k1 == BlockKey(hash)
           k2 == HeightKey(n + 1)
<1>1. b.height = n + 1
  BY DEF BlockRecord
<1>2. /\ SameAccounts(store, after)
      /\ k1 \in DOMAIN after /\ after[k1] = MarshalBlock(b)
      /\ k2 \in DOMAIN after /\ after[k2] = hash
      /\ \A k \in DOMAIN store : k \in DOMAIN after /\ (k \notin {k1, k2} => after[k] = store[k])
  BY <1>1, BlockSet
<1> HIDE DEF after
<1>3. Holds(after, b, n + 1)
  BY <1>2 DEF Holds
<1>4. ASSUME NEW h \in 1 .. n
      PROVE  Holds(after, BlockIn(store, h), h)
  <2> DEFINE c == BlockIn(store, h)
             q1 == BlockKey(HashBlock(c))
             q2 == HeightKey(h)
  <2>1. Holds(store, c, h)
    BY DEF BlocksHeld
  <2> HIDE DEF c
  <2>2. c.height = h
    BY <2>1 DEF Holds, BlockRecord
  <2>3. HashBlock(c) # hash
    <3> DEFINE S == { c.txs[i] : i \in DOMAIN c.txs }
               T == { b.txs[i] : i \in DOMAIN b.txs }
    <3>1. c.txs \in Seq(S) /\ b.txs \in Seq(T)
      BY <2>1 DEF Holds, IsSentAll
    <3> HIDE DEF S, T
    <3>2. HashBlock(c) = HashBlock(b) => c.height = b.height
      BY <3>1, HeightHashed
    <3> QED BY <1>1, <2>2, <3>2
  <2>4. q1 # k1 /\ q2 # k2
    BY <2>3, KeysApart
  <2>5. q1 # k2 /\ q2 # k1
    <3>1. /\ q1[1].type = "block/" /\ k1[1].type = "block/"
          /\ q2[1].type = "block_height/" /\ k2[1].type = "block_height/"
      BY KeysApart
    <3> HIDE DEF q1, q2, k1, k2
    <3> QED BY <3>1
  <2>6. q1 \in DOMAIN store /\ q2 \in DOMAIN store
    BY <2>1 DEF Holds
  <2> HIDE DEF q1, q2, k1, k2
  <2>7. /\ q1 \in DOMAIN after /\ after[q1] = store[q1]
        /\ q2 \in DOMAIN after /\ after[q2] = store[q2]
    BY <1>2, <2>4, <2>5, <2>6
  <2> QED BY <2>1, <2>7 DEF Holds, q1, q2, c
<1>5. \A h \in 1 .. n : BlockIn(after, h) = BlockIn(store, h)
  BY <1>4, BlockBack
<1>6. BlockIn(after, n + 1) = b
  BY <1>3, BlockBack
<1>7. BlocksHeld(after, n + 1)
  <2>1. ASSUME NEW h \in 1 .. n + 1 PROVE Holds(after, BlockIn(after, h), h)
    <3>1. CASE h \in 1 .. n
      BY <1>4, <1>5, <3>1
    <3>2. CASE h \notin 1 .. n
      <4>1. h = n + 1
        BY <3>2
      <4> QED BY <1>3, <1>6, <4>1
    <3> QED BY <3>1, <3>2
  <2> QED BY <2>1 DEF BlocksHeld
<1> QED BY <1>2, <1>5, <1>6, <1>7 DEF after

-----------------------------------------------------------------------------
(* The invariant.                                                            *)

\* The places of transactions in the blocks of a store, and the transactions.
Places(store, n) == { << h, i >> : h \in 1 .. n, i \in 1 .. MaxTxs }
                      \cap { u \in Nat \X Nat : u[2] \in DOMAIN BlockIn(store, u[1]).txs }
TxIn(store, u) == BlockIn(store, u[1]).txs[u[2]]

\* Those of the blocks since a height.
Since(store, since, n) == { u \in Places(store, n) : u[1] > since }

\* Every transaction in the blocks since a height can be audited, and none has the
\* sender and the nonce of another.
AuditedAll(store, since, n) ==
  /\ \A u \in Since(store, since, n) : Audited(TxIn(store, u), store)
  /\ \A u, v \in Since(store, since, n) :
       TxIn(store, u).from = TxIn(store, v).from /\ TxIn(store, u).nonce = TxIn(store, v).nonce
         => u = v

\* The store has the accounts' bytes, those of the genesis file among them, and
\* the blocks', each under the hash it has with its height; what clients have
\* sent is well-formed, and what is in the blocks since the last start has been
\* accepted.
IInv ==
  /\ draft \in Seq(PayloadField)
  /\ IsSentAll(pending) /\ Len(pending) <= MaxTxs
  /\ height \in Nat /\ started \in 0 .. height
  /\ AccountsHeld(kv) /\ \A a \in Genesis : a.address \in Present(kv)
  /\ BlocksHeld(kv, height)
  /\ AuditedAll(kv, started, height)

\* BlockAt reads from the current store.
LEMMA BlockAtIn == ASSUME NEW h PROVE BlockAt(h) = BlockIn(kv, h)
BY DEF BlockAt, BlockIn

\* The places are finitely many.
LEMMA PlacesFinite ==
  ASSUME NEW store, NEW n \in Nat
  PROVE  IsFiniteSet(Places(store, n)) /\ Cardinality(Places(store, n)) \in Nat
<1>1. MaxTxs \in Nat
  BY BlockStoreAssumption
<1>2. IsFiniteSet(1 .. n) /\ IsFiniteSet(1 .. MaxTxs)
  BY <1>1, FS_Interval
<1>3. IsFiniteSet((1 .. n) \X (1 .. MaxTxs))
  BY <1>2, FS_Product
<1>4. Places(store, n) \in SUBSET ((1 .. n) \X (1 .. MaxTxs))
  BY DEF Places
<1>5. IsFiniteSet(Places(store, n))
  BY <1>3, <1>4, FS_Subset
<1> QED BY <1>5, FS_CardinalityType

\* The places of stored transactions, and that what is there was sent.
LEMMA PlaceRead ==
  ASSUME NEW store, NEW n \in Nat, BlocksHeld(store, n)
  PROVE  /\ \A u : u \in Places(store, n) <=>
              \E h \in 1 .. n : \E i \in DOMAIN BlockIn(store, h).txs : u = << h, i >>
         /\ \A u \in Places(store, n) :
              /\ u[1] \in 1 .. n /\ u[2] \in DOMAIN BlockIn(store, u[1]).txs
              /\ u = << u[1], u[2] >> /\ IsSent(TxIn(store, u))
<1>1. \A h \in 1 .. n : /\ DOMAIN BlockIn(store, h).txs \subseteq 1 .. MaxTxs
                        /\ \A i \in DOMAIN BlockIn(store, h).txs : IsSent(BlockIn(store, h).txs[i])
  <2> SUFFICES ASSUME NEW h \in 1 .. n
               PROVE  /\ DOMAIN BlockIn(store, h).txs \subseteq 1 .. MaxTxs
                      /\ \A i \in DOMAIN BlockIn(store, h).txs : IsSent(BlockIn(store, h).txs[i])
    OBVIOUS
  <2> DEFINE txs == BlockIn(store, h).txs
  <2>1. IsSentAll(txs) /\ Len(txs) <= MaxTxs
    BY DEF BlocksHeld, Holds
  <2> HIDE DEF txs
  <2>2. Len(txs) \in Nat /\ DOMAIN txs = 1 .. Len(txs) /\ MaxTxs \in Nat
    BY <2>1, BlockStoreAssumption DEF IsSentAll
  <2>3. DOMAIN txs \subseteq 1 .. MaxTxs
    BY <2>1, <2>2
  <2>4. \A i \in DOMAIN txs : IsSent(txs[i])
    BY <2>1 DEF IsSentAll
  <2> QED BY <2>3, <2>4 DEF txs
<1>2. MaxTxs \in Nat
  BY BlockStoreAssumption
<1>3. ASSUME NEW u \in Places(store, n)
      PROVE  /\ u[1] \in 1 .. n /\ u[2] \in DOMAIN BlockIn(store, u[1]).txs
             /\ u = << u[1], u[2] >> /\ IsSent(TxIn(store, u))
  <2>1. u[1] \in 1 .. n /\ u[2] \in DOMAIN BlockIn(store, u[1]).txs /\ u = << u[1], u[2] >>
    BY <1>3 DEF Places
  <2> QED BY <1>1, <2>1 DEF TxIn
<1>4. ASSUME NEW h \in 1 .. n, NEW i \in DOMAIN BlockIn(store, h).txs
      PROVE  << h, i >> \in Places(store, n)
  <2>1. i \in 1 .. MaxTxs
    BY <1>1
  <2>2. i \in Nat /\ h \in Nat
    BY <1>2, <2>1
  <2> QED BY <2>1, <2>2 DEF Places
<1> QED BY <1>3, <1>4

\* The places of the model.
LEMMA StoredPlaces ==
  ASSUME height \in Nat, BlocksHeld(kv, height)
  PROVE  Stored = Places(kv, height)
<1>1. \A u : u \in Stored <=>
        \E h \in 1 .. height : \E i \in DOMAIN BlockIn(kv, h).txs : u = << h, i >>
  BY BlockAtIn DEF Stored
<1>2. \A u : u \in Places(kv, height) <=>
        \E h \in 1 .. height : \E i \in DOMAIN BlockIn(kv, h).txs : u = << h, i >>
  BY PlaceRead
<1> QED BY <1>1, <1>2

\* Genesis accounts are accounts of different addresses.
LEMMA GenesisAccounts ==
  Apart(Genesis) /\ \A a \in Genesis : IsAccount(a)
<1>1. ASSUME NEW a \in Genesis PROVE IsAccount(a)
  <2>1. a \in [address : Addr, balance : Nat, nonce : {0}, stake : Nat, rc : {0},
               rcMax : Nat, time : Int64s, code : {<< >>}, pubKey : {<< >>}]
    BY BlockStoreAssumption
  <2> QED BY <2>1 DEF IsAccount, AccountRecord
<1>2. Apart(Genesis)
  BY BlockStoreAssumption DEF Apart
<1> QED BY <1>1, <1>2

\* The store before anything is in it.
Empty == [k \in {} |-> << >>]

\* The invariant holds after genesis.
LEMMA InitIInv ==
  ASSUME Init
  PROVE  IInv /\ Accounts(kv) = Genesis
<1>1. /\ draft = << >> /\ pending = << >> /\ height = 0 /\ started = 0
      /\ kv = SetAccounts(Empty, Genesis)
  BY DEF Init, Empty
<1>2. AccountsHeld(Empty) /\ Present(Empty) = {}
  BY DEF AccountsHeld, Present, Empty
<1>3. Accounts(Empty) = {}
  BY <1>2, AccountsRead
<1>4. AccountsHeld(kv) /\ Present(kv) = Present(Empty) \union { a.address : a \in Genesis }
  BY <1>1, <1>2, AccountsSet, GenesisAccounts
<1>5. Accounts(kv) = Overwrite(Accounts(Empty), Genesis)
  BY <1>1, <1>2, AccountsOverwritten, GenesisAccounts
<1>6. Accounts(kv) = Genesis
  BY <1>3, <1>5 DEF Overwrite
<1>7. IsSentAll(pending) /\ Len(pending) <= MaxTxs
  BY <1>1, BlockStoreAssumption DEF IsSentAll
<1>8. BlocksHeld(kv, height)
  BY <1>1 DEF BlocksHeld
<1>9. AuditedAll(kv, started, height)
  <2>1. Places(kv, height) = {}
    BY <1>1 DEF Places
  <2> QED BY <2>1 DEF AuditedAll, Since
<1> QED BY <1>1, <1>4, <1>6, <1>7, <1>8, <1>9 DEF IInv

\* A transaction is sent after others.
LEMMA SentAdded ==
  ASSUME NEW txs, IsSentAll(txs), NEW tx, IsSent(tx)
  PROVE  IsSentAll(Append(txs, tx)) /\ Len(Append(txs, tx)) = Len(txs) + 1
<1> DEFINE S == { txs[i] : i \in DOMAIN txs }
           T == S \union {tx}
           y == Append(txs, tx)
<1>1. txs \in Seq(S) /\ \A i \in DOMAIN txs : IsSent(txs[i])
  BY DEF IsSentAll
<1> HIDE DEF S
<1>2. txs \in Seq(T) /\ tx \in T
  <2>1. S \subseteq T /\ tx \in T
    OBVIOUS
  <2> HIDE DEF T
  <2> QED BY <1>1, <2>1
<1> HIDE DEF T
<1>3. /\ y \in Seq(T) /\ Len(y) = Len(txs) + 1 /\ y[Len(txs) + 1] = tx
      /\ \A i \in 1 .. Len(txs) : y[i] = txs[i]
      /\ Len(txs) \in Nat /\ DOMAIN txs = 1 .. Len(txs)
  BY <1>2
<1> HIDE DEF y
<1>4. DOMAIN y = 1 .. Len(y)
  BY <1>3
<1>5. \A i \in DOMAIN y : IsSent(y[i])
  BY <1>1, <1>3, <1>4
<1>6. y \in Seq({ y[i] : i \in DOMAIN y })
  BY <1>3, <1>4
<1> QED BY <1>3, <1>5, <1>6 DEF IsSentAll, y

\* Writing a payload field keeps the invariant.
LEMMA WriteIInv ==
  ASSUME IInv, Write
  PROVE  IInv'
<1>1. PICK f \in PayloadField : draft' = Append(draft, f)
  BY DEF Write
<1>2. draft' \in Seq(PayloadField)
  BY <1>1 DEF IInv
<1>3. pending' = pending /\ height' = height /\ kv' = kv /\ started' = started
  BY DEF Write
<1> QED BY <1>2, <1>3 DEF IInv

\* Accepting a transaction keeps the invariant: the pool holds sent transactions.
LEMMA SubmitIInv ==
  ASSUME IInv, Submit
  PROVE  IInv'
<1>1. PICK from \in Addr, to \in Recipients, signer \in Keys :
        LET sent == Cardinality({ i \in DOMAIN pending : pending[i].from = from })
            unsigned == [from |-> from, to |-> to, payload |-> draft, signature |-> << >>,
                         nonce |-> GetAccount(kv, from).nonce + sent]
            tx == [unsigned EXCEPT !.signature = Sign(signer, SigningBytes(unsigned))]
        IN  pending' = Append(pending, tx)
  BY DEF Submit
<1> DEFINE S == { i \in DOMAIN pending : pending[i].from = from }
           nonce == GetAccount(kv, from).nonce + Cardinality(S)
           unsigned == [from |-> from, to |-> to, payload |-> draft, signature |-> << >>,
                        nonce |-> nonce]
           signature == Sign(signer, SigningBytes(unsigned))
           tx == [unsigned EXCEPT !.signature = signature]
<1>2. pending' = Append(pending, tx)
  BY <1>1
<1>3. nonce \in Nat
  <2>1. Len(pending) \in Nat /\ DOMAIN pending = 1 .. Len(pending)
    BY DEF IInv, IsSentAll
  <2>2. IsFiniteSet(DOMAIN pending)
    BY <2>1, FS_Interval
  <2>3. S \in SUBSET DOMAIN pending
    OBVIOUS
  <2>4. Cardinality(S) \in Nat
    BY <2>2, <2>3, FS_Subset, FS_CardinalityType
  <2>5. GetAccount(kv, from).nonce \in Nat
    BY AccountRead DEF IInv, IsAccount
  <2> HIDE DEF S
  <2> QED BY <2>4, <2>5
<1>4. tx = TxRecord(from, to, nonce, draft, signature)
  <2> HIDE DEF nonce, signature
  <2> QED BY DEF TxRecord
<1> HIDE DEF tx, nonce, signature
<1>5. IsSent(tx)
  <2>1. /\ tx.from = from /\ tx.nonce = nonce /\ tx.payload = draft
        /\ tx = TxRecord(tx.from, tx.to, tx.nonce, tx.payload, tx.signature)
    BY <1>4 DEF TxRecord
  <2>2. draft \in Seq(PayloadField)
    BY DEF IInv
  <2> QED BY <1>3, <2>1, <2>2 DEF IsSent, IsTx
<1>6. IsSentAll(pending') /\ Len(pending') = Len(pending) + 1
  BY <1>2, <1>5, SentAdded DEF IInv
<1>7. Len(pending) + Cardinality(Stored) < MaxTxs
  BY DEF Submit, MoreTxs
<1>8. Cardinality(Stored) \in Nat
  <2>1. Stored = Places(kv, height)
    BY StoredPlaces DEF IInv
  <2> QED BY <2>1, PlacesFinite DEF IInv
<1>9. Len(pending') <= MaxTxs
  <2>1. Len(pending) \in Nat /\ MaxTxs \in Nat
    BY BlockStoreAssumption DEF IInv, IsSentAll
  <2> QED BY <1>6, <1>7, <1>8, <2>1
<1>10. draft' = << >> /\ height' = height /\ kv' = kv /\ started' = started
  BY DEF Submit
<1> QED BY <1>6, <1>9, <1>10 DEF IInv

\* The log's last block.
LEMMA LastIsHash ==
  ASSUME IInv
  PROVE  /\ IsHash(LastFinalized)
         /\ LastFinalized = IF height = 0 THEN ZeroHash ELSE HashBlock(BlockIn(kv, height))
<1>1. height # 0 => height \in 1 .. height
  BY DEF IInv
<1>2. height # 0 => kv[HeightKey(height)] = HashBlock(BlockIn(kv, height))
  BY <1>1 DEF IInv, BlocksHeld, Holds
<1> QED BY <1>2, HashFields DEF LastFinalized, ZeroHash, HashBlock

\* Where no block key has changed, the same blocks are read.
LEMMA SameBlocksHeld ==
  ASSUME NEW s, NEW t, SameBlocks(s, t), NEW n
  PROVE  /\ \A h : BlockIn(s, h) = BlockIn(t, h)
         /\ BlocksHeld(s, n) => BlocksHeld(t, n)
<1>1. \A h : BlockIn(s, h) = BlockIn(t, h)
  BY SameRead DEF BlockIn
<1>2. ASSUME NEW b, NEW h, Holds(s, b, h) PROVE Holds(t, b, h)
  <2> DEFINE k1 == BlockKey(HashBlock(b))
             k2 == HeightKey(h)
  <2>1. k1 \in DOMAIN s /\ k2 \in DOMAIN s
    BY <1>2 DEF Holds
  <2>2. k1[1].type # "acct/" /\ k2[1].type # "acct/"
    BY KeysApart
  <2> HIDE DEF k1, k2
  <2>3. k1 \in DOMAIN t /\ k2 \in DOMAIN t /\ t[k1] = s[k1] /\ t[k2] = s[k2]
    BY <2>1, <2>2 DEF SameBlocks
  <2> QED BY <1>2, <2>3 DEF Holds, k1, k2
<1> QED BY <1>1, <1>2 DEF BlocksHeld

\* What a commit does: the store has a block on top that leads, executed, to the
\* accounts that it has.
Committed(b, store) ==
  /\ Executed(store, pending, Len(pending))
  /\ Accounts(store) \in Log!Execute(pending, Accounts(kv))
  /\ b = BlockRecord(height + 1, LastFinalized, StateRoot(Accounts(store)), b.timestamp,
                     b.proposer, pending, b.sigs)
  /\ BlocksHeld(kv', height + 1) /\ BlockIn(kv', height + 1) = b
  /\ \A h \in 1 .. height : BlockIn(kv', h) = BlockIn(kv, h)
  /\ SameAccounts(store, kv')

\* What a commit does to the store, in the terms of its values.
LEMMA CommitEffect ==
  ASSUME IInv, Commit
  PROVE  \E b, store : Committed(b, store)
<1>1. PICK store \in ApplyTransactions(pending), t \in Timestamps, sigs \in SigLists :
        LET block == [height |-> height + 1, prev |-> LastFinalized,
                      root |-> StateRoot(Accounts(store)), timestamp |-> t,
                      proposer |-> Proposer, txs |-> pending, sigs |-> sigs]
        IN  kv' = SetBlock(store, block, HashBlock(block))
  BY DEF Commit
<1> DEFINE root == StateRoot(Accounts(store))
           prev == LastFinalized
           b == BlockRecord(height + 1, prev, root, t, Proposer, pending, sigs)
<1>2. kv' = SetBlock(store, b, HashBlock(b))
  BY <1>1 DEF BlockRecord
<1>3. /\ Executed(store, pending, Len(pending))
      /\ Accounts(store) \in Log!Execute(pending, Accounts(kv))
  BY ApplyEffect DEF IInv
<1>4. AccountsHeld(store) /\ SameBlocks(kv, store)
  BY <1>3 DEF Executed
<1>5. IsHash(prev) /\ IsHash(root)
  BY <1>4, AccountsKept, LastIsHash
<1>6. BlocksHeld(store, height) /\ \A h : BlockIn(store, h) = BlockIn(kv, h)
  BY <1>4, SameBlocksHeld DEF IInv
<1> HIDE DEF prev, root
<1>7. /\ b = BlockRecord(height + 1, b.prev, b.root, b.timestamp, b.proposer, b.txs, b.sigs)
      /\ b = BlockRecord(height + 1, prev, root, b.timestamp, b.proposer, pending, b.sigs)
      /\ b.prev = prev /\ b.root = root /\ b.timestamp = t /\ b.sigs = sigs /\ b.txs = pending
  BY DEF BlockRecord
<1> HIDE DEF b
<1>8. /\ IsHash(b.prev) /\ IsHash(b.root) /\ b.timestamp \in Timestamps /\ b.sigs \in SigLists
      /\ IsSentAll(b.txs) /\ Len(b.txs) <= MaxTxs /\ height \in Nat
  BY <1>5, <1>7 DEF IInv
<1>9. LET after == SetBlock(store, b, HashBlock(b))
      IN  /\ BlocksHeld(after, height + 1) /\ BlockIn(after, height + 1) = b
          /\ \A h \in 1 .. height : BlockIn(after, h) = BlockIn(store, h)
          /\ SameAccounts(store, after)
  BY <1>6, <1>7, <1>8, BlockAdded
<1>10. /\ BlocksHeld(kv', height + 1) /\ BlockIn(kv', height + 1) = b
       /\ \A h \in 1 .. height : BlockIn(kv', h) = BlockIn(kv, h)
       /\ SameAccounts(store, kv')
  BY <1>2, <1>6, <1>9
<1>11. Committed(b, store)
  BY <1>3, <1>7, <1>10 DEF Committed, prev, root
<1> QED BY <1>11

\* A commit keeps the invariant.
LEMMA CommitIInv ==
  ASSUME IInv, Commit
  PROVE  IInv'
<1>1. PICK b, store : Committed(b, store)
  BY CommitEffect
<1>2. /\ Executed(store, pending, Len(pending))
      /\ BlocksHeld(kv', height + 1) /\ BlockIn(kv', height + 1) = b
      /\ \A h \in 1 .. height : BlockIn(kv', h) = BlockIn(kv, h)
      /\ SameAccounts(store, kv')
      /\ b = BlockRecord(height + 1, LastFinalized, StateRoot(Accounts(store)), b.timestamp,
                         b.proposer, pending, b.sigs)
  BY <1>1 DEF Committed
<1>3. b.txs = pending
  BY <1>2 DEF BlockRecord
<1>4. /\ height' = height + 1 /\ pending' = << >> /\ draft' = draft /\ height \in Nat
      /\ started' = started /\ started \in 0 .. height
  BY DEF Commit, IInv
<1>5. AccountsHeld(kv') /\ Present(kv) \subseteq Present(kv')
  <2>1. AccountsHeld(store) /\ Present(kv) \subseteq Present(store)
    BY <1>2 DEF Executed
  <2>2. AccountsHeld(kv')
    BY <1>2, <2>1, SameRead
  <2>3. Present(store) \subseteq Present(kv')
    <3>1. \A addr : AccountKey(addr)[1].type = "acct/"
      BY KeysApart
    <3> QED BY <1>2, <3>1 DEF SameAccounts, Present
  <2> QED BY <2>1, <2>2, <2>3
<1>6. \A tx : Audited(tx, store) => Audited(tx, kv')
  BY <1>2, SameRead DEF Audited
<1>7. BlocksHeld(kv, height) /\ AuditedAll(kv, started, height) /\ IsSentAll(pending)
  BY DEF IInv
<1>8. DOMAIN pending = 1 .. Len(pending) /\ \A i \in DOMAIN pending : IsSent(pending[i])
  BY <1>7 DEF IsSentAll
\* A place is an old one or in the new block.
<1>9. ASSUME NEW u \in Since(kv', started, height + 1)
      PROVE  \/ /\ u \in Since(kv, started, height) /\ TxIn(kv', u) = TxIn(kv, u)
                /\ IsSent(TxIn(kv, u)) /\ Audited(TxIn(kv, u), kv)
             \/ /\ u = << height + 1, u[2] >> /\ u[2] \in 1 .. Len(pending)
                /\ TxIn(kv', u) = pending[u[2]]
  <2>1. /\ u[1] \in 1 .. height + 1 /\ u[2] \in DOMAIN BlockIn(kv', u[1]).txs
        /\ u = << u[1], u[2] >> /\ u[1] > started
    <3>1. u \in Places(kv', height + 1) /\ u[1] > started
      BY DEF Since
    <3> QED BY <1>2, <1>4, <3>1, PlaceRead
  <2>2. CASE u[1] \in 1 .. height
    <3>1. BlockIn(kv', u[1]) = BlockIn(kv, u[1])
      BY <1>2, <2>2
    <3>2. u \in Places(kv, height)
      BY <1>4, <1>7, <2>1, <2>2, <3>1, PlaceRead
    <3>3. IsSent(TxIn(kv, u))
      BY <1>4, <1>7, <3>2, PlaceRead
    <3>4. u \in Since(kv, started, height)
      BY <2>1, <3>2 DEF Since
    <3> QED BY <1>7, <3>1, <3>3, <3>4 DEF AuditedAll, TxIn
  <2>3. CASE u[1] \notin 1 .. height
    <3>1. u[1] = height + 1
      BY <1>4, <2>1, <2>3
    <3> QED BY <1>2, <1>3, <1>8, <2>1, <3>1 DEF TxIn
  <2> QED BY <2>2, <2>3
<1>10. ASSUME NEW u \in Since(kv', started, height + 1) PROVE Audited(TxIn(kv', u), kv')
  <2>1. ASSUME NEW t, IsSent(t), Audited(t, kv) PROVE Audited(t, store)
    BY <1>2, <2>1 DEF Executed
  <2>2. \A i \in 1 .. Len(pending) : Audited(pending[i], store)
    BY <1>2 DEF Executed
  <2> QED BY <1>6, <1>9, <2>1, <2>2
<1>11. ASSUME NEW u \in Since(kv', started, height + 1), NEW v \in Since(kv', started, height + 1),
              TxIn(kv', u).from = TxIn(kv', v).from, TxIn(kv', u).nonce = TxIn(kv', v).nonce
       PROVE  u = v
  <2>1. \A i, j \in 1 .. Len(pending) :
          pending[i].from = pending[j].from /\ pending[i].nonce = pending[j].nonce => i = j
    BY <1>2 DEF Executed
  <2>2. \A i \in 1 .. Len(pending) : \A t : IsSent(t) /\ Audited(t, kv) =>
          ~ (t.from = pending[i].from /\ t.nonce = pending[i].nonce)
    BY <1>2 DEF Executed
  <2>3. \A p, q \in Since(kv, started, height) :
          TxIn(kv, p).from = TxIn(kv, q).from /\ TxIn(kv, p).nonce = TxIn(kv, q).nonce => p = q
    BY <1>7 DEF AuditedAll
  <2> DEFINE Old(w) == /\ w \in Since(kv, started, height) /\ TxIn(kv', w) = TxIn(kv, w)
                       /\ IsSent(TxIn(kv, w)) /\ Audited(TxIn(kv, w), kv)
             New(w) == /\ w = << height + 1, w[2] >> /\ w[2] \in 1 .. Len(pending)
                       /\ TxIn(kv', w) = pending[w[2]]
  <2>4. (Old(u) \/ New(u)) /\ (Old(v) \/ New(v))
    BY <1>9
  <2>5. CASE Old(u) /\ Old(v)
    BY <1>11, <2>3, <2>5
  <2>6. CASE New(u) /\ New(v)
    BY <1>11, <2>1, <2>6
  <2>7. CASE Old(u) /\ New(v)
    BY <1>11, <2>2, <2>7
  <2>8. CASE New(u) /\ Old(v)
    BY <1>11, <2>2, <2>8
  <2> QED BY <2>4, <2>5, <2>6, <2>7, <2>8
<1>12. AuditedAll(kv', started', height')
  BY <1>4, <1>10, <1>11 DEF AuditedAll
<1>13. IsSentAll(pending') /\ Len(pending') <= MaxTxs
  BY <1>4, BlockStoreAssumption DEF IsSentAll
<1>14. height' \in Nat /\ draft' \in Seq(PayloadField) /\ started' \in 0 .. height'
  BY <1>4 DEF IInv
<1>15. \A a \in Genesis : a.address \in Present(kv')
  BY <1>5 DEF IInv
<1> QED BY <1>2, <1>4, <1>5, <1>12, <1>13, <1>14, <1>15 DEF IInv

\* A restart changes the genesis accounts and no others, and no block.
LEMMA RestartEffect ==
  ASSUME IInv, Restart
  PROVE  /\ AccountsHeld(kv') /\ Present(kv) \subseteq Present(kv')
         /\ BlocksHeld(kv', height) /\ \A h : BlockIn(kv', h) = BlockIn(kv, h)
         /\ Accounts(kv') = Overwrite(Accounts(kv), Genesis)
<1> DEFINE after == SetAccounts(kv, Genesis)
<1>1. kv' = after
  BY DEF Restart
<1>2. AccountsHeld(kv) /\ BlocksHeld(kv, height)
  BY DEF IInv
<1>3. /\ AccountsHeld(after) /\ SameBlocks(kv, after)
      /\ Present(after) = Present(kv) \union { a.address : a \in Genesis }
  BY <1>2, GenesisAccounts, AccountsSet
<1>4. Accounts(after) = Overwrite(Accounts(kv), Genesis)
  BY <1>2, GenesisAccounts, AccountsOverwritten
<1> HIDE DEF after
<1>5. BlocksHeld(after, height) /\ \A h : BlockIn(after, h) = BlockIn(kv, h)
  BY <1>2, <1>3, SameBlocksHeld
<1>6. Present(kv) \subseteq Present(after)
  BY <1>3
<1> QED BY <1>1, <1>3, <1>4, <1>5, <1>6

\* A restart keeps the invariant: no transaction is stored after it yet.
LEMMA RestartIInv ==
  ASSUME IInv, Restart
  PROVE  IInv'
<1>1. draft' = draft /\ pending' = << >> /\ height' = height /\ started' = height
  BY DEF Restart
<1>2. height \in Nat /\ draft \in Seq(PayloadField) /\ \A a \in Genesis : a.address \in Present(kv)
  BY DEF IInv
<1>3. /\ AccountsHeld(kv') /\ Present(kv) \subseteq Present(kv')
      /\ BlocksHeld(kv', height)
  BY RestartEffect
<1>4. Since(kv', height, height) = {}
  <2>1. \A u \in Places(kv', height) : u[1] \in 1 .. height
    BY <1>2, <1>3, PlaceRead
  <2> QED BY <1>2, <2>1 DEF Since
<1>5. AuditedAll(kv', started', height')
  BY <1>1, <1>4 DEF AuditedAll
<1>6. IsSentAll(pending') /\ Len(pending') <= MaxTxs
  BY <1>1, BlockStoreAssumption DEF IsSentAll
<1>7. started' \in 0 .. height'
  BY <1>1, <1>2
<1> QED BY <1>1, <1>2, <1>3, <1>5, <1>6, <1>7 DEF IInv

\* The invariant holds in every state.
LEMMA IInvAlways == Spec => []IInv
<1>1. Init => IInv
  BY InitIInv
<1>2. IInv /\ [Next]_vars => IInv'
  <2>1. CASE UNCHANGED vars
    BY <2>1 DEF vars, IInv
  <2> QED BY <2>1, WriteIInv, SubmitIInv, CommitIInv, RestartIInv DEF Next
<1> QED BY <1>1, <1>2, PTL DEF Spec

-----------------------------------------------------------------------------
(* The theorems.                                                             *)

\* The state has its types, and what is stored under the height of a block and
\* under an account's key can be read (GetBlockByHeight, UnmarshalBlock,
\* unmarshalAccount).
THEOREM TypeCorrect == Spec => []TypeOK
<1>1. ASSUME IInv PROVE TypeOK
  <2>1. draft \in Seq(PayloadField) /\ height \in Nat /\ started \in 0 .. height
    BY <1>1 DEF IInv
  <2>2. \A i \in DOMAIN pending : pending[i].from \in Addr /\ pending[i].nonce \in Nat
    BY <1>1 DEF IInv, IsSentAll, IsSent
  <2>3. ASSUME NEW h \in 1 .. height
        PROVE  /\ Cardinality(GetBlockByHeight(kv, h)) = 1
               /\ BlockAt(h).timestamp \in Timestamps
    <3>1. Holds(kv, BlockIn(kv, h), h)
      BY <1>1 DEF IInv, BlocksHeld
    <3>2. GetBlockByHeight(kv, h) = {BlockIn(kv, h)}
      BY <3>1, BlockBack
    <3>3. BlockAt(h).timestamp \in Timestamps
      BY <3>1, BlockAtIn DEF Holds
    <3> QED BY <3>2, <3>3, FS_Singleton
  <2>4. ASSUME NEW a \in Genesis PROVE Cardinality(UnmarshalAccount(kv[AccountKey(a.address)])) = 1
    <3>1. a.address \in Present(kv) /\ AccountsHeld(kv)
      BY <1>1 DEF IInv
    <3>2. UnmarshalAccount(kv[AccountKey(a.address)]) = {GetAccount(kv, a.address)}
      BY <3>1, AccountRead DEF Present
    <3> QED BY <3>2, FS_Singleton
  <2> QED BY <2>1, <2>2, <2>3, <2>4 DEF TypeOK
<1> QED BY <1>1, IInvAlways, PTL

\* A block without its validators' signatures has the hash they voted for.
LEMMA UnsignedHash ==
  ASSUME NEW b, NEW h, NEW store, Holds(store, b, h)
  PROVE  LET proposed == [b EXCEPT !.sigs = << >>]
         IN  /\ proposed = BlockRecord(h, b.prev, b.root, b.timestamp, b.proposer, b.txs, << >>)
             /\ HashBlock(proposed) = HashBlock(b)
<1> DEFINE p == BlockRecord(h, b.prev, b.root, b.timestamp, b.proposer, b.txs, << >>)
<1>1. b = BlockRecord(h, b.prev, b.root, b.timestamp, b.proposer, b.txs, b.sigs)
  BY DEF Holds
<1>2. [b EXCEPT !.sigs = << >>] = p
  BY <1>1 DEF BlockRecord
<1>3. /\ p.height = b.height /\ p.prev = b.prev /\ p.root = b.root /\ p.txs = b.txs
      /\ p.timestamp = b.timestamp /\ p.proposer = b.proposer
  BY <1>1 DEF BlockRecord
<1> HIDE DEF p
<1>4. HashBlock(p) = HashBlock(b)
  BY <1>3 DEF HashBlock, MarshalBlockForHash
<1> QED BY <1>2, <1>4 DEF p

\* A block is found under the hash its validators voted on, which is the one
\* before their signatures were put into it (MarshalBlockForHash, FinalizeBlock).
THEOREM StoredUnderVotedHashAlways == Spec => []StoredUnderVotedHash
<1>1. ASSUME IInv PROVE StoredUnderVotedHash
  <2> SUFFICES ASSUME NEW h \in 1 .. height
               PROVE  LET proposed == [BlockAt(h) EXCEPT !.sigs = << >>] IN
                      /\ kv[HeightKey(h)] = HashBlock(proposed)
                      /\ GetBlockByHash(kv, HashBlock(proposed)) = {BlockAt(h)}
    BY DEF StoredUnderVotedHash
  <2> DEFINE b == BlockAt(h)
  <2>1. Holds(kv, b, h)
    BY <1>1, BlockAtIn DEF IInv, BlocksHeld
  <2> HIDE DEF b
  <2>2. HashBlock([b EXCEPT !.sigs = << >>]) = HashBlock(b)
    BY <2>1, UnsignedHash
  <2>3. kv[HeightKey(h)] = HashBlock(b)
    BY <2>1 DEF Holds
  <2>4. GetBlockByHash(kv, HashBlock(b)) = {b}
    BY <2>1, BlockBack
  <2> QED BY <2>2, <2>3, <2>4 DEF b
<1> QED BY <1>1, IInvAlways, PTL

\* Every transaction stored since the node's last start can be audited from the
\* store alone: its signature verifies under the key that is registered for its
\* sender, whose address is that key's, and no nonce was used twice
\* (ResolveSenderPubKey, VerifySignature, unmarshalAccount, applyGenesis).
THEOREM TransactionsAuditedAlways == Spec => []TransactionsAudited
<1>1. ASSUME IInv PROVE TransactionsAudited
  <2> DEFINE Recent == { u \in Stored : u[1] > started }
  <2>1. Recent = Since(kv, started, height) /\ AuditedAll(kv, started, height)
    BY <1>1, StoredPlaces DEF IInv, Since
  <2> HIDE DEF Recent
  <2>2. \A u : BlockAt(u[1]).txs[u[2]] = TxIn(kv, u)
    BY BlockAtIn DEF TxIn
  <2>3. ASSUME NEW u \in Recent
        PROVE  LET tx == BlockAt(u[1]).txs[u[2]]
                   key == GetAccount(kv, tx.from).pubKey
               IN  AddressFromPubKey(key) = tx.from /\ VerifySignature(tx, key)
    BY <2>1, <2>2 DEF AuditedAll, Audited
  <2>4. ASSUME NEW u \in Recent, NEW v \in Recent,
               BlockAt(u[1]).txs[u[2]].from = BlockAt(v[1]).txs[v[2]].from,
               BlockAt(u[1]).txs[u[2]].nonce = BlockAt(v[1]).txs[v[2]].nonce
        PROVE  u = v
    <3>1. TxIn(kv, u).from = TxIn(kv, v).from /\ TxIn(kv, u).nonce = TxIn(kv, v).nonce
      BY <2>2, <2>4
    <3> QED BY <2>1, <3>1 DEF AuditedAll
  <2> QED BY <2>3, <2>4 DEF TransactionsAudited, Recent
<1> QED BY <1>1, IInvAlways, PTL

\* The state root commits to exactly the accounts that are iterated: stored accounts
\* that differ in a single field of one, or by one, have another root if and only if
\* its address does not begin with byte 0xFF (iterateAccounts, marshalAccount,
\* merkleRoot).
THEOREM RootCoversStateAlways == Spec => []RootCoversState
<1>1. IInv => RootCoversState
  BY RootCovers DEF IInv
<1> QED BY <1>1, IInvAlways, PTL

\* The store after genesis is a log without blocks.
LEMMA LogInit ==
  ASSUME Init
  PROVE  Log!Init
<1>1. height = 0 /\ Accounts(kv) = Genesis
  BY InitIInv DEF Init
<1>2. [h \in 1 .. height |-> BlockAt(h)] = << >>
  BY <1>1
<1> QED BY <1>1, <1>2 DEF Log!Init

\* A step of the store is a step of the log, or none.
LEMMA LogStep ==
  ASSUME IInv, [Next]_vars
  PROVE  [Log!Next]_(Log!vars)
<1>1. \A h : BlockAt(h) = BlockIn(kv, h) /\ BlockAt(h)' = BlockIn(kv', h)
  BY DEF BlockAt, BlockIn
<1>2. CASE UNCHANGED << height, kv >>
  <2>1. \A h : BlockAt(h)' = BlockAt(h)
    BY <1>1, <1>2
  <2>2. Accounts(kv)' = Accounts(kv)
    BY <1>2
  <2>3. [h \in 1 .. height |-> BlockAt(h)]' = [h \in 1 .. height |-> BlockAt(h)]
    BY <1>2, <2>1
  <2> QED BY <2>2, <2>3 DEF Log!vars
<1>3. CASE Commit
  <2> DEFINE chain == [h \in 1 .. height |-> BlockIn(kv, h)]
             next == [h \in 1 .. height + 1 |-> BlockIn(kv', h)]
  <2>1. PICK b, store : Committed(b, store)
    BY <1>3, CommitEffect
  <2>2. /\ Accounts(store) \in Log!Execute(pending, Accounts(kv))
        /\ b = BlockRecord(height + 1, LastFinalized, StateRoot(Accounts(store)), b.timestamp,
                           b.proposer, pending, b.sigs)
        /\ BlockIn(kv', height + 1) = b
        /\ \A h \in 1 .. height : BlockIn(kv', h) = BlockIn(kv, h)
        /\ SameAccounts(store, kv')
    BY <2>1 DEF Committed
  <2>3. /\ b.height = height + 1 /\ b.prev = LastFinalized /\ b.txs = pending
        /\ b.root = StateRoot(Accounts(store))
    BY <2>2 DEF BlockRecord
  <2>4. height \in Nat /\ height' = height + 1 /\ Len(pending) <= MaxTxs
    BY <1>3 DEF IInv, Commit
  <2>5. Accounts(kv') = Accounts(store)
    BY <2>2, SameRead
  <2>6. /\ Len(next) = height + 1 /\ Len(chain) = height
        /\ SubSeq(next, 1, Len(chain)) = chain /\ next[height + 1] = b
    BY <2>2, <2>4
  <2>7. b.prev = IF chain = << >> THEN ZeroHash ELSE HashBlock(chain[Len(chain)])
    <3>1. chain = << >> <=> height = 0
      BY <2>4
    <3>2. height # 0 => chain[Len(chain)] = BlockIn(kv, height)
      BY <2>4, <2>6
    <3> QED BY <2>3, <3>1, <3>2, LastIsHash
  <2>8. /\ [h \in 1 .. height |-> BlockAt(h)] = chain
        /\ [h \in 1 .. height |-> BlockAt(h)]' = next
        /\ Accounts(kv)' = Accounts(kv')
    BY <1>1, <2>4
  <2> HIDE DEF chain, next
  <2>9. Log!Append1
    BY <2>2, <2>3, <2>4, <2>5, <2>6, <2>7, <2>8 DEF Log!Append1
  <2> QED BY <2>9 DEF Log!Next
<1>4. CASE Restart
  <2>1. \A h : BlockAt(h)' = BlockAt(h)
    BY <1>1, <1>4, RestartEffect
  <2>2. height' = height
    BY <1>4 DEF Restart
  <2>3. [h \in 1 .. height |-> BlockAt(h)]' = [h \in 1 .. height |-> BlockAt(h)]
    BY <2>1, <2>2
  <2>4. Accounts(kv') = Overwrite(Accounts(kv), Genesis)
    BY <1>4, RestartEffect
  <2>5. Log!Restart
    BY <2>3, <2>4 DEF Log!Restart, Overwrite
  <2> QED BY <2>5 DEF Log!Next
<1> QED BY <1>2, <1>3, <1>4 DEF Next, Write, Submit, vars

\* The bytes on disk are as good as the values they stand for: blocks and
\* accounts, read back, are those of a log of which every block extends the one
\* before and leads, executed from what is read, to the accounts that are read
\* and whose root it names; and a restart takes the genesis accounts back and
\* nothing else (setBlockWithWriter, GetBlockByHeight, UnmarshalBlock,
\* marshalAccount, unmarshalAccount, applyGenesis).
THEOREM StoreImplementsLog == Spec => ImplementsBlockLog
<1>1. Init => Log!Init
  BY LogInit
<1>2. IInv /\ [Next]_vars => [Log!Next]_(Log!vars)
  BY LogStep
<1> QED BY <1>1, <1>2, IInvAlways, PTL DEF Spec, ImplementsBlockLog, Log!Spec

-----------------------------------------------------------------------------
(* What is signed.                                                           *)

IsReadBack(b) == UnmarshalBlock(MarshalBlock(b)) = {b}

\* A block with other signatures, or none, is read back from its bytes.
LEMMA UnsignedBack ==
  ASSUME NEW store, NEW c, NEW h, Holds(store, c, h), NEW R, NEW none \in Seq(R)
  PROVE  IsReadBack(BlockRecord(h, c.prev, c.root, c.timestamp, c.proposer, c.txs, none))
<1> DEFINE S == { c.txs[i] : i \in DOMAIN c.txs }
<1>1. c.txs \in Seq(S) /\ \A tx \in S : IsTx(tx)
  BY DEF Holds, IsSentAll, IsSent
<1>3. IsHash(c.prev) /\ IsHash(c.root)
  BY DEF Holds
<1>4. Int64(Uint64(c.timestamp)) = c.timestamp
  <2>1. c.timestamp \in Int64s
    BY BlockStoreAssumption DEF Holds
  <2> QED BY <2>1, Int64ReadBack
<1> HIDE DEF S
<1> QED BY <1>1, <1>3, <1>4, BlockReadBack DEF IsReadBack

\* A block as it is proposed.
IsUnsigned(b) == b = [b EXCEPT !.sigs = << >>] /\ IsReadBack(b)

ProposalOf(b, r) == [kind |-> "proposal", of |-> [block |-> b, round |-> r, sig |-> << >>]]
VoteOf(hash, at, r) ==
  [kind |-> "vote", of |-> [hash |-> hash, height |-> at, round |-> r,
                            validator |-> Proposer, sig |-> << >>]]
ViewChangeOf(at, r) ==
  [kind |-> "viewchange", of |-> [height |-> at, round |-> r, validator |-> Proposer,
                                  sig |-> << >>]]

\* Messages of different kinds have bytes of different length, and those of a
\* kind differ where the messages do.
LEMMA ProposalBytes ==
  ASSUME NEW b, IsUnsigned(b), NEW r
  PROVE  LET s == SignBytes(ProposalOf(b, r))
         IN  Len(s) = 3 /\ s[1].b = MarshalBlock(b) /\ s[2].n = r
<1> DEFINE p == [block |-> b, round |-> r, sig |-> << >>]
           q == [p EXCEPT !.sig = << >>, !.block.sigs = << >>]
           s == << Bytes(1, MarshalBlock(b)), Varint(2, r), Bytes(3, << >>) >>
<1>1. q.block = b /\ q.round = r /\ q.sig = << >>
  BY DEF IsUnsigned
<1>2. SignBytes(ProposalOf(b, r)) = MarshalProposal(q)
  BY DEF SignBytes, ProposalOf, ProposalSignBytes
<1> HIDE DEF q
<1>3. MarshalProposal(q) = s
  BY <1>1 DEF MarshalProposal
<1>4. Len(s) = 3 /\ s[1] = Bytes(1, MarshalBlock(b)) /\ s[2] = Varint(2, r)
  OBVIOUS
<1> HIDE DEF s
<1> QED BY <1>2, <1>3, <1>4, BytesFields

\* The fields of the bytes that a vote's signature is over (precommitSignBytes).
LEMMA VoteBytes ==
  ASSUME NEW hash, NEW at, NEW r
  PROVE  LET s == SignBytes(VoteOf(hash, at, r))
         IN  Len(s) = 5 /\ s[1].b = hash /\ s[2].n = at /\ s[3].n = r
<1> DEFINE p == [hash |-> hash, height |-> at, round |-> r, validator |-> Proposer, sig |-> << >>]
           q == [p EXCEPT !.sig = << >>]
           s == << Bytes(1, hash), Varint(2, at), Varint(3, r), Bytes(4, Proposer),
                   Bytes(5, << >>) >>
<1>1. q.hash = hash /\ q.height = at /\ q.round = r /\ q.validator = Proposer /\ q.sig = << >>
  OBVIOUS
<1>2. SignBytes(VoteOf(hash, at, r)) = MarshalPrecommitVote(q)
  BY DEF SignBytes, VoteOf, PrecommitSignBytes
<1> HIDE DEF q
<1>3. MarshalPrecommitVote(q) = s
  BY <1>1 DEF MarshalPrecommitVote
<1>4. Len(s) = 5 /\ s[1] = Bytes(1, hash) /\ s[2] = Varint(2, at) /\ s[3] = Varint(3, r)
  OBVIOUS
<1> HIDE DEF s
<1> QED BY <1>2, <1>3, <1>4, BytesFields

\* The fields of the bytes that a view change's signature is over.
LEMMA ViewChangeBytes ==
  ASSUME NEW at, NEW r
  PROVE  LET s == SignBytes(ViewChangeOf(at, r))
         IN  Len(s) = 4 /\ s[1].n = at /\ s[2].n = r
<1> DEFINE p == [height |-> at, round |-> r, validator |-> Proposer, sig |-> << >>]
           q == [p EXCEPT !.sig = << >>]
           s == << Varint(1, at), Varint(2, r), Bytes(3, Proposer), Bytes(4, << >>) >>
<1>1. q.height = at /\ q.round = r /\ q.validator = Proposer /\ q.sig = << >>
  OBVIOUS
<1>2. SignBytes(ViewChangeOf(at, r)) = MarshalViewChange(q)
  BY DEF SignBytes, ViewChangeOf, ViewChangeSignBytes
<1> HIDE DEF q
<1>3. MarshalViewChange(q) = s
  BY <1>1 DEF MarshalViewChange
<1>4. Len(s) = 4 /\ s[1] = Varint(1, at) /\ s[2] = Varint(2, r)
  OBVIOUS
<1> HIDE DEF s
<1> QED BY <1>2, <1>3, <1>4, BytesFields

\* A validator's signature is good for one message only: proposals, votes and
\* view changes are signed with one key and without a tag for their kind, and
\* still no two of different kind, height, round or block have the same bytes
\* (pkg/consensus/signing.go).
THEOREM SignBytesSeparateAlways == Spec => []SignBytesSeparate
<1>1. ASSUME IInv PROVE SignBytesSeparate
  <2> DEFINE blocks == { [BlockAt(h) EXCEPT !.sigs = << >>] : h \in 1 .. height }
             IsProposal(m) == \E b \in blocks : \E r : m = ProposalOf(b, r)
             IsVote(m) == \E hash, at, r : m = VoteOf(hash, at, r)
             IsViewChange(m) == \E at, r : m = ViewChangeOf(at, r)
  <2>1. ASSUME NEW b \in blocks PROVE IsUnsigned(b)
    <3>1. PICK h \in 1 .. height : b = [BlockAt(h) EXCEPT !.sigs = << >>]
      BY <2>1
    <3> DEFINE c == BlockIn(kv, h)
               none == << >>
    <3>2. Holds(kv, c, h) /\ BlockAt(h) = c
      BY <1>1, BlockAtIn DEF IInv, BlocksHeld
    <3> HIDE DEF c
    <3>3. b = BlockRecord(h, c.prev, c.root, c.timestamp, c.proposer, c.txs, << >>)
      BY <3>1, <3>2, UnsignedHash
    <3>4. b = [b EXCEPT !.sigs = << >>]
      BY <3>3 DEF BlockRecord
    <3>5. PICK R : none \in Seq(R)
      BY EmptySeq
    <3> DEFINE x == BlockRecord(h, c.prev, c.root, c.timestamp, c.proposer, c.txs, none)
    <3>6. b = x
      BY <3>3
    <3> HIDE DEF none
    <3>7. IsReadBack(x)
      BY <3>2, <3>5, UnsignedBack
    <3> HIDE DEF x
    <3>8. IsReadBack(b)
      BY <3>6, <3>7
    <3> QED BY <3>4, <3>8 DEF IsUnsigned
  <2>2. ASSUME NEW m \in Messages PROVE IsProposal(m) \/ IsVote(m) \/ IsViewChange(m)
    BY <2>2 DEF Messages, ProposalOf, VoteOf, ViewChangeOf
  <2> HIDE DEF blocks
  <2>3. ASSUME NEW m, IsProposal(m) PROVE Len(SignBytes(m)) = 3
    BY <2>1, <2>3, ProposalBytes
  <2>4. ASSUME NEW m, IsVote(m) PROVE Len(SignBytes(m)) = 5
    BY <2>4, VoteBytes
  <2>5. ASSUME NEW m, IsViewChange(m) PROVE Len(SignBytes(m)) = 4
    BY <2>5, ViewChangeBytes
  <2>6. ASSUME NEW m, NEW k, IsProposal(m), IsProposal(k), SignBytes(m) = SignBytes(k) PROVE m = k
    <3>1. PICK b \in blocks : \E r : m = ProposalOf(b, r)
      BY <2>6
    <3>2. PICK c \in blocks : \E r : k = ProposalOf(c, r)
      BY <2>6
    <3>3. PICK r : m = ProposalOf(b, r)
      BY <3>1
    <3>4. PICK s : k = ProposalOf(c, s)
      BY <3>2
    <3>5. /\ SignBytes(m)[1].b = MarshalBlock(b) /\ SignBytes(m)[2].n = r
          /\ SignBytes(k)[1].b = MarshalBlock(c) /\ SignBytes(k)[2].n = s
      BY <2>1, <3>3, <3>4, ProposalBytes
    <3>6. MarshalBlock(b) = MarshalBlock(c) /\ r = s
      BY <2>6, <3>5
    <3>7. {b} = {c}
      BY <2>1, <3>6 DEF IsUnsigned, IsReadBack
    <3>8. b = c
      BY <3>7
    <3> QED BY <3>3, <3>4, <3>6, <3>8
  <2>7. ASSUME NEW m, NEW k, IsVote(m), IsVote(k), SignBytes(m) = SignBytes(k) PROVE m = k
    <3>1. PICK b, h, r : m = VoteOf(b, h, r)
      BY <2>7
    <3>2. PICK c, i, s : k = VoteOf(c, i, s)
      BY <2>7
    <3>3. /\ SignBytes(m)[1].b = b /\ SignBytes(m)[2].n = h /\ SignBytes(m)[3].n = r
          /\ SignBytes(k)[1].b = c /\ SignBytes(k)[2].n = i /\ SignBytes(k)[3].n = s
      BY <3>1, <3>2, VoteBytes
    <3>4. b = c /\ h = i /\ r = s
      BY <2>7, <3>3
    <3> QED BY <3>1, <3>2, <3>4
  <2>8. ASSUME NEW m, NEW k, IsViewChange(m), IsViewChange(k), SignBytes(m) = SignBytes(k)
        PROVE  m = k
    <3>1. PICK h, r : m = ViewChangeOf(h, r)
      BY <2>8
    <3>2. PICK i, s : k = ViewChangeOf(i, s)
      BY <2>8
    <3>3. /\ SignBytes(m)[1].n = h /\ SignBytes(m)[2].n = r
          /\ SignBytes(k)[1].n = i /\ SignBytes(k)[2].n = s
      BY <3>1, <3>2, ViewChangeBytes
    <3>4. h = i /\ r = s
      BY <2>8, <3>3
    <3> QED BY <3>1, <3>2, <3>4
  <2> HIDE DEF IsProposal, IsVote, IsViewChange
  <2>9. ASSUME NEW m \in Messages, NEW k \in Messages, SignBytes(m) = SignBytes(k) PROVE m = k
    <3>1. Len(SignBytes(m)) = Len(SignBytes(k))
      BY <2>9
    <3> QED BY <2>2, <2>3, <2>4, <2>5, <2>6, <2>7, <2>8, <2>9, <3>1
  <2> QED BY <2>9 DEF SignBytesSeparate
<1> QED BY <1>1, IInvAlways, PTL

-----------------------------------------------------------------------------
(* What is read of a payload is a normal form.                               *)

\* Decoding is a normal form: whatever a client's library has written, what was
\* accepted of it is written by EncodePayload as bytes that are read as the same
\* payload and key (DecodePayload, EncodePayload and their fourteen parts).
THEOREM NormalFormAlways == Spec => []NormalForm
<1>1. ASSUME IInv PROVE NormalForm
  <2> SUFFICES ASSUME NEW env \in DecodePayload(draft)
               PROVE  DecodePayload(EncodePayload(env.payload, env.senderPubKey)) = {env}
    BY DEF NormalForm
  <2> DEFINE p == env.payload
             key == env.senderPubKey
  <2>1. draft \in Seq(PayloadField)
    BY <1>1 DEF IInv
  <2>2. env = EnvelopeOf(p, key)
    BY <2>1, PayloadRead DEF IsEnvelope, EnvelopeOf
  <2>3. PICK f \in PayloadField : f.num \in 1 .. 7 /\ p \in DecodeKind(f.num, f.b)
    BY <2>1, PayloadRead
  <2> HIDE DEF p, key
  <2>4. IsMessage(f.b)
    BY <2>3, FieldIsMessage
  <2>5. PICK inner : /\ EncodePayload(p, key) = Envelope(f.num, inner, key)
                     /\ DecodeKind(f.num, inner) = Only(p) /\ p # NoPayload
    BY <2>3, <2>4, PayloadBack
  <2>6. DecodePayload(EncodePayload(p, key)) = Only(env)
    BY <2>2, <2>3, <2>5, EnvelopeBack
  <2> QED BY <2>6 DEF Only, p, key
<1> QED BY <1>1, IInvAlways, PTL

-----------------------------------------------------------------------------
(* What is read is what was meant.                                           *)

\* Means, as far as the first m fields go.
MeansTo(v, b, m, num, type) ==
  LET at == { i \in 1 .. m : b[i].num = num } IN
  IF type = "many"
    THEN \E e \in [DOMAIN v -> at] :
           /\ \A i \in at : \E k \in DOMAIN v : e[k] = i
           /\ \A k, l \in DOMAIN v : k < l => e[k] < e[l]
           /\ \A k \in DOMAIN v : v[k] = b[e[k]].b
    ELSE IF at = {} THEN v = (IF type = "bytes" THEN << >> ELSE 0)
    ELSE \E i \in at :
           /\ \A j \in at : j <= i
           /\ v = CASE type = "bytes" -> b[i].b
                    [] type = "varint" -> b[i].n
                    [] type = "option" -> b[i].n % U8

\* Over all fields it is Means.
LEMMA MeansAll ==
  ASSUME NEW S, NEW b \in Seq(S), NEW v, NEW num, NEW type
  PROVE  MeansTo(v, b, Len(b), num, type) <=> Means(v, b, num, type)
<1>1. { i \in 1 .. Len(b) : b[i].num = num } = FieldsOf(b, num)
  BY DEF FieldsOf
<1> QED BY <1>1 DEF Means, MeansTo

\* What a rule is to the protobuf rules, and the zero value it starts from.
TypeOfRule(as) ==
  CASE as = "bytes" -> "bytes" [] as = "number" -> "varint"
    [] as = "option" -> "option" [] as = "list" -> "many"

ZeroOf(as) == IF as \in {"bytes", "list"} THEN << >> ELSE 0

\* Before any field everything has its zero value.
LEMMA MeansNothing ==
  ASSUME NEW b, NEW num, NEW as \in {"bytes", "number", "option", "list"}
  PROVE  MeansTo(ZeroOf(as), b, 0, num, TypeOfRule(as))
<1>1. { i \in 1 .. 0 : b[i].num = num } = {}
  OBVIOUS
<1>2. CASE as = "list"
  <2> DEFINE v == ZeroOf(as)
  <2>1. DOMAIN v = {} /\ TypeOfRule(as) = "many"
    BY <1>2 DEF ZeroOf, TypeOfRule
  <2> HIDE DEF v
  <2> DEFINE at == { i \in 1 .. 0 : b[i].num = num }
             e == [k \in {} |-> 0]
  <2>2. at = {} /\ e \in [DOMAIN v -> at]
    BY <1>1, <2>1
  <2>3. MeansTo(v, b, 0, num, "many") <=>
          \E g \in [DOMAIN v -> at] :
            /\ \A i \in at : \E k \in DOMAIN v : g[k] = i
            /\ \A k, l \in DOMAIN v : k < l => g[k] < g[l]
            /\ \A k \in DOMAIN v : v[k] = b[g[k]].b
    BY DEF MeansTo
  <2> HIDE DEF at, e
  <2>4. MeansTo(v, b, 0, num, "many")
    <3>1. /\ \A i \in at : \E k \in DOMAIN v : e[k] = i
          /\ \A k, l \in DOMAIN v : k < l => e[k] < e[l]
          /\ \A k \in DOMAIN v : v[k] = b[e[k]].b
      BY <2>1, <2>2
    <3> QED BY <2>2, <2>3, <3>1
  <2> QED BY <2>1, <2>4 DEF v
<1>3. CASE as # "list"
  <2>1. /\ TypeOfRule(as) # "many"
        /\ ZeroOf(as) = (IF TypeOfRule(as) = "bytes" THEN << >> ELSE 0)
    BY <1>3 DEF ZeroOf, TypeOfRule
  <2> QED BY <1>1, <2>1 DEF MeansTo
<1> QED BY <1>2, <1>3

\* A field of another number changes no meaning.
LEMMA MeansStays ==
  ASSUME NEW v, NEW b, NEW m \in Nat \ {0}, NEW num, NEW type, b[m].num # num
  PROVE  MeansTo(v, b, m - 1, num, type) <=> MeansTo(v, b, m, num, type)
<1>1. { i \in 1 .. m - 1 : b[i].num = num } = { i \in 1 .. m : b[i].num = num }
  OBVIOUS
<1> QED BY <1>1 DEF MeansTo

\* A field of this number is the last one.
LEMMA MeansLast ==
  ASSUME NEW b, NEW m \in Nat \ {0}, NEW num, b[m].num = num
  PROVE  /\ MeansTo(b[m].b, b, m, num, "bytes")
         /\ MeansTo(b[m].n, b, m, num, "varint")
         /\ MeansTo(b[m].n % U8, b, m, num, "option")
<1> DEFINE at == { i \in 1 .. m : b[i].num = num }
<1>1. m \in at /\ at # {} /\ \A j \in at : j <= m
  OBVIOUS
<1> HIDE DEF at
<1> QED BY <1>1 DEF MeansTo, at

\* A list that grows by a field of its number.
LEMMA MeansGrown ==
  ASSUME NEW b, NEW m \in Nat \ {0}, NEW num, b[m].num = num,
         NEW S, NEW v \in Seq(S), MeansTo(v, b, m - 1, num, "many")
  PROVE  MeansTo(Append(v, b[m].b), b, m, num, "many")
<1> DEFINE at == { i \in 1 .. m : b[i].num = num }
           before == { i \in 1 .. m - 1 : b[i].num = num }
           n == Len(v)
           x == b[m].b
           w == Append(v, x)
<1>1. PICK e \in [DOMAIN v -> before] :
        /\ \A i \in before : \E k \in DOMAIN v : e[k] = i
        /\ \A k, l \in DOMAIN v : k < l => e[k] < e[l]
        /\ \A k \in DOMAIN v : v[k] = b[e[k]].b
  BY DEF MeansTo
<1>2. n \in Nat /\ DOMAIN v = 1 .. n /\ DOMAIN w = 1 .. n + 1 /\ w[n + 1] = x
      /\ \A k \in 1 .. n : w[k] = v[k]
  OBVIOUS
<1>3. at = before \union {m} /\ \A i \in before : i \in Nat /\ i < m
  OBVIOUS
<1> HIDE DEF w, n, x
<1> DEFINE g == [k \in 1 .. n + 1 |-> IF k = n + 1 THEN m ELSE e[k]]
<1>4. g[n + 1] = m /\ \A k \in 1 .. n : g[k] = e[k] /\ e[k] \in before
  BY <1>1, <1>2
<1> HIDE DEF at, before
<1>5. g \in [DOMAIN w -> at]
  BY <1>2, <1>3, <1>4
<1> HIDE DEF g
<1>6. \A i \in at : \E k \in DOMAIN w : g[k] = i
  <2> TAKE i \in at
  <2>1. CASE i = m
    BY <1>2, <1>4, <2>1
  <2>2. CASE i \in before
    <3>1. PICK k \in 1 .. n : e[k] = i
      BY <1>1, <1>2, <2>2
    <3> QED BY <1>2, <1>4, <3>1
  <2> QED BY <1>3, <2>1, <2>2
<1>7. \A k, l \in DOMAIN w : k < l => g[k] < g[l]
  <2> SUFFICES ASSUME NEW k \in 1 .. n + 1, NEW l \in 1 .. n + 1, k < l PROVE g[k] < g[l]
    BY <1>2
  <2>1. k \in 1 .. n
    BY <1>2
  <2>2. CASE l = n + 1
    BY <1>3, <1>4, <2>1, <2>2
  <2>3. CASE l \in 1 .. n
    BY <1>1, <1>2, <1>4, <2>1, <2>3
  <2> QED BY <1>2, <2>2, <2>3
<1>8. \A k \in DOMAIN w : w[k] = b[g[k]].b
  <2> SUFFICES ASSUME NEW k \in 1 .. n + 1 PROVE w[k] = b[g[k]].b
    BY <1>2
  <2>1. CASE k = n + 1
    BY <1>2, <1>4, <2>1 DEF x
  <2>2. CASE k \in 1 .. n
    BY <1>1, <1>2, <1>4, <2>2
  <2> QED BY <1>2, <2>1, <2>2
<1> QED BY <1>5, <1>6, <1>7, <1>8 DEF MeansTo, at, w, x

\* A decoder's table: parts of the value by number, each once, with zero values.
Table(rules, zero) ==
  /\ 0 \notin DOMAIN rules
  /\ \A k \in DOMAIN rules :
       /\ rules[k] = Rule(rules[k][1], rules[k][2])
       /\ rules[k][1] \in {"bytes", "number", "option", "list"}
       /\ rules[k][2] \in DOMAIN zero /\ zero[rules[k][2]] = ZeroOf(rules[k][1])
  /\ \A k, l \in DOMAIN rules : rules[k][2] = rules[l][2] => k = l

\* A field that is not refused.
Good(f, rules) ==
  /\ f.num # 0
  /\ f.num \in DOMAIN rules =>
       f.type = IF rules[f.num][1] \in {"bytes", "list"} THEN "bytes" ELSE "varint"

\* A value that means what the first m fields say.
MeantTo(out, b, m, zero, rules) ==
  /\ DOMAIN out = DOMAIN zero
  /\ \A k \in DOMAIN rules :
       /\ MeansTo(out[rules[k][2]], b, m, k, TypeOfRule(rules[k][1]))
       /\ rules[k][1] = "list" => \E S : out[rules[k][2]] \in Seq(S)

\* One more field: it is refused when it has to be, and means what it should.
LEMMA MeantStep ==
  ASSUME NEW b, NEW m \in Nat \ {0}, NEW zero, NEW rules, Table(rules, zero),
         NEW out, MeantTo(out, b, m - 1, zero, rules), b[m].num \in DOMAIN rules
  PROVE  /\ SetField(out, b[m], rules[b[m].num]) # {} <=> Good(b[m], rules)
         /\ \A o \in SetField(out, b[m], rules[b[m].num]) : MeantTo(o, b, m, zero, rules)
<1> DEFINE f == b[m]
           q == f.num
           as == rules[q][1]
           name == rules[q][2]
<1>1. /\ q # 0 /\ q \in DOMAIN rules /\ rules[q] = Rule(as, name) /\ as \in {"bytes", "number", "option", "list"}
      /\ name \in DOMAIN out
  BY DEF Table, MeantTo
<1>2. Rule(as, name)[1] = as /\ Rule(as, name)[2] = name
  BY DEF Rule
<1> HIDE DEF f, q, as, name
<1>3. SetField(out, f, rules[q]) # {} <=>
        f.type = IF as \in {"bytes", "list"} THEN "bytes" ELSE "varint"
  BY <1>1, <1>2 DEF SetField
<1>4. Good(f, rules) <=> f.type = IF as \in {"bytes", "list"} THEN "bytes" ELSE "varint"
  BY <1>1 DEF Good, q, as
<1>5. ASSUME NEW o \in SetField(out, f, rules[q]) PROVE MeantTo(o, b, m, zero, rules)
  <2> DEFINE v == CASE as = "bytes" -> f.b [] as = "number" -> f.n
                    [] as = "option" -> f.n % U8 [] as = "list" -> Append(out[name], f.b)
  <2>1. o = With(out, name, v)
    <3>1. o \in SetField(out, f, Rule(as, name))
      BY <1>1, <1>5
    <3>2. CASE as = "bytes"
      BY <3>1, <3>2, RuleSets
    <3>3. CASE as = "number"
      BY <3>1, <3>3, RuleSets
    <3>4. CASE as = "option"
      BY <3>1, <3>4, RuleSets
    <3>5. CASE as = "list"
      BY <3>1, <3>5, RuleSets
    <3> QED BY <1>1, <3>2, <3>3, <3>4, <3>5
  <2>2. MeansTo(v, b, m, q, TypeOfRule(as)) /\ (as = "list" => \E S : v \in Seq(S))
    <3>1. CASE as # "list"
      <4>1. /\ MeansTo(b[m].b, b, m, q, "bytes") /\ MeansTo(b[m].n, b, m, q, "varint")
            /\ MeansTo(b[m].n % U8, b, m, q, "option")
        BY MeansLast DEF q, f
      <4> QED BY <1>1, <3>1, <4>1 DEF TypeOfRule, f
    <3>2. CASE as = "list"
      <4>1. PICK S : out[name] \in Seq(S)
        BY <3>2 DEF MeantTo, as, name, q, f
      <4>2. MeansTo(out[name], b, m - 1, q, "many")
        BY <3>2 DEF MeantTo, as, name, q, f, TypeOfRule
      <4>3. MeansTo(Append(out[name], b[m].b), b, m, q, "many")
        BY <4>1, <4>2, MeansGrown DEF q, f
      <4>4. Append(out[name], f.b) \in Seq(S \union {f.b})
        BY <4>1
      <4> QED BY <3>2, <4>3, <4>4 DEF TypeOfRule, f
    <3> QED BY <3>1, <3>2
  <2> HIDE DEF v
  <2>3. /\ DOMAIN o = DOMAIN out /\ o[name] = v
        /\ \A x \in DOMAIN out : x # name => o[x] = out[x]
    BY <1>1, <2>1 DEF With
  <2>4. ASSUME NEW k \in DOMAIN rules
        PROVE  /\ MeansTo(o[rules[k][2]], b, m, k, TypeOfRule(rules[k][1]))
               /\ rules[k][1] = "list" => \E S : o[rules[k][2]] \in Seq(S)
    <3>1. CASE k = q
      BY <2>2, <2>3, <3>1 DEF as, name
    <3>2. CASE k # q
      <4>1. rules[k][2] # name /\ rules[k][2] \in DOMAIN out
        BY <3>2 DEF Table, MeantTo, name, q, f
      <4>2. b[m].num # k
        BY <3>2 DEF q, f
      <4>3. /\ MeansTo(out[rules[k][2]], b, m - 1, k, TypeOfRule(rules[k][1]))
            /\ rules[k][1] = "list" => \E S : out[rules[k][2]] \in Seq(S)
        BY DEF MeantTo
      <4>4. MeansTo(out[rules[k][2]], b, m, k, TypeOfRule(rules[k][1]))
        BY <4>2, <4>3, MeansStays
      <4> QED BY <2>3, <4>1, <4>3, <4>4
    <3> QED BY <3>1, <3>2
  <2> QED BY <2>3, <2>4 DEF MeantTo
<1> QED BY <1>3, <1>4, <1>5 DEF f, q

\* A decoder refuses bytes exactly when one of their fields is refused, and what it
\* reads otherwise means what the fields say.
LEMMA DecodeMeans ==
  ASSUME NEW b, Len(b) \in Nat, NEW zero, NEW rules, Table(rules, zero)
  PROVE  /\ Decode(b, zero, rules) # {} <=> \A i \in 1 .. Len(b) : Good(b[i], rules)
         /\ \A out \in Decode(b, zero, rules) : MeantTo(out, b, Len(b), zero, rules)
<1>1. PICK outs : DecodesTo(outs, b, zero, rules) /\ Decode(b, zero, rules) = outs[Len(b)]
  BY DecodeDefined
<1> DEFINE D == { m \in 0 .. Len(b) :
                    /\ outs[m] # {} <=> \A i \in 1 .. m : Good(b[i], rules)
                    /\ \A out \in outs[m] : MeantTo(out, b, m, zero, rules) }
<1>2. 0 \in D
  <2>1. outs[0] = Only(zero) /\ \A i \in 1 .. 0 : FALSE
    BY <1>1 DEF DecodesTo, Only
  <2>2. ASSUME NEW k \in DOMAIN rules
        PROVE  /\ MeansTo(zero[rules[k][2]], b, 0, k, TypeOfRule(rules[k][1]))
               /\ rules[k][1] = "list" => \E S : zero[rules[k][2]] \in Seq(S)
    <3>1. /\ rules[k][1] \in {"bytes", "number", "option", "list"}
          /\ zero[rules[k][2]] = ZeroOf(rules[k][1])
      BY DEF Table
    <3>2. << >> \in Seq({})
      OBVIOUS
    <3> QED BY <3>1, <3>2, MeansNothing DEF ZeroOf
  <2>3. MeantTo(zero, b, 0, zero, rules)
    BY <2>2 DEF MeantTo
  <2> QED BY <2>1, <2>3 DEF Only
<1>3. ASSUME NEW m \in 1 .. Len(b), m - 1 \in D PROVE m \in D
  <2> DEFINE f == b[m]
             last == outs[m - 1]
  <2>1. outs[m] = FieldRead(last, f, rules)
    BY <1>1 DEF DecodesTo
  <2>2. /\ last # {} <=> \A i \in 1 .. m - 1 : Good(b[i], rules)
        /\ \A out \in last : MeantTo(out, b, m - 1, zero, rules)
    BY <1>3
  <2>3. (\A i \in 1 .. m : Good(b[i], rules)) <=>
          (\A i \in 1 .. m - 1 : Good(b[i], rules)) /\ Good(f, rules)
    OBVIOUS
  <2>4. m \in Nat \ {0} /\ m \in 0 .. Len(b)
    OBVIOUS
  <2> HIDE DEF last
  <2>5. CASE f.num = 0
    BY <2>1, <2>2, <2>3, <2>4, <2>5 DEF FieldRead, Good
  <2>6. CASE f.num # 0 /\ f.num \notin DOMAIN rules
    <3>1. outs[m] = last /\ Good(f, rules)
      BY <2>1, <2>6 DEF FieldRead, Good
    <3>2. ASSUME NEW out \in last PROVE MeantTo(out, b, m, zero, rules)
      <4>1. ASSUME NEW k \in DOMAIN rules
            PROVE  MeansTo(out[rules[k][2]], b, m, k, TypeOfRule(rules[k][1]))
        <5>1. b[m].num # k
          BY <2>6
        <5>2. MeansTo(out[rules[k][2]], b, m - 1, k, TypeOfRule(rules[k][1]))
          BY <2>2 DEF MeantTo
        <5> QED BY <2>4, <5>1, <5>2, MeansStays
      <4> QED BY <2>2, <4>1 DEF MeantTo
    <3> QED BY <2>2, <2>3, <2>4, <3>1, <3>2
  <2>7. CASE f.num # 0 /\ f.num \in DOMAIN rules
    <3>1. outs[m] = UNION { SetField(out, f, rules[f.num]) : out \in last }
      BY <2>1, <2>7 DEF FieldRead
    <3>2. \A out \in last : /\ SetField(out, f, rules[f.num]) # {} <=> Good(f, rules)
                            /\ \A o \in SetField(out, f, rules[f.num]) :
                                 MeantTo(o, b, m, zero, rules)
      BY <2>2, <2>4, <2>7, MeantStep
    <3> DEFINE Read(out) == SetField(out, f, rules[f.num])
    <3>3. outs[m] = UNION { Read(out) : out \in last }
      BY <3>1
    <3>4. \A out \in last : /\ Read(out) # {} <=> Good(f, rules)
                            /\ \A o \in Read(out) : MeantTo(o, b, m, zero, rules)
      BY <3>2
    <3> HIDE DEF f, Read
    <3>5. outs[m] # {} <=> last # {} /\ Good(f, rules)
      BY <3>3, <3>4
    <3>6. \A o \in outs[m] : MeantTo(o, b, m, zero, rules)
      BY <3>3, <3>4
    <3> QED BY <2>2, <2>3, <2>4, <3>5, <3>6
  <2> QED BY <2>5, <2>6, <2>7
<1>4. Len(b) \in D
  <2> HIDE DEF D
  <2>1. 0 .. Len(b) \subseteq D
    BY <1>2, <1>3, BoundedInduction
  <2> QED BY <2>1
<1> QED BY <1>1, <1>4

\* The protobuf rules of a kind are its decoder's table.
FitsShape(num, rules) ==
  /\ DOMAIN Shape(num) = DOMAIN rules
  /\ \A k \in DOMAIN rules : /\ Shape(num)[k][1] = rules[k][2]
                             /\ Shape(num)[k][2] = TypeOfRule(rules[k][1])

\* What is said of one kind below: when its bytes are refused, and what they mean.
KindMeant(outs, b, num) ==
  /\ outs # {} <=> WellTyped(b, num)
  /\ \A p \in outs : \A k \in DOMAIN Shape(num) :
       Means(p[Shape(num)[k][1]], b, k, Shape(num)[k][2])

\* A decoder whose table has the shape of a kind reads what is meant.
LEMMA ShapeMeant ==
  ASSUME NEW S, NEW b \in Seq(S), NEW num, NEW zero, NEW rules,
         Table(rules, zero), FitsShape(num, rules)
  PROVE  KindMeant(Decode(b, zero, rules), b, num)
<1> DEFINE outs == Decode(b, zero, rules)
<1>1. Len(b) \in Nat /\ DOMAIN b = 1 .. Len(b)
  OBVIOUS
<1>2. /\ outs # {} <=> \A i \in 1 .. Len(b) : Good(b[i], rules)
      /\ \A out \in outs : MeantTo(out, b, Len(b), zero, rules)
  BY <1>1, DecodeMeans
<1> HIDE DEF outs
<1>3. ASSUME NEW k \in DOMAIN rules
      PROVE  Shape(num)[k][2] \in {"bytes", "many"} <=> rules[k][1] \in {"bytes", "list"}
  <2>1. /\ Shape(num)[k][2] = TypeOfRule(rules[k][1])
        /\ rules[k][1] \in {"bytes", "number", "option", "list"}
    BY DEF FitsShape, Table
  <2> QED BY <2>1 DEF TypeOfRule
<1>4. WellTyped(b, num) <=> \A i \in 1 .. Len(b) : Good(b[i], rules)
  <2>1. ASSUME WellTyped(b, num), NEW i \in 1 .. Len(b) PROVE Good(b[i], rules)
    <3>1. b[i].num # 0
      BY <1>1, <2>1 DEF WellTyped
    <3>2. ASSUME b[i].num \in DOMAIN rules
          PROVE  b[i].type = IF rules[b[i].num][1] \in {"bytes", "list"} THEN "bytes" ELSE "varint"
      <4> DEFINE k == b[i].num
      <4>1. k \in DOMAIN Shape(num) /\ i \in FieldsOf(b, k)
        BY <1>1, <3>2 DEF FitsShape, FieldsOf
      <4>2. b[i].type = IF Shape(num)[k][2] \in {"bytes", "many"} THEN "bytes" ELSE "varint"
        BY <2>1, <4>1 DEF WellTyped
      <4> QED BY <1>3, <3>2, <4>2
    <3> QED BY <3>1, <3>2 DEF Good
  <2>2. ASSUME \A i \in 1 .. Len(b) : Good(b[i], rules) PROVE WellTyped(b, num)
    <3>1. \A i \in DOMAIN b : b[i].num # 0
      BY <1>1, <2>2 DEF Good
    <3>2. ASSUME NEW k \in DOMAIN Shape(num), NEW i \in FieldsOf(b, k)
          PROVE  b[i].type = IF Shape(num)[k][2] \in {"bytes", "many"} THEN "bytes" ELSE "varint"
      <4>1. i \in 1 .. Len(b) /\ b[i].num = k /\ k \in DOMAIN rules
        BY <1>1 DEF FieldsOf, FitsShape
      <4>2. b[i].type = IF rules[k][1] \in {"bytes", "list"} THEN "bytes" ELSE "varint"
        BY <2>2, <4>1 DEF Good
      <4> QED BY <1>3, <4>1, <4>2
    <3> QED BY <3>1, <3>2 DEF WellTyped
  <2> QED BY <2>1, <2>2
<1>5. ASSUME NEW p \in outs, NEW k \in DOMAIN Shape(num)
      PROVE  Means(p[Shape(num)[k][1]], b, k, Shape(num)[k][2])
  <2>1. /\ k \in DOMAIN rules /\ Shape(num)[k][1] = rules[k][2]
        /\ Shape(num)[k][2] = TypeOfRule(rules[k][1])
    BY DEF FitsShape
  <2>2. MeansTo(p[rules[k][2]], b, Len(b), k, TypeOfRule(rules[k][1]))
    BY <1>2, <2>1 DEF MeantTo
  <2> QED BY <2>1, <2>2, MeansAll
<1> QED BY <1>2, <1>4, <1>5 DEF KindMeant, outs

\* A transfer is read as it is meant.
LEMMA TransferMeant ==
  ASSUME NEW S, NEW b \in Seq(S)
  PROVE  KindMeant(DecodeTransfer(b), b, 1)
<1> DEFINE zero == TransferPayload(<< >>, 0)
           rules == TransferRules
           shape == Shape(1)
<1>1. DecodeTransfer(b) = Decode(b, zero, rules)
  BY DEF DecodeTransfer, TransferPayload, TransferRules
<1>2. /\ DOMAIN rules = 1 .. 2 /\ 1 .. 2 = {1, 2}
      /\ rules[1] = Rule("bytes", "to") /\ rules[1][1] = "bytes" /\ rules[1][2] = "to"
      /\ rules[2] = Rule("number", "amount") /\ rules[2][1] = "number" /\ rules[2][2] = "amount"
  BY DEF TransferRules, Rule
<1>3. /\ "to" \in DOMAIN zero /\ zero["to"] = ZeroOf("bytes")
      /\ "amount" \in DOMAIN zero /\ zero["amount"] = ZeroOf("number")
  BY DEF TransferPayload, ZeroOf
<1>4. /\ DOMAIN shape = 1 .. 2
      /\ shape[1][1] = "to" /\ shape[1][2] = "bytes"
      /\ shape[2][1] = "amount" /\ shape[2][2] = "varint"
  BY DEF Shape
<1> HIDE DEF zero, rules, shape
<1>5. Table(rules, zero)
  <2>1. 0 \notin DOMAIN rules
    BY <1>2
  <2>2. ASSUME NEW k \in DOMAIN rules
        PROVE  /\ rules[k] = Rule(rules[k][1], rules[k][2])
               /\ rules[k][1] \in {"bytes", "number", "option", "list"}
               /\ rules[k][2] \in DOMAIN zero /\ zero[rules[k][2]] = ZeroOf(rules[k][1])
    <3>1. CASE k = 1
      BY <1>2, <1>3, <3>1
    <3>2. CASE k = 2
      BY <1>2, <1>3, <3>2
    <3> QED BY <1>2, <3>1, <3>2
  <2>3. ASSUME NEW k \in DOMAIN rules, NEW l \in DOMAIN rules, rules[k][2] = rules[l][2]
        PROVE  k = l
    BY <1>2, <2>3
  <2> QED BY <2>1, <2>2, <2>3 DEF Table
<1>6. FitsShape(1, rules)
  <2>1. ASSUME NEW k \in DOMAIN rules
        PROVE  shape[k][1] = rules[k][2] /\ shape[k][2] = TypeOfRule(rules[k][1])
    <3>1. CASE k = 1
      BY <1>2, <1>4, <3>1 DEF TypeOfRule
    <3>2. CASE k = 2
      BY <1>2, <1>4, <3>2 DEF TypeOfRule
    <3> QED BY <1>2, <3>1, <3>2
  <2> QED BY <1>2, <1>4, <2>1 DEF FitsShape, shape
<1> QED BY <1>1, <1>5, <1>6, ShapeMeant

\* A delegation is read as it is meant.
LEMMA DelegateMeant ==
  ASSUME NEW S, NEW b \in Seq(S)
  PROVE  KindMeant(DecodeStakeDelegate(b), b, 2)
<1> DEFINE zero == DelegatePayload(<< >>, 0)
           rules == DelegateRules
           shape == Shape(2)
<1>1. DecodeStakeDelegate(b) = Decode(b, zero, rules)
  BY DEF DecodeStakeDelegate, DelegatePayload, DelegateRules
<1>2. /\ DOMAIN rules = 1 .. 2 /\ 1 .. 2 = {1, 2}
      /\ rules[1] = Rule("bytes", "validator") /\ rules[1][1] = "bytes" /\ rules[1][2] = "validator"
      /\ rules[2] = Rule("number", "amount") /\ rules[2][1] = "number" /\ rules[2][2] = "amount"
  BY DEF DelegateRules, Rule
<1>3. /\ "validator" \in DOMAIN zero /\ zero["validator"] = ZeroOf("bytes")
      /\ "amount" \in DOMAIN zero /\ zero["amount"] = ZeroOf("number")
  BY DEF DelegatePayload, ZeroOf
<1>4. /\ DOMAIN shape = 1 .. 2
      /\ shape[1][1] = "validator" /\ shape[1][2] = "bytes"
      /\ shape[2][1] = "amount" /\ shape[2][2] = "varint"
  BY DEF Shape
<1> HIDE DEF zero, rules, shape
<1>5. Table(rules, zero)
  <2>1. 0 \notin DOMAIN rules
    BY <1>2
  <2>2. ASSUME NEW k \in DOMAIN rules
        PROVE  /\ rules[k] = Rule(rules[k][1], rules[k][2])
               /\ rules[k][1] \in {"bytes", "number", "option", "list"}
               /\ rules[k][2] \in DOMAIN zero /\ zero[rules[k][2]] = ZeroOf(rules[k][1])
    <3>1. CASE k = 1
      BY <1>2, <1>3, <3>1
    <3>2. CASE k = 2
      BY <1>2, <1>3, <3>2
    <3> QED BY <1>2, <3>1, <3>2
  <2>3. ASSUME NEW k \in DOMAIN rules, NEW l \in DOMAIN rules, rules[k][2] = rules[l][2]
        PROVE  k = l
    BY <1>2, <2>3
  <2> QED BY <2>1, <2>2, <2>3 DEF Table
<1>6. FitsShape(2, rules)
  <2>1. ASSUME NEW k \in DOMAIN rules
        PROVE  shape[k][1] = rules[k][2] /\ shape[k][2] = TypeOfRule(rules[k][1])
    <3>1. CASE k = 1
      BY <1>2, <1>4, <3>1 DEF TypeOfRule
    <3>2. CASE k = 2
      BY <1>2, <1>4, <3>2 DEF TypeOfRule
    <3> QED BY <1>2, <3>1, <3>2
  <2> QED BY <1>2, <1>4, <2>1 DEF FitsShape, shape
<1> QED BY <1>1, <1>5, <1>6, ShapeMeant

\* An undelegation is read as it is meant.
LEMMA UndelegateMeant ==
  ASSUME NEW S, NEW b \in Seq(S)
  PROVE  KindMeant(DecodeStakeUndelegate(b), b, 3)
<1> DEFINE zero == UndelegatePayload(<< >>, 0)
           rules == UndelegateRules
           shape == Shape(3)
<1>1. DecodeStakeUndelegate(b) = Decode(b, zero, rules)
  BY DEF DecodeStakeUndelegate, UndelegatePayload, UndelegateRules
<1>2. /\ DOMAIN rules = 1 .. 2 /\ 1 .. 2 = {1, 2}
      /\ rules[1] = Rule("bytes", "validator") /\ rules[1][1] = "bytes" /\ rules[1][2] = "validator"
      /\ rules[2] = Rule("number", "amount") /\ rules[2][1] = "number" /\ rules[2][2] = "amount"
  BY DEF UndelegateRules, Rule
<1>3. /\ "validator" \in DOMAIN zero /\ zero["validator"] = ZeroOf("bytes")
      /\ "amount" \in DOMAIN zero /\ zero["amount"] = ZeroOf("number")
  BY DEF UndelegatePayload, ZeroOf
<1>4. /\ DOMAIN shape = 1 .. 2
      /\ shape[1][1] = "validator" /\ shape[1][2] = "bytes"
      /\ shape[2][1] = "amount" /\ shape[2][2] = "varint"
  BY DEF Shape
<1> HIDE DEF zero, rules, shape
<1>5. Table(rules, zero)
  <2>1. 0 \notin DOMAIN rules
    BY <1>2
  <2>2. ASSUME NEW k \in DOMAIN rules
        PROVE  /\ rules[k] = Rule(rules[k][1], rules[k][2])
               /\ rules[k][1] \in {"bytes", "number", "option", "list"}
               /\ rules[k][2] \in DOMAIN zero /\ zero[rules[k][2]] = ZeroOf(rules[k][1])
    <3>1. CASE k = 1
      BY <1>2, <1>3, <3>1
    <3>2. CASE k = 2
      BY <1>2, <1>3, <3>2
    <3> QED BY <1>2, <3>1, <3>2
  <2>3. ASSUME NEW k \in DOMAIN rules, NEW l \in DOMAIN rules, rules[k][2] = rules[l][2]
        PROVE  k = l
    BY <1>2, <2>3
  <2> QED BY <2>1, <2>2, <2>3 DEF Table
<1>6. FitsShape(3, rules)
  <2>1. ASSUME NEW k \in DOMAIN rules
        PROVE  shape[k][1] = rules[k][2] /\ shape[k][2] = TypeOfRule(rules[k][1])
    <3>1. CASE k = 1
      BY <1>2, <1>4, <3>1 DEF TypeOfRule
    <3>2. CASE k = 2
      BY <1>2, <1>4, <3>2 DEF TypeOfRule
    <3> QED BY <1>2, <3>1, <3>2
  <2> QED BY <1>2, <1>4, <2>1 DEF FitsShape, shape
<1> QED BY <1>1, <1>5, <1>6, ShapeMeant

\* A deployment is read as it is meant.
LEMMA DeployMeant ==
  ASSUME NEW S, NEW b \in Seq(S)
  PROVE  KindMeant(DecodeContractDeploy(b), b, 4)
<1> DEFINE zero == DeployPayload(<< >>, << >>)
           rules == DeployRules
           shape == Shape(4)
<1>1. DecodeContractDeploy(b) = Decode(b, zero, rules)
  BY DEF DecodeContractDeploy, DeployPayload, DeployRules
<1>2. /\ DOMAIN rules = 1 .. 2 /\ 1 .. 2 = {1, 2}
      /\ rules[1] = Rule("bytes", "code") /\ rules[1][1] = "bytes" /\ rules[1][2] = "code"
      /\ rules[2] = Rule("bytes", "salt") /\ rules[2][1] = "bytes" /\ rules[2][2] = "salt"
  BY DEF DeployRules, Rule
<1>3. /\ "code" \in DOMAIN zero /\ zero["code"] = ZeroOf("bytes")
      /\ "salt" \in DOMAIN zero /\ zero["salt"] = ZeroOf("bytes")
  BY DEF DeployPayload, ZeroOf
<1>4. /\ DOMAIN shape = 1 .. 2
      /\ shape[1][1] = "code" /\ shape[1][2] = "bytes"
      /\ shape[2][1] = "salt" /\ shape[2][2] = "bytes"
  BY DEF Shape
<1> HIDE DEF zero, rules, shape
<1>5. Table(rules, zero)
  <2>1. 0 \notin DOMAIN rules
    BY <1>2
  <2>2. ASSUME NEW k \in DOMAIN rules
        PROVE  /\ rules[k] = Rule(rules[k][1], rules[k][2])
               /\ rules[k][1] \in {"bytes", "number", "option", "list"}
               /\ rules[k][2] \in DOMAIN zero /\ zero[rules[k][2]] = ZeroOf(rules[k][1])
    <3>1. CASE k = 1
      BY <1>2, <1>3, <3>1
    <3>2. CASE k = 2
      BY <1>2, <1>3, <3>2
    <3> QED BY <1>2, <3>1, <3>2
  <2>3. ASSUME NEW k \in DOMAIN rules, NEW l \in DOMAIN rules, rules[k][2] = rules[l][2]
        PROVE  k = l
    BY <1>2, <2>3
  <2> QED BY <2>1, <2>2, <2>3 DEF Table
<1>6. FitsShape(4, rules)
  <2>1. ASSUME NEW k \in DOMAIN rules
        PROVE  shape[k][1] = rules[k][2] /\ shape[k][2] = TypeOfRule(rules[k][1])
    <3>1. CASE k = 1
      BY <1>2, <1>4, <3>1 DEF TypeOfRule
    <3>2. CASE k = 2
      BY <1>2, <1>4, <3>2 DEF TypeOfRule
    <3> QED BY <1>2, <3>1, <3>2
  <2> QED BY <1>2, <1>4, <2>1 DEF FitsShape, shape
<1> QED BY <1>1, <1>5, <1>6, ShapeMeant

\* A call is read as it is meant.
LEMMA CallMeant ==
  ASSUME NEW S, NEW b \in Seq(S)
  PROVE  KindMeant(DecodeContractCall(b), b, 5)
<1> DEFINE zero == CallPayload(<< >>, << >>, << >>)
           rules == CallRules
           shape == Shape(5)
<1>1. DecodeContractCall(b) = Decode(b, zero, rules)
  BY DEF DecodeContractCall, CallPayload, CallRules
<1>2. /\ DOMAIN rules = 1 .. 3 /\ 1 .. 3 = {1, 2, 3}
      /\ rules[1] = Rule("bytes", "address") /\ rules[1][1] = "bytes" /\ rules[1][2] = "address"
      /\ rules[2] = Rule("bytes", "method") /\ rules[2][1] = "bytes" /\ rules[2][2] = "method"
      /\ rules[3] = Rule("list", "args") /\ rules[3][1] = "list" /\ rules[3][2] = "args"
  BY DEF CallRules, Rule
<1>3. /\ "address" \in DOMAIN zero /\ zero["address"] = ZeroOf("bytes")
      /\ "method" \in DOMAIN zero /\ zero["method"] = ZeroOf("bytes")
      /\ "args" \in DOMAIN zero /\ zero["args"] = ZeroOf("list")
  BY DEF CallPayload, ZeroOf
<1>4. /\ DOMAIN shape = 1 .. 3
      /\ shape[1][1] = "address" /\ shape[1][2] = "bytes"
      /\ shape[2][1] = "method" /\ shape[2][2] = "bytes"
      /\ shape[3][1] = "args" /\ shape[3][2] = "many"
  BY DEF Shape
<1> HIDE DEF zero, rules, shape
<1>5. Table(rules, zero)
  <2>1. 0 \notin DOMAIN rules
    BY <1>2
  <2>2. ASSUME NEW k \in DOMAIN rules
        PROVE  /\ rules[k] = Rule(rules[k][1], rules[k][2])
               /\ rules[k][1] \in {"bytes", "number", "option", "list"}
               /\ rules[k][2] \in DOMAIN zero /\ zero[rules[k][2]] = ZeroOf(rules[k][1])
    <3>1. CASE k = 1
      BY <1>2, <1>3, <3>1
    <3>2. CASE k = 2
      BY <1>2, <1>3, <3>2
    <3>3. CASE k = 3
      BY <1>2, <1>3, <3>3
    <3> QED BY <1>2, <3>1, <3>2, <3>3
  <2>3. ASSUME NEW k \in DOMAIN rules, NEW l \in DOMAIN rules, rules[k][2] = rules[l][2]
        PROVE  k = l
    BY <1>2, <2>3
  <2> QED BY <2>1, <2>2, <2>3 DEF Table
<1>6. FitsShape(5, rules)
  <2>1. ASSUME NEW k \in DOMAIN rules
        PROVE  shape[k][1] = rules[k][2] /\ shape[k][2] = TypeOfRule(rules[k][1])
    <3>1. CASE k = 1
      BY <1>2, <1>4, <3>1 DEF TypeOfRule
    <3>2. CASE k = 2
      BY <1>2, <1>4, <3>2 DEF TypeOfRule
    <3>3. CASE k = 3
      BY <1>2, <1>4, <3>3 DEF TypeOfRule
    <3> QED BY <1>2, <3>1, <3>2, <3>3
  <2> QED BY <1>2, <1>4, <2>1 DEF FitsShape, shape
<1> QED BY <1>1, <1>5, <1>6, ShapeMeant

\* A governance proposal is read as it is meant.
LEMMA GovernMeant ==
  ASSUME NEW S, NEW b \in Seq(S)
  PROVE  KindMeant(DecodeGovernanceProposal(b), b, 6)
<1> DEFINE zero == GovernPayload(<< >>, << >>, << >>, << >>)
           rules == GovernRules
           shape == Shape(6)
<1>1. DecodeGovernanceProposal(b) = Decode(b, zero, rules)
  BY DEF DecodeGovernanceProposal, GovernPayload, GovernRules
<1>2. /\ DOMAIN rules = 1 .. 4 /\ 1 .. 4 = {1, 2, 3, 4}
      /\ rules[1] = Rule("bytes", "title") /\ rules[1][1] = "bytes" /\ rules[1][2] = "title"
      /\ rules[2] = Rule("bytes", "description") /\ rules[2][1] = "bytes" /\ rules[2][2] = "description"
      /\ rules[3] = Rule("bytes", "paramKey") /\ rules[3][1] = "bytes" /\ rules[3][2] = "paramKey"
      /\ rules[4] = Rule("bytes", "paramValue") /\ rules[4][1] = "bytes" /\ rules[4][2] = "paramValue"
  BY DEF GovernRules, Rule
<1>3. /\ "title" \in DOMAIN zero /\ zero["title"] = ZeroOf("bytes")
      /\ "description" \in DOMAIN zero /\ zero["description"] = ZeroOf("bytes")
      /\ "paramKey" \in DOMAIN zero /\ zero["paramKey"] = ZeroOf("bytes")
      /\ "paramValue" \in DOMAIN zero /\ zero["paramValue"] = ZeroOf("bytes")
  BY DEF GovernPayload, ZeroOf
<1>4. /\ DOMAIN shape = 1 .. 4
      /\ shape[1][1] = "title" /\ shape[1][2] = "bytes"
      /\ shape[2][1] = "description" /\ shape[2][2] = "bytes"
      /\ shape[3][1] = "paramKey" /\ shape[3][2] = "bytes"
      /\ shape[4][1] = "paramValue" /\ shape[4][2] = "bytes"
  BY DEF Shape
<1> HIDE DEF zero, rules, shape
<1>5. Table(rules, zero)
  <2>1. 0 \notin DOMAIN rules
    BY <1>2
  <2>2. ASSUME NEW k \in DOMAIN rules
        PROVE  /\ rules[k] = Rule(rules[k][1], rules[k][2])
               /\ rules[k][1] \in {"bytes", "number", "option", "list"}
               /\ rules[k][2] \in DOMAIN zero /\ zero[rules[k][2]] = ZeroOf(rules[k][1])
    <3>1. CASE k = 1
      BY <1>2, <1>3, <3>1
    <3>2. CASE k = 2
      BY <1>2, <1>3, <3>2
    <3>3. CASE k = 3
      BY <1>2, <1>3, <3>3
    <3>4. CASE k = 4
      BY <1>2, <1>3, <3>4
    <3> QED BY <1>2, <3>1, <3>2, <3>3, <3>4
  <2>3. ASSUME NEW k \in DOMAIN rules, NEW l \in DOMAIN rules, rules[k][2] = rules[l][2]
        PROVE  k = l
    BY <1>2, <2>3
  <2> QED BY <2>1, <2>2, <2>3 DEF Table
<1>6. FitsShape(6, rules)
  <2>1. ASSUME NEW k \in DOMAIN rules
        PROVE  shape[k][1] = rules[k][2] /\ shape[k][2] = TypeOfRule(rules[k][1])
    <3>1. CASE k = 1
      BY <1>2, <1>4, <3>1 DEF TypeOfRule
    <3>2. CASE k = 2
      BY <1>2, <1>4, <3>2 DEF TypeOfRule
    <3>3. CASE k = 3
      BY <1>2, <1>4, <3>3 DEF TypeOfRule
    <3>4. CASE k = 4
      BY <1>2, <1>4, <3>4 DEF TypeOfRule
    <3> QED BY <1>2, <3>1, <3>2, <3>3, <3>4
  <2> QED BY <1>2, <1>4, <2>1 DEF FitsShape, shape
<1> QED BY <1>1, <1>5, <1>6, ShapeMeant

\* A governance vote is read as it is meant.
LEMMA BallotMeant ==
  ASSUME NEW S, NEW b \in Seq(S)
  PROVE  KindMeant(DecodeGovernanceVote(b), b, 7)
<1> DEFINE zero == BallotPayload(0, 0)
           rules == BallotRules
           shape == Shape(7)
<1>1. DecodeGovernanceVote(b) = Decode(b, zero, rules)
  BY DEF DecodeGovernanceVote, BallotPayload, BallotRules
<1>2. /\ DOMAIN rules = 1 .. 2 /\ 1 .. 2 = {1, 2}
      /\ rules[1] = Rule("number", "proposalID") /\ rules[1][1] = "number" /\ rules[1][2] = "proposalID"
      /\ rules[2] = Rule("option", "option") /\ rules[2][1] = "option" /\ rules[2][2] = "option"
  BY DEF BallotRules, Rule
<1>3. /\ "proposalID" \in DOMAIN zero /\ zero["proposalID"] = ZeroOf("number")
      /\ "option" \in DOMAIN zero /\ zero["option"] = ZeroOf("option")
  BY DEF BallotPayload, ZeroOf
<1>4. /\ DOMAIN shape = 1 .. 2
      /\ shape[1][1] = "proposalID" /\ shape[1][2] = "varint"
      /\ shape[2][1] = "option" /\ shape[2][2] = "option"
  BY DEF Shape
<1> HIDE DEF zero, rules, shape
<1>5. Table(rules, zero)
  <2>1. 0 \notin DOMAIN rules
    BY <1>2
  <2>2. ASSUME NEW k \in DOMAIN rules
        PROVE  /\ rules[k] = Rule(rules[k][1], rules[k][2])
               /\ rules[k][1] \in {"bytes", "number", "option", "list"}
               /\ rules[k][2] \in DOMAIN zero /\ zero[rules[k][2]] = ZeroOf(rules[k][1])
    <3>1. CASE k = 1
      BY <1>2, <1>3, <3>1
    <3>2. CASE k = 2
      BY <1>2, <1>3, <3>2
    <3> QED BY <1>2, <3>1, <3>2
  <2>3. ASSUME NEW k \in DOMAIN rules, NEW l \in DOMAIN rules, rules[k][2] = rules[l][2]
        PROVE  k = l
    BY <1>2, <2>3
  <2> QED BY <2>1, <2>2, <2>3 DEF Table
<1>6. FitsShape(7, rules)
  <2>1. ASSUME NEW k \in DOMAIN rules
        PROVE  shape[k][1] = rules[k][2] /\ shape[k][2] = TypeOfRule(rules[k][1])
    <3>1. CASE k = 1
      BY <1>2, <1>4, <3>1 DEF TypeOfRule
    <3>2. CASE k = 2
      BY <1>2, <1>4, <3>2 DEF TypeOfRule
    <3> QED BY <1>2, <3>1, <3>2
  <2> QED BY <1>2, <1>4, <2>1 DEF FitsShape, shape
<1> QED BY <1>1, <1>5, <1>6, ShapeMeant


\* A payload of any kind is read as it is meant.
LEMMA DecodeKindMeant ==
  ASSUME NEW num \in 1 .. 7, NEW S, NEW b \in Seq(S)
  PROVE  KindMeant(DecodeKind(num, b), b, num)
<1>1. CASE num = 1
  BY <1>1, TransferMeant DEF DecodeKind
<1>2. CASE num = 2
  BY <1>2, DelegateMeant DEF DecodeKind
<1>3. CASE num = 3
  BY <1>3, UndelegateMeant DEF DecodeKind
<1>4. CASE num = 4
  BY <1>4, DeployMeant DEF DecodeKind
<1>5. CASE num = 5
  BY <1>5, CallMeant DEF DecodeKind
<1>6. CASE num = 6
  BY <1>6, GovernMeant DEF DecodeKind
<1>7. CASE num = 7
  BY <1>7, BallotMeant DEF DecodeKind
<1> QED BY <1>1, <1>2, <1>3, <1>4, <1>5, <1>6, <1>7

-----------------------------------------------------------------------------
(* The envelope of a payload.                                                *)

\* The bytes of field i as a payload.
Kind(b, i) == DecodeKind(b[i].num, b[i].b)

\* The first m fields are accepted.
EnvelopeGood(b, m) ==
  /\ \A i \in 1 .. m : b[i].num # 0 /\ (b[i].num \in 1 .. 8 => b[i].type = "bytes")
  /\ \A i \in 1 .. m : b[i].num \in 1 .. 7 => Kind(b, i) # {}
  /\ \A i, j \in 1 .. m : b[i].num \in 1 .. 7 /\ b[j].num \in 1 .. 7 => i = j
  /\ \A i, j \in 1 .. m : b[i].num = 8 /\ b[j].num = 8 /\ i < j => b[i].b = << >>

\* An envelope means what the first m fields say.
EnvelopeMeant(env, b, m) ==
  /\ IsEnvelope(env)
  /\ MeansTo(env.senderPubKey, b, m, 8, "bytes")
  /\ env.payload = NoPayload <=> \A i \in 1 .. m : b[i].num \notin 1 .. 7
  /\ \A i \in 1 .. m : b[i].num \in 1 .. 7 => env.payload \in Kind(b, i)

\* A key is empty as long as all keys before it are.
LEMMA KeyEmpty ==
  ASSUME NEW b, NEW m \in Nat, EnvelopeGood(b, m), NEW key, MeansTo(key, b, m, 8, "bytes")
  PROVE  key = << >> <=> \A i \in 1 .. m : b[i].num = 8 => b[i].b = << >>
<1> DEFINE at == { i \in 1 .. m : b[i].num = 8 }
           none == << >>
<1>1. \/ at = {} /\ key = none
      \/ \E i \in at : (\A j \in at : j <= i) /\ key = b[i].b
  BY DEF MeansTo
<1>2. CASE at = {} /\ key = none
  BY <1>2
<1>3. CASE \E i \in at : (\A j \in at : j <= i) /\ key = b[i].b
  <2>1. PICK i \in at : (\A j \in at : j <= i) /\ key = b[i].b
    BY <1>3
  <2>2. ASSUME NEW j \in at, j # i PROVE b[j].b = none
    <3>1. j \in 1 .. m /\ i \in 1 .. m /\ j < i /\ b[i].num = 8 /\ b[j].num = 8
      BY <2>1, <2>2
    <3> QED BY <3>1 DEF EnvelopeGood
  <2> HIDE DEF none
  <2>3. key = none <=> \A j \in at : b[j].b = none
    BY <2>1, <2>2
  <2> QED BY <2>3 DEF none
<1> QED BY <1>1, <1>2, <1>3

\* One more field of an envelope, whatever its number.
LEMMA EnvelopeMeantStep ==
  ASSUME NEW b, NEW m \in Nat \ {0}, NEW last,
         last # {} <=> EnvelopeGood(b, m - 1),
         \A e \in last : EnvelopeMeant(e, b, m - 1),
         b[m].num \in 1 .. 7 => NoPayload \notin Kind(b, m)
  PROVE  /\ EnvelopeStep(b, m, last) # {} <=> EnvelopeGood(b, m)
         /\ \A e \in EnvelopeStep(b, m, last) : EnvelopeMeant(e, b, m)
<1> DEFINE f == b[m]
           next == EnvelopeStep(b, m, last)
           none == << >>
<1>1. /\ m - 1 \in Nat /\ 1 .. m = (1 .. m - 1) \union {m} /\ m \in 1 .. m
      /\ \A i \in 1 .. m - 1 : i < m /\ i # m /\ i \in 1 .. m
  OBVIOUS
<1>2. ASSUME NEW o, IsEnvelope(o), b[m].num \notin 1 .. 7, NEW e, EnvelopeMeant(e, b, m - 1),
             o.payload = e.payload, MeansTo(o.senderPubKey, b, m, 8, "bytes")
      PROVE  EnvelopeMeant(o, b, m)
  BY <1>1, <1>2 DEF EnvelopeMeant
<1>3. CASE f.num = 0
  <2>1. next = {}
    BY <1>3 DEF EnvelopeStep
  <2>2. ~ EnvelopeGood(b, m)
    BY <1>1, <1>3 DEF EnvelopeGood
  <2> QED BY <2>1, <2>2
<1>4. CASE f.num \in 1 .. 7
  <2>1. f.num # 0
    BY <1>4
  <2>2. next = UNION { SetPayload(e, f) : e \in last }
    BY <1>4, <2>1 DEF EnvelopeStep
  <2>3. f.num # 8
    BY <1>4
  <2>4. EnvelopeGood(b, m) <=> /\ EnvelopeGood(b, m - 1) /\ f.type = "bytes" /\ Kind(b, m) # {}
                               /\ \A i \in 1 .. m - 1 : b[i].num \notin 1 .. 7
    <3>1. ASSUME EnvelopeGood(b, m)
          PROVE  /\ EnvelopeGood(b, m - 1) /\ f.type = "bytes" /\ Kind(b, m) # {}
                 /\ \A i \in 1 .. m - 1 : b[i].num \notin 1 .. 7
      <4>1. EnvelopeGood(b, m - 1)
        BY <1>1, <3>1 DEF EnvelopeGood
      <4>2. f.num \in 1 .. 8
        BY <1>4
      <4>3. f.type = "bytes" /\ Kind(b, m) # {}
        BY <1>1, <1>4, <3>1, <4>2 DEF EnvelopeGood
      <4>4. \A i \in 1 .. m - 1 : b[i].num \notin 1 .. 7
        BY <1>1, <1>4, <3>1 DEF EnvelopeGood
      <4> QED BY <4>1, <4>3, <4>4
    <3>2. ASSUME /\ EnvelopeGood(b, m - 1) /\ f.type = "bytes" /\ Kind(b, m) # {}
                 /\ \A i \in 1 .. m - 1 : b[i].num \notin 1 .. 7
          PROVE  EnvelopeGood(b, m)
      <4>1. \A i \in 1 .. m : b[i].num # 0 /\ (b[i].num \in 1 .. 8 => b[i].type = "bytes")
        BY <1>1, <2>1, <3>2 DEF EnvelopeGood
      <4>2. \A i \in 1 .. m : b[i].num \in 1 .. 7 => Kind(b, i) # {}
        BY <1>1, <3>2 DEF EnvelopeGood
      <4>3. \A i, j \in 1 .. m : b[i].num \in 1 .. 7 /\ b[j].num \in 1 .. 7 => i = j
        BY <1>1, <3>2
      <4>4. \A i, j \in 1 .. m : b[i].num = 8 /\ b[j].num = 8 /\ i < j => b[i].b = << >>
        BY <1>1, <2>3, <3>2 DEF EnvelopeGood
      <4> QED BY <4>1, <4>2, <4>3, <4>4 DEF EnvelopeGood
    <3> QED BY <3>1, <3>2
  <2>5. \A e \in last : e.payload = NoPayload <=> \A i \in 1 .. m - 1 : b[i].num \notin 1 .. 7
    BY DEF EnvelopeMeant
  <2>6. \A e : SetPayload(e, f) # {} <=>
                 f.type = "bytes" /\ e.payload = NoPayload /\ Kind(b, m) # {}
    BY DEF SetPayload, Kind
  <2>7. ASSUME NEW o \in next PROVE EnvelopeMeant(o, b, m)
    <3>1. PICK e \in last : o \in SetPayload(e, f)
      BY <2>2
    <3>2. PICK p \in Kind(b, m) : o = [e EXCEPT !.payload = p] /\ e.payload = NoPayload
      BY <3>1 DEF SetPayload, Kind
    <3>3. EnvelopeMeant(e, b, m - 1)
      OBVIOUS
    <3>4. o.payload = p /\ o.senderPubKey = e.senderPubKey /\ IsEnvelope(o)
      BY <3>2, <3>3 DEF EnvelopeMeant, IsEnvelope
    <3>5. MeansTo(o.senderPubKey, b, m, 8, "bytes")
      BY <2>3, <3>3, <3>4, MeansStays DEF EnvelopeMeant
    <3>6. o.payload # NoPayload
      BY <1>4, <3>2, <3>4
    <3>7. \A i \in 1 .. m - 1 : b[i].num \notin 1 .. 7
      BY <2>5, <3>2
    <3>8. \A i \in 1 .. m : b[i].num \in 1 .. 7 => o.payload \in Kind(b, i)
      BY <1>1, <3>2, <3>4, <3>7
    <3> QED BY <1>1, <1>4, <3>4, <3>5, <3>6, <3>8 DEF EnvelopeMeant
  <2>8. next # {} <=> EnvelopeGood(b, m)
    <3> DEFINE Set(e) == SetPayload(e, f)
    <3>1. next = UNION { Set(e) : e \in last }
      BY <2>2
    <3>2. \A e : Set(e) # {} <=> f.type = "bytes" /\ e.payload = NoPayload /\ Kind(b, m) # {}
      BY <2>6
    <3> HIDE DEF f, next, Set
    <3>3. next # {} <=> \E e \in last : Set(e) # {}
      BY <3>1
    <3> QED BY <2>4, <2>5, <3>2, <3>3
  <2> QED BY <2>7, <2>8
<1>5. CASE f.num = 8
  <2>1. next = UNION { SetSenderPubKey(e, f) : e \in last }
    BY <1>5 DEF EnvelopeStep
  <2>3. f.num # 0 /\ f.num \notin 1 .. 7 /\ f.num \in 1 .. 8
    BY <1>5
  <2>4. EnvelopeGood(b, m) <=> /\ EnvelopeGood(b, m - 1) /\ f.type = "bytes"
                               /\ \A i \in 1 .. m - 1 : b[i].num = 8 => b[i].b = << >>
    <3>1. ASSUME EnvelopeGood(b, m)
          PROVE  /\ EnvelopeGood(b, m - 1) /\ f.type = "bytes"
                 /\ \A i \in 1 .. m - 1 : b[i].num = 8 => b[i].b = << >>
      <4>1. EnvelopeGood(b, m - 1)
        BY <1>1, <3>1 DEF EnvelopeGood
      <4>3. f.type = "bytes"
        BY <1>1, <2>3, <3>1 DEF EnvelopeGood
      <4>4. \A i \in 1 .. m - 1 : b[i].num = 8 => b[i].b = << >>
        BY <1>1, <1>5, <3>1 DEF EnvelopeGood
      <4> QED BY <4>1, <4>3, <4>4
    <3>2. ASSUME /\ EnvelopeGood(b, m - 1) /\ f.type = "bytes"
                 /\ \A i \in 1 .. m - 1 : b[i].num = 8 => b[i].b = << >>
          PROVE  EnvelopeGood(b, m)
      <4>1. \A i \in 1 .. m : b[i].num # 0 /\ (b[i].num \in 1 .. 8 => b[i].type = "bytes")
        BY <1>1, <2>3, <3>2 DEF EnvelopeGood
      <4>2. \A i \in 1 .. m : b[i].num \in 1 .. 7 => Kind(b, i) # {}
        BY <1>1, <2>3, <3>2 DEF EnvelopeGood
      <4>3. \A i, j \in 1 .. m : b[i].num \in 1 .. 7 /\ b[j].num \in 1 .. 7 => i = j
        BY <1>1, <2>3, <3>2 DEF EnvelopeGood
      <4>4. \A i, j \in 1 .. m : b[i].num = 8 /\ b[j].num = 8 /\ i < j => b[i].b = << >>
        BY <1>1, <3>2
      <4> QED BY <4>1, <4>2, <4>3, <4>4 DEF EnvelopeGood
    <3> QED BY <3>1, <3>2
  <2>5. ASSUME NEW e \in last
        PROVE  e.senderPubKey = none <=> \A i \in 1 .. m - 1 : b[i].num = 8 => b[i].b = << >>
    <3>1. EnvelopeGood(b, m - 1) /\ MeansTo(e.senderPubKey, b, m - 1, 8, "bytes")
      BY DEF EnvelopeMeant
    <3> QED BY <1>1, <3>1, KeyEmpty
  <2>6. \A e : SetSenderPubKey(e, f) # {} <=> f.type = "bytes" /\ e.senderPubKey = none
    BY DEF SetSenderPubKey
  <2>7. ASSUME NEW o \in next PROVE EnvelopeMeant(o, b, m)
    <3>1. PICK e \in last : o \in SetSenderPubKey(e, f)
      BY <2>1
    <3>2. o = [e EXCEPT !.senderPubKey = f.b]
      BY <3>1 DEF SetSenderPubKey
    <3>3. EnvelopeMeant(e, b, m - 1)
      OBVIOUS
    <3>4. o.payload = e.payload /\ o.senderPubKey = f.b /\ IsEnvelope(o)
      BY <3>2, <3>3 DEF EnvelopeMeant, IsEnvelope
    <3>5. MeansTo(o.senderPubKey, b, m, 8, "bytes")
      BY <1>5, <3>4, MeansLast
    <3> QED BY <1>2, <2>3, <3>3, <3>4, <3>5
  <2>8. next # {} <=> EnvelopeGood(b, m)
    <3> DEFINE Set(e) == SetSenderPubKey(e, f)
    <3>1. next = UNION { Set(e) : e \in last }
      BY <2>1
    <3>2. \A e : Set(e) # {} <=> f.type = "bytes" /\ e.senderPubKey = none
      BY <2>6
    <3> HIDE DEF f, next, Set, none
    <3>3. next # {} <=> \E e \in last : Set(e) # {}
      BY <3>1
    <3> QED BY <2>4, <2>5, <3>2, <3>3
  <2> QED BY <2>7, <2>8
<1>6. CASE f.num # 0 /\ f.num \notin 1 .. 7 /\ f.num # 8
  <2>1. next = last
    BY <1>6 DEF EnvelopeStep
  <2>2. f.num \notin 1 .. 8
    BY <1>6
  <2>3. EnvelopeGood(b, m) <=> EnvelopeGood(b, m - 1)
    <3>1. ASSUME EnvelopeGood(b, m) PROVE EnvelopeGood(b, m - 1)
      BY <1>1, <3>1 DEF EnvelopeGood
    <3>2. ASSUME EnvelopeGood(b, m - 1) PROVE EnvelopeGood(b, m)
      <4>1. \A i \in 1 .. m : b[i].num # 0 /\ (b[i].num \in 1 .. 8 => b[i].type = "bytes")
        BY <1>1, <1>6, <2>2, <3>2 DEF EnvelopeGood
      <4>2. \A i \in 1 .. m : b[i].num \in 1 .. 7 => Kind(b, i) # {}
        BY <1>1, <1>6, <3>2 DEF EnvelopeGood
      <4>3. \A i, j \in 1 .. m : b[i].num \in 1 .. 7 /\ b[j].num \in 1 .. 7 => i = j
        BY <1>1, <1>6, <3>2 DEF EnvelopeGood
      <4>4. \A i, j \in 1 .. m : b[i].num = 8 /\ b[j].num = 8 /\ i < j => b[i].b = << >>
        BY <1>1, <1>6, <3>2 DEF EnvelopeGood
      <4> QED BY <4>1, <4>2, <4>3, <4>4 DEF EnvelopeGood
    <3> QED BY <3>1, <3>2
  <2>4. ASSUME NEW o \in next PROVE EnvelopeMeant(o, b, m)
    <3>1. EnvelopeMeant(o, b, m - 1)
      BY <2>1
    <3>2. MeansTo(o.senderPubKey, b, m, 8, "bytes")
      BY <1>6, <3>1, MeansStays DEF EnvelopeMeant
    <3> QED BY <1>2, <1>6, <3>1, <3>2 DEF EnvelopeMeant
  <2> QED BY <2>1, <2>3, <2>4
<1> QED BY <1>3, <1>4, <1>5, <1>6

\* An envelope is accepted exactly when all of its fields are, and means what they say.
LEMMA EnvelopesMeant ==
  ASSUME NEW b, Len(b) \in Nat,
         \A i \in 1 .. Len(b) : b[i].num \in 1 .. 7 => NoPayload \notin Kind(b, i)
  PROVE  /\ DecodeEnvelope(b) # {} <=> EnvelopeGood(b, Len(b))
         /\ \A env \in DecodeEnvelope(b) : EnvelopeMeant(env, b, Len(b))
<1>1. PICK envs : EnvelopeSteps(envs, b) /\ DecodeEnvelope(b) = envs[Len(b)]
  BY EnvelopeStepDefined
<1> DEFINE D == { m \in 0 .. Len(b) : /\ envs[m] # {} <=> EnvelopeGood(b, m)
                                      /\ \A env \in envs[m] : EnvelopeMeant(env, b, m) }
<1>2. 0 \in D
  <2> DEFINE e0 == EnvelopeOf(NoPayload, << >>)
  <2>1. envs[0] = Only(e0) /\ \A i \in 1 .. 0 : FALSE
    BY <1>1 DEF EnvelopeSteps, EnvelopeOf, Only
  <2>2. EnvelopeGood(b, 0)
    BY <2>1 DEF EnvelopeGood
  <2>3. IsEnvelope(e0) /\ e0.payload = NoPayload /\ e0.senderPubKey = ZeroOf("bytes")
    BY DEF EnvelopeOf, IsEnvelope, ZeroOf
  <2>4. MeansTo(e0.senderPubKey, b, 0, 8, "bytes")
    BY <2>3, MeansNothing DEF TypeOfRule
  <2> HIDE DEF e0
  <2>5. EnvelopeMeant(e0, b, 0)
    BY <2>1, <2>3, <2>4 DEF EnvelopeMeant
  <2> QED BY <2>1, <2>2, <2>5 DEF Only
<1>3. ASSUME NEW m \in 1 .. Len(b), m - 1 \in D PROVE m \in D
  <2>1. envs[m] = EnvelopeStep(b, m, envs[m - 1])
    BY <1>1 DEF EnvelopeSteps
  <2>2. /\ envs[m - 1] # {} <=> EnvelopeGood(b, m - 1)
        /\ \A e \in envs[m - 1] : EnvelopeMeant(e, b, m - 1)
    BY <1>3
  <2>3. m \in Nat \ {0} /\ m \in 0 .. Len(b) /\ (b[m].num \in 1 .. 7 => NoPayload \notin Kind(b, m))
    OBVIOUS
  <2>4. /\ EnvelopeStep(b, m, envs[m - 1]) # {} <=> EnvelopeGood(b, m)
        /\ \A e \in EnvelopeStep(b, m, envs[m - 1]) : EnvelopeMeant(e, b, m)
    BY <2>2, <2>3, EnvelopeMeantStep
  <2> QED BY <2>1, <2>3, <2>4
<1>4. Len(b) \in D
  <2> HIDE DEF D
  <2>1. 0 .. Len(b) \subseteq D
    BY <1>2, <1>3, BoundedInduction
  <2> QED BY <2>1
<1> QED BY <1>1, <1>4

\* Payload bytes mean what the protobuf rules say, of any fields in any order and
\* number, to DecodePayload and the seven decoders under it.
THEOREM DecodesAsMeantAlways == Spec => []DecodesAsMeant
<1>1. ASSUME IInv PROVE DecodesAsMeant
  <2> DEFINE b == draft
             n == Len(b)
             payloads == { i \in DOMAIN b : b[i].num \in 1 .. 7 }
             keys == FieldsOf(b, 8)
  <2>1. b \in Seq(PayloadField)
    BY <1>1 DEF IInv
  <2>2. n \in Nat /\ DOMAIN b = 1 .. n /\ \A i \in 1 .. n : b[i] \in PayloadField
    BY <2>1
  <2> HIDE DEF b
  <2>3. ASSUME NEW i \in payloads
        PROVE  /\ KindMeant(Kind(b, i), b[i].b, b[i].num) /\ NoPayload \notin Kind(b, i)
    <3>1. b[i] \in PayloadField /\ b[i].num \in 1 .. 7
      BY <2>2
    <3>2. b[i].b \in Seq({ b[i].b[j] : j \in DOMAIN b[i].b })
      BY <3>1, BlockStoreAssumption
    <3>3. KindMeant(Kind(b, i), b[i].b, b[i].num)
      BY <3>1, <3>2, DecodeKindMeant DEF Kind
    <3>4. IsMessage(b[i].b)
      BY <3>1, FieldIsMessage
    <3> DEFINE num == b[i].num
               bytes == b[i].b
    <3>5. num \in 1 .. 7 /\ IsMessage(bytes)
      BY <3>1, <3>4
    <3>6. \A p \in DecodeKind(num, bytes) : p # NoPayload
      <4> HIDE DEF num, bytes
      <4> TAKE p \in DecodeKind(num, bytes)
      <4> DEFINE key == 0
      <4>1. \E inner : /\ EncodePayload(p, key) = Envelope(num, inner, key)
                       /\ DecodeKind(num, inner) = Only(p)
                       /\ p # NoPayload
        BY <3>5, PayloadBack
      <4> QED BY <4>1
    <3> QED BY <3>3, <3>6 DEF Kind
  <2>4. \A i \in 1 .. n : b[i].num \in 1 .. 7 => NoPayload \notin Kind(b, i)
    BY <2>2, <2>3
  <2>5. /\ DecodeEnvelope(b) # {} <=> EnvelopeGood(b, n)
        /\ \A env \in DecodeEnvelope(b) : EnvelopeMeant(env, b, n)
    BY <2>2, <2>4, EnvelopesMeant
  <2>6. \A i \in payloads : Kind(b, i) # {} <=> WellTyped(b[i].b, b[i].num)
    BY <2>3 DEF KindMeant
  <2> DEFINE Accepting == /\ Cardinality(payloads) = 1
                          /\ \A i \in DOMAIN b : b[i].num # 0
                          /\ \A i \in payloads \union keys : b[i].type = "bytes"
                          /\ \A i, j \in keys : i < j => b[i].b = << >>
                          /\ \A i \in payloads : WellTyped(b[i].b, b[i].num)
  <2>7. Cardinality(payloads) = 1 <=> \E i : payloads = {i}
    <3>1. IsFiniteSet(1 .. n) /\ payloads \subseteq 1 .. n
      BY <2>2, FS_Interval
    <3>2. IsFiniteSet(payloads)
      BY <3>1, FS_Subset
    <3> HIDE DEF payloads
    <3> QED BY <3>2, FS_Singleton
  <2>8. /\ keys = { i \in 1 .. n : b[i].num = 8 } /\ payloads = { i \in 1 .. n : b[i].num \in 1 .. 7 }
        /\ payloads \union keys = { i \in 1 .. n : b[i].num \in 1 .. 8 }
    BY <2>2 DEF FieldsOf
  <2>9. Accepting <=> EnvelopeGood(b, n) /\ payloads # {}
    <3>1. ASSUME Accepting PROVE EnvelopeGood(b, n) /\ payloads # {}
      <4>1. PICK i : payloads = {i}
        BY <2>7, <3>1
      <4>2. \A j, k \in 1 .. n : b[j].num \in 1 .. 7 /\ b[k].num \in 1 .. 7 => j = k
        BY <2>8, <4>1
      <4>3. \A j \in 1 .. n : b[j].num # 0 /\ (b[j].num \in 1 .. 8 => b[j].type = "bytes")
        BY <2>2, <2>8, <3>1
      <4>4. \A j \in 1 .. n : b[j].num \in 1 .. 7 => Kind(b, j) # {}
        BY <2>6, <2>8, <3>1
      <4>5. \A j, k \in 1 .. n : b[j].num = 8 /\ b[k].num = 8 /\ j < k => b[j].b = << >>
        BY <2>8, <3>1
      <4> QED BY <4>1, <4>2, <4>3, <4>4, <4>5 DEF EnvelopeGood
    <3>2. ASSUME EnvelopeGood(b, n), payloads # {} PROVE Accepting
      <4>1. PICK i : i \in payloads
        BY <3>2
      <4>2. payloads = {i}
        BY <2>8, <3>2, <4>1 DEF EnvelopeGood
      <4>3. \A j \in DOMAIN b : b[j].num # 0
        BY <2>2, <3>2 DEF EnvelopeGood
      <4>4. \A j \in payloads \union keys : b[j].type = "bytes"
        BY <2>8, <3>2 DEF EnvelopeGood
      <4>5. \A j, k \in keys : j < k => b[j].b = << >>
        BY <2>8, <3>2 DEF EnvelopeGood
      <4>6. \A j \in payloads : WellTyped(b[j].b, b[j].num)
        BY <2>6, <2>8, <3>2 DEF EnvelopeGood
      <4> QED BY <2>7, <4>2, <4>3, <4>4, <4>5, <4>6
    <3> QED BY <3>1, <3>2
  <2>10. DecodePayload(b) # {} <=> EnvelopeGood(b, n) /\ payloads # {}
    <3>1. \A env \in DecodeEnvelope(b) : env.payload # NoPayload <=> payloads # {}
      BY <2>5, <2>8 DEF EnvelopeMeant
    <3> QED BY <2>5, <3>1 DEF DecodePayload
  <2>11. ASSUME NEW env \in DecodePayload(b)
         PROVE  /\ Means(env.senderPubKey, b, 8, "bytes")
                /\ \A i \in payloads : \A k \in DOMAIN Shape(b[i].num) :
                     Means(env.payload[Shape(b[i].num)[k][1]], b[i].b, k, Shape(b[i].num)[k][2])
    <3>1. EnvelopeMeant(env, b, n)
      BY <2>5 DEF DecodePayload
    <3>2. Means(env.senderPubKey, b, 8, "bytes")
      <4>1. b \in Seq(PayloadField) /\ MeansTo(env.senderPubKey, b, n, 8, "bytes")
        BY <2>1, <3>1 DEF EnvelopeMeant
      <4> QED BY <4>1, MeansAll
    <3>3. ASSUME NEW i \in payloads, NEW k \in DOMAIN Shape(b[i].num)
          PROVE  Means(env.payload[Shape(b[i].num)[k][1]], b[i].b, k, Shape(b[i].num)[k][2])
      <4>1. env.payload \in Kind(b, i)
        BY <2>8, <3>1 DEF EnvelopeMeant
      <4> QED BY <2>3, <4>1 DEF KindMeant
    <3> QED BY <3>2, <3>3
  <2>12. DecodePayload(b) # {} <=> Accepting
    BY <2>9, <2>10
  <2> QED BY <2>11, <2>12 DEF DecodesAsMeant, b
<1> QED BY <1>1, IInvAlways, PTL

=============================================================================
