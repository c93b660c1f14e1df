---------------------------- MODULE RawTx_proofs ----------------------------
(***************************************************************************)
(* The parser that gets a transaction in pieces does what the parser does  *)
(* that has the whole of it, for every stream and every way to cut it.     *)
(***************************************************************************)
EXTENDS RawTx, SequenceTheorems, TLAPS

Byte == 0 .. Base - 1

-----------------------------------------------------------------------------
\* A part of a sequence: its length and its elements.
LEMMA Cut ==
  ASSUME NEW S, NEW p \in Seq(S), NEW i \in 1 .. Len(p) + 1, NEW j \in i - 1 .. Len(p)
  PROVE  /\ SubSeq(p, i, j) \in Seq(S)
         /\ Len(SubSeq(p, i, j)) = j - i + 1
         /\ \A k \in 1 .. j - i + 1 : SubSeq(p, i, j)[k] = p[i + k - 1]
<1>1. \A k \in i .. j : p[k] \in S
  OBVIOUS
<1>2. i \in Int /\ j \in Int
  OBVIOUS
<1> QED  BY <1>1, <1>2, SubSeqProperties

\* Two sequences are equal if they have the same elements.
LEMMA Same ==
  ASSUME NEW S, NEW p \in Seq(S), NEW q \in Seq(S), Len(p) = Len(q),
         \A k \in 1 .. Len(p) : p[k] = q[k]
  PROVE  p = q
BY SeqEqual

\* Of the buffer p, from offset o, and the buffer q, m and r bytes are read.
Reads(p, q, o, m, r) ==
  o + m <= Len(p) /\ r <= Len(q) /\ (r = 0 \/ o + m = Len(p))
Leaves(p, q, o, m, r, all) ==
  SubSeq(p, o + m + 1, Len(p)) \o SubSeq(q, r + 1, Len(q))
    = SubSeq(all, m + r + 1, Len(all))

\* Reading m bytes from one buffer and r from the next, after the first one is
\* exhausted, leaves what reading m + r from the concatenation leaves.
LEMMA Drop ==
  ASSUME NEW S, NEW p \in Seq(S), NEW q \in Seq(S), NEW o \in Nat, NEW m \in Nat,
         NEW r \in Nat, Reads(p, q, o, m, r)
  PROVE  Leaves(p, q, o, m, r, SubSeq(p, o + 1, Len(p)) \o q)
<1> DEFINE a == SubSeq(p, o + 1, Len(p))
           u == a \o q
           b == SubSeq(p, o + m + 1, Len(p))
           c == SubSeq(q, r + 1, Len(q))
           d == SubSeq(u, m + r + 1, Len(u))
<1> USE DEF Reads
<1>0. Len(p) \in Nat /\ Len(q) \in Nat
  OBVIOUS
<1>1. a \in Seq(S) /\ Len(a) = Len(p) - o /\ \A k \in 1 .. Len(p) - o : a[k] = p[o + k]
  <2>1. o + 1 \in 1 .. Len(p) + 1 /\ Len(p) \in (o + 1) - 1 .. Len(p)
    BY <1>0
  <2>2. a \in Seq(S) /\ Len(a) = Len(p) - (o + 1) + 1
        /\ \A k \in 1 .. Len(p) - (o + 1) + 1 : a[k] = p[(o + 1) + k - 1]
    BY <2>1, Cut
  <2> QED  BY <2>2, <1>0
<1>2. b \in Seq(S) /\ Len(b) = Len(p) - (o + m)
      /\ \A k \in 1 .. Len(p) - (o + m) : b[k] = p[o + m + k]
  <2>1. o + m + 1 \in 1 .. Len(p) + 1 /\ Len(p) \in (o + m + 1) - 1 .. Len(p)
    BY <1>0
  <2>2. b \in Seq(S) /\ Len(b) = Len(p) - (o + m + 1) + 1
        /\ \A k \in 1 .. Len(p) - (o + m + 1) + 1 : b[k] = p[(o + m + 1) + k - 1]
    BY <2>1, Cut
  <2> QED  BY <2>2, <1>0
<1>3. c \in Seq(S) /\ Len(c) = Len(q) - r
      /\ \A k \in 1 .. Len(q) - r : c[k] = q[r + k]
  <2>1. r + 1 \in 1 .. Len(q) + 1 /\ Len(q) \in (r + 1) - 1 .. Len(q)
    BY <1>0
  <2>2. c \in Seq(S) /\ Len(c) = Len(q) - (r + 1) + 1
        /\ \A k \in 1 .. Len(q) - (r + 1) + 1 : c[k] = q[(r + 1) + k - 1]
    BY <2>1, Cut
  <2> QED  BY <2>2, <1>0
<1> HIDE DEF a, b, c
<1>4. /\ u \in Seq(S) /\ Len(u) = Len(a) + Len(q)
      /\ \A k \in 1 .. Len(a) + Len(q) : u[k] = IF k <= Len(a) THEN a[k] ELSE q[k - Len(a)]
  <2>1. a \in Seq(S)
    BY <1>1
  <2> QED  BY <2>1, ConcatProperties
<1>5. /\ b \o c \in Seq(S) /\ Len(b \o c) = Len(b) + Len(c)
      /\ \A k \in 1 .. Len(b) + Len(c) :
           (b \o c)[k] = IF k <= Len(b) THEN b[k] ELSE c[k - Len(b)]
  <2>1. b \in Seq(S) /\ c \in Seq(S)
    BY <1>2, <1>3
  <2> QED  BY <2>1, ConcatProperties
<1> HIDE DEF u
<1>6. d \in Seq(S) /\ Len(d) = Len(u) - (m + r)
      /\ \A k \in 1 .. Len(u) - (m + r) : d[k] = u[m + r + k]
  <2>0. Len(u) \in Nat /\ m + r <= Len(u)
    BY <1>0, <1>1, <1>4
  <2>1. m + r + 1 \in 1 .. Len(u) + 1 /\ Len(u) \in (m + r + 1) - 1 .. Len(u)
    BY <2>0
  <2>2. d \in Seq(S) /\ Len(d) = Len(u) - (m + r + 1) + 1
        /\ \A k \in 1 .. Len(u) - (m + r + 1) + 1 : d[k] = u[(m + r + 1) + k - 1]
    BY <2>1, <1>4, Cut
  <2> HIDE DEF d
  <2>3. Len(u) - (m + r + 1) + 1 = Len(u) - (m + r)
    BY <2>0
  <2>4. \A k \in 1 .. Len(u) - (m + r) : (m + r + 1) + k - 1 = m + r + k
    BY <2>0
  <2> QED  BY <2>2, <2>3, <2>4
<1> HIDE DEF d
<1>7. Len(b) + Len(c) = Len(d) /\ Len(d) \in Nat /\ Len(b) \in Nat
  BY <1>0, <1>1, <1>2, <1>3, <1>4, <1>6
<1>8. ASSUME NEW k \in 1 .. Len(d)
      PROVE  (b \o c)[k] = d[k]
  <2>0. k \in Nat /\ 1 <= k /\ k <= Len(d)
    BY <1>7
  <2>1. CASE k <= Len(b)
    <3>1. r = 0
      BY <2>0, <2>1, <1>0, <1>2
    <3>2. (b \o c)[k] = b[k] /\ b[k] = p[o + m + k]
      BY <2>0, <2>1, <1>2, <1>5, <1>7
    <3>3. m + r + k \in 1 .. Len(a) + Len(q) /\ m + r + k <= Len(a)
          /\ m + r + k \in 1 .. Len(p) - o /\ k \in 1 .. Len(u) - (m + r)
      BY <3>1, <2>0, <2>1, <1>0, <1>1, <1>2, <1>4
    <3>4. d[k] = u[m + r + k] /\ u[m + r + k] = a[m + r + k]
          /\ a[m + r + k] = p[o + (m + r + k)]
      BY <3>3, <1>1, <1>4, <1>6
    <3>5. o + (m + r + k) = o + m + k
      BY <3>1, <2>0
    <3> QED  BY <3>2, <3>4, <3>5
  <2>2. CASE k > Len(b)
    <3>1. k - Len(b) \in 1 .. Len(q) - r /\ k \in 1 .. Len(b) + Len(c) /\ ~(k <= Len(b))
      BY <2>0, <2>2, <1>0, <1>3, <1>7
    <3>2. (b \o c)[k] = c[k - Len(b)] /\ c[k - Len(b)] = q[r + (k - Len(b))]
      BY <3>1, <1>3, <1>5
    <3>3. m + r + k \in 1 .. Len(a) + Len(q) /\ ~(m + r + k <= Len(a))
          /\ k \in 1 .. Len(u) - (m + r) /\ m + r + k - Len(a) = r + (k - Len(b))
      BY <2>0, <2>2, <1>0, <1>1, <1>2, <1>4, <1>6
    <3>4. d[k] = u[m + r + k]
      BY <3>3, <1>6
    <3>5. u[m + r + k] = q[m + r + k - Len(a)]
      BY <3>3, <1>4
    <3> QED  BY <3>2, <3>3, <3>4, <3>5
  <2> QED  BY <2>0, <2>1, <2>2, <1>7
<1>9. b \o c = d
  BY <1>5, <1>6, <1>7, <1>8, Same
<1> QED  BY <1>9 DEF a, b, c, d, u, Leaves
-----------------------------------------------------------------------------
\* The names of the fields of the state of the parser.
LEMMA FieldNames ==
  Fields = {"where", "error", "is_segwit", "n_inputs", "n_outputs", "counter", "size",
            "done", "stack", "element", "output_index", "hashed", "value", "spk_len",
            "script"}
BY DEF Fields, InitState

\* Hashing changes no other field.
LEMMA HashOK ==
  ASSUME NEW t, ParserOK(t), NEW b
  PROVE  /\ ParserOK(crypto_hash_update(t, b))
         /\ crypto_hash_update(t, b).where = t.where
         /\ crypto_hash_update(t, b).size = t.size
         /\ crypto_hash_update(t, b).done = t.done
BY FieldNames DEF ParserOK, crypto_hash_update

\* The choice of the next input, output, stack or element keeps the type.
LEMMA ChoiceOK ==
  ASSUME NEW t, ParserOK(t)
  PROVE  /\ ParserOK(parse_rawtx_inputs(t))
         /\ ParserOK(parse_rawtx_witnesses(t))
BY FieldNames DEF ParserOK, parse_rawtx_inputs, parse_rawtx_witnesses, Steps, Fixed,
   Varints

\* Neither do the counters.
LEMMA CounterOK ==
  ASSUME NEW t, ParserOK(t), NEW x, NEW y
  PROVE  /\ ParserOK([t EXCEPT !.counter = x])
         /\ ParserOK([t EXCEPT !.element = x])
         /\ ParserOK([t EXCEPT !.n_inputs = x, !.counter = y])
         /\ ParserOK([t EXCEPT !.n_outputs = x, !.counter = y])
         /\ ParserOK([t EXCEPT !.stack = x, !.element = y])
BY FieldNames DEF ParserOK

\* Nor does going to the next output or element.
LEMMA NextOK ==
  ASSUME NEW t, ParserOK(t)
  PROVE  /\ ParserOK(parse_rawtx_outputs(t))
         /\ ParserOK(next_element(t))
<1>1. ParserOK([t EXCEPT !.where = "value"]) /\ ParserOK([t EXCEPT !.where = "element_len"])
  BY FieldNames DEF ParserOK, Steps, Fixed, Varints
<1>2. ParserOK(parse_rawtx_witnesses([t EXCEPT !.counter = 0]))
  BY CounterOK, ChoiceOK
<1>3. ParserOK(parse_rawtx_witnesses([t EXCEPT !.counter = @ + 1]))
  BY CounterOK, ChoiceOK
<1> QED  BY <1>1, <1>2, <1>3 DEF parse_rawtx_outputs, next_element

\* What the next step is, and the size of what it reads.
LEMMA StepOK ==
  ASSUME NEW t, ParserOK(t), NEW w \in Steps, NEW n \in Nat
  PROVE  /\ ParserOK([t EXCEPT !.where = w])
         /\ ParserOK([t EXCEPT !.where = w, !.size = n, !.done = 0])
<1>1. ParserOK([t EXCEPT !.where = w])
  BY FieldNames DEF ParserOK
<1> DEFINE r == [t EXCEPT !.where = w, !.size = n, !.done = 0]
<1>2. r = [f \in Fields |-> r[f]] /\ r.where = w /\ r.error = t.error /\ r.size = n
      /\ r.done = 0
  BY FieldNames DEF ParserOK
<1>3. 0 \in 0 .. n
  OBVIOUS
<1> HIDE DEF r
<1>4. ParserOK(r)
  BY <1>2, <1>3 DEF ParserOK
<1> QED  BY <1>1, <1>4 DEF r

-----------------------------------------------------------------------------
\* A varint is read from 1, 3, 5 or 9 bytes, and is a number.
LEMMA VarintOK ==
  ASSUME NEW b \in Seq(Byte), Len(b) \in {1, 3, 5, 9}
  PROVE  dbuffer_read_varint(b) \in Nat
<1>1. Base \in Nat
  BY SizesOK
<1>2. \A i \in 1 .. Len(b) : b[i] \in Nat
  BY <1>1 DEF Byte
<1> DEFINE Two(i, above) == b[i] + Base * (b[i + 1] + Base * above)
<1>3. ASSUME NEW i \in Nat, i > 0, i + 1 <= Len(b), NEW x \in Nat
      PROVE  Two(i, x) \in Nat
  <2>1. b[i] \in Nat /\ b[i + 1] \in Nat
    BY <1>2, <1>3
  <2>2. Base * x \in Nat
    BY <1>1, <1>3
  <2>3. b[i + 1] + Base * x \in Nat
    BY <2>1, <2>2
  <2>4. Base * (b[i + 1] + Base * x) \in Nat
    BY <1>1, <2>3
  <2> QED  BY <2>1, <2>4
<1>4. dbuffer_read_varint(b) =
        CASE Len(b) = 3 -> Two(2, 0)
          [] Len(b) = 5 -> Two(2, Two(4, 0))
          [] Len(b) = 9 -> Two(2, Two(4, Two(6, Two(8, 0))))
          [] OTHER -> b[1]
  BY DEF dbuffer_read_varint
<1> HIDE DEF Two
<1>5. CASE Len(b) = 1
  BY <1>2, <1>4, <1>5
<1>6. CASE Len(b) = 3
  <2>1. Two(2, 0) \in Nat
    BY <1>3, <1>6
  <2> QED  BY <2>1, <1>4, <1>6
<1>7. CASE Len(b) = 5
  <2>1. PICK x \in Nat : x = Two(4, 0)
    BY <1>3, <1>7
  <2>2. Two(2, x) \in Nat
    BY <1>3, <1>7
  <2> QED  BY <2>1, <2>2, <1>4, <1>7
<1>8. CASE Len(b) = 9
  <2>1. PICK x \in Nat : x = Two(8, 0)
    BY <1>3, <1>8
  <2>2. PICK y \in Nat : y = Two(6, x)
    BY <1>3, <1>8
  <2>3. PICK z \in Nat : z = Two(4, y)
    BY <1>3, <1>8
  <2>4. Two(2, z) \in Nat
    BY <1>3, <1>8
  <2> QED  BY <2>1, <2>2, <2>3, <2>4, <1>4, <1>8
<1> QED  BY <1>5, <1>6, <1>7, <1>8

\* The forms of a varint have 1, 3, 5 or 9 bytes.
LEMMA VarintNeed ==
  ASSUME NEW t, t.where \in Varints, NEW u
  PROVE  Need(t, u) \in {1, 3, 5, 9}
<1>1. t.where \notin Fixed /\ t.where \notin Blocks /\ t.where # "check_segwit"
  BY DEF Varints, Fixed, Blocks
<1>2. VarintLen(u[1]) \in {0, 2, 4, 8}
  BY DEF VarintLen
<1>3. Need(t, u) = IF u = <<>> THEN 1 ELSE 1 + VarintLen(u[1])
  BY <1>1 DEF Need
<1> QED  BY <1>2, <1>3

\* What a step needs fits in the store, unless the step is stuck.
LEMMA NeedOK ==
  ASSUME NEW t, ParserOK(t), NEW u \in Seq(Byte)
  PROVE  /\ Need(t, u) \in Nat
         /\ Need(t, u) <= Chunk \/ Need(t, u) >= UintMod \div 2
<1>1. t.where \in Steps /\ t.size \in Nat /\ t.done \in 0 .. t.size
  BY DEF ParserOK
<1>2. UintMod \div 2 \in Nat /\ Chunk \in Nat /\ Chunk > 8
  BY SizesOK
<1>3. CASE t.where \in Fixed
  <2>1. t.where \notin Varints /\ t.where \notin Blocks /\ t.where # "check_segwit"
    BY <1>3 DEF Varints, Fixed, Blocks
  <2>2. Need(t, u) = Width[t.where]
    BY <1>3, <2>1 DEF Need
  <2> QED  BY <1>3, <2>2, SizesOK
<1>4. CASE t.where \in Varints
  <2> QED  BY <1>4, <1>2, VarintNeed
<1>5. CASE t.where \in Blocks
  <2>1. t.where \notin Fixed /\ t.where \notin Varints /\ t.where # "check_segwit"
    BY <1>5 DEF Varints, Fixed, Blocks
  <2>2. Need(t, u) = DataLen(t)
    BY <1>5, <2>1 DEF Need
  <2>3. t.size - t.done \in Nat
    BY <1>1
  <2> QED  BY <2>2, <2>3, <1>2 DEF DataLen
<1>6. CASE t.where \in {"check_segwit", "end"}
  <2>1. t.where \notin Fixed /\ t.where \notin Varints /\ t.where \notin Blocks
    BY <1>6 DEF Varints, Fixed, Blocks
  <2>2. Need(t, u) \in {0, 1, 2}
    BY <1>6, <2>1 DEF Need
  <2> QED  BY <2>2, <1>2
<1> QED  BY <1>1, <1>3, <1>4, <1>5, <1>6 DEF Steps

\* A step that has what it needs takes at most that.
LEMMA TakesOK ==
  ASSUME NEW t, ParserOK(t), NEW u \in Seq(Byte), dbuffer_can_read(t, u)
  PROVE  /\ Takes(t, u) \in Nat /\ Takes(t, u) <= Len(u)
         /\ SubSeq(u, 1, Takes(t, u)) \in Seq(Byte)
         /\ Len(SubSeq(u, 1, Takes(t, u))) = Takes(t, u)
<1>1. Len(u) \in Nat /\ Need(t, u) \in Nat /\ Need(t, u) <= Len(u)
  BY NeedOK DEF dbuffer_can_read
<1>2. Takes(t, u) \in Nat /\ Takes(t, u) <= Len(u)
  BY <1>1 DEF Takes
<1>3. Takes(t, u) \in 1 - 1 .. Len(u) /\ 1 \in 1 .. Len(u) + 1
  BY <1>1, <1>2
<1> HIDE DEF Takes
<1>4. /\ SubSeq(u, 1, Takes(t, u)) \in Seq(Byte)
      /\ Len(SubSeq(u, 1, Takes(t, u))) = Takes(t, u) - 1 + 1
  BY <1>3, Cut
<1> QED  BY <1>2, <1>4

\* Counting the bytes of a block, and copying them.
LEMMA AdvanceOK ==
  ASSUME NEW t, ParserOK(t), NEW n \in Nat, t.done + n <= t.size, NEW x
  PROVE  /\ ParserOK([t EXCEPT !.done = @ + n])
         /\ ParserOK([t EXCEPT !.done = @ + n, !.script = x])
<1>0. t.done + n \in 0 .. t.size
  BY DEF ParserOK
<1> DEFINE p == [t EXCEPT !.done = @ + n]
           q == [t EXCEPT !.done = @ + n, !.script = x]
<1>1. /\ p = [f \in Fields |-> p[f]] /\ p.where = t.where /\ p.error = t.error
      /\ p.size = t.size /\ p.done = t.done + n
  BY FieldNames DEF ParserOK
<1>2. /\ q = [f \in Fields |-> q[f]] /\ q.where = t.where /\ q.error = t.error
      /\ q.size = t.size /\ q.done = t.done + n
  BY FieldNames DEF ParserOK
<1> HIDE DEF p, q
<1>3. ParserOK(p) /\ ParserOK(q)
  BY <1>0, <1>1, <1>2 DEF ParserOK
<1> QED  BY <1>3 DEF p, q

\* Every step keeps the type of the state.
LEMMA ParseOK ==
  ASSUME NEW t, ParserOK(t), ~Halted(t), NEW u \in Seq(Byte), dbuffer_can_read(t, u)
  PROVE  ParserOK(Parse(t, SubSeq(u, 1, Takes(t, u))))
<1>0. PICK b \in Seq(Byte) : b = SubSeq(u, 1, Takes(t, u)) /\ Len(b) = Takes(t, u)
  BY TakesOK
<1> DEFINE v == dbuffer_read_varint(b)
           h == crypto_hash_update(t, b)
           hv == crypto_hash_update(t, varint_write(v))
<1>1. ParserOK(h) /\ ParserOK(hv)
  BY HashOK
<1>2. t.where \in Steps /\ t.where # "end"
  BY DEF ParserOK, Halted
<1>3. Steps = {"version", "txid", "vout", "sequence", "value", "locktime", "input_count",
               "scriptsig_size", "output_count", "scriptpubkey_size", "stack",
               "element_len", "scriptsig", "scriptpubkey", "element", "check_segwit", "end"}
  BY DEF Steps, Fixed, Varints, Blocks
<1>4. ASSUME t.where \in Varints
      PROVE  v % UintMod \in Nat
  <2>1. Takes(t, u) = Need(t, u)
    BY <1>4 DEF Takes, Varints
  <2>2. v \in Nat
    BY <1>0, <1>4, <2>1, VarintNeed, VarintOK
  <2> QED  BY <2>2, SizesOK
<1>5. ASSUME t.where \in Blocks
      PROVE  Len(b) \in Nat /\ t.done + Len(b) <= t.size
  <2>1. Takes(t, u) = DataLen(t)
    BY <1>5 DEF Takes, Need, Varints, Fixed, Blocks
  <2>2. t.size \in Nat /\ t.done \in Nat
    BY DEF ParserOK
  <2>3. DataLen(t) <= t.size - t.done
    BY <2>2, SizesOK DEF DataLen
  <2> QED  BY <1>0, <2>1, <2>2, <2>3
<1> HIDE DEF v, h, hv
<1>6. CASE t.where \in {"version", "txid", "vout", "locktime"}
  <2>1. \E w \in Steps : Parse(t, b) = [h EXCEPT !.where = w]
    BY <1>6, <1>3 DEF Parse, h
  <2>2. PICK w \in Steps : Parse(t, b) = [h EXCEPT !.where = w]
    BY <2>1
  <2>3. ParserOK([h EXCEPT !.where = w])
    BY <1>1, StepOK
  <2> QED  BY <2>2, <2>3, <1>0
<1>7. CASE t.where = "check_segwit"
  <2>1. Parse(t, b) = parse_rawtx_check_segwit(t, b)
    BY <1>7 DEF Parse
  <2> DEFINE p == [t EXCEPT !.where = "input_count"]
             e == [t EXCEPT !.error = TRUE]
             q == [t EXCEPT !.is_segwit = TRUE, !.where = "input_count"]
  <2>2. Parse(t, b) \in {p, e, q}
    BY <2>1 DEF parse_rawtx_check_segwit
  <2>3. ParserOK(p)
    BY <1>3, StepOK
  <2>4. ParserOK(e)
    BY FieldNames DEF ParserOK
  <2>5. ParserOK(q)
    <3>1. q = [[t EXCEPT !.is_segwit = TRUE] EXCEPT !.where = "input_count"]
      OBVIOUS
    <3>2. ParserOK([t EXCEPT !.is_segwit = TRUE])
      BY FieldNames DEF ParserOK
    <3>3. ParserOK([[t EXCEPT !.is_segwit = TRUE] EXCEPT !.where = "input_count"])
      BY <1>3, <3>2, StepOK
    <3> QED  BY <3>1, <3>3
  <2> HIDE DEF p, e, q
  <2> QED  BY <1>0, <2>2, <2>3, <2>4, <2>5
<1>8. CASE t.where \in {"input_count", "output_count", "stack"}
  <2>1. \/ Parse(t, b) = parse_rawtx_inputs(
                            [hv EXCEPT !.n_inputs = v % UintMod, !.counter = 0])
        \/ Parse(t, b) = parse_rawtx_outputs(
                            [hv EXCEPT !.n_outputs = v % UintMod, !.counter = 0])
        \/ Parse(t, b) = next_element([t EXCEPT !.stack = v % UintMod, !.element = 0])
    BY <1>8 DEF Parse, hv, v
  <2> QED  BY <2>1, <1>0, <1>1, CounterOK, ChoiceOK, NextOK
<1>9. CASE t.where = "scriptsig_size"
  <2>1. Parse(t, b) = [hv EXCEPT !.where = "scriptsig", !.size = v % UintMod, !.done = 0]
    BY <1>9 DEF Parse, hv, v
  <2>2. v % UintMod \in Nat /\ "scriptsig" \in Steps
    BY <1>3, <1>4, <1>9 DEF Varints
  <2>3. ParserOK([hv EXCEPT !.where = "scriptsig", !.size = v % UintMod, !.done = 0])
    BY <2>2, <1>1, StepOK
  <2> QED  BY <2>1, <2>3, <1>0
<1>10. CASE t.where = "scriptsig"
  <2>1. Parse(t, b) = parse_rawtxinput_scriptsig(t, b)
    BY <1>10 DEF Parse
  <2>2. ParserOK([h EXCEPT !.done = @ + Len(b)])
    BY <1>1, <1>5, <1>10, HashOK, AdvanceOK DEF Blocks, h
  <2> DEFINE r == [h EXCEPT !.done = @ + Len(b)]
  <2>3. "sequence" \in Steps /\ r.where \in Steps
    BY <1>3, <2>2 DEF ParserOK
  <2>4. \E w \in Steps : Parse(t, b) = [r EXCEPT !.where = w]
    BY <2>1, <2>3 DEF parse_rawtxinput_scriptsig, h
  <2>5. ParserOK(r)
    BY <2>2
  <2> HIDE DEF r
  <2>6. \A w \in Steps : ParserOK([r EXCEPT !.where = w])
    BY <2>5, StepOK
  <2> QED  BY <2>4, <2>6, <1>0
<1>11. CASE t.where = "sequence"
  <2>1. Parse(t, b) = parse_rawtx_inputs([h EXCEPT !.counter = @ + 1])
    BY <1>11 DEF Parse, h
  <2> QED  BY <2>1, <1>0, <1>1, CounterOK, ChoiceOK
<1>12. CASE t.where = "value"
  <2>1. Parse(t, b) = parse_rawtxoutput_value(t, b)
    BY <1>12 DEF Parse
  <2> QED  BY <2>1, <1>0, <1>1, <1>3, FieldNames DEF parse_rawtxoutput_value, ParserOK, h
<1>13. CASE t.where = "scriptpubkey_size"
  <2>1. Parse(t, b) = parse_rawtxoutput_scriptpubkey_size(t, v)
    BY <1>13 DEF Parse, v
  <2>2. v % UintMod \in Nat /\ "scriptpubkey" \in Steps
    BY <1>3, <1>4, <1>13 DEF Varints
  <2> DEFINE r == [hv EXCEPT !.where = "scriptpubkey", !.size = v % UintMod, !.done = 0]
  <2>3. ParserOK(r)
    BY <2>2, <1>1, StepOK
  <2> HIDE DEF r
  <2>4. ASSUME NEW x PROVE ParserOK([r EXCEPT !.spk_len = x])
    BY <2>3, FieldNames DEF ParserOK
  <2>5. \E x : Parse(t, b) = [r EXCEPT !.spk_len = x]
    <3>1. Parse(t, b) = [hv EXCEPT !.where = "scriptpubkey", !.size = v % UintMod, !.done = 0,
                           !.spk_len = IF Relevant(t) THEN v % UintMod ELSE @]
      BY <2>1 DEF parse_rawtxoutput_scriptpubkey_size, hv
    <3>2. Parse(t, b) = [r EXCEPT !.spk_len = IF Relevant(t) THEN v % UintMod ELSE @]
      BY <3>1, <1>1, FieldNames DEF r, ParserOK
    <3> QED  BY <3>2
  <2> QED  BY <2>4, <2>5, <1>0
<1>14. CASE t.where = "scriptpubkey"
  <2>1. Parse(t, b) = parse_rawtxoutput_scriptpubkey(t, b)
    BY <1>14 DEF Parse
  <2> DEFINE x == IF Relevant(t) THEN memcpy(h.script, t.done, b) ELSE h.script
             c == [h EXCEPT !.done = @ + Len(b), !.script = x]
  <2>2. ParserOK(c)
    BY <1>1, <1>5, <1>14, HashOK, AdvanceOK DEF Blocks, h
  <2>3. \/ Parse(t, b) = parse_rawtx_outputs([h EXCEPT !.counter = @ + 1])
        \/ Parse(t, b) = parse_rawtx_outputs([c EXCEPT !.counter = @ + 1])
        \/ Parse(t, b) = c
    BY <2>1 DEF parse_rawtxoutput_scriptpubkey, h
  <2> HIDE DEF c
  <2> QED  BY <2>2, <2>3, <1>0, <1>1, CounterOK, NextOK
<1>15. CASE t.where = "element_len"
  <2>1. Parse(t, b) = parse_element_len(t, v)
    BY <1>15 DEF Parse, v
  <2>2. v % UintMod \in Nat /\ "element" \in Steps
    BY <1>3, <1>4, <1>15 DEF Varints
  <2>3. \/ Parse(t, b) = next_element([t EXCEPT !.element = @ + 1])
        \/ Parse(t, b) = [t EXCEPT !.where = "element", !.size = v % UintMod, !.done = 0]
    BY <2>1 DEF parse_element_len
  <2>4. ParserOK([t EXCEPT !.where = "element", !.size = v % UintMod, !.done = 0])
    BY <2>2, StepOK
  <2>5. ParserOK(next_element([t EXCEPT !.element = @ + 1]))
    BY CounterOK, NextOK
  <2> QED  BY <2>3, <2>4, <2>5, <1>0
<1>16. CASE t.where = "element"
  <2>1. \/ Parse(t, b) = [t EXCEPT !.done = @ + Len(b)]
        \/ Parse(t, b) = next_element([t EXCEPT !.element = @ + 1])
    BY <1>16 DEF Parse, parse_element
  <2>2. ParserOK([t EXCEPT !.done = @ + Len(b)])
    BY <1>5, <1>16, AdvanceOK DEF Blocks
  <2>3. ParserOK(next_element([t EXCEPT !.element = @ + 1]))
    BY CounterOK, NextOK
  <2> QED  BY <2>1, <2>2, <2>3, <1>0
<1> QED
  BY <1>2, <1>3, <1>6, <1>7, <1>8, <1>9, <1>10, <1>11, <1>12, <1>13, <1>14, <1>15, <1>16
-----------------------------------------------------------------------------
\* A step that is stuck: the size of its block is negative as an int.
Stuck(t) == t.where \in Blocks /\ DataLen(t) >= UintMod \div 2

\* The bytes of a stream after the first i, up to the j-th.
Between(p, i, j) == SubSeq(p, i + 1, j)

\* The inductive invariant.  What is unread is the part of the stream between
\* what the parser has read and what was sent, unless the parser has halted or is
\* stuck; and the parser waits only if it cannot go on.
IInv ==
  /\ TypeOK
  /\ pos <= sent
  /\ pc = "parsing" => result = "none"
  /\ pc = "waiting" => off = 0 /\ data = <<>>
  /\ Halted(s) \/ Stuck(s) \/ Unread = Between(bytes, pos, sent)
  /\ pc = "waiting" /\ ~Halted(s) => ~dbuffer_can_read(s, Unread)

\* The bytes that are unread are never more than the store and a piece.
LEMMA UnreadOK ==
  ASSUME TypeOK
  PROVE  /\ Unread \in Seq(Byte)
         /\ Len(Unread) = Len(store) - off + Len(data)
         /\ Len(Unread) < UintMod \div 2
<1>1. /\ store \in Seq(Byte) /\ data \in Seq(Byte)
      /\ Len(store) \in Nat /\ off \in Nat /\ off <= Len(store) /\ Len(store) <= Chunk
      /\ Len(data) \in Nat /\ Len(data) <= MaxPiece
  BY DEF TypeOK, Byte
<1>2. off + 1 \in 1 .. Len(store) + 1 /\ Len(store) \in (off + 1) - 1 .. Len(store)
  BY <1>1
<1> DEFINE a == SubSeq(store, off + 1, Len(store))
<1>3. a \in Seq(Byte) /\ Len(a) = Len(store) - (off + 1) + 1
  BY <1>1, <1>2, Cut
<1> HIDE DEF a
<1>4. a \o data \in Seq(Byte) /\ Len(a \o data) = Len(a) + Len(data)
  BY <1>1, <1>3, ConcatProperties
<1>5. /\ Unread \in Seq(Byte) /\ Len(Unread) = Len(store) - off + Len(data)
  BY <1>1, <1>3, <1>4 DEF Unread, a
<1>6. MaxPiece \in Nat /\ Chunk \in Nat /\ UintMod \div 2 \in Nat
      /\ Chunk + MaxPiece < UintMod \div 2
  BY StreamsOK, SizesOK
<1> QED  BY <1>1, <1>5, <1>6

\* A stuck step never has what it needs.
LEMMA StuckNeed ==
  ASSUME NEW t, NEW u, Stuck(t)
  PROVE  Need(t, u) = DataLen(t)
BY DEF Stuck, Need, Blocks, Fixed, Varints

\* A step that needs more than a store holds is stuck.
LEMMA NeedStuck ==
  ASSUME NEW t, ParserOK(t), NEW u, Need(t, u) >= UintMod \div 2
  PROVE  Stuck(t)
<1>1. UintMod \div 2 \in Nat /\ Chunk \in Nat /\ Chunk > 8 /\ UintMod \div 2 > Chunk
  BY SizesOK
<1>2. CASE t.where \in Fixed
  <2>1. Need(t, u) = Width[t.where]
    BY <1>2 DEF Need, Blocks, Fixed, Varints
  <2> QED  BY <2>1, <1>1, <1>2, SizesOK
<1>3. CASE t.where \in Varints
  BY <1>1, <1>3, VarintNeed
<1>4. CASE t.where \in {"check_segwit", "end"}
  <2>1. Need(t, u) \in {0, 1, 2}
    BY <1>4 DEF Need, Blocks, Fixed, Varints
  <2> QED  BY <2>1, <1>1
<1>5. CASE t.where \in Blocks
  <2>1. Need(t, u) = DataLen(t)
    BY <1>5 DEF Need, Blocks, Fixed, Varints
  <2> QED  BY <2>1, <1>5 DEF Stuck
<1> QED  BY <1>2, <1>3, <1>4, <1>5 DEF ParserOK, Steps

\* The comment about the reads of blocks, from the type alone.
LEMMA StoreLemma == TypeOK => StoreSuffices
<1> SUFFICES ASSUME TypeOK, ~dbuffer_can_read(s, Unread)
             PROVE  Len(Unread) < Chunk \/ Need(s, Unread) >= UintMod \div 2
  BY DEF StoreSuffices
<1>1. ParserOK(s) /\ Unread \in Seq(Byte) /\ Len(Unread) \in Nat
  BY UnreadOK DEF TypeOK
<1>2. Need(s, Unread) \in Nat
      /\ (Need(s, Unread) <= Chunk \/ Need(s, Unread) >= UintMod \div 2)
  BY <1>1, NeedOK
<1> QED  BY <1>1, <1>2, SizesOK DEF dbuffer_can_read
-----------------------------------------------------------------------------
\* A part of a part.
LEMMA Suffix ==
  ASSUME NEW S, NEW p \in Seq(S), NEW i \in Nat, NEW j \in Nat, i <= j, j <= Len(p),
         NEW n \in Nat, n <= j - i
  PROVE  Between(Between(p, i, j), n, Len(Between(p, i, j))) = Between(p, i + n, j)
<1> DEFINE u == SubSeq(p, i + 1, j)
           a == SubSeq(u, n + 1, Len(u))
           b == SubSeq(p, i + n + 1, j)
<1>1. u \in Seq(S) /\ Len(u) = j - i /\ \A k \in 1 .. j - i : u[k] = p[i + k]
  <2>1. i + 1 \in 1 .. Len(p) + 1 /\ j \in (i + 1) - 1 .. Len(p)
    OBVIOUS
  <2>2. u \in Seq(S) /\ Len(u) = j - (i + 1) + 1
        /\ \A k \in 1 .. j - (i + 1) + 1 : u[k] = p[(i + 1) + k - 1]
    BY <2>1, Cut
  <2> HIDE DEF u
  <2> QED  BY <2>2
<1>2. b \in Seq(S) /\ Len(b) = j - i - n /\ \A k \in 1 .. j - i - n : b[k] = p[i + n + k]
  <2>1. i + n + 1 \in 1 .. Len(p) + 1 /\ j \in (i + n + 1) - 1 .. Len(p)
    OBVIOUS
  <2>2. b \in Seq(S) /\ Len(b) = j - (i + n + 1) + 1
        /\ \A k \in 1 .. j - (i + n + 1) + 1 : b[k] = p[(i + n + 1) + k - 1]
    BY <2>1, Cut
  <2> HIDE DEF b
  <2> QED  BY <2>2
<1> HIDE DEF u, b
<1>3. a \in Seq(S) /\ Len(a) = j - i - n /\ \A k \in 1 .. j - i - n : a[k] = u[n + k]
  <2>1. n + 1 \in 1 .. Len(u) + 1 /\ Len(u) \in (n + 1) - 1 .. Len(u)
    BY <1>1
  <2>2. a \in Seq(S) /\ Len(a) = Len(u) - (n + 1) + 1
        /\ \A k \in 1 .. Len(u) - (n + 1) + 1 : a[k] = u[(n + 1) + k - 1]
    BY <1>1, <2>1, Cut
  <2> HIDE DEF a
  <2>3. Len(u) - (n + 1) + 1 = j - i - n
    BY <1>1
  <2> QED  BY <2>2, <2>3
<1> HIDE DEF a
<1>4. ASSUME NEW k \in 1 .. j - i - n PROVE a[k] = b[k]
  <2>1. n + k \in 1 .. j - i
    OBVIOUS
  <2>2. a[k] = u[n + k] /\ u[n + k] = p[i + (n + k)] /\ b[k] = p[i + n + k]
    BY <2>1, <1>1, <1>2, <1>3
  <2>3. i + (n + k) = i + n + k
    OBVIOUS
  <2> QED  BY <2>2, <2>3
<1>5. a = b
  BY <1>2, <1>3, <1>4, Same
<1> QED  BY <1>5 DEF u, a, b, Between

\* The first m elements of u and r are the same.
Agree(u, r, m) ==
  /\ \A k \in 1 .. m : u[k] = r[k]
  /\ \A n \in 0 .. m : SubSeq(u, 1, n) = SubSeq(r, 1, n)

\* The start of a part of a stream, and the start of the whole rest of it.
LEMMA Start ==
  ASSUME NEW S, NEW p \in Seq(S), NEW i \in Nat, NEW j \in Nat, i <= j, j <= Len(p)
  PROVE  LET u == Between(p, i, j)
             r == Between(p, i, Len(p))
         IN  /\ u \in Seq(S) /\ Len(u) = j - i /\ r \in Seq(S) /\ Len(r) = Len(p) - i
             /\ Agree(u, r, j - i)
<1> DEFINE u == SubSeq(p, i + 1, j)
           r == SubSeq(p, i + 1, Len(p))
<1>0. Len(p) \in Nat
  OBVIOUS
<1>1. u \in Seq(S) /\ Len(u) = j - i /\ \A k \in 1 .. j - i : u[k] = p[(i + 1) + k - 1]
  <2>1. i + 1 \in 1 .. Len(p) + 1 /\ j \in (i + 1) - 1 .. Len(p)
    BY <1>0
  <2>2. u \in Seq(S) /\ Len(u) = j - (i + 1) + 1
        /\ \A k \in 1 .. j - (i + 1) + 1 : u[k] = p[(i + 1) + k - 1]
    BY <2>1, Cut
  <2> HIDE DEF u
  <2>3. j - (i + 1) + 1 = j - i
    OBVIOUS
  <2> QED  BY <2>2, <2>3
<1>2. r \in Seq(S) /\ Len(r) = Len(p) - i
      /\ \A k \in 1 .. Len(p) - i : r[k] = p[(i + 1) + k - 1]
  <2>1. i + 1 \in 1 .. Len(p) + 1 /\ Len(p) \in (i + 1) - 1 .. Len(p)
    BY <1>0
  <2>2. r \in Seq(S) /\ Len(r) = Len(p) - (i + 1) + 1
        /\ \A k \in 1 .. Len(p) - (i + 1) + 1 : r[k] = p[(i + 1) + k - 1]
    BY <2>1, Cut
  <2> HIDE DEF r
  <2>3. Len(p) - (i + 1) + 1 = Len(p) - i
    BY <1>0
  <2> QED  BY <2>2, <2>3
<1> HIDE DEF u, r
<1>3. ASSUME NEW k \in 1 .. j - i PROVE u[k] = r[k]
  <2>1. k \in 1 .. Len(p) - i
    BY <1>0
  <2> QED  BY <2>1, <1>1, <1>2
<1>4. ASSUME NEW n \in 0 .. j - i PROVE SubSeq(u, 1, n) = SubSeq(r, 1, n)
  <2> DEFINE a == SubSeq(u, 1, n)
             b == SubSeq(r, 1, n)
  <2>0. /\ 1 \in 1 .. Len(u) + 1 /\ n \in 1 - 1 .. Len(u)
        /\ 1 \in 1 .. Len(r) + 1 /\ n \in 1 - 1 .. Len(r)
    BY <1>0, <1>1, <1>2
  <2>1. a \in Seq(S) /\ Len(a) = n - 1 + 1 /\ \A k \in 1 .. n - 1 + 1 : a[k] = u[1 + k - 1]
    BY <2>0, <1>1, Cut
  <2>2. b \in Seq(S) /\ Len(b) = n - 1 + 1 /\ \A k \in 1 .. n - 1 + 1 : b[k] = r[1 + k - 1]
    BY <2>0, <1>2, Cut
  <2> HIDE DEF a, b
  <2>3. ASSUME NEW k \in 1 .. n PROVE a[k] = b[k]
    <3>1. k \in 1 .. n - 1 + 1 /\ 1 + k - 1 = k /\ k \in 1 .. j - i
      OBVIOUS
    <3> QED  BY <3>1, <2>1, <2>2, <1>3
  <2>4. a = b
    <3>1. Len(a) = n /\ Len(b) = n
      BY <2>1, <2>2
    <3> QED  BY <3>1, <2>1, <2>2, <2>3, Same
  <2> QED  BY <2>4 DEF a, b
<1>5. Agree(u, r, j - i)
  BY <1>3, <1>4 DEF Agree
<1> QED  BY <1>1, <1>2, <1>5 DEF u, r, Between

\* A step that has its bytes reads the same when there are more of them.
LEMMA NeedSame ==
  ASSUME NEW t, ParserOK(t), NEW u \in Seq(Byte), NEW r \in Seq(Byte),
         Len(u) <= Len(r), \A k \in 1 .. Len(u) : u[k] = r[k], dbuffer_can_read(t, u)
  PROVE  dbuffer_can_read(t, r) /\ Takes(t, r) = Takes(t, u)
<1>1. Need(t, u) \in Nat /\ Need(t, u) <= Len(u) /\ Len(u) \in Nat /\ Len(r) \in Nat
  BY NeedOK DEF dbuffer_can_read
<1>2. ASSUME Len(u) >= 1 PROVE u # <<>> /\ r # <<>> /\ u[1] = r[1]
  <2>1. 1 \in 1 .. Len(u)
    BY <1>1, <1>2
  <2>2. Len(r) # 0
    BY <1>1, <1>2
  <2> QED  BY <2>1, <2>2, <1>2
<1>3. CASE t.where \in Varints
  <2>1. Need(t, u) >= 1
    BY <1>3, VarintNeed
  <2>2. u # <<>> /\ r # <<>> /\ u[1] = r[1]
    BY <1>1, <1>2, <2>1
  <2>3. Need(t, r) = Need(t, u)
    BY <2>2, <1>3 DEF Need, Fixed, Varints, Blocks
  <2>4. t.where # "check_segwit"
    BY <1>3 DEF Varints
  <2> QED  BY <1>1, <2>3, <2>4 DEF Takes, dbuffer_can_read
<1>4. CASE t.where = "check_segwit"
  <2>1. Need(t, u) = IF u # <<>> /\ u[1] = 0 THEN 2 ELSE 1
    BY <1>4 DEF Need, Fixed, Varints, Blocks
  <2>2. u # <<>> /\ r # <<>> /\ u[1] = r[1]
    BY <1>1, <1>2, <2>1
  <2>3. Need(t, r) = Need(t, u)
    BY <2>2, <1>4 DEF Need, Fixed, Varints, Blocks
  <2> QED  BY <1>1, <2>2, <2>3 DEF Takes, dbuffer_can_read
<1>5. CASE t.where \notin Varints \cup {"check_segwit"}
  <2>1. Need(t, r) = Need(t, u)
    BY <1>5 DEF Need
  <2> QED  BY <1>1, <1>5, <2>1 DEF Takes, dbuffer_can_read
<1> QED  BY <1>3, <1>4, <1>5
-----------------------------------------------------------------------------
\* The state before the first byte has its type.
LEMMA StartOK ==
  ASSUME NEW i
  PROVE  ParserOK(InitState(i)) /\ InitState(i).where = "version"
<1> DEFINE t == InitState(i)
<1>1. t.where = "version" /\ t.error = FALSE /\ t.size = 0 /\ t.done = 0
  BY DEF InitState
<1>2. t = [f \in DOMAIN t |-> t[f]]
  BY DEF InitState
<1>3. DOMAIN t = Fields
  BY FieldNames DEF InitState
<1> HIDE DEF t
<1>4. "version" \in Steps
  BY DEF Steps, Fixed
<1>5. ParserOK(t)
  <2>1. t = [f \in Fields |-> t[f]]
    BY <1>2, <1>3
  <2>2. 0 \in Nat /\ 0 \in 0 .. 0
    OBVIOUS
  <2> QED  BY <1>1, <1>4, <2>1, <2>2, Zenon DEF ParserOK
<1> QED  BY <1>1, <1>5 DEF t

\* Before the first byte the parser waits for the version.
LEMMA InitIInv == Init => IInv
<1> SUFFICES ASSUME Init PROVE IInv
  OBVIOUS
<1>1. PICK i \in Indices : s = InitState(i)
  BY DEF Init
<1>2. ParserOK(s) /\ s.where = "version"
  BY <1>1, StartOK
<1>3. bytes \in Streams /\ sent = 0 /\ pos = 0 /\ store = <<>> /\ off = 0 /\ data = <<>>
      /\ pc = "waiting" /\ result = "none"
  BY DEF Init
<1>4. bytes \in Seq(Byte) /\ Len(bytes) \in Nat
  BY <1>3, StreamsOK DEF Byte
<1>5. TypeOK
  <2>1. store \in Seq(0 .. Base - 1) /\ Len(store) = 0 /\ data \in Seq(0 .. Base - 1) /\ Len(data) = 0
    BY <1>3
  <2> QED  BY <1>2, <1>3, <1>4, <2>1, SizesOK, StreamsOK DEF TypeOK
<1>6. Unread = <<>>
  <2>1. Unread \in Seq(Byte) /\ Len(Unread) = 0
    BY <1>3, <1>5, UnreadOK
  <2> QED  BY <2>1
<1>7. Between(bytes, pos, sent) = <<>>
  <2>1. SubSeq(bytes, 1, 0) \in Seq(Byte) /\ Len(SubSeq(bytes, 1, 0)) = 0 - 1 + 1
    <3>1. 1 \in 1 .. Len(bytes) + 1 /\ 0 \in 1 - 1 .. Len(bytes)
      BY <1>4
    <3> QED  BY <3>1, <1>4, Cut
  <2>2. SubSeq(bytes, 1, 0) = <<>>
    BY <2>1
  <2> QED  BY <2>2, <1>3 DEF Between
<1>8. ~dbuffer_can_read(s, Unread)
  <2>1. Need(s, Unread) = Width["version"]
    BY <1>2 DEF Need, Fixed, Varints, Blocks
  <2>2. Width["version"] >= 1 /\ Width["version"] \in Int
    BY SizesOK DEF Fixed
  <2>3. Len(Unread) = 0
    BY <1>6
  <2> QED  BY <2>1, <2>2, <2>3 DEF dbuffer_can_read
<1> QED  BY <1>3, <1>5, <1>6, <1>7, <1>8 DEF IInv

\* How many of n bytes come from the first buffer, and how many from the second.
LEMMA Shares ==
  ASSUME NEW n \in Nat, NEW o \in Nat, NEW l \in Nat, NEW d \in Nat, o <= l,
         n <= l - o + d
  PROVE  /\ Min2(n, l - o) \in Nat /\ n - Min2(n, l - o) \in Nat
         /\ o + Min2(n, l - o) <= l /\ n - Min2(n, l - o) <= d
         /\ (n - Min2(n, l - o) = 0 \/ o + Min2(n, l - o) = l)
<1>1. CASE n < l - o
  <2>1. Min2(n, l - o) = n
    BY <1>1 DEF Min2
  <2> QED  BY <2>1, <1>1
<1>2. CASE ~(n < l - o)
  <2>1. Min2(n, l - o) = l - o
    BY <1>2 DEF Min2
  <2> QED  BY <2>1, <1>2
<1> QED  BY <1>1, <1>2

\* What is left of the two buffers after dbuffer_read_bytes.
LEMMA ReadLeaves ==
  ASSUME TypeOK, NEW n \in Nat, n <= Len(Unread), dbuffer_read_bytes(n), store' = store
  PROVE  /\ Unread' = SubSeq(Unread, n + 1, Len(Unread))
         /\ off' \in 0 .. Len(store)
         /\ data' \in Seq(Byte) /\ Len(data') <= MaxPiece
<1>1. /\ store \in Seq(Byte) /\ data \in Seq(Byte)
      /\ Len(store) \in Nat /\ off \in Nat /\ off <= Len(store)
      /\ Len(data) \in Nat /\ Len(data) <= MaxPiece /\ MaxPiece \in Nat
  BY StreamsOK DEF TypeOK, Byte
<1>2. Len(Unread) = Len(store) - off + Len(data)
  BY UnreadOK
<1>3. PICK m \in Nat : /\ m = Min2(n, Len(store) - off) /\ off + m <= Len(store)
                       /\ n - m \in Nat /\ n - m <= Len(data)
                       /\ (n - m = 0 \/ off + m = Len(store))
  <2>1. n <= Len(store) - off + Len(data)
    BY <1>2
  <2>2. LET m == Min2(n, Len(store) - off)
        IN  /\ m \in Nat /\ n - m \in Nat
            /\ off + m <= Len(store) /\ n - m <= Len(data)
            /\ (n - m = 0 \/ off + m = Len(store))
    BY <1>1, <2>1, Shares
  <2> QED  BY <2>2
<1>4. PICK r \in Nat : r = n - m /\ r <= Len(data) /\ (r = 0 \/ off + m = Len(store))
  BY <1>3
<1>5. off' = off + m /\ data' = SubSeq(data, r + 1, Len(data))
  BY <1>3, <1>4 DEF dbuffer_read_bytes
<1>6. SubSeq(store, off + m + 1, Len(store)) \o SubSeq(data, r + 1, Len(data))
        = SubSeq(Unread, m + r + 1, Len(Unread))
  <2>1. Reads(store, data, off, m, r)
    BY <1>3, <1>4 DEF Reads
  <2>2. Leaves(store, data, off, m, r, SubSeq(store, off + 1, Len(store)) \o data)
    BY <1>1, <2>1, Drop
  <2> QED  BY <2>2 DEF Leaves, Unread
<1>7. m + r = n
  BY <1>3, <1>4
<1>8. data' \in Seq(Byte) /\ Len(data') = Len(data) - (r + 1) + 1
  <2>1. r + 1 \in 1 .. Len(data) + 1 /\ Len(data) \in (r + 1) - 1 .. Len(data)
    BY <1>1, <1>4
  <2> QED  BY <2>1, <1>1, <1>5, Cut
<1>9. Unread' = SubSeq(store, off + m + 1, Len(store)) \o SubSeq(data, r + 1, Len(data))
  BY <1>5 DEF Unread
<1>10. off' \in 0 .. Len(store) /\ Len(data') <= MaxPiece
  <2>1. off + m \in 0 .. Len(store)
    BY <1>1, <1>3
  <2>2. Len(data) - (r + 1) + 1 <= MaxPiece
    BY <1>1, <1>4
  <2> QED  BY <2>1, <2>2, <1>5, <1>8
<1> QED  BY <1>6, <1>7, <1>8, <1>9, <1>10

\* A step that has its bytes is not stuck.
LEMMA NotStuck ==
  ASSUME TypeOK, dbuffer_can_read(s, Unread)
  PROVE  ~Stuck(s)
<1> SUFFICES ASSUME Stuck(s) PROVE FALSE
  OBVIOUS
<1>1. Unread \in Seq(Byte) /\ Len(Unread) \in Nat /\ Len(Unread) < UintMod \div 2
      /\ ParserOK(s)
  BY UnreadOK DEF TypeOK
<1>2. Need(s, Unread) = DataLen(s) /\ DataLen(s) >= UintMod \div 2
  BY StuckNeed DEF Stuck
<1>3. UintMod \div 2 \in Nat /\ Need(s, Unread) \in Nat
  BY <1>1, NeedOK, SizesOK
<1> QED  BY <1>1, <1>2, <1>3 DEF dbuffer_can_read

\* A step of the parser: the unread bytes stay the ones between what was read and
\* what was sent.
LEMMA RunIInv == IInv /\ parser_run => IInv'
<1> SUFFICES ASSUME IInv, parser_run PROVE IInv'
  OBVIOUS
<1>0. TypeOK /\ pc = "parsing" /\ ~Halted(s) /\ dbuffer_can_read(s, Unread)
  BY DEF IInv, parser_run
<1>1. Unread \in Seq(Byte) /\ Len(Unread) < UintMod \div 2 /\ Len(Unread) \in Nat
  BY <1>0, UnreadOK
<1>2. PICK n \in Nat : n = Takes(s, Unread) /\ n <= Len(Unread)
  BY <1>0, <1>1, TakesOK DEF TypeOK
<1>3. /\ s' = Parse(s, SubSeq(Unread, 1, n)) /\ pos' = pos + n /\ dbuffer_read_bytes(n)
      /\ bytes' = bytes /\ sent' = sent /\ store' = store /\ pc' = pc /\ result' = result
  BY <1>2 DEF parser_run
<1>4. ParserOK(s')
  BY <1>0, <1>1, <1>2, <1>3, ParseOK DEF TypeOK
<1>5. /\ Unread' = Between(Unread, n, Len(Unread))
      /\ off' \in 0 .. Len(store) /\ data' \in Seq(Byte) /\ Len(data') <= MaxPiece
  BY <1>0, <1>2, <1>3, ReadLeaves DEF Between
<1>6. Unread = Between(bytes, pos, sent)
  BY <1>0, NotStuck DEF IInv
<1>7. /\ bytes \in Seq(Byte) /\ Len(bytes) \in Nat /\ pos \in Nat /\ sent \in Nat
      /\ pos <= sent /\ sent <= Len(bytes)
  BY StreamsOK DEF IInv, TypeOK, Byte
<1>8. Len(Unread) = sent - pos
  BY <1>6, <1>7, Start
<1>9. n <= sent - pos
  BY <1>2, <1>8
<1>10. Unread' = Between(bytes, pos + n, sent)
  <2>1. Between(Between(bytes, pos, sent), n, Len(Between(bytes, pos, sent)))
          = Between(bytes, pos + n, sent)
    BY <1>7, <1>9, Suffix
  <2> QED  BY <2>1, <1>5, <1>6
<1>11. pos' \in 0 .. Len(bytes) /\ pos' <= sent'
  BY <1>3, <1>7, <1>9
<1>12. TypeOK'
  <2>1. bytes \in Streams /\ sent \in 0 .. Len(bytes) /\ store \in Seq(0 .. Base - 1)
        /\ Len(store) <= Chunk /\ result \in {"none", "ok", "failed"}
    BY <1>0 DEF TypeOK
  <2> QED  BY <2>1, <1>0, <1>3, <1>4, <1>5, <1>11 DEF TypeOK, Byte
<1>13. pc' = "parsing" /\ result' = "none"
  BY <1>0, <1>3 DEF IInv
<1> QED  BY <1>3, <1>10, <1>11, <1>12, <1>13 DEF IInv

\* The bound of UnreadOK in a form that holds of the next state too.
LEMMA UnreadBound == TypeOK => Len(Unread) < UintMod \div 2 /\ Len(Unread) \in Nat
BY UnreadOK

\* Outside cb_process_data the unread bytes are the store.
LEMMA WaitingUnread ==
  ASSUME NEW st \in Seq(Byte)
  PROVE  SubSeq(st, 0 + 1, Len(st)) \o <<>> = st
<1>1. SubSeq(st, 1, Len(st)) = st
  BY SubSeqFull
<1>2. 0 + 1 = 1
  OBVIOUS
<1> QED  BY <1>1, <1>2, ConcatEmptySeq

\* When the parser returns, the store takes what is unread; if it cannot, the
\* parser is stuck.
LEMMA ReturnsIInv == IInv /\ parser_returns => IInv'
<1> SUFFICES ASSUME IInv, parser_returns PROVE IInv'
  OBVIOUS
<1>0. /\ TypeOK /\ pc = "parsing" /\ result = "none" /\ pos <= sent
      /\ off' = 0 /\ data' = <<>> /\ pc' = "waiting"
      /\ bytes' = bytes /\ sent' = sent /\ pos' = pos /\ s' = s /\ result' = result
  BY DEF IInv, parser_returns
<1>1. /\ Unread \in Seq(Byte) /\ Len(Unread) \in Nat
  BY <1>0, UnreadOK
<1>2. ASSUME store' \in Seq(Byte), Len(store') <= Chunk PROVE TypeOK'
  <2>1. /\ bytes \in Streams /\ sent \in 0 .. Len(bytes) /\ pos \in 0 .. Len(bytes)
        /\ ParserOK(s) /\ result \in {"none", "ok", "failed"}
    BY <1>0 DEF TypeOK
  <2>2. <<>> \in Seq(0 .. Base - 1) /\ Len(<<>>) <= MaxPiece
    BY StreamsOK
  <2>3. 0 \in 0 .. Len(store')
    BY <1>2
  <2> QED  BY <1>0, <1>2, <2>1, <2>2, <2>3 DEF TypeOK, Byte
<1>3. /\ store \in Seq(Byte) /\ Len(store) <= Chunk /\ Chunk \in Nat
  BY <1>0, SizesOK DEF TypeOK, Byte
<1>4. CASE Halted(s) /\ store' = store
  <2>1. TypeOK'
    BY <1>2, <1>3, <1>4
  <2> QED  BY <1>0, <1>4, <2>1 DEF IInv
<1>5. CASE ~Halted(s) /\ ~dbuffer_can_read(s, Unread) /\ parser_consolidate_buffers
  <2>1. CASE Len(Unread) > Chunk
    <3>1. store' = store
      BY <1>5, <2>1 DEF parser_consolidate_buffers
    <3>2. TypeOK'
      BY <1>2, <1>3, <3>1
    <3>3. Need(s, Unread) >= UintMod \div 2
      BY <1>0, <1>1, <1>3, <1>5, <2>1, StoreLemma DEF StoreSuffices
    <3>4. Stuck(s)
      BY <1>0, <3>3, NeedStuck DEF TypeOK
    <3>5. ~dbuffer_can_read(s', Unread')
      <4>1. Len(Unread') < UintMod \div 2 /\ Len(Unread') \in Nat
        <5>1. (Len(Unread) < UintMod \div 2 /\ Len(Unread) \in Nat)'
          BY <3>2, UnreadBound, PTL
        <5> QED  BY <5>1
      <4>2. Need(s', Unread') = DataLen(s) /\ DataLen(s) >= UintMod \div 2
        BY <1>0, <3>4, StuckNeed DEF Stuck
      <4>3. UintMod \div 2 \in Nat /\ DataLen(s) \in Int
        <5>1. Need(s, Unread) \in Nat /\ Need(s, Unread) = DataLen(s)
          BY <1>0, <1>1, <3>4, NeedOK, StuckNeed DEF TypeOK
        <5> QED  BY <5>1, SizesOK
      <4> QED  BY <4>1, <4>2, <4>3 DEF dbuffer_can_read
    <3> QED  BY <1>0, <1>5, <3>2, <3>4, <3>5 DEF IInv
  <2>2. CASE ~(Len(Unread) > Chunk)
    <3>1. store' = Unread
      BY <1>5, <2>2 DEF parser_consolidate_buffers
    <3>2. TypeOK'
      BY <1>1, <1>2, <1>3, <2>2, <3>1
    <3>3. Unread' = Unread
      <4>1. SubSeq(Unread, 0 + 1, Len(Unread)) \o <<>> = Unread
        BY <1>1, WaitingUnread
      <4>2. Unread' = SubSeq(store', off' + 1, Len(store')) \o data'
        BY DEF Unread
      <4> QED  BY <1>0, <3>1, <4>1, <4>2
    <3>4. Stuck(s) \/ Unread = Between(bytes, pos, sent)
      BY <1>5 DEF IInv
    <3> QED  BY <1>0, <1>5, <3>2, <3>3, <3>4 DEF IInv
  <2> QED  BY <2>1, <2>2
<1> QED  BY <1>4, <1>5 DEF parser_returns

\* The next piece continues what is unread.
LEMMA PieceIInv ==
  ASSUME NEW n \in 0 .. MaxPiece, IInv, cb_process_data(n)
  PROVE  IInv'
<1>0. /\ TypeOK /\ pc = "waiting" /\ result = "none" /\ pos <= sent /\ off = 0 /\ data = <<>>
      /\ sent' = sent + n /\ sent + n <= Len(bytes)
      /\ bytes' = bytes /\ pos' = pos /\ s' = s /\ result' = result /\ store' = store
      /\ off' = off
  BY DEF IInv, cb_process_data
<1>1. /\ bytes \in Streams /\ bytes \in Seq(Byte) /\ Len(bytes) \in Nat
      /\ pos \in Nat /\ sent \in Nat /\ sent <= Len(bytes)
      /\ store \in Seq(Byte) /\ Len(store) <= Chunk /\ MaxPiece \in Nat /\ ParserOK(s)
  BY <1>0, StreamsOK DEF TypeOK, Byte
<1>2. sent' \in 0 .. Len(bytes) /\ pos \in 0 .. Len(bytes) /\ pos <= sent'
  BY <1>0, <1>1
<1>3. CASE s.error
  <2>1. data' = data /\ pc' = pc
    BY <1>3 DEF cb_process_data
  <2>2. TypeOK'
    BY <1>0, <1>2, <2>1 DEF TypeOK
  <2>3. Halted(s)
    BY <1>3 DEF Halted
  <2> QED  BY <1>0, <1>2, <2>1, <2>2, <2>3 DEF IInv
<1>4. CASE ~s.error
  <2>1. data' = SubSeq(bytes, sent + 1, sent + n) /\ pc' = "parsing"
    BY <1>4 DEF cb_process_data
  <2>2. data' \in Seq(Byte) /\ Len(data') = (sent + n) - (sent + 1) + 1
    <3>1. sent + 1 \in 1 .. Len(bytes) + 1 /\ sent + n \in (sent + 1) - 1 .. Len(bytes)
      BY <1>0, <1>1
    <3> QED  BY <1>1, <2>1, <3>1, Cut
  <2>3. Len(data') <= MaxPiece
    BY <1>1, <2>2
  <2>4. TypeOK'
    <3>1. store \in Seq(0 .. Base - 1) /\ off \in 0 .. Len(store)
          /\ result \in {"none", "ok", "failed"}
      BY <1>0 DEF TypeOK
    <3> QED  BY <1>0, <1>1, <1>2, <2>1, <2>2, <2>3, <3>1 DEF TypeOK, Byte
  <2>5. Unread = store
    BY <1>0, <1>1, WaitingUnread DEF Unread
  <2>6. Unread' = store \o data'
    <3>1. SubSeq(store, 1, Len(store)) = store
      BY <1>1, SubSeqFull
    <3>2. Unread' = SubSeq(store', off' + 1, Len(store')) \o data'
      BY DEF Unread
    <3>3. off' + 1 = 1
      BY <1>0
    <3> QED  BY <1>0, <3>1, <3>2, <3>3
  <2>7. ASSUME Unread = Between(bytes, pos, sent)
        PROVE  Unread' = Between(bytes, pos, sent + n)
    <3>1. pos + 1 \in 1 .. Len(bytes) + 1 /\ sent \in (pos + 1) - 1 .. Len(bytes)
          /\ sent + n \in sent .. Len(bytes)
      BY <1>0, <1>1
    <3>2. SubSeq(bytes, pos + 1, sent) \o SubSeq(bytes, sent + 1, sent + n)
            = SubSeq(bytes, pos + 1, sent + n)
      BY <1>1, <3>1, ConcatAdjacentSubSeq
    <3> QED  BY <2>1, <2>5, <2>6, <2>7, <3>2 DEF Between
  <2>8. Halted(s) \/ Stuck(s) \/ Unread = Between(bytes, pos, sent)
    BY DEF IInv
  <2> QED  BY <1>0, <1>2, <2>1, <2>4, <2>7, <2>8 DEF IInv
<1> QED  BY <1>3, <1>4

\* The call returns, or nothing happens.
LEMMA EndIInv ==
  ASSUME IInv, stream_fails \/ stream_ends \/ UNCHANGED vars
  PROVE  IInv'
<1>1. /\ bytes' = bytes /\ sent' = sent /\ pos' = pos /\ s' = s /\ store' = store
      /\ off' = off /\ data' = data /\ pc' = pc
  BY DEF stream_fails, stream_ends, vars
<1>2. result' = result \/ (pc = "waiting" /\ result' \in {"ok", "failed"})
  BY DEF stream_fails, stream_ends, vars
<1>3. TypeOK'
  BY <1>1, <1>2 DEF IInv, TypeOK
<1>4. Unread' = Unread
  BY <1>1 DEF Unread
<1> QED  BY <1>1, <1>2, <1>3, <1>4 DEF IInv

\* Every step keeps the invariant.
LEMMA NextIInv == IInv /\ [Next]_vars => IInv'
<1> SUFFICES ASSUME IInv, [Next]_vars PROVE IInv'
  OBVIOUS
<1>1. CASE parser_run
  BY <1>1, RunIInv
<1>2. CASE parser_returns
  BY <1>2, ReturnsIInv
<1>3. CASE \E n \in 0 .. MaxPiece : cb_process_data(n)
  BY <1>3, PieceIInv
<1>4. CASE stream_fails \/ stream_ends \/ UNCHANGED vars
  BY <1>4, EndIInv
<1> QED  BY <1>1, <1>2, <1>3, <1>4 DEF Next, Returned

\* The inductive invariant of the parser.
LEMMA Invariance == Spec => []IInv
BY InitIInv, NextIInv, PTL DEF Spec

\* The buffers of call_psbt_parse_rawtx never hold more than they have room for,
\* and the parser is always in one of its steps, with a block that is not overrun.
THEOREM TypeCorrect == Spec => []TypeOK
<1>1. IInv => TypeOK
  BY DEF IInv
<1> QED  BY <1>1, Invariance, PTL

\* The comment "we can always interrupt with less than 32 unparsed bytes" holds for
\* every transaction and every way to cut it, unless a size is negative as an int.
THEOREM Suffices == Spec => []StoreSuffices
BY TypeCorrect, StoreLemma, PTL

\* A step of the parser that has some bytes is the step that has them all.
LEMMA RunRefines ==
  ASSUME IInv, parser_run
  PROVE  Whole!Read
<1>0. TypeOK /\ pc = "parsing" /\ ~Halted(s) /\ dbuffer_can_read(s, Unread) /\ result = "none"
  BY DEF IInv, parser_run
<1>1. Unread \in Seq(Byte) /\ Len(Unread) \in Nat /\ ParserOK(s)
  BY <1>0, UnreadOK DEF TypeOK
<1>2. PICK n \in Nat : n = Takes(s, Unread) /\ n <= Len(Unread)
  BY <1>0, <1>1, TakesOK
<1>3. Unread = Between(bytes, pos, sent)
  BY <1>0, NotStuck DEF IInv
<1>4. /\ bytes \in Seq(Byte) /\ Len(bytes) \in Nat /\ pos \in Nat /\ sent \in Nat
      /\ pos <= sent /\ sent <= Len(bytes)
  BY StreamsOK DEF IInv, TypeOK, Byte
<1> DEFINE r == Between(bytes, pos, Len(bytes))
<1>5. /\ Len(Unread) = sent - pos /\ r \in Seq(Byte) /\ Len(r) = Len(bytes) - pos
      /\ \A k \in 1 .. sent - pos : Unread[k] = r[k]
      /\ \A k \in 0 .. sent - pos : SubSeq(Unread, 1, k) = SubSeq(r, 1, k)
  <2>1. /\ Len(Between(bytes, pos, sent)) = sent - pos
        /\ r \in Seq(Byte) /\ Len(r) = Len(bytes) - pos
        /\ Agree(Between(bytes, pos, sent), r, sent - pos)
    BY <1>4, Start, ZenonT(60)
  <2> HIDE DEF r
  <2> QED  BY <2>1, <1>3 DEF Agree
<1> HIDE DEF r
<1>6. Len(Unread) <= Len(r) /\ \A k \in 1 .. Len(Unread) : Unread[k] = r[k]
  BY <1>4, <1>5
<1>7. dbuffer_can_read(s, r) /\ Takes(s, r) = n
  BY <1>0, <1>1, <1>2, <1>5, <1>6, NeedSame
<1>8. SubSeq(Unread, 1, n) = SubSeq(r, 1, n)
  BY <1>2, <1>4, <1>5
<1>9. s' = Parse(s, SubSeq(r, 1, Takes(s, r))) /\ pos' = pos + Takes(s, r)
      /\ bytes' = bytes /\ result' = result
  BY <1>2, <1>7, <1>8 DEF parser_run
<1>10. r = Whole!Rest
  BY DEF r, Between, Whole!Rest
<1> QED  BY <1>0, <1>7, <1>9, <1>10 DEF Whole!Read

\* When all was sent the parser can go on only if it could with the whole stream.
LEMMA EndRefines ==
  ASSUME IInv, stream_ends
  PROVE  Whole!Fail \/ Whole!Succeed
<1>0. /\ TypeOK /\ pc = "waiting" /\ result = "none" /\ sent = Len(bytes)
      /\ result' = (IF s.error THEN "failed" ELSE "ok")
      /\ bytes' = bytes /\ pos' = pos /\ s' = s
  BY DEF IInv, stream_ends
<1>1. CASE s.error
  BY <1>0, <1>1 DEF Whole!Fail
<1>2. CASE ~s.error
  <2>1. ASSUME ~Halted(s) PROVE ~dbuffer_can_read(s, Whole!Rest)
    <3>1. CASE Stuck(s)
      <4>1. Need(s, Whole!Rest) = DataLen(s) /\ DataLen(s) >= UintMod \div 2
        BY <3>1, StuckNeed DEF Stuck
      <4>2. Len(Whole!Rest) < UintMod \div 2 /\ Len(Whole!Rest) \in Nat
        <5>1. /\ bytes \in Seq(Byte) /\ Len(bytes) \in Nat /\ pos \in Nat
              /\ pos <= Len(bytes) /\ Len(bytes) < UintMod \div 2 /\ UintMod \div 2 \in Nat
          BY <1>0, StreamsOK, SizesOK DEF TypeOK, Byte
        <5>2. Len(Between(bytes, pos, Len(bytes))) = Len(bytes) - pos
          BY <5>1, Start
        <5> QED  BY <5>1, <5>2 DEF Whole!Rest, Between
      <4>3. UintMod \div 2 \in Nat /\ DataLen(s) \in Int
        <5>1. Unread \in Seq(Byte) /\ ParserOK(s)
          BY <1>0, UnreadOK DEF TypeOK
        <5>2. Need(s, Unread) \in Nat /\ Need(s, Unread) = DataLen(s)
          BY <3>1, <5>1, NeedOK, StuckNeed
        <5> QED  BY <5>2, SizesOK
      <4> QED  BY <4>1, <4>2, <4>3 DEF dbuffer_can_read
    <3>2. CASE ~Stuck(s)
      <4>1. Unread = Whole!Rest
        BY <1>0, <2>1, <3>2 DEF IInv, Between, Whole!Rest
      <4> QED  BY <1>0, <2>1, <4>1 DEF IInv
    <3> QED  BY <3>1, <3>2
  <2> QED  BY <1>0, <1>2, <2>1 DEF Whole!Succeed
<1> QED  BY <1>1, <1>2

\* call_psbt_parse_rawtx finds in a transaction that arrives in pieces what a
\* parser finds that has the whole of it: no cut of the client's changes the amount,
\* the script, the hash or the result.
THEOREM Refines == Spec => RefinesWhole
<1>1. Init => Whole!Init
  BY DEF Init, Whole!Init
<1>2. ASSUME IInv, [Next]_vars PROVE [Whole!Next]_(Whole!vars)
  <2>1. CASE parser_run
    BY <1>2, <2>1, RunRefines DEF Whole!Next
  <2>2. CASE parser_returns
    BY <2>2 DEF parser_returns, Whole!vars
  <2>3. CASE \E n \in 0 .. MaxPiece : cb_process_data(n)
    BY <2>3 DEF cb_process_data, Whole!vars
  <2>4. CASE stream_fails
    BY <2>4 DEF stream_fails, Whole!Next, Whole!Fail
  <2>5. CASE stream_ends
    BY <1>2, <2>5, EndRefines DEF Whole!Next
  <2>6. CASE UNCHANGED vars
    BY <2>6 DEF vars, Whole!vars
  <2> QED  BY <1>2, <2>1, <2>2, <2>3, <2>4, <2>5, <2>6 DEF Next, Returned
<1> QED  BY <1>1, <1>2, Invariance, PTL DEF Spec, RefinesWhole, Whole!Spec
=============================================================================
