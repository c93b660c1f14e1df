------------------------- MODULE Miniscript_proofs -------------------------
(***************************************************************************)
(* Miniscript: for every miniscript without thresh, of any size and over   *)
(* any keys and hashes, the types and the ext_info that the code computes  *)
(* say the truth about the witnesses of the script (Satisfaction). Each    *)
(* fragment has a rule: if its children are described correctly and the    *)
(* parser accepts it, then so is it.                                       *)
(***************************************************************************)
EXTENDS Miniscript, Satisfaction, WellFoundedInduction, TLAPS

CONSTANTS Keys, Hashes    \* the keys and the hashes that a policy names

\* The kinds of timelock: relative by time and by blocks, absolute by time and by height.
Locks == {"g", "h", "i", "j"}
\* What a witness is made of.
Elements ==
  {E0, E1, <<"junk", 1>>, <<"junk", 2>>}
  \cup ({"sig", "pk"} \X Keys) \cup ({"pre"} \X Hashes)
\* Witnesses and sets of them; kept folded in the proofs.
Witnesses == [w : Seq(Elements), l : SUBSET Locks]
Typed(A) == A \subseteq Witnesses

\* What the proofs use of concatenation.
LEMMA ConcatFacts ==
  ASSUME NEW S, NEW s \in Seq(S), NEW t \in Seq(S)
  PROVE  /\ s \o t \in Seq(S)
         /\ Len(s \o t) = Len(s) + Len(t) /\ Len(s) \in Nat /\ Len(t) \in Nat
         /\ \A i \in 1 .. Len(s) : (s \o t)[i] = s[i]
         /\ \A i \in 1 .. Len(t) : (s \o t)[i + Len(s)] = t[i]
         /\ DOMAIN (s \o t) = 1 .. Len(s) + Len(t)
         /\ DOMAIN s = 1 .. Len(s) /\ DOMAIN t = 1 .. Len(t)
         /\ Len(t) = 0 => s \o t = s
OBVIOUS

\* A signature occurs in w.
SigIn(w) == \E i \in DOMAIN w : w[i][1] = "sig"

\* A concatenation has a signature when one of its parts has.
LEMMA ConcatSig ==
  ASSUME NEW S, NEW s \in Seq(S), NEW t \in Seq(S)
  PROVE  SigIn(s \o t) <=> SigIn(s) \/ SigIn(t)
<1> DEFINE m == Len(s)
           n == Len(t)
           u == s \o t
<1>1. /\ m \in Nat /\ n \in Nat /\ DOMAIN s = 1 .. m /\ DOMAIN t = 1 .. n
      /\ DOMAIN u = 1 .. m + n
      /\ (\A i \in 1 .. m : u[i] = s[i]) /\ \A i \in 1 .. n : u[i + m] = t[i]
  BY ConcatFacts
<1> HIDE DEF m, n, u
<1>2. ASSUME SigIn(u) PROVE SigIn(s) \/ SigIn(t)
  <2>1. PICK i \in 1 .. m + n : u[i][1] = "sig"
    BY <1>1, <1>2 DEF SigIn
  <2>2. CASE i <= m
    <3>1. i \in 1 .. m
      BY <1>1, <2>1, <2>2
    <3>2. s[i][1] = "sig"
      BY <1>1, <2>1, <3>1
    <3> QED BY <1>1, <3>1, <3>2 DEF SigIn
  <2>3. CASE i > m
    <3>1. i - m \in 1 .. n /\ (i - m) + m = i
      BY <1>1, <2>1, <2>3
    <3>2. t[i - m][1] = "sig"
      BY <1>1, <2>1, <3>1
    <3> QED BY <1>1, <3>1, <3>2 DEF SigIn
  <2> QED BY <1>1, <2>1, <2>2, <2>3
<1>3. ASSUME SigIn(s) PROVE SigIn(u)
  <2>1. PICK i \in 1 .. m : s[i][1] = "sig"
    BY <1>1, <1>3 DEF SigIn
  <2>2. i \in 1 .. m + n /\ u[i][1] = "sig"
    BY <1>1, <2>1
  <2> QED BY <1>1, <2>2 DEF SigIn
<1>4. ASSUME SigIn(t) PROVE SigIn(u)
  <2>1. PICK i \in 1 .. n : t[i][1] = "sig"
    BY <1>1, <1>4 DEF SigIn
  <2>2. i + m \in 1 .. m + n
    BY <1>1, <2>1
  <2>3. u[i + m][1] = "sig"
    BY <1>1, <2>1
  <2> QED BY <1>1, <2>2, <2>3 DEF SigIn
<1>5. SigIn(u) <=> SigIn(s) \/ SigIn(t)
  BY <1>2, <1>3, <1>4
<1> QED BY <1>5 DEF u

\* The top of a concatenation is the top of its second part, if that has one.
LEMMA ConcatTop ==
  ASSUME NEW S, NEW s \in Seq(S), NEW t \in Seq(S), Len(t) > 0
  PROVE  (s \o t)[Len(s \o t)] = t[Len(t)]
<1>1. /\ Len(s \o t) = Len(t) + Len(s) /\ Len(t) \in 1 .. Len(t)
      /\ \A i \in 1 .. Len(t) : (s \o t)[i + Len(s)] = t[i]
  BY ConcatFacts
<1> QED BY <1>1

\* Unions, kept together.
Either(A, B) == A \cup B

\* Inclusion, kept folded.
Within(A, B) == A \subseteq B

\* One witness for two scripts in a row: the first finds its part on top.
Pair(a, b) == Sat(b.w \o a.w, a.l \cup b.l)

\* Length, signatures, timelocks and top element of a pair.
LEMMA PairFacts ==
  ASSUME NEW a \in Witnesses, NEW b \in Witnesses
  PROVE  /\ Pair(a, b) \in Witnesses
         /\ Pair(a, b).l = a.l \cup b.l /\ Pair(a, b).w = b.w \o a.w
         /\ Size(a) \in Nat /\ Size(b) \in Nat
         /\ Size(Pair(a, b)) = Size(a) + Size(b)
         /\ HasSig(Pair(a, b)) <=> HasSig(a) \/ HasSig(b)
         /\ Size(a) > 0 => TopOf(Pair(a, b)) = TopOf(a)
         /\ Size(a) = 0 => Pair(a, b).w = b.w /\ TopOf(Pair(a, b)) = TopOf(b)
<1>1. /\ a.w \in Seq(Elements) /\ b.w \in Seq(Elements)
      /\ a.l \in SUBSET Locks /\ b.l \in SUBSET Locks
  BY DEF Witnesses
<1>2. PICK s \in Seq(Elements) : s = b.w
  BY <1>1
<1>3. PICK t \in Seq(Elements) : t = a.w
  BY <1>1
<1>4. Pair(a, b).w = s \o t /\ Pair(a, b).l = a.l \cup b.l
  BY <1>2, <1>3 DEF Sat, Pair
<1>5. s \o t \in Seq(Elements)
  BY ConcatFacts
<1>6. Pair(a, b) \in Witnesses
  BY <1>1, <1>2, <1>3, <1>5 DEF Pair, Sat, Witnesses
<1>7. Size(a) = Len(t) /\ Size(b) = Len(s) /\ Size(Pair(a, b)) = Len(s \o t)
  BY <1>2, <1>3, <1>4 DEF Size
<1>8. Len(s \o t) = Len(t) + Len(s) /\ Len(s) \in Nat /\ Len(t) \in Nat
  BY ConcatFacts
<1>9. /\ HasSig(Pair(a, b)) <=> SigIn(s \o t)
      /\ HasSig(a) <=> SigIn(t)
      /\ HasSig(b) <=> SigIn(s)
  BY <1>2, <1>3, <1>4 DEF HasSig, SigIn
<1>10. /\ TopOf(Pair(a, b)) = (s \o t)[Len(s \o t)]
       /\ TopOf(a) = t[Len(t)] /\ TopOf(b) = s[Len(s)]
  BY <1>2, <1>3, <1>4 DEF TopOf
<1>11. Len(t) = 0 => s \o t = s
  BY ConcatFacts
<1>12. SigIn(s \o t) <=> SigIn(s) \/ SigIn(t)
  BY ConcatSig
<1>13. Size(a) > 0 => TopOf(Pair(a, b)) = TopOf(a)
  BY <1>7, <1>10, ConcatTop
<1>14. Size(a) = 0 => Pair(a, b).w = b.w /\ TopOf(Pair(a, b)) = TopOf(b)
  BY <1>2, <1>4, <1>7, <1>10, <1>11
<1>15. Size(a) \in Nat /\ Size(b) \in Nat /\ Size(Pair(a, b)) = Size(a) + Size(b)
  BY <1>7, <1>8
<1>16. HasSig(Pair(a, b)) <=> HasSig(a) \/ HasSig(b)
  BY <1>9, <1>12
<1> QED BY <1>2, <1>3, <1>4, <1>6, <1>13, <1>14, <1>15, <1>16

\* Then pairs the witnesses of two sets.
LEMMA ThenMember ==
  ASSUME NEW A, NEW B
  PROVE  /\ \A a \in A, b \in B : Pair(a, b) \in Then(A, B)
         /\ \A y \in Then(A, B) : \E a \in A, b \in B : y = Pair(a, b)
<1>1. ASSUME NEW a \in A, NEW b \in B PROVE Pair(a, b) \in Then(A, B)
  <2>1. <<a, b>> \in A \X B /\ <<a, b>>[1] = a /\ <<a, b>>[2] = b
    OBVIOUS
  <2> QED BY <2>1 DEF Then, Pair
<1>2. ASSUME NEW y \in Then(A, B)
      PROVE  \E a \in A, b \in B : y = Pair(a, b)
  <2>1. PICK p \in A \X B : y = Pair(p[1], p[2])
    BY <1>2 DEF Then, Pair
  <2> QED BY <2>1
<1> QED BY <1>1, <1>2

\* Pairs of witnesses are witnesses.
LEMMA ThenTyped ==
  ASSUME NEW A, NEW B, Typed(A), Typed(B)
  PROVE  Typed(Then(A, B))
<1> USE DEF Typed
<1>1. ASSUME NEW y \in Then(A, B) PROVE y \in Witnesses
  <2>1. PICK a \in A, b \in B : y = Pair(a, b)
    BY ThenMember
  <2> QED BY <2>1, PairFacts
<1> QED BY <1>1

\* Then is monotonic.
LEMMA ThenGrows ==
  ASSUME NEW A, NEW B, NEW C, NEW D, Within(A, C), Within(B, D)
  PROVE  Within(Then(A, B), Then(C, D))
BY ThenMember DEF Within

\* There is a pair unless one of the sets is empty.
LEMMA ThenEmpty ==
  ASSUME NEW A, NEW B
  PROVE  Then(A, B) = {} <=> A = {} \/ B = {}
BY ThenMember

\* Every pair has a signature when one of the sides always has one, and only then.
LEMMA ThenNeedsSig ==
  ASSUME NEW A, NEW B, Typed(A), Typed(B)
  PROVE  /\ NeedsSig(A) \/ NeedsSig(B) => NeedsSig(Then(A, B))
         /\ ~NeedsSig(A) /\ ~NeedsSig(B) => ~NeedsSig(Then(A, B))
<1> USE DEF Typed
<1>1. ASSUME NeedsSig(A) \/ NeedsSig(B), NEW y \in Then(A, B) PROVE HasSig(y)
  <2>1. PICK a \in A, b \in B : y = Pair(a, b)
    BY ThenMember
  <2>2. HasSig(a) \/ HasSig(b)
    BY <1>1 DEF NeedsSig
  <2> QED BY <2>1, <2>2, PairFacts
<1>2. ASSUME ~NeedsSig(A), ~NeedsSig(B) PROVE ~NeedsSig(Then(A, B))
  <2>1. PICK a \in A : ~HasSig(a)
    BY <1>2 DEF NeedsSig
  <2>2. PICK b \in B : ~HasSig(b)
    BY <1>2 DEF NeedsSig
  <2>3. Pair(a, b) \in Then(A, B)
    BY ThenMember
  <2>4. ~HasSig(Pair(a, b))
    BY <2>1, <2>2, PairFacts
  <2> QED BY <2>3, <2>4 DEF NeedsSig
<1> QED BY <1>1, <1>2 DEF NeedsSig

\* One unsigned witness on each side makes one unsigned pair.
LEMMA ThenOne ==
  ASSUME NEW A, NEW B, Typed(A), Typed(B),
         OneUnsigned(A), OneUnsigned(B)
  PROVE  OneUnsigned(Then(A, B))
<1> USE DEF Typed
<1>1. PICK a \in A : ~HasSig(a) /\ \A y \in A : ~HasSig(y) => y.w = a.w
  BY DEF OneUnsigned
<1>2. PICK b \in B : ~HasSig(b) /\ \A y \in B : ~HasSig(y) => y.w = b.w
  BY DEF OneUnsigned
<1> DEFINE x == Pair(a, b)
<1>3. x \in Then(A, B) /\ ~HasSig(x) /\ x.w = b.w \o a.w
  BY <1>1, <1>2, ThenMember, PairFacts
<1>4. ASSUME NEW y \in Then(A, B), ~HasSig(y) PROVE y.w = x.w
  <2>1. PICK c \in A, d \in B : y = Pair(c, d)
    BY ThenMember
  <2>2. ~HasSig(c) /\ ~HasSig(d) /\ y.w = d.w \o c.w
    BY <1>4, <2>1, PairFacts
  <2> QED BY <1>1, <1>2, <1>3, <2>2
<1> QED BY <1>3, <1>4 DEF OneUnsigned

\* The lengths that the flags z and o speak of add up.
LEMMA ThenLength ==
  ASSUME NEW A, NEW B, Typed(A), Typed(B)
  PROVE  /\ Length(A, 0) /\ Length(B, 0) => Length(Then(A, B), 0)
         /\ Length(A, 0) /\ Length(B, 1) => Length(Then(A, B), 1)
         /\ Length(A, 1) /\ Length(B, 0) => Length(Then(A, B), 1)
<1> USE DEF Typed
<1>1. ASSUME NEW y \in Then(A, B)
      PROVE  \E a \in A, b \in B : /\ Size(y) = Size(a) + Size(b)
                                   /\ Size(a) \in Nat /\ Size(b) \in Nat
  <2>1. PICK a \in A, b \in B : y = Pair(a, b)
    BY ThenMember
  <2> QED BY <2>1, PairFacts
<1> QED BY <1>1 DEF Length

\* The flag n of a pair: the first nonempty part gives the top element.
LEMMA ThenTop ==
  ASSUME NEW A, NEW B, Typed(A), Typed(B)
  PROVE  /\ TopNonZero(A) => TopNonZero(Then(A, B))
         /\ Length(A, 0) /\ TopNonZero(B) => TopNonZero(Then(A, B))
<1> USE DEF Typed
<1>1. ASSUME TopNonZero(A), NEW y \in Then(A, B)
      PROVE  Size(y) > 0 /\ TopOf(y) # E0
  <2>1. PICK a \in A, b \in B : y = Pair(a, b)
    BY ThenMember
  <2>2. Size(a) > 0 /\ TopOf(a) # E0
    BY <1>1 DEF TopNonZero
  <2>3. Size(y) = Size(a) + Size(b) /\ TopOf(y) = TopOf(a)
    BY <2>1, <2>2, PairFacts
  <2>4. Size(a) \in Nat /\ Size(b) \in Nat
    BY PairFacts
  <2> QED BY <2>2, <2>3, <2>4
<1>2. ASSUME Length(A, 0), TopNonZero(B), NEW y \in Then(A, B)
      PROVE  Size(y) > 0 /\ TopOf(y) # E0
  <2>1. PICK a \in A, b \in B : y = Pair(a, b)
    BY ThenMember
  <2>2. Size(a) = 0 /\ Size(b) > 0 /\ TopOf(b) # E0
    BY <1>2 DEF TopNonZero, Length
  <2>3. Size(y) = Size(a) + Size(b) /\ Size(b) \in Nat /\ TopOf(y) = TopOf(b)
    BY <2>1, <2>2, PairFacts
  <2> QED BY <2>2, <2>3
<1> QED BY <1>1, <1>2 DEF TopNonZero

\* sumcheck and maxcheck compute the longest witness, for every length.
LEMMA LongestThen ==
  ASSUME NEW A, NEW B, Typed(A), Typed(B), NEW m, NEW n,
         Longest(A, m), Longest(B, n)
  PROVE  Longest(Then(A, B), sumcheck(m, n))
<1> USE DEF Typed
<1>1. m \in Int /\ n \in Int /\ m >= -1 /\ n >= -1
  BY DEF Longest
<1>2. CASE m = -1 \/ n = -1
  <2>1. sumcheck(m, n) = -1
    BY <1>1, <1>2 DEF sumcheck
  <2>2. A = {} \/ B = {}
    BY <1>2 DEF Longest
  <2> QED BY <2>1, <2>2, ThenEmpty DEF Longest
<1>3. CASE m # -1 /\ n # -1
  <2>1. m \in Nat /\ n \in Nat /\ A # {} /\ B # {}
    BY <1>3 DEF Longest
  <2>2. Then(A, B) # {}
    BY <2>1, ThenEmpty
  <2>3. CASE m + n >= Saturated
    <3>1. sumcheck(m, n) = Saturated
      BY <2>1, <2>3 DEF sumcheck, INT16_MAX, Saturated
    <3> QED BY <2>2, <3>1 DEF Longest, Saturated
  <2>4. CASE m + n < Saturated
    <3>1. sumcheck(m, n) = m + n /\ m < Saturated /\ n < Saturated
      BY <2>1, <2>4 DEF sumcheck, INT16_MAX, Saturated
    <3>2. (\A x \in A : Size(x) <= m) /\ \E x \in A : Size(x) = m
      BY <1>3, <3>1 DEF Longest
    <3>3. (\A x \in B : Size(x) <= n) /\ \E x \in B : Size(x) = n
      BY <1>3, <3>1 DEF Longest
    <3>4. ASSUME NEW y \in Then(A, B) PROVE Size(y) <= m + n
      <4>1. PICK a \in A, b \in B : y = Pair(a, b)
        BY ThenMember
      <4>2. Size(y) = Size(a) + Size(b)
        BY <4>1, PairFacts
      <4>3. Size(a) \in Nat /\ Size(b) \in Nat /\ Size(a) <= m /\ Size(b) <= n
        BY <3>2, <3>3, PairFacts
      <4> QED BY <2>1, <4>2, <4>3
    <3>5. \E y \in Then(A, B) : Size(y) = m + n
      <4>1. PICK a \in A, b \in B : Size(a) = m /\ Size(b) = n
        BY <3>2, <3>3
      <4>2. Size(Pair(a, b)) = m + n
        BY <4>1, PairFacts
      <4> QED BY <4>2, ThenMember
    <3>6. m + n \in Nat /\ m + n # -1
      BY <2>1
    <3> QED BY <2>2, <3>1, <3>4, <3>5, <3>6 DEF Longest
  <2> QED BY <2>1, <2>3, <2>4 DEF Saturated
<1> QED BY <1>2, <1>3

\* sumcheck does not depend on the order of its arguments.
LEMMA SumCommutes ==
  ASSUME NEW A, NEW B, NEW m, NEW n, Longest(A, m), Longest(B, n)
  PROVE  sumcheck(m, n) = sumcheck(n, m)
<1>1. m \in Int /\ n \in Int
  BY DEF Longest
<1> QED BY <1>1 DEF sumcheck, INT16_MAX

\* maxcheck computes the longest of either set.
LEMMA LongestUnion ==
  ASSUME NEW A, NEW B, NEW m, NEW n, Longest(A, m), Longest(B, n),
         Typed(A), Typed(B)
  PROVE  Longest(Either(A, B), maxcheck(m, n))
<1> USE DEF Typed, Either
<1>1. m \in Int /\ n \in Int /\ m >= -1 /\ n >= -1
  BY DEF Longest
<1>2. CASE m = -1
  <2>1. maxcheck(m, n) = n /\ A \cup B = B
    BY <1>1, <1>2 DEF maxcheck, Longest
  <2> QED BY <2>1
<1>3. CASE m # -1 /\ n = -1
  <2>1. maxcheck(m, n) = m /\ A \cup B = A
    BY <1>1, <1>3 DEF maxcheck, Longest
  <2> QED BY <2>1
<1>4. CASE m # -1 /\ n # -1
  <2>0. m \in Nat /\ n \in Nat /\ A # {} /\ B # {}
    BY <1>4 DEF Longest
  <2>00. \A x \in A \cup B : Size(x) \in Nat
    BY PairFacts
  <2>1. CASE m > n
    <3>1. maxcheck(m, n) = m
      BY <2>0, <2>1 DEF maxcheck
    <3> QED BY <1>4, <2>0, <2>00, <2>1, <3>1 DEF Longest, Saturated
  <2>2. CASE m <= n
    <3>1. maxcheck(m, n) = n
      BY <2>0, <2>2 DEF maxcheck
    <3> QED BY <1>4, <2>0, <2>00, <2>2, <3>1 DEF Longest, Saturated
  <2> QED BY <2>0, <2>1, <2>2
<1> QED BY <1>1, <1>2, <1>3, <1>4

\* What holds of either set holds of their union.
LEMMA Unions ==
  ASSUME NEW A, NEW B
  PROVE  /\ NeedsSig(Either(A, B)) <=> NeedsSig(A) /\ NeedsSig(B)
         /\ \A n : Length(Either(A, B), n) <=> Length(A, n) /\ Length(B, n)
         /\ TopNonZero(Either(A, B)) <=> TopNonZero(A) /\ TopNonZero(B)
         /\ \A tl, k : LocksWithin(Either(A, B), tl, k)
                        <=> LocksWithin(A, tl, k) /\ LocksWithin(B, tl, k)
         /\ NoLocks(Either(A, B)) <=> NoLocks(A) /\ NoLocks(B)
<1>1. NeedsSig(Either(A, B)) <=> NeedsSig(A) /\ NeedsSig(B)
  BY DEF NeedsSig, Either
<1>2. \A n : Length(Either(A, B), n) <=> Length(A, n) /\ Length(B, n)
  BY DEF Length, Either
<1>3. TopNonZero(Either(A, B)) <=> TopNonZero(A) /\ TopNonZero(B)
  BY DEF TopNonZero, Either
<1>4. \A tl, k : LocksWithin(Either(A, B), tl, k)
                   <=> LocksWithin(A, tl, k) /\ LocksWithin(B, tl, k)
  BY DEF LocksWithin, Either
<1>5. NoLocks(Either(A, B)) <=> NoLocks(A) /\ NoLocks(B)
  BY DEF NoLocks, Either
<1> QED BY <1>1, <1>2, <1>3, <1>4, <1>5

\* A union is typed when its parts are.
LEMMA UnionTyped ==
  ASSUME NEW A, NEW B
  PROVE  Typed(Either(A, B)) <=> Typed(A) /\ Typed(B)
BY DEF Typed, Either

\* A part of a typed set is typed.
LEMMA TypedPart ==
  ASSUME NEW A, NEW B, Typed(B), Within(A, B)
  PROVE  Typed(A)
BY DEF Typed, Within

\* Signed witnesses do not add an unsigned one.
LEMMA UnionOne ==
  ASSUME NEW A, NEW B, OneUnsigned(A), NeedsSig(B)
  PROVE  OneUnsigned(Either(A, B)) /\ OneUnsigned(Either(B, A))
BY DEF OneUnsigned, NeedsSig, Either

\* Union is monotonic.
LEMMA UnionGrows ==
  ASSUME NEW A, NEW B, NEW C, NEW D, Within(A, C), Within(B, D)
  PROVE  Within(Either(A, B), Either(C, D)) /\ Within(A, Either(C, D))
  /\ Within(B, Either(C, D))
BY DEF Within, Either

\* A set is within itself.
LEMMA WithinSelf ==
  ASSUME NEW A
  PROVE  Within(A, A)
BY DEF Within

\* A union is empty when both parts are.
LEMMA UnionEmpty ==
  ASSUME NEW A, NEW B
  PROVE  Either(A, B) = {} <=> A = {} /\ B = {}
BY DEF Either

\* The empty set of witnesses.
LEMMA Empty ==
  /\ Typed({}) /\ Longest({}, -1) /\ NeedsSig({}) /\ NoLocks({})
  /\ TopNonZero({}) /\ (\A n : Length({}, n)) /\ \A tl, k : LocksWithin({}, tl, k)
BY DEF Longest, NeedsSig, NoLocks, TopNonZero, Length, LocksWithin, Typed

\* A set with an unsigned witness does not need a signature.
LEMMA OneIsUnsigned ==
  ASSUME NEW A, OneUnsigned(A)
  PROVE  ~NeedsSig(A)
BY DEF OneUnsigned, NeedsSig

\* A description of the timelocks may be weakened.
LEMMA LocksWeaken ==
  ASSUME NEW A, NEW tl, NEW k, LocksWithin(A, tl, k), NEW tl2, Within(tl, tl2),
         NEW k2, k2 => k
  PROVE  LocksWithin(A, tl2, k2)
BY DEF LocksWithin, Within

\* A side without timelocks adds none to the pairs.
LEMMA ThenNoLocks ==
  ASSUME NEW A, NEW B, Typed(A), Typed(B)
  PROVE  /\ NoLocks(A) /\ NoLocks(B) => NoLocks(Then(A, B))
         /\ \A tl, k : NoLocks(A) /\ LocksWithin(B, tl, k) => LocksWithin(Then(A, B), tl, k)
         /\ \A tl, k : LocksWithin(A, tl, k) /\ NoLocks(B) => LocksWithin(Then(A, B), tl, k)
<1> USE DEF Typed
<1>1. ASSUME NEW y \in Then(A, B) PROVE \E a \in A, b \in B : y.l = a.l \cup b.l
  <2>1. PICK a \in A, b \in B : y = Pair(a, b)
    BY ThenMember
  <2>2. Pair(a, b).l = a.l \cup b.l
    BY PairFacts
  <2> QED BY <2>1, <2>2
<1>2. NoLocks(A) /\ NoLocks(B) => NoLocks(Then(A, B))
  BY <1>1 DEF NoLocks
<1>3. ASSUME NEW tl, NEW k, NoLocks(A), LocksWithin(B, tl, k)
      PROVE  LocksWithin(Then(A, B), tl, k)
  <2>1. ASSUME NEW y \in Then(A, B) PROVE \E b \in B : y.l = b.l
    <3>1. PICK a \in A, b \in B : y.l = a.l \cup b.l
      BY <1>1
    <3>2. a.l = {}
      BY <1>3 DEF NoLocks
    <3> QED BY <3>1, <3>2
  <2> QED BY <1>3, <2>1 DEF LocksWithin
<1>4. ASSUME NEW tl, NEW k, NoLocks(B), LocksWithin(A, tl, k)
      PROVE  LocksWithin(Then(A, B), tl, k)
  <2>1. ASSUME NEW y \in Then(A, B) PROVE \E a \in A : y.l = a.l
    <3>1. PICK a \in A, b \in B : y.l = a.l \cup b.l
      BY <1>1
    <3>2. b.l = {}
      BY <1>4 DEF NoLocks
    <3> QED BY <3>1, <3>2
  <2> QED BY <1>4, <2>1 DEF LocksWithin
<1> QED BY <1>2, <1>3, <1>4

\* The timelocks of pairs: k may be kept unless the sides mix kinds (Mixed).
LEMMA ThenLocks ==
  ASSUME NEW A, NEW B, Typed(A), Typed(B), NEW X, NEW Y,
         LocksWithin(A, X.tl, X.k), LocksWithin(B, Y.tl, Y.k)
  PROVE  LocksWithin(Then(A, B), Either(X.tl, Y.tl), X.k /\ Y.k /\ ~Mixed(X, Y))
<1> USE DEF Typed
<1>1. ASSUME NEW y \in Then(A, B)
      PROVE  y.l \subseteq X.tl \cup Y.tl /\ (X.k /\ Y.k /\ ~Mixed(X, Y) => ~Mixes(y.l))
  <2>1. PICK a \in A, b \in B : y = Pair(a, b)
    BY ThenMember
  <2>2. y.l = a.l \cup b.l
    BY <2>1, PairFacts
  <2>3. a.l \subseteq X.tl /\ b.l \subseteq Y.tl /\ (X.k => ~Mixes(a.l)) /\ (Y.k => ~Mixes(b.l))
    BY DEF LocksWithin
  <2>4. ASSUME X.k, Y.k, Mixes(y.l) PROVE Mixed(X, Y)
    <3>1. ~Mixes(a.l) /\ ~Mixes(b.l)
      BY <2>3, <2>4
    <3>2. \/ "g" \in a.l /\ "h" \in b.l
          \/ "h" \in a.l /\ "g" \in b.l
          \/ "i" \in a.l /\ "j" \in b.l
          \/ "j" \in a.l /\ "i" \in b.l
      BY <2>2, <2>4, <3>1 DEF Mixes
    <3>3. \/ "g" \in X.tl /\ "h" \in Y.tl
          \/ "h" \in X.tl /\ "g" \in Y.tl
          \/ "i" \in X.tl /\ "j" \in Y.tl
          \/ "j" \in X.tl /\ "i" \in Y.tl
      BY <2>3, <3>2
    <3> QED BY <3>3 DEF Mixed
  <2> QED BY <2>2, <2>3, <2>4
<1> QED BY <1>1 DEF LocksWithin, Either

\* All of the facts about the set of one witness w.
LEMMA OneWitness ==
  ASSUME NEW w \in Seq(Elements)
  PROVE  /\ Typed(W(w))
         /\ Length(W(w), Len(w)) /\ NoLocks(W(w))
         /\ NeedsSig(W(w)) <=> SigIn(w)
         /\ ~SigIn(w) => OneUnsigned(W(w))
         /\ Len(w) > 0 /\ w[Len(w)] # E0 => TopNonZero(W(w))
         /\ Longest(W(w), Len(w))
         /\ \A tl, k : LocksWithin(W(w), tl, k)
<1> USE DEF Typed
<1> DEFINE x == Sat(w, {})
<1>1. W(w) = {x} /\ x.w = w /\ x.l = {}
  BY DEF W, Sat
<1>2. x \in Witnesses
  BY DEF Witnesses, Sat
<1>3. Size(x) = Len(w) /\ TopOf(x) = w[Len(w)] /\ (HasSig(x) <=> SigIn(w))
  BY <1>1 DEF Size, TopOf, HasSig, SigIn
<1> HIDE DEF x
<1>4. Len(w) \in Nat
  OBVIOUS
<1>5. Length(W(w), Len(w)) /\ NoLocks(W(w))
  BY <1>1, <1>3 DEF Length, NoLocks
<1>6. (NeedsSig(W(w)) <=> SigIn(w)) /\ (~SigIn(w) => OneUnsigned(W(w)))
  BY <1>1, <1>3 DEF NeedsSig, OneUnsigned
<1>7. Len(w) > 0 /\ w[Len(w)] # E0 => TopNonZero(W(w))
  BY <1>1, <1>3 DEF TopNonZero
<1>8. Longest(W(w), Len(w))
  BY <1>1, <1>3, <1>4 DEF Longest
<1>9. \A tl, k : LocksWithin(W(w), tl, k)
  BY <1>1 DEF LocksWithin, Mixes
<1> QED BY <1>1, <1>2, <1>5, <1>6, <1>7, <1>8, <1>9

\* The pushes of the wrappers and of or_i.
PushFacts(P) ==
  /\ Typed(P) /\ Length(P, 1) /\ NoLocks(P) /\ OneUnsigned(P)
  /\ ~NeedsSig(P) /\ Longest(P, 1) /\ \A tl, k : LocksWithin(P, tl, k)

\* The two pushes are such.
LEMMA Pushes == PushFacts(W(<<E0>>)) /\ PushFacts(W(<<E1>>)) /\ TopNonZero(W(<<E1>>))
<1>1. ASSUME NEW e \in {E0, E1} PROVE PushFacts(W(<<e>>)) /\ (e = E1 => TopNonZero(W(<<e>>)))
  <2>1. <<e>> \in Seq(Elements) /\ Len(<<e>>) = 1 /\ <<e>>[1] = e
    BY DEF Elements
  <2>2. ~SigIn(<<e>>)
    BY <2>1 DEF SigIn, E0, E1
  <2>3. E1 # E0
    BY DEF E0, E1
  <2>4. e = E1 => TopNonZero(W(<<e>>))
    <3>1. <<e>>[Len(<<e>>)] = e /\ Len(<<e>>) > 0
      BY <2>1
    <3> QED BY <2>1, <2>3, <3>1, OneWitness
  <2> QED BY <2>1, <2>2, <2>4, OneWitness DEF PushFacts
<1> QED BY <1>1

\* The facts about Then that the rules use, in one place.
ThenFacts(A, B) ==
  /\ Typed(Then(A, B))
  /\ NeedsSig(A) \/ NeedsSig(B) => NeedsSig(Then(A, B))
  /\ ~NeedsSig(A) /\ ~NeedsSig(B) => ~NeedsSig(Then(A, B))
  /\ OneUnsigned(A) /\ OneUnsigned(B) => OneUnsigned(Then(A, B))
  /\ Length(A, 0) /\ Length(B, 0) => Length(Then(A, B), 0)
  /\ Length(A, 0) /\ Length(B, 1) => Length(Then(A, B), 1)
  /\ Length(A, 1) /\ Length(B, 0) => Length(Then(A, B), 1)
  /\ TopNonZero(A) => TopNonZero(Then(A, B))
  /\ Length(A, 0) /\ TopNonZero(B) => TopNonZero(Then(A, B))
  /\ A = {} \/ B = {} => Then(A, B) = {}
  /\ NoLocks(A) /\ NoLocks(B) => NoLocks(Then(A, B))
  /\ \A tl, k : NoLocks(A) /\ LocksWithin(B, tl, k) => LocksWithin(Then(A, B), tl, k)
  /\ \A tl, k : LocksWithin(A, tl, k) /\ NoLocks(B) => LocksWithin(Then(A, B), tl, k)
  /\ \A m, n : Longest(A, m) /\ Longest(B, n) => /\ Longest(Then(A, B), sumcheck(m, n))
                                                 /\ Longest(Then(A, B), sumcheck(n, m))

\* They hold for all typed sets.
LEMMA ThenAll ==
  ASSUME NEW A, NEW B, Typed(A), Typed(B)
  PROVE  ThenFacts(A, B)
<1>1. \A m, n : Longest(A, m) /\ Longest(B, n) => /\ Longest(Then(A, B), sumcheck(m, n))
                                                 /\ Longest(Then(A, B), sumcheck(n, m))
  BY LongestThen, SumCommutes
<1>2. OneUnsigned(A) /\ OneUnsigned(B) => OneUnsigned(Then(A, B))
  BY ThenOne
<1>3. A = {} \/ B = {} => Then(A, B) = {}
  BY ThenEmpty
<1>4. Typed(Then(A, B))
  BY ThenTyped
<1>5. /\ NeedsSig(A) \/ NeedsSig(B) => NeedsSig(Then(A, B))
      /\ ~NeedsSig(A) /\ ~NeedsSig(B) => ~NeedsSig(Then(A, B))
  BY ThenNeedsSig
<1>6. /\ Length(A, 0) /\ Length(B, 0) => Length(Then(A, B), 0)
      /\ Length(A, 0) /\ Length(B, 1) => Length(Then(A, B), 1)
      /\ Length(A, 1) /\ Length(B, 0) => Length(Then(A, B), 1)
  BY ThenLength
<1>7. /\ TopNonZero(A) => TopNonZero(Then(A, B))
      /\ Length(A, 0) /\ TopNonZero(B) => TopNonZero(Then(A, B))
  BY ThenTop
<1>8. /\ NoLocks(A) /\ NoLocks(B) => NoLocks(Then(A, B))
      /\ \A tl, k : NoLocks(A) /\ LocksWithin(B, tl, k) => LocksWithin(Then(A, B), tl, k)
      /\ \A tl, k : LocksWithin(A, tl, k) /\ NoLocks(B) => LocksWithin(Then(A, B), tl, k)
  BY ThenNoLocks
<1> QED BY <1>1, <1>2, <1>3, <1>4, <1>5, <1>6, <1>7, <1>8 DEF ThenFacts

\* The dissatisfactions that remain below the wrapper j.
NonZero(A) == {x \in A : TopOf(x) # E0}
\* Leaving out witnesses keeps these facts (wrapper j).
NonZeroFacts(A) ==
  /\ Typed(A) => Typed(NonZero(A))
  /\ NeedsSig(A) => NeedsSig(NonZero(A))
  /\ \A n : Length(A, n) => Length(NonZero(A), n)

\* They hold for every set.
LEMMA NonZeroAll ==
  ASSUME NEW A
  PROVE  NonZeroFacts(A)
BY DEF NonZeroFacts, NonZero, Typed, NeedsSig, Length

\* The facts about unions that the rules use, in one place.
EitherFacts(A, B) ==
  /\ Typed(A) /\ Typed(B) => Typed(Either(A, B))
  /\ NeedsSig(Either(A, B)) <=> NeedsSig(A) /\ NeedsSig(B)
  /\ OneUnsigned(A) /\ NeedsSig(B) => OneUnsigned(Either(A, B))
  /\ NeedsSig(A) /\ OneUnsigned(B) => OneUnsigned(Either(A, B))
  /\ \A n : Length(A, n) /\ Length(B, n) => Length(Either(A, B), n)
  /\ TopNonZero(A) /\ TopNonZero(B) => TopNonZero(Either(A, B))
  /\ A = {} /\ B = {} => Either(A, B) = {}
  /\ NoLocks(A) /\ NoLocks(B) => NoLocks(Either(A, B))
  /\ \A tl, k : LocksWithin(A, tl, k) /\ LocksWithin(B, tl, k)
                 => LocksWithin(Either(A, B), tl, k)
  /\ Typed(A) /\ Typed(B)
     => \A m, n : Longest(A, m) /\ Longest(B, n) => Longest(Either(A, B), maxcheck(m, n))

\* They hold for all sets.
LEMMA EitherAll ==
  ASSUME NEW A, NEW B
  PROVE  EitherFacts(A, B)
<1>1. Typed(A) /\ Typed(B)
      => \A m, n : Longest(A, m) /\ Longest(B, n) => Longest(Either(A, B), maxcheck(m, n))
  BY LongestUnion
<1>2. /\ OneUnsigned(A) /\ NeedsSig(B) => OneUnsigned(Either(A, B))
      /\ NeedsSig(A) /\ OneUnsigned(B) => OneUnsigned(Either(A, B))
  BY UnionOne
<1>3. A = {} /\ B = {} => Either(A, B) = {}
  BY UnionEmpty
<1>4. Typed(A) /\ Typed(B) => Typed(Either(A, B))
  BY UnionTyped
<1>5. /\ NeedsSig(Either(A, B)) <=> NeedsSig(A) /\ NeedsSig(B)
      /\ \A n : Length(A, n) /\ Length(B, n) => Length(Either(A, B), n)
      /\ TopNonZero(A) /\ TopNonZero(B) => TopNonZero(Either(A, B))
      /\ NoLocks(A) /\ NoLocks(B) => NoLocks(Either(A, B))
      /\ \A tl, k : LocksWithin(A, tl, k) /\ LocksWithin(B, tl, k)
                     => LocksWithin(Either(A, B), tl, k)
  BY Unions
<1> QED BY <1>1, <1>2, <1>3, <1>4, <1>5 DEF EitherFacts

-----------------------------------------------------------------------------
\* A node of a policy: the flags and the ext_info the code computes, and all and the
\* canonical satisfactions and dissatisfactions of its script.
Node(T, E, all, can) == [flags |-> T, ext |-> E, all |-> all, can |-> can]
\* The analysis describes the satisfactions (dissatisfactions) of the node.
GoodSat(X) ==
  Typed(X.all.s) /\ SatSound(X.flags, X.ext, X.all.s, X.can.s)
GoodDsat(X) ==
  Typed(X.all.d) /\ DsatSound(X.flags, X.ext, X.all.d, X.can.d)
Good(X) == GoodSat(X) /\ GoodDsat(X)

node_andor(X, Y, Z) ==
  Node(type_andor(X.flags, Y.flags, Z.flags), ext_andor(X.ext, Y.ext, Z.ext),
       sat_andor(X.all, Y.all, Z.all, TRUE), sat_andor(X.can, Y.can, Z.can, FALSE))

\* andor: if the children are well described and the type is accepted, so is the node.
LEMMA RuleAndor ==
  ASSUME NEW X, NEW Y, NEW Z,
         Good(X), Good(Y), Good(Z),
         node_andor(X, Y, Z).flags # Invalid
  PROVE  Good(node_andor(X, Y, Z))
<1> DEFINE N == node_andor(X, Y, Z)
           T == N.flags
           E == N.ext
<1>1. /\ X.flags.d /\ Y.flags.type = Z.flags.type /\ T.type = Y.flags.type
      /\ (T.z <=> X.flags.z /\ Y.flags.z /\ Z.flags.z)
      /\ (T.o <=> (X.flags.z /\ Y.flags.o /\ Z.flags.o) \/ (X.flags.o /\ Y.flags.z
                                                            /\ Z.flags.z))
      /\ ~T.n /\ (T.d <=> Z.flags.d)
  BY Zenon DEF node_andor, Node, type_andor, When, Flags, Bdu, Invalid
<1>2. /\ (E.s <=> Z.ext.s /\ (X.ext.s \/ Y.ext.s)) /\ (E.f <=> Z.ext.f /\ (X.ext.s \/ Y.ext.f))
      /\ (E.e <=> Z.ext.e /\ (X.ext.s \/ Y.ext.f))
      /\ (E.m => X.ext.m /\ Z.ext.m /\ X.ext.e)
      /\ Within(Either(X.ext.tl, Y.ext.tl), E.tl)
      /\ Within(Z.ext.tl, E.tl)
      /\ (E.k => X.ext.k /\ Y.ext.k /\ Z.ext.k /\ ~Mixed(X.ext, Y.ext))
      /\ E.ss.sat = maxcheck(sumcheck(X.ext.ss.sat, Y.ext.ss.sat),
                             sumcheck(X.ext.ss.dsat, Z.ext.ss.sat))
      /\ E.ss.dsat = sumcheck(X.ext.ss.dsat, Z.ext.ss.dsat)
  BY Zenon DEF node_andor, Node, ext_andor, Ext, Over, Ss, Either, Within
<1>3. /\ N.all.s = Either(Then(X.all.s, Y.all.s), Then(X.all.d, Z.all.s))
      /\ N.all.d = Either(Then(X.all.d, Z.all.d), Then(X.all.s, Y.all.d))
      /\ N.can.s = Either(Then(X.can.s, Y.can.s), Then(X.can.d, Z.can.s))
      /\ N.can.d = Then(X.can.d, Z.can.d)
  BY Zenon DEF node_andor, Node, sat_andor, SD, Extra, Either
<1> HIDE DEF N, T, E
<1>4. /\ Typed(X.all.d) /\ Within(X.can.d, X.all.d)
      /\ Typed(X.all.s) /\ Within(X.can.s, X.all.s)
      /\ Typed(Y.all.d) /\ Within(Y.can.d, Y.all.d)
      /\ Typed(Y.all.s) /\ Within(Y.can.s, Y.all.s)
      /\ Typed(Z.all.d) /\ Within(Z.can.d, Z.all.d)
      /\ Typed(Z.all.s) /\ Within(Z.can.s, Z.all.s)
  BY Zenon DEF Good, GoodSat, GoodDsat, SatSound, DsatSound, Within
<1>5. Typed(X.can.d) /\ Typed(X.can.s) /\ Typed(Y.can.d) /\ Typed(Y.can.s) /\ Typed(Z.can.d)
      /\ Typed(Z.can.s)
  BY <1>4, TypedPart, Zenon
<1>7. /\ ThenFacts(X.all.s, Y.all.s)
      /\ ThenFacts(X.all.d, Z.all.s)
      /\ ThenFacts(X.all.d, Z.all.d)
      /\ ThenFacts(X.all.s, Y.all.d)
      /\ ThenFacts(X.can.s, Y.can.s)
      /\ ThenFacts(X.can.d, Z.can.s)
      /\ ThenFacts(X.can.d, Z.can.d)
  BY <1>4, <1>5, ThenAll, Zenon
<1>8. /\ EitherFacts(Then(X.all.s, Y.all.s), Then(X.all.d, Z.all.s))
      /\ EitherFacts(Then(X.all.d, Z.all.d), Then(X.all.s, Y.all.d))
      /\ EitherFacts(Then(X.can.s, Y.can.s), Then(X.can.d, Z.can.s))
  BY EitherAll, Zenon
<1>9. Within(N.can.s, N.all.s) /\ Within(N.can.d, N.all.d)
  <2>1. Within(Then(X.can.s, Y.can.s), Then(X.all.s, Y.all.s))
    BY <1>4, ThenGrows, Zenon
  <2>2. Within(Then(X.can.d, Z.can.s), Then(X.all.d, Z.all.s))
    BY <1>4, ThenGrows, Zenon
  <2>3. Within(Then(X.can.d, Z.can.d), Then(X.all.d, Z.all.d))
    BY <1>4, ThenGrows, Zenon
  <2> QED BY <1>3, <2>1, <2>2, <2>3, <1>4 DEF Within, Either
<1>10. LocksWithin(N.can.s, E.tl, E.k)
  <2>1. LocksWithin(Then(X.can.s, Y.can.s), Either(X.ext.tl, Y.ext.tl),
                    X.ext.k /\ Y.ext.k /\ ~Mixed(X.ext, Y.ext))
    BY <1>5, ThenLocks, Zenon DEF Good, GoodSat, GoodDsat, SatSound, DsatSound
  <2>2. LocksWithin(Then(X.can.s, Y.can.s), E.tl, E.k)
    BY <1>2, <2>1, LocksWeaken, Zenon
  <2>3. LocksWithin(Then(X.can.d, Z.can.s), Z.ext.tl, Z.ext.k)
    BY <1>7, Zenon DEF ThenFacts, Good, GoodSat, GoodDsat, SatSound, DsatSound
  <2>4. LocksWithin(Then(X.can.d, Z.can.s), E.tl, E.k)
    BY <1>2, <2>3, LocksWeaken, Zenon
  <2> QED BY Zenon, <1>3, <1>8, <2>2, <2>4 DEF EitherFacts
<1>11. Longest(N.can.s, E.ss.sat)
  <2>1. /\ Longest(X.can.s, X.ext.ss.sat) /\ Longest(X.can.d, X.ext.ss.dsat)
        /\ Longest(Y.can.s, Y.ext.ss.sat) /\ Longest(Z.can.s, Z.ext.ss.sat)
    BY Zenon DEF Good, GoodSat, GoodDsat, SatSound, DsatSound
  <2>2. Longest(Then(X.can.s, Y.can.s), sumcheck(X.ext.ss.sat, Y.ext.ss.sat))
    BY Zenon, <1>5, <2>1, LongestThen
  <2>3. Longest(Then(X.can.d, Z.can.s), sumcheck(X.ext.ss.dsat, Z.ext.ss.sat))
    BY Zenon, <1>5, <2>1, LongestThen
  <2>4. Typed(Then(X.can.s, Y.can.s)) /\ Typed(Then(X.can.d, Z.can.s))
    BY Zenon, <1>5, ThenTyped
  <2> QED BY Zenon, <1>2, <1>3, <2>2, <2>3, <2>4, LongestUnion
<1>12. Longest(N.can.d, E.ss.dsat)
  <2>1. Longest(X.can.d, X.ext.ss.dsat) /\ Longest(Z.can.d, Z.ext.ss.dsat)
    BY Zenon DEF Good, GoodSat, GoodDsat, SatSound, DsatSound
  <2> QED BY Zenon, <1>2, <1>3, <1>5, <2>1, LongestThen
<1> USE <1>1, <1>2, <1>3, <1>7, <1>8
    DEF ThenFacts, EitherFacts, Good, GoodSat, GoodDsat, SatSound, DsatSound
<1>13. Typed(N.all.s)
  BY Zenon
<1>14. T.z => Length(N.all.s, 0)
  BY Zenon
<1>15. T.o => Length(N.all.s, 1)
  BY Zenon
<1>16. T.n => TopNonZero(N.all.s)
  BY Zenon
<1>17. T.type = "K" \/ E.s => NeedsSig(N.all.s)
  BY Zenon
<1>18. Typed(N.all.d)
  BY Zenon
<1>19. T.z => Length(N.all.d, 0)
  BY Zenon
<1>20. T.o => Length(N.all.d, 1)
  BY Zenon
<1>21. T.d => ~NeedsSig(N.all.d)
  BY Zenon
<1>22. T.type = "V" => N.all.d = {}
  BY Zenon
<1>23. E.f => NeedsSig(N.all.d)
  BY Zenon
<1>24. E.e /\ E.m => OneUnsigned(N.all.d)
  BY Zenon
<1>25. NoLocks(N.can.d)
  BY Zenon
<1> QED BY Zenon, <1>9, <1>10, <1>11, <1>12, <1>13, <1>14, <1>15, <1>16, <1>17, <1>18, <1>19,
           <1>20, <1>21, <1>22, <1>23, <1>24, <1>25
        DEF Good, GoodSat, GoodDsat, SatSound, DsatSound, Within, T, E, N

node_and_v(X, Y) ==
  Node(type_and_v(X.flags, Y.flags), ext_and_v(X.ext, Y.ext),
       sat_and_v(X.all, Y.all, TRUE), sat_and_v(X.can, Y.can, FALSE))

\* and_v: if the children are well described and the type is accepted, so is the node.
LEMMA RuleAndV ==
  ASSUME NEW X, NEW Y,
         GoodSat(X), Good(Y),
         node_and_v(X, Y).flags # Invalid
  PROVE  Good(node_and_v(X, Y))
<1> DEFINE N == node_and_v(X, Y)
           T == N.flags
           E == N.ext
<1>1. /\ T.type = Y.flags.type /\ (T.z <=> X.flags.z /\ Y.flags.z)
      /\ (T.o <=> (X.flags.z /\ Y.flags.o) \/ (X.flags.o /\ Y.flags.z))
      /\ (T.n <=> X.flags.n \/ (X.flags.z /\ Y.flags.n))
      /\ ~T.d
  BY Zenon DEF node_and_v, Node, type_and_v, When, Flags, Bdu, Invalid
<1>2. /\ (E.s <=> X.ext.s \/ Y.ext.s) /\ (E.f <=> X.ext.s \/ Y.ext.f) /\ ~E.e
      /\ Within(Either(X.ext.tl, Y.ext.tl), E.tl)
      /\ (E.k => X.ext.k /\ Y.ext.k /\ ~Mixed(X.ext, Y.ext))
      /\ E.ss.sat = sumcheck(X.ext.ss.sat, Y.ext.ss.sat)
      /\ E.ss.dsat = -1
  BY Zenon DEF node_and_v, Node, ext_and_v, Ext, Over, Ss, Either, Within
<1>3. /\ N.all.s = Then(X.all.s, Y.all.s)
      /\ N.all.d = Then(X.all.s, Y.all.d)
      /\ N.can.s = Then(X.can.s, Y.can.s)
      /\ N.can.d = {}
  BY Zenon DEF node_and_v, Node, sat_and_v, SD, Extra, Either
<1> HIDE DEF N, T, E
<1>4. /\ Typed(X.all.s) /\ Within(X.can.s, X.all.s)
      /\ Typed(Y.all.d) /\ Within(Y.can.d, Y.all.d)
      /\ Typed(Y.all.s) /\ Within(Y.can.s, Y.all.s)
  BY Zenon DEF Good, GoodSat, GoodDsat, SatSound, DsatSound, Within
<1>5. Typed(X.can.s) /\ Typed(Y.can.d) /\ Typed(Y.can.s)
  BY <1>4, TypedPart, Zenon
<1>7. /\ ThenFacts(X.all.s, Y.all.s)
      /\ ThenFacts(X.all.s, Y.all.d)
      /\ ThenFacts(X.can.s, Y.can.s)
  BY <1>4, <1>5, ThenAll, Zenon
<1>9. Within(N.can.s, N.all.s) /\ Within(N.can.d, N.all.d)
  <2>1. Within(Then(X.can.s, Y.can.s), Then(X.all.s, Y.all.s))
    BY <1>4, ThenGrows, Zenon
  <2> QED BY <1>3, <2>1, <1>4 DEF Within, Either
<1>10. LocksWithin(N.can.s, E.tl, E.k)
  <2>1. LocksWithin(Then(X.can.s, Y.can.s), Either(X.ext.tl, Y.ext.tl),
                    X.ext.k /\ Y.ext.k /\ ~Mixed(X.ext, Y.ext))
    BY <1>5, ThenLocks, Zenon DEF Good, GoodSat, GoodDsat, SatSound, DsatSound
  <2>2. LocksWithin(Then(X.can.s, Y.can.s), E.tl, E.k)
    BY <1>2, <2>1, LocksWeaken, Zenon
  <2> QED BY Zenon, <1>3, <2>2
<1>11. Longest(N.can.s, E.ss.sat)
  BY Zenon, <1>2, <1>3, <1>5, <1>7
     DEF ThenFacts, Good, GoodSat, GoodDsat, SatSound, DsatSound
<1>12. Longest(N.can.d, E.ss.dsat)
  BY Zenon, <1>2, <1>3, <1>5, <1>7, Empty
     DEF ThenFacts, Good, GoodSat, GoodDsat, SatSound, DsatSound
<1> USE <1>1, <1>2, <1>3, <1>7, Empty
    DEF ThenFacts, Good, GoodSat, GoodDsat, SatSound, DsatSound
<1>13. Typed(N.all.s)
  BY Zenon
<1>14. T.z => Length(N.all.s, 0)
  BY Zenon
<1>15. T.o => Length(N.all.s, 1)
  BY Zenon
<1>16. T.n => TopNonZero(N.all.s)
  BY Zenon
<1>17. T.type = "K" \/ E.s => NeedsSig(N.all.s)
  BY Zenon
<1>18. Typed(N.all.d)
  BY Zenon
<1>19. T.z => Length(N.all.d, 0)
  BY Zenon
<1>20. T.o => Length(N.all.d, 1)
  BY Zenon
<1>21. T.d => ~NeedsSig(N.all.d)
  BY Zenon
<1>22. T.type = "V" => N.all.d = {}
  BY Zenon
<1>23. E.f => NeedsSig(N.all.d)
  BY Zenon
<1>24. E.e /\ E.m => OneUnsigned(N.all.d)
  BY Zenon
<1>25. NoLocks(N.can.d)
  BY Zenon
<1> QED BY Zenon, <1>9, <1>10, <1>11, <1>12, <1>13, <1>14, <1>15, <1>16, <1>17, <1>18, <1>19,
           <1>20, <1>21, <1>22, <1>23, <1>24, <1>25
        DEF Good, GoodSat, GoodDsat, SatSound, DsatSound, Within, T, E, N

node_and_b(X, Y) ==
  Node(type_and_b(X.flags, Y.flags), ext_and_b(X.ext, Y.ext),
       sat_and_b(X.all, Y.all, TRUE), sat_and_b(X.can, Y.can, FALSE))

\* and_b: if the children are well described and the type is accepted, so is the node.
LEMMA RuleAndB ==
  ASSUME NEW X, NEW Y,
         Good(X), Good(Y),
         node_and_b(X, Y).flags # Invalid
  PROVE  Good(node_and_b(X, Y))
<1> DEFINE N == node_and_b(X, Y)
           T == N.flags
           E == N.ext
<1>1. /\ T.type = "B" /\ (T.z <=> X.flags.z /\ Y.flags.z)
      /\ (T.o <=> (X.flags.z /\ Y.flags.o) \/ (X.flags.o /\ Y.flags.z))
      /\ (T.n <=> X.flags.n \/ (X.flags.z /\ Y.flags.n))
      /\ (T.d <=> X.flags.d /\ Y.flags.d)
  BY Zenon DEF node_and_b, Node, type_and_b, When, Flags, Bdu, Invalid
<1>2. /\ (E.s <=> X.ext.s \/ Y.ext.s)
      /\ (E.f <=> (X.ext.f /\ Y.ext.f) \/ (X.ext.s /\ X.ext.f) \/ (Y.ext.s /\ Y.ext.f))
      /\ (E.e <=> X.ext.e /\ Y.ext.e /\ X.ext.s /\ Y.ext.s) /\ (E.m <=> X.ext.m /\ Y.ext.m)
      /\ Within(Either(X.ext.tl, Y.ext.tl), E.tl)
      /\ (E.k => X.ext.k /\ Y.ext.k /\ ~Mixed(X.ext, Y.ext))
      /\ E.ss.sat = sumcheck(X.ext.ss.sat, Y.ext.ss.sat)
      /\ E.ss.dsat = sumcheck(X.ext.ss.dsat, Y.ext.ss.dsat)
  BY Zenon DEF node_and_b, Node, ext_and_b, Ext, Over, Ss, Either, Within
<1>3. /\ N.all.s = Then(X.all.s, Y.all.s)
      /\ N.all.d = Either(Then(X.all.d, Y.all.d),
                          Either(Then(X.all.s, Y.all.d), Then(X.all.d, Y.all.s)))
      /\ N.can.s = Then(X.can.s, Y.can.s)
      /\ N.can.d = Then(X.can.d, Y.can.d)
  BY Zenon DEF node_and_b, Node, sat_and_b, SD, Extra, Either
<1> HIDE DEF N, T, E
<1>4. /\ Typed(X.all.d) /\ Within(X.can.d, X.all.d)
      /\ Typed(X.all.s) /\ Within(X.can.s, X.all.s)
      /\ Typed(Y.all.d) /\ Within(Y.can.d, Y.all.d)
      /\ Typed(Y.all.s) /\ Within(Y.can.s, Y.all.s)
  BY Zenon DEF Good, GoodSat, GoodDsat, SatSound, DsatSound, Within
<1>5. Typed(X.can.d) /\ Typed(X.can.s) /\ Typed(Y.can.d) /\ Typed(Y.can.s)
  BY <1>4, TypedPart, Zenon
<1>7. /\ ThenFacts(X.all.s, Y.all.s)
      /\ ThenFacts(X.all.d, Y.all.d)
      /\ ThenFacts(X.all.s, Y.all.d)
      /\ ThenFacts(X.all.d, Y.all.s)
      /\ ThenFacts(X.can.s, Y.can.s)
      /\ ThenFacts(X.can.d, Y.can.d)
  BY <1>4, <1>5, ThenAll, Zenon
<1>8. /\ EitherFacts(Then(X.all.s, Y.all.d), Then(X.all.d, Y.all.s))
      /\ EitherFacts(Then(X.all.d, Y.all.d),
                     Either(Then(X.all.s, Y.all.d), Then(X.all.d, Y.all.s)))
  BY EitherAll, Zenon
<1>9. Within(N.can.s, N.all.s) /\ Within(N.can.d, N.all.d)
  <2>1. Within(Then(X.can.s, Y.can.s), Then(X.all.s, Y.all.s))
    BY <1>4, ThenGrows, Zenon
  <2>2. Within(Then(X.can.d, Y.can.d), Then(X.all.d, Y.all.d))
    BY <1>4, ThenGrows, Zenon
  <2> QED BY <1>3, <2>1, <2>2, <1>4 DEF Within, Either
<1>10. LocksWithin(N.can.s, E.tl, E.k)
  <2>1. LocksWithin(Then(X.can.s, Y.can.s), Either(X.ext.tl, Y.ext.tl),
                    X.ext.k /\ Y.ext.k /\ ~Mixed(X.ext, Y.ext))
    BY <1>5, ThenLocks, Zenon DEF Good, GoodSat, GoodDsat, SatSound, DsatSound
  <2>2. LocksWithin(Then(X.can.s, Y.can.s), E.tl, E.k)
    BY <1>2, <2>1, LocksWeaken, Zenon
  <2> QED BY Zenon, <1>3, <1>8, <2>2 DEF EitherFacts
<1>11. Longest(N.can.s, E.ss.sat)
  BY ZenonT(40), <1>2, <1>3, <1>5, <1>7, <1>8
     DEF ThenFacts, EitherFacts, Good, GoodSat, GoodDsat, SatSound, DsatSound
<1>12. Longest(N.can.d, E.ss.dsat)
  BY ZenonT(40), <1>2, <1>3, <1>5, <1>7, <1>8
     DEF ThenFacts, EitherFacts, Good, GoodSat, GoodDsat, SatSound, DsatSound
<1> USE <1>1, <1>2, <1>3, <1>7, <1>8
    DEF ThenFacts, EitherFacts, Good, GoodSat, GoodDsat, SatSound, DsatSound
<1>13. Typed(N.all.s)
  BY Zenon
<1>14. T.z => Length(N.all.s, 0)
  BY Zenon
<1>15. T.o => Length(N.all.s, 1)
  BY Zenon
<1>16. T.n => TopNonZero(N.all.s)
  BY Zenon
<1>17. T.type = "K" \/ E.s => NeedsSig(N.all.s)
  BY Zenon
<1>18. Typed(N.all.d)
  BY Zenon
<1>19. T.z => Length(N.all.d, 0)
  BY Zenon
<1>20. T.o => Length(N.all.d, 1)
  BY Zenon
<1>21. T.d => ~NeedsSig(N.all.d)
  BY Zenon
<1>22. T.type = "V" => N.all.d = {}
  BY Zenon
<1>23. E.f => NeedsSig(N.all.d)
  BY Zenon
<1>24. E.e /\ E.m => OneUnsigned(N.all.d)
  BY Zenon
<1>25. NoLocks(N.can.d)
  BY Zenon
<1> QED BY Zenon, <1>9, <1>10, <1>11, <1>12, <1>13, <1>14, <1>15, <1>16, <1>17, <1>18, <1>19,
           <1>20, <1>21, <1>22, <1>23, <1>24, <1>25
        DEF Good, GoodSat, GoodDsat, SatSound, DsatSound, Within, T, E, N

node_and_n(X, Y) ==
  Node(type_and_n(X.flags, Y.flags), ext_and_n(X.ext, Y.ext),
       sat_and_n(X.all, Y.all, TRUE), sat_and_n(X.can, Y.can, FALSE))

\* and_n: if the children are well described and the type is accepted, so is the node.
LEMMA RuleAndN ==
  ASSUME NEW X, NEW Y,
         Good(X), Good(Y),
         node_and_n(X, Y).flags # Invalid
  PROVE  Good(node_and_n(X, Y))
<1> DEFINE N == node_and_n(X, Y)
           T == N.flags
           E == N.ext
<1>1. /\ X.flags.d /\ T.type = "B" /\ (T.z <=> X.flags.z /\ Y.flags.z)
      /\ (T.o <=> X.flags.o /\ Y.flags.z) /\ ~T.n
  BY Zenon DEF node_and_n, Node, type_and_n, When, Flags, Bdu, Invalid
<1>2. /\ (E.s <=> X.ext.s \/ Y.ext.s) /\ ~E.f
      /\ (E.e <=> X.ext.s \/ Y.ext.f) /\ (E.m => X.ext.m /\ X.ext.e)
      /\ Within(Either(X.ext.tl, Y.ext.tl), E.tl)
      /\ (E.k => X.ext.k /\ Y.ext.k /\ ~Mixed(X.ext, Y.ext))
      /\ E.ss.sat = sumcheck(X.ext.ss.sat, Y.ext.ss.sat)
      /\ E.ss.dsat = X.ext.ss.dsat
  BY Zenon DEF node_and_n, Node, ext_and_n, Ext, Over, Ss, Either, Within
<1>3. /\ N.all.s = Then(X.all.s, Y.all.s)
      /\ N.all.d = Either(X.all.d, Then(X.all.s, Y.all.d))
      /\ N.can.s = Then(X.can.s, Y.can.s)
      /\ N.can.d = X.can.d
  BY Zenon DEF node_and_n, Node, sat_and_n, SD, Extra, Either
<1> HIDE DEF N, T, E
<1>4. /\ Typed(X.all.d) /\ Within(X.can.d, X.all.d)
      /\ Typed(X.all.s) /\ Within(X.can.s, X.all.s)
      /\ Typed(Y.all.d) /\ Within(Y.can.d, Y.all.d)
      /\ Typed(Y.all.s) /\ Within(Y.can.s, Y.all.s)
  BY Zenon DEF Good, GoodSat, GoodDsat, SatSound, DsatSound, Within
<1>5. Typed(X.can.d) /\ Typed(X.can.s) /\ Typed(Y.can.d) /\ Typed(Y.can.s)
  BY <1>4, TypedPart, Zenon
<1>7. /\ ThenFacts(X.all.s, Y.all.s)
      /\ ThenFacts(X.all.s, Y.all.d)
      /\ ThenFacts(X.can.s, Y.can.s)
  BY <1>4, <1>5, ThenAll, Zenon
<1>8. /\ EitherFacts(X.all.d, Then(X.all.s, Y.all.d))
  BY EitherAll, Zenon
<1>9. Within(N.can.s, N.all.s) /\ Within(N.can.d, N.all.d)
  <2>1. Within(Then(X.can.s, Y.can.s), Then(X.all.s, Y.all.s))
    BY <1>4, ThenGrows, Zenon
  <2> QED BY <1>3, <2>1, <1>4 DEF Within, Either
<1>10. LocksWithin(N.can.s, E.tl, E.k)
  <2>1. LocksWithin(Then(X.can.s, Y.can.s), Either(X.ext.tl, Y.ext.tl),
                    X.ext.k /\ Y.ext.k /\ ~Mixed(X.ext, Y.ext))
    BY <1>5, ThenLocks, Zenon DEF Good, GoodSat, GoodDsat, SatSound, DsatSound
  <2>2. LocksWithin(Then(X.can.s, Y.can.s), E.tl, E.k)
    BY <1>2, <2>1, LocksWeaken, Zenon
  <2> QED BY Zenon, <1>3, <1>8, <2>2 DEF EitherFacts
<1>11. Longest(N.can.s, E.ss.sat)
  BY ZenonT(40), <1>2, <1>3, <1>5, <1>7, <1>8
     DEF ThenFacts, EitherFacts, Good, GoodSat, GoodDsat, SatSound, DsatSound
<1>12. Longest(N.can.d, E.ss.dsat)
  BY ZenonT(40), <1>2, <1>3, <1>5, <1>7, <1>8
     DEF ThenFacts, EitherFacts, Good, GoodSat, GoodDsat, SatSound, DsatSound
<1> USE <1>1, <1>2, <1>3, <1>7, <1>8
    DEF ThenFacts, EitherFacts, Good, GoodSat, GoodDsat, SatSound, DsatSound
<1>13. Typed(N.all.s)
  BY Zenon
<1>14. T.z => Length(N.all.s, 0)
  BY Zenon
<1>15. T.o => Length(N.all.s, 1)
  BY Zenon
<1>16. T.n => TopNonZero(N.all.s)
  BY Zenon
<1>17. T.type = "K" \/ E.s => NeedsSig(N.all.s)
  BY Zenon
<1>18. Typed(N.all.d)
  BY Zenon
<1>19. T.z => Length(N.all.d, 0)
  BY Zenon
<1>20. T.o => Length(N.all.d, 1)
  BY Zenon
<1>21. T.d => ~NeedsSig(N.all.d)
  BY Zenon
<1>22. T.type = "V" => N.all.d = {}
  BY Zenon
<1>23. E.f => NeedsSig(N.all.d)
  BY Zenon
<1>24. E.e /\ E.m => OneUnsigned(N.all.d)
  BY Zenon
<1>25. NoLocks(N.can.d)
  BY Zenon
<1> QED BY Zenon, <1>9, <1>10, <1>11, <1>12, <1>13, <1>14, <1>15, <1>16, <1>17, <1>18, <1>19,
           <1>20, <1>21, <1>22, <1>23, <1>24, <1>25
        DEF Good, GoodSat, GoodDsat, SatSound, DsatSound, Within, T, E, N

node_or_b(X, Z) ==
  Node(type_or_b(X.flags, Z.flags), ext_or_b(X.ext, Z.ext),
       sat_or_b(X.all, Z.all, TRUE), sat_or_b(X.can, Z.can, FALSE))

\* or_b: if the children are well described and the type is accepted, so is the node.
LEMMA RuleOrB ==
  ASSUME NEW X, NEW Z,
         Good(X), Good(Z),
         node_or_b(X, Z).flags # Invalid
  PROVE  Good(node_or_b(X, Z))
<1> DEFINE N == node_or_b(X, Z)
           T == N.flags
           E == N.ext
<1>1. /\ X.flags.d /\ Z.flags.d /\ T.type = "B" /\ (T.z <=> X.flags.z /\ Z.flags.z)
      /\ (T.o <=> (X.flags.z /\ Z.flags.o) \/ (X.flags.o /\ Z.flags.z))
      /\ ~T.n
  BY Zenon DEF node_or_b, Node, type_or_b, When, Flags, Bdu, Invalid
<1>2. /\ (E.s <=> X.ext.s /\ Z.ext.s) /\ ~E.f
      /\ (E.m => X.ext.m /\ Z.ext.m /\ X.ext.e /\ Z.ext.e)
      /\ Within(X.ext.tl, E.tl)
      /\ Within(Z.ext.tl, E.tl)
      /\ (E.k => X.ext.k /\ Z.ext.k)
      /\ E.ss.sat = maxcheck(sumcheck(X.ext.ss.dsat, Z.ext.ss.sat),
                             sumcheck(X.ext.ss.sat, Z.ext.ss.dsat))
      /\ E.ss.dsat = sumcheck(X.ext.ss.dsat, Z.ext.ss.dsat)
  BY Zenon DEF node_or_b, Node, ext_or_b, Ext, Over, Ss, Either, Within
<1>3. /\ N.all.s = Either(Either(Then(X.all.d, Z.all.s), Then(X.all.s, Z.all.d)),
                          Then(X.all.s, Z.all.s))
      /\ N.all.d = Then(X.all.d, Z.all.d)
      /\ N.can.s = Either(Then(X.can.d, Z.can.s), Then(X.can.s, Z.can.d))
      /\ N.can.d = Then(X.can.d, Z.can.d)
  BY Zenon DEF node_or_b, Node, sat_or_b, SD, Extra, Either
<1> HIDE DEF N, T, E
<1>4. /\ Typed(X.all.d) /\ Within(X.can.d, X.all.d)
      /\ Typed(X.all.s) /\ Within(X.can.s, X.all.s)
      /\ Typed(Z.all.d) /\ Within(Z.can.d, Z.all.d)
      /\ Typed(Z.all.s) /\ Within(Z.can.s, Z.all.s)
  BY Zenon DEF Good, GoodSat, GoodDsat, SatSound, DsatSound, Within
<1>5. Typed(X.can.d) /\ Typed(X.can.s) /\ Typed(Z.can.d) /\ Typed(Z.can.s)
  BY <1>4, TypedPart, Zenon
<1>7. /\ ThenFacts(X.all.d, Z.all.s)
      /\ ThenFacts(X.all.s, Z.all.d)
      /\ ThenFacts(X.all.s, Z.all.s)
      /\ ThenFacts(X.all.d, Z.all.d)
      /\ ThenFacts(X.can.d, Z.can.s)
      /\ ThenFacts(X.can.s, Z.can.d)
      /\ ThenFacts(X.can.d, Z.can.d)
  BY <1>4, <1>5, ThenAll, Zenon
<1>8. /\ EitherFacts(Then(X.all.d, Z.all.s), Then(X.all.s, Z.all.d))
      /\ EitherFacts(Either(Then(X.all.d, Z.all.s), Then(X.all.s, Z.all.d)),
                     Then(X.all.s, Z.all.s))
      /\ EitherFacts(Then(X.can.d, Z.can.s), Then(X.can.s, Z.can.d))
  BY EitherAll, Zenon
<1>9. Within(N.can.s, N.all.s) /\ Within(N.can.d, N.all.d)
  <2>1. Within(Then(X.can.d, Z.can.s), Then(X.all.d, Z.all.s))
    BY <1>4, ThenGrows, Zenon
  <2>2. Within(Then(X.can.s, Z.can.d), Then(X.all.s, Z.all.d))
    BY <1>4, ThenGrows, Zenon
  <2>3. Within(Then(X.can.d, Z.can.d), Then(X.all.d, Z.all.d))
    BY <1>4, ThenGrows, Zenon
  <2> QED BY <1>3, <2>1, <2>2, <2>3, <1>4 DEF Within, Either
<1>10. LocksWithin(N.can.s, E.tl, E.k)
  <2>1. LocksWithin(Then(X.can.d, Z.can.s), Z.ext.tl, Z.ext.k)
    BY <1>7, Zenon DEF ThenFacts, Good, GoodSat, GoodDsat, SatSound, DsatSound
  <2>2. LocksWithin(Then(X.can.d, Z.can.s), E.tl, E.k)
    BY <1>2, <2>1, LocksWeaken, Zenon
  <2>3. LocksWithin(Then(X.can.s, Z.can.d), X.ext.tl, X.ext.k)
    BY <1>7, Zenon DEF ThenFacts, Good, GoodSat, GoodDsat, SatSound, DsatSound
  <2>4. LocksWithin(Then(X.can.s, Z.can.d), E.tl, E.k)
    BY <1>2, <2>3, LocksWeaken, Zenon
  <2> QED BY Zenon, <1>3, <1>8, <2>2, <2>4 DEF EitherFacts
<1>11. Longest(N.can.s, E.ss.sat)
  BY ZenonT(40), <1>2, <1>3, <1>5, <1>7, <1>8
     DEF ThenFacts, EitherFacts, Good, GoodSat, GoodDsat, SatSound, DsatSound
<1>12. Longest(N.can.d, E.ss.dsat)
  BY ZenonT(40), <1>2, <1>3, <1>5, <1>7, <1>8
     DEF ThenFacts, EitherFacts, Good, GoodSat, GoodDsat, SatSound, DsatSound
<1> USE <1>1, <1>2, <1>3, <1>7, <1>8
    DEF ThenFacts, EitherFacts, Good, GoodSat, GoodDsat, SatSound, DsatSound
<1>13. Typed(N.all.s)
  BY Zenon
<1>14. T.z => Length(N.all.s, 0)
  BY Zenon
<1>15. T.o => Length(N.all.s, 1)
  BY Zenon
<1>16. T.n => TopNonZero(N.all.s)
  BY Zenon
<1>17. T.type = "K" \/ E.s => NeedsSig(N.all.s)
  BY Zenon
<1>18. Typed(N.all.d)
  BY Zenon
<1>19. T.z => Length(N.all.d, 0)
  BY Zenon
<1>20. T.o => Length(N.all.d, 1)
  BY Zenon
<1>21. T.d => ~NeedsSig(N.all.d)
  BY Zenon
<1>22. T.type = "V" => N.all.d = {}
  BY Zenon
<1>23. E.f => NeedsSig(N.all.d)
  BY Zenon
<1>24. E.e /\ E.m => OneUnsigned(N.all.d)
  BY Zenon
<1>25. NoLocks(N.can.d)
  BY Zenon
<1> QED BY Zenon, <1>9, <1>10, <1>11, <1>12, <1>13, <1>14, <1>15, <1>16, <1>17, <1>18, <1>19,
           <1>20, <1>21, <1>22, <1>23, <1>24, <1>25
        DEF Good, GoodSat, GoodDsat, SatSound, DsatSound, Within, T, E, N

node_or_c(X, Z) ==
  Node(type_or_c(X.flags, Z.flags), ext_or_c(X.ext, Z.ext),
       sat_or_c(X.all, Z.all), sat_or_c(X.can, Z.can))

\* or_c: if the children are well described and the type is accepted, so is the node.
LEMMA RuleOrC ==
  ASSUME NEW X, NEW Z,
         Good(X), Good(Z),
         node_or_c(X, Z).flags # Invalid
  PROVE  Good(node_or_c(X, Z))
<1> DEFINE N == node_or_c(X, Z)
           T == N.flags
           E == N.ext
<1>1. /\ T.type = "V" /\ (T.z <=> X.flags.z /\ Z.flags.z)
      /\ (T.o <=> X.flags.o /\ Z.flags.z) /\ ~T.n /\ ~T.d
  BY Zenon DEF node_or_c, Node, type_or_c, When, Flags, Bdu, Invalid
<1>2. /\ (E.s <=> X.ext.s /\ Z.ext.s) /\ ~E.e
      /\ Within(X.ext.tl, E.tl)
      /\ Within(Z.ext.tl, E.tl)
      /\ (E.k => X.ext.k /\ Z.ext.k)
      /\ E.ss.sat = maxcheck(X.ext.ss.sat, sumcheck(X.ext.ss.dsat, Z.ext.ss.sat))
      /\ E.ss.dsat = -1
  BY Zenon DEF node_or_c, Node, ext_or_c, Ext, Over, Ss, Either, Within
<1>3. /\ N.all.s = Either(X.all.s, Then(X.all.d, Z.all.s))
      /\ N.all.d = {}
      /\ N.can.s = Either(X.can.s, Then(X.can.d, Z.can.s))
      /\ N.can.d = {}
  BY Zenon DEF node_or_c, Node, sat_or_c, SD, Extra, Either
<1> HIDE DEF N, T, E
<1>4. /\ Typed(X.all.d) /\ Within(X.can.d, X.all.d)
      /\ Typed(X.all.s) /\ Within(X.can.s, X.all.s)
      /\ Typed(Z.all.s) /\ Within(Z.can.s, Z.all.s)
  BY Zenon DEF Good, GoodSat, GoodDsat, SatSound, DsatSound, Within
<1>5. Typed(X.can.d) /\ Typed(X.can.s) /\ Typed(Z.can.s)
  BY <1>4, TypedPart, Zenon
<1>7. /\ ThenFacts(X.all.d, Z.all.s)
      /\ ThenFacts(X.can.d, Z.can.s)
  BY <1>4, <1>5, ThenAll, Zenon
<1>8. /\ EitherFacts(X.all.s, Then(X.all.d, Z.all.s))
      /\ EitherFacts(X.can.s, Then(X.can.d, Z.can.s))
  BY EitherAll, Zenon
<1>9. Within(N.can.s, N.all.s) /\ Within(N.can.d, N.all.d)
  <2>1. Within(Then(X.can.d, Z.can.s), Then(X.all.d, Z.all.s))
    BY <1>4, ThenGrows, Zenon
  <2> QED BY <1>3, <2>1, <1>4 DEF Within, Either
<1>10. LocksWithin(N.can.s, E.tl, E.k)
  <2>1. LocksWithin(X.can.s, X.ext.tl, X.ext.k)
    BY <1>7, Zenon DEF ThenFacts, Good, GoodSat, GoodDsat, SatSound, DsatSound
  <2>2. LocksWithin(X.can.s, E.tl, E.k)
    BY <1>2, <2>1, LocksWeaken, Zenon
  <2>3. LocksWithin(Then(X.can.d, Z.can.s), Z.ext.tl, Z.ext.k)
    BY <1>7, Zenon DEF ThenFacts, Good, GoodSat, GoodDsat, SatSound, DsatSound
  <2>4. LocksWithin(Then(X.can.d, Z.can.s), E.tl, E.k)
    BY <1>2, <2>3, LocksWeaken, Zenon
  <2> QED BY Zenon, <1>3, <1>8, <2>2, <2>4 DEF EitherFacts
<1>11. Longest(N.can.s, E.ss.sat)
  BY ZenonT(40), <1>2, <1>3, <1>5, <1>7, <1>8
     DEF ThenFacts, EitherFacts, Good, GoodSat, GoodDsat, SatSound, DsatSound
<1>12. Longest(N.can.d, E.ss.dsat)
  BY Zenon, <1>2, <1>3, <1>5, <1>7, <1>8, Empty
     DEF ThenFacts, EitherFacts, Good, GoodSat, GoodDsat, SatSound, DsatSound
<1> USE <1>1, <1>2, <1>3, <1>7, <1>8, Empty
    DEF ThenFacts, EitherFacts, Good, GoodSat, GoodDsat, SatSound, DsatSound
<1>13. Typed(N.all.s)
  BY Zenon
<1>14. T.z => Length(N.all.s, 0)
  BY Zenon
<1>15. T.o => Length(N.all.s, 1)
  BY Zenon
<1>16. T.n => TopNonZero(N.all.s)
  BY Zenon
<1>17. T.type = "K" \/ E.s => NeedsSig(N.all.s)
  BY Zenon
<1>18. Typed(N.all.d)
  BY Zenon
<1>19. T.z => Length(N.all.d, 0)
  BY Zenon
<1>20. T.o => Length(N.all.d, 1)
  BY Zenon
<1>21. T.d => ~NeedsSig(N.all.d)
  BY Zenon
<1>22. T.type = "V" => N.all.d = {}
  BY Zenon
<1>23. E.f => NeedsSig(N.all.d)
  BY Zenon
<1>24. E.e /\ E.m => OneUnsigned(N.all.d)
  BY Zenon
<1>25. NoLocks(N.can.d)
  BY Zenon
<1> QED BY Zenon, <1>9, <1>10, <1>11, <1>12, <1>13, <1>14, <1>15, <1>16, <1>17, <1>18, <1>19,
           <1>20, <1>21, <1>22, <1>23, <1>24, <1>25
        DEF Good, GoodSat, GoodDsat, SatSound, DsatSound, Within, T, E, N

node_or_d(X, Z) ==
  Node(type_or_d(X.flags, Z.flags), ext_or_d(X.ext, Z.ext),
       sat_or_d(X.all, Z.all), sat_or_d(X.can, Z.can))

\* or_d: if the children are well described and the type is accepted, so is the node.
LEMMA RuleOrD ==
  ASSUME NEW X, NEW Z,
         Good(X), Good(Z),
         node_or_d(X, Z).flags # Invalid
  PROVE  Good(node_or_d(X, Z))
<1> DEFINE N == node_or_d(X, Z)
           T == N.flags
           E == N.ext
<1>1. /\ X.flags.d /\ T.type = "B" /\ (T.z <=> X.flags.z /\ Z.flags.z)
      /\ (T.o <=> X.flags.o /\ Z.flags.z) /\ ~T.n /\ (T.d <=> Z.flags.d)
  BY Zenon DEF node_or_d, Node, type_or_d, When, Flags, Bdu, Invalid
<1>2. /\ (E.s <=> X.ext.s /\ Z.ext.s) /\ (E.f <=> Z.ext.f)
      /\ (E.e <=> Z.ext.e) /\ (E.m => X.ext.m /\ Z.ext.m /\ X.ext.e)
      /\ Within(X.ext.tl, E.tl)
      /\ Within(Z.ext.tl, E.tl)
      /\ (E.k => X.ext.k /\ Z.ext.k)
      /\ E.ss.sat = maxcheck(X.ext.ss.sat, sumcheck(X.ext.ss.dsat, Z.ext.ss.sat))
      /\ E.ss.dsat = sumcheck(X.ext.ss.dsat, Z.ext.ss.dsat)
  BY Zenon DEF node_or_d, Node, ext_or_d, Ext, Over, Ss, Either, Within
<1>3. /\ N.all.s = Either(X.all.s, Then(X.all.d, Z.all.s))
      /\ N.all.d = Then(X.all.d, Z.all.d)
      /\ N.can.s = Either(X.can.s, Then(X.can.d, Z.can.s))
      /\ N.can.d = Then(X.can.d, Z.can.d)
  BY Zenon DEF node_or_d, Node, sat_or_d, SD, Extra, Either
<1> HIDE DEF N, T, E
<1>4. /\ Typed(X.all.d) /\ Within(X.can.d, X.all.d)
      /\ Typed(X.all.s) /\ Within(X.can.s, X.all.s)
      /\ Typed(Z.all.d) /\ Within(Z.can.d, Z.all.d)
      /\ Typed(Z.all.s) /\ Within(Z.can.s, Z.all.s)
  BY Zenon DEF Good, GoodSat, GoodDsat, SatSound, DsatSound, Within
<1>5. Typed(X.can.d) /\ Typed(X.can.s) /\ Typed(Z.can.d) /\ Typed(Z.can.s)
  BY <1>4, TypedPart, Zenon
<1>7. /\ ThenFacts(X.all.d, Z.all.s)
      /\ ThenFacts(X.all.d, Z.all.d)
      /\ ThenFacts(X.can.d, Z.can.s)
      /\ ThenFacts(X.can.d, Z.can.d)
  BY <1>4, <1>5, ThenAll, Zenon
<1>8. /\ EitherFacts(X.all.s, Then(X.all.d, Z.all.s))
      /\ EitherFacts(X.can.s, Then(X.can.d, Z.can.s))
  BY EitherAll, Zenon
<1>9. Within(N.can.s, N.all.s) /\ Within(N.can.d, N.all.d)
  <2>1. Within(Then(X.can.d, Z.can.s), Then(X.all.d, Z.all.s))
    BY <1>4, ThenGrows, Zenon
  <2>2. Within(Then(X.can.d, Z.can.d), Then(X.all.d, Z.all.d))
    BY <1>4, ThenGrows, Zenon
  <2> QED BY <1>3, <2>1, <2>2, <1>4 DEF Within, Either
<1>10. LocksWithin(N.can.s, E.tl, E.k)
  <2>1. LocksWithin(X.can.s, X.ext.tl, X.ext.k)
    BY <1>7, Zenon DEF ThenFacts, Good, GoodSat, GoodDsat, SatSound, DsatSound
  <2>2. LocksWithin(X.can.s, E.tl, E.k)
    BY <1>2, <2>1, LocksWeaken, Zenon
  <2>3. LocksWithin(Then(X.can.d, Z.can.s), Z.ext.tl, Z.ext.k)
    BY <1>7, Zenon DEF ThenFacts, Good, GoodSat, GoodDsat, SatSound, DsatSound
  <2>4. LocksWithin(Then(X.can.d, Z.can.s), E.tl, E.k)
    BY <1>2, <2>3, LocksWeaken, Zenon
  <2> QED BY Zenon, <1>3, <1>8, <2>2, <2>4 DEF EitherFacts
<1>11. Longest(N.can.s, E.ss.sat)
  BY ZenonT(40), <1>2, <1>3, <1>5, <1>7, <1>8
     DEF ThenFacts, EitherFacts, Good, GoodSat, GoodDsat, SatSound, DsatSound
<1>12. Longest(N.can.d, E.ss.dsat)
  BY ZenonT(40), <1>2, <1>3, <1>5, <1>7, <1>8
     DEF ThenFacts, EitherFacts, Good, GoodSat, GoodDsat, SatSound, DsatSound
<1> USE <1>1, <1>2, <1>3, <1>7, <1>8
    DEF ThenFacts, EitherFacts, Good, GoodSat, GoodDsat, SatSound, DsatSound
<1>13. Typed(N.all.s)
  BY Zenon
<1>14. T.z => Length(N.all.s, 0)
  BY Zenon
<1>15. T.o => Length(N.all.s, 1)
  BY Zenon
<1>16. T.n => TopNonZero(N.all.s)
  BY Zenon
<1>17. T.type = "K" \/ E.s => NeedsSig(N.all.s)
  BY Zenon
<1>18. Typed(N.all.d)
  BY Zenon
<1>19. T.z => Length(N.all.d, 0)
  BY Zenon
<1>20. T.o => Length(N.all.d, 1)
  BY Zenon
<1>21. T.d => ~NeedsSig(N.all.d)
  BY Zenon
<1>22. T.type = "V" => N.all.d = {}
  BY Zenon
<1>23. E.f => NeedsSig(N.all.d)
  BY Zenon
<1>24. E.e /\ E.m => OneUnsigned(N.all.d)
  BY Zenon
<1>25. NoLocks(N.can.d)
  BY Zenon
<1> QED BY Zenon, <1>9, <1>10, <1>11, <1>12, <1>13, <1>14, <1>15, <1>16, <1>17, <1>18, <1>19,
           <1>20, <1>21, <1>22, <1>23, <1>24, <1>25
        DEF Good, GoodSat, GoodDsat, SatSound, DsatSound, Within, T, E, N

node_or_i(X, Z) ==
  Node(type_or_i(X.flags, Z.flags), ext_or_i(X.ext, Z.ext),
       sat_or_i(X.all, Z.all), sat_or_i(X.can, Z.can))

\* or_i: if the children are well described and the type is accepted, so is the node.
LEMMA RuleOrI ==
  ASSUME NEW X, NEW Z,
         Good(X), Good(Z),
         node_or_i(X, Z).flags # Invalid
  PROVE  Good(node_or_i(X, Z))
<1> DEFINE N == node_or_i(X, Z)
           T == N.flags
           E == N.ext
<1>1. /\ X.flags.type = Z.flags.type /\ T.type = X.flags.type /\ ~T.z
      /\ (T.o <=> X.flags.z /\ Z.flags.z) /\ ~T.n /\ (T.d <=> X.flags.d \/ Z.flags.d)
  BY Zenon DEF node_or_i, Node, type_or_i, When, Flags, Bdu, Invalid
<1>2. /\ (E.s <=> X.ext.s /\ Z.ext.s) /\ (E.f <=> X.ext.f /\ Z.ext.f)
      /\ (E.e <=> (X.ext.e /\ Z.ext.f) \/ (Z.ext.e /\ X.ext.f)) /\ (E.m => X.ext.m /\ Z.ext.m)
      /\ Within(X.ext.tl, E.tl)
      /\ Within(Z.ext.tl, E.tl)
      /\ (E.k => X.ext.k /\ Z.ext.k)
      /\ E.ss.sat = maxcheck(sumcheck(X.ext.ss.sat, 1), sumcheck(Z.ext.ss.sat, 1))
      /\ E.ss.dsat = maxcheck(sumcheck(X.ext.ss.dsat, 1), sumcheck(Z.ext.ss.dsat, 1))
  BY Zenon DEF node_or_i, Node, ext_or_i, Ext, Over, Ss, Either, Within
<1>3. /\ N.all.s = Either(Then(W(<<E1>>), X.all.s), Then(W(<<E0>>), Z.all.s))
      /\ N.all.d = Either(Then(W(<<E1>>), X.all.d), Then(W(<<E0>>), Z.all.d))
      /\ N.can.s = Either(Then(W(<<E1>>), X.can.s), Then(W(<<E0>>), Z.can.s))
      /\ N.can.d = Either(Then(W(<<E1>>), X.can.d), Then(W(<<E0>>), Z.can.d))
  BY Zenon DEF node_or_i, Node, sat_or_i, SD, Extra, Either
<1> HIDE DEF N, T, E
<1>4. /\ Typed(X.all.d) /\ Within(X.can.d, X.all.d)
      /\ Typed(X.all.s) /\ Within(X.can.s, X.all.s)
      /\ Typed(Z.all.d) /\ Within(Z.can.d, Z.all.d)
      /\ Typed(Z.all.s) /\ Within(Z.can.s, Z.all.s)
  BY Zenon DEF Good, GoodSat, GoodDsat, SatSound, DsatSound, Within
<1>5. Typed(X.can.d) /\ Typed(X.can.s) /\ Typed(Z.can.d) /\ Typed(Z.can.s)
  BY <1>4, TypedPart, Zenon
<1>6. PushFacts(W(<<E0>>)) /\ PushFacts(W(<<E1>>)) /\ TopNonZero(W(<<E1>>))
  BY Pushes, Zenon
<1>7. /\ ThenFacts(W(<<E1>>), X.all.s)
      /\ ThenFacts(W(<<E0>>), Z.all.s)
      /\ ThenFacts(W(<<E1>>), X.all.d)
      /\ ThenFacts(W(<<E0>>), Z.all.d)
      /\ ThenFacts(W(<<E1>>), X.can.s)
      /\ ThenFacts(W(<<E0>>), Z.can.s)
      /\ ThenFacts(W(<<E1>>), X.can.d)
      /\ ThenFacts(W(<<E0>>), Z.can.d)
  BY <1>4, <1>5, <1>6, ThenAll, Zenon DEF PushFacts
<1>8. /\ EitherFacts(Then(W(<<E1>>), X.all.s), Then(W(<<E0>>), Z.all.s))
      /\ EitherFacts(Then(W(<<E1>>), X.all.d), Then(W(<<E0>>), Z.all.d))
      /\ EitherFacts(Then(W(<<E1>>), X.can.s), Then(W(<<E0>>), Z.can.s))
      /\ EitherFacts(Then(W(<<E1>>), X.can.d), Then(W(<<E0>>), Z.can.d))
  BY EitherAll, Zenon
<1>9. Within(N.can.s, N.all.s) /\ Within(N.can.d, N.all.d)
  <2>1. Within(Then(W(<<E1>>), X.can.s), Then(W(<<E1>>), X.all.s))
    BY <1>4, ThenGrows, WithinSelf, Zenon
  <2>2. Within(Then(W(<<E0>>), Z.can.s), Then(W(<<E0>>), Z.all.s))
    BY <1>4, ThenGrows, WithinSelf, Zenon
  <2>3. Within(Then(W(<<E1>>), X.can.d), Then(W(<<E1>>), X.all.d))
    BY <1>4, ThenGrows, WithinSelf, Zenon
  <2>4. Within(Then(W(<<E0>>), Z.can.d), Then(W(<<E0>>), Z.all.d))
    BY <1>4, ThenGrows, WithinSelf, Zenon
  <2> QED BY <1>3, <2>1, <2>2, <2>3, <2>4, <1>4 DEF Within, Either
<1>10. LocksWithin(N.can.s, E.tl, E.k)
  <2>1. LocksWithin(Then(W(<<E1>>), X.can.s), X.ext.tl, X.ext.k)
    BY <1>6, <1>7, Zenon DEF PushFacts, ThenFacts, Good, GoodSat, GoodDsat, SatSound, DsatSound
  <2>2. LocksWithin(Then(W(<<E1>>), X.can.s), E.tl, E.k)
    BY <1>2, <2>1, LocksWeaken, Zenon
  <2>3. LocksWithin(Then(W(<<E0>>), Z.can.s), Z.ext.tl, Z.ext.k)
    BY <1>6, <1>7, Zenon DEF PushFacts, ThenFacts, Good, GoodSat, GoodDsat, SatSound, DsatSound
  <2>4. LocksWithin(Then(W(<<E0>>), Z.can.s), E.tl, E.k)
    BY <1>2, <2>3, LocksWeaken, Zenon
  <2> QED BY Zenon, <1>3, <1>8, <2>2, <2>4 DEF EitherFacts
<1>11. Longest(N.can.s, E.ss.sat)
  BY ZenonT(120), <1>2, <1>3, <1>5, <1>6, <1>7, <1>8
     DEF PushFacts, ThenFacts, EitherFacts, Good, GoodSat, GoodDsat, SatSound, DsatSound
<1>12. Longest(N.can.d, E.ss.dsat)
  BY ZenonT(40), <1>2, <1>3, <1>5, <1>6, <1>7, <1>8
     DEF PushFacts, ThenFacts, EitherFacts, Good, GoodSat, GoodDsat, SatSound, DsatSound
<1> USE <1>1, <1>2, <1>3, <1>6, <1>7, <1>8
    DEF PushFacts, ThenFacts, EitherFacts, Good, GoodSat, GoodDsat, SatSound, DsatSound
<1>13. Typed(N.all.s)
  BY Zenon
<1>14. T.z => Length(N.all.s, 0)
  BY Zenon
<1>15. T.o => Length(N.all.s, 1)
  BY Zenon
<1>16. T.n => TopNonZero(N.all.s)
  BY Zenon
<1>17. T.type = "K" \/ E.s => NeedsSig(N.all.s)
  BY Zenon
<1>18. Typed(N.all.d)
  BY Zenon
<1>19. T.z => Length(N.all.d, 0)
  BY Zenon
<1>20. T.o => Length(N.all.d, 1)
  BY Zenon
<1>21. T.d => ~NeedsSig(N.all.d)
  BY Zenon
<1>22. T.type = "V" => N.all.d = {}
  BY Zenon
<1>23. E.f => NeedsSig(N.all.d)
  BY Zenon
<1>24. E.e /\ E.m => OneUnsigned(N.all.d)
  BY Zenon
<1>25. NoLocks(N.can.d)
  BY Zenon
<1> QED BY Zenon, <1>9, <1>10, <1>11, <1>12, <1>13, <1>14, <1>15, <1>16, <1>17, <1>18, <1>19,
           <1>20, <1>21, <1>22, <1>23, <1>24, <1>25
        DEF Good, GoodSat, GoodDsat, SatSound, DsatSound, Within, T, E, N

node_a(X) ==
  Node(type_a(X.flags), ext_a(X.ext),
       X.all, X.can)

\* a: if the children are well described and the type is accepted, so is the node.
LEMMA RuleA ==
  ASSUME NEW X,
         Good(X),
         node_a(X).flags # Invalid
  PROVE  Good(node_a(X))
<1> DEFINE N == node_a(X)
           T == N.flags
           E == N.ext
<1>1. /\ T.type = "W" /\ ~T.z /\ ~T.o /\ ~T.n /\ (T.d <=> X.flags.d)
  BY Zenon DEF node_a, Node, type_a, When, Flags, Bdu, Invalid
<1>2. /\ (E.s <=> X.ext.s) /\ (E.m <=> X.ext.m) /\ (E.k <=> X.ext.k) /\ Within(X.ext.tl, E.tl)
      /\ (E.f <=> X.ext.f) /\ (E.e <=> X.ext.e) /\ E.ss.sat = X.ext.ss.sat
         /\ E.ss.dsat = X.ext.ss.dsat
  BY Zenon DEF node_a, Node, ext_a, Ext, Over, Ss, Counted, Either, Within
<1>3. /\ N.all.s = X.all.s
      /\ N.all.d = X.all.d
      /\ N.can.s = X.can.s
      /\ N.can.d = X.can.d
  BY Zenon DEF node_a, Node, SD, Extra, Either
<1> HIDE DEF N, T, E
<1>4. /\ Typed(X.all.d) /\ Within(X.can.d, X.all.d)
      /\ Typed(X.all.s) /\ Within(X.can.s, X.all.s)
  BY Zenon DEF Good, GoodSat, GoodDsat, SatSound, DsatSound, Within
<1>5. Typed(X.can.d) /\ Typed(X.can.s)
  BY <1>4, TypedPart, Zenon
<1>9. Within(N.can.s, N.all.s) /\ Within(N.can.d, N.all.d)
  <2> QED BY <1>3, <1>4 DEF Within, Either
<1>10. LocksWithin(N.can.s, E.tl, E.k)
  <2>1. LocksWithin(X.can.s, X.ext.tl, X.ext.k)
    BY Zenon DEF Good, GoodSat, GoodDsat, SatSound, DsatSound
  <2>2. LocksWithin(X.can.s, E.tl, E.k)
    BY <1>2, <2>1, LocksWeaken, Zenon
  <2> QED BY Zenon, <1>3, <2>2
<1>11. Longest(N.can.s, E.ss.sat)
  BY Zenon, <1>2, <1>3, <1>5
     DEF Good, GoodSat, GoodDsat, SatSound, DsatSound
<1>12. Longest(N.can.d, E.ss.dsat)
  BY Zenon, <1>2, <1>3, <1>5
     DEF Good, GoodSat, GoodDsat, SatSound, DsatSound
<1> USE <1>1, <1>2, <1>3
    DEF Good, GoodSat, GoodDsat, SatSound, DsatSound
<1>13. Typed(N.all.s)
  BY Zenon
<1>14. T.z => Length(N.all.s, 0)
  BY Zenon
<1>15. T.o => Length(N.all.s, 1)
  BY Zenon
<1>16. T.n => TopNonZero(N.all.s)
  BY Zenon
<1>17. T.type = "K" \/ E.s => NeedsSig(N.all.s)
  BY Zenon
<1>18. Typed(N.all.d)
  BY Zenon
<1>19. T.z => Length(N.all.d, 0)
  BY Zenon
<1>20. T.o => Length(N.all.d, 1)
  BY Zenon
<1>21. T.d => ~NeedsSig(N.all.d)
  BY Zenon
<1>22. T.type = "V" => N.all.d = {}
  BY Zenon
<1>23. E.f => NeedsSig(N.all.d)
  BY Zenon
<1>24. E.e /\ E.m => OneUnsigned(N.all.d)
  BY Zenon
<1>25. NoLocks(N.can.d)
  BY Zenon
<1> QED BY Zenon, <1>9, <1>10, <1>11, <1>12, <1>13, <1>14, <1>15, <1>16, <1>17, <1>18, <1>19,
           <1>20, <1>21, <1>22, <1>23, <1>24, <1>25
        DEF Good, GoodSat, GoodDsat, SatSound, DsatSound, Within, T, E, N

node_s(X) ==
  Node(type_s(X.flags), ext_s(X.ext),
       X.all, X.can)

\* s: if the children are well described and the type is accepted, so is the node.
LEMMA RuleS ==
  ASSUME NEW X,
         Good(X),
         node_s(X).flags # Invalid
  PROVE  Good(node_s(X))
<1> DEFINE N == node_s(X)
           T == N.flags
           E == N.ext
<1>1. /\ T.type = "W" /\ ~T.z /\ ~T.o /\ ~T.n /\ (T.d <=> X.flags.d)
  BY Zenon DEF node_s, Node, type_s, When, Flags, Bdu, Invalid
<1>2. /\ (E.s <=> X.ext.s) /\ (E.m <=> X.ext.m) /\ (E.k <=> X.ext.k) /\ Within(X.ext.tl, E.tl)
      /\ (E.f <=> X.ext.f) /\ (E.e <=> X.ext.e) /\ E.ss.sat = X.ext.ss.sat
         /\ E.ss.dsat = X.ext.ss.dsat
  BY Zenon DEF node_s, Node, ext_s, Ext, Over, Ss, Counted, Either, Within
<1>3. /\ N.all.s = X.all.s
      /\ N.all.d = X.all.d
      /\ N.can.s = X.can.s
      /\ N.can.d = X.can.d
  BY Zenon DEF node_s, Node, SD, Extra, Either
<1> HIDE DEF N, T, E
<1>4. /\ Typed(X.all.d) /\ Within(X.can.d, X.all.d)
      /\ Typed(X.all.s) /\ Within(X.can.s, X.all.s)
  BY Zenon DEF Good, GoodSat, GoodDsat, SatSound, DsatSound, Within
<1>5. Typed(X.can.d) /\ Typed(X.can.s)
  BY <1>4, TypedPart, Zenon
<1>9. Within(N.can.s, N.all.s) /\ Within(N.can.d, N.all.d)
  <2> QED BY <1>3, <1>4 DEF Within, Either
<1>10. LocksWithin(N.can.s, E.tl, E.k)
  <2>1. LocksWithin(X.can.s, X.ext.tl, X.ext.k)
    BY Zenon DEF Good, GoodSat, GoodDsat, SatSound, DsatSound
  <2>2. LocksWithin(X.can.s, E.tl, E.k)
    BY <1>2, <2>1, LocksWeaken, Zenon
  <2> QED BY Zenon, <1>3, <2>2
<1>11. Longest(N.can.s, E.ss.sat)
  BY Zenon, <1>2, <1>3, <1>5
     DEF Good, GoodSat, GoodDsat, SatSound, DsatSound
<1>12. Longest(N.can.d, E.ss.dsat)
  BY Zenon, <1>2, <1>3, <1>5
     DEF Good, GoodSat, GoodDsat, SatSound, DsatSound
<1> USE <1>1, <1>2, <1>3
    DEF Good, GoodSat, GoodDsat, SatSound, DsatSound
<1>13. Typed(N.all.s)
  BY Zenon
<1>14. T.z => Length(N.all.s, 0)
  BY Zenon
<1>15. T.o => Length(N.all.s, 1)
  BY Zenon
<1>16. T.n => TopNonZero(N.all.s)
  BY Zenon
<1>17. T.type = "K" \/ E.s => NeedsSig(N.all.s)
  BY Zenon
<1>18. Typed(N.all.d)
  BY Zenon
<1>19. T.z => Length(N.all.d, 0)
  BY Zenon
<1>20. T.o => Length(N.all.d, 1)
  BY Zenon
<1>21. T.d => ~NeedsSig(N.all.d)
  BY Zenon
<1>22. T.type = "V" => N.all.d = {}
  BY Zenon
<1>23. E.f => NeedsSig(N.all.d)
  BY Zenon
<1>24. E.e /\ E.m => OneUnsigned(N.all.d)
  BY Zenon
<1>25. NoLocks(N.can.d)
  BY Zenon
<1> QED BY Zenon, <1>9, <1>10, <1>11, <1>12, <1>13, <1>14, <1>15, <1>16, <1>17, <1>18, <1>19,
           <1>20, <1>21, <1>22, <1>23, <1>24, <1>25
        DEF Good, GoodSat, GoodDsat, SatSound, DsatSound, Within, T, E, N

node_n(X) ==
  Node(type_n(X.flags), ext_n(X.ext),
       X.all, X.can)

\* n: if the children are well described and the type is accepted, so is the node.
LEMMA RuleN ==
  ASSUME NEW X,
         Good(X),
         node_n(X).flags # Invalid
  PROVE  Good(node_n(X))
<1> DEFINE N == node_n(X)
           T == N.flags
           E == N.ext
<1>1. /\ T.type = "B"
      /\ (T.z <=> X.flags.z) /\ (T.o <=> X.flags.o) /\ (T.n <=> X.flags.n)
      /\ (T.d <=> X.flags.d)
  BY Zenon DEF node_n, Node, type_n, When, Flags, Bdu, Invalid
<1>2. /\ (E.s <=> X.ext.s) /\ (E.m <=> X.ext.m) /\ (E.k <=> X.ext.k) /\ Within(X.ext.tl, E.tl)
      /\ (E.f <=> X.ext.f) /\ (E.e <=> X.ext.e) /\ E.ss.sat = X.ext.ss.sat
         /\ E.ss.dsat = X.ext.ss.dsat
  BY Zenon DEF node_n, Node, ext_n, Ext, Over, Ss, Counted, Either, Within
<1>3. /\ N.all.s = X.all.s
      /\ N.all.d = X.all.d
      /\ N.can.s = X.can.s
      /\ N.can.d = X.can.d
  BY Zenon DEF node_n, Node, SD, Extra, Either
<1> HIDE DEF N, T, E
<1>4. /\ Typed(X.all.d) /\ Within(X.can.d, X.all.d)
      /\ Typed(X.all.s) /\ Within(X.can.s, X.all.s)
  BY Zenon DEF Good, GoodSat, GoodDsat, SatSound, DsatSound, Within
<1>5. Typed(X.can.d) /\ Typed(X.can.s)
  BY <1>4, TypedPart, Zenon
<1>9. Within(N.can.s, N.all.s) /\ Within(N.can.d, N.all.d)
  <2> QED BY <1>3, <1>4 DEF Within, Either
<1>10. LocksWithin(N.can.s, E.tl, E.k)
  <2>1. LocksWithin(X.can.s, X.ext.tl, X.ext.k)
    BY Zenon DEF Good, GoodSat, GoodDsat, SatSound, DsatSound
  <2>2. LocksWithin(X.can.s, E.tl, E.k)
    BY <1>2, <2>1, LocksWeaken, Zenon
  <2> QED BY Zenon, <1>3, <2>2
<1>11. Longest(N.can.s, E.ss.sat)
  BY Zenon, <1>2, <1>3, <1>5
     DEF Good, GoodSat, GoodDsat, SatSound, DsatSound
<1>12. Longest(N.can.d, E.ss.dsat)
  BY Zenon, <1>2, <1>3, <1>5
     DEF Good, GoodSat, GoodDsat, SatSound, DsatSound
<1> USE <1>1, <1>2, <1>3
    DEF Good, GoodSat, GoodDsat, SatSound, DsatSound
<1>13. Typed(N.all.s)
  BY Zenon
<1>14. T.z => Length(N.all.s, 0)
  BY Zenon
<1>15. T.o => Length(N.all.s, 1)
  BY Zenon
<1>16. T.n => TopNonZero(N.all.s)
  BY Zenon
<1>17. T.type = "K" \/ E.s => NeedsSig(N.all.s)
  BY Zenon
<1>18. Typed(N.all.d)
  BY Zenon
<1>19. T.z => Length(N.all.d, 0)
  BY Zenon
<1>20. T.o => Length(N.all.d, 1)
  BY Zenon
<1>21. T.d => ~NeedsSig(N.all.d)
  BY Zenon
<1>22. T.type = "V" => N.all.d = {}
  BY Zenon
<1>23. E.f => NeedsSig(N.all.d)
  BY Zenon
<1>24. E.e /\ E.m => OneUnsigned(N.all.d)
  BY Zenon
<1>25. NoLocks(N.can.d)
  BY Zenon
<1> QED BY Zenon, <1>9, <1>10, <1>11, <1>12, <1>13, <1>14, <1>15, <1>16, <1>17, <1>18, <1>19,
           <1>20, <1>21, <1>22, <1>23, <1>24, <1>25
        DEF Good, GoodSat, GoodDsat, SatSound, DsatSound, Within, T, E, N

node_c(X) ==
  Node(type_c(X.flags), ext_c(X.ext),
       X.all, X.can)

\* c: if the children are well described and the type is accepted, so is the node.
LEMMA RuleC ==
  ASSUME NEW X,
         Good(X),
         node_c(X).flags # Invalid
  PROVE  Good(node_c(X))
<1> DEFINE N == node_c(X)
           T == N.flags
           E == N.ext
<1>1. /\ X.flags.type = "K" /\ T.type = "B"
      /\ ~T.z /\ (T.o <=> X.flags.o) /\ (T.n <=> X.flags.n)
      /\ (T.d <=> X.flags.d)
  BY Zenon DEF node_c, Node, type_c, When, Flags, Bdu, Invalid
<1>2. /\ (E.m <=> X.ext.m) /\ (E.k <=> X.ext.k) /\ Within(X.ext.tl, E.tl)
      /\ (E.f <=> X.ext.f) /\ (E.e <=> X.ext.e) /\ E.ss.sat = X.ext.ss.sat
         /\ E.ss.dsat = X.ext.ss.dsat
  BY Zenon DEF node_c, Node, ext_c, Ext, Over, Ss, Counted, Either, Within
<1>3. /\ N.all.s = X.all.s
      /\ N.all.d = X.all.d
      /\ N.can.s = X.can.s
      /\ N.can.d = X.can.d
  BY Zenon DEF node_c, Node, SD, Extra, Either
<1> HIDE DEF N, T, E
<1>4. /\ Typed(X.all.d) /\ Within(X.can.d, X.all.d)
      /\ Typed(X.all.s) /\ Within(X.can.s, X.all.s)
  BY Zenon DEF Good, GoodSat, GoodDsat, SatSound, DsatSound, Within
<1>5. Typed(X.can.d) /\ Typed(X.can.s)
  BY <1>4, TypedPart, Zenon
<1>9. Within(N.can.s, N.all.s) /\ Within(N.can.d, N.all.d)
  <2> QED BY <1>3, <1>4 DEF Within, Either
<1>10. LocksWithin(N.can.s, E.tl, E.k)
  <2>1. LocksWithin(X.can.s, X.ext.tl, X.ext.k)
    BY Zenon DEF Good, GoodSat, GoodDsat, SatSound, DsatSound
  <2>2. LocksWithin(X.can.s, E.tl, E.k)
    BY <1>2, <2>1, LocksWeaken, Zenon
  <2> QED BY Zenon, <1>3, <2>2
<1>11. Longest(N.can.s, E.ss.sat)
  BY Zenon, <1>2, <1>3, <1>5
     DEF Good, GoodSat, GoodDsat, SatSound, DsatSound
<1>12. Longest(N.can.d, E.ss.dsat)
  BY Zenon, <1>2, <1>3, <1>5
     DEF Good, GoodSat, GoodDsat, SatSound, DsatSound
<1> USE <1>1, <1>2, <1>3
    DEF Good, GoodSat, GoodDsat, SatSound, DsatSound
<1>13. Typed(N.all.s)
  BY Zenon
<1>14. T.z => Length(N.all.s, 0)
  BY Zenon
<1>15. T.o => Length(N.all.s, 1)
  BY Zenon
<1>16. T.n => TopNonZero(N.all.s)
  BY Zenon
<1>17. T.type = "K" \/ E.s => NeedsSig(N.all.s)
  BY Zenon
<1>18. Typed(N.all.d)
  BY Zenon
<1>19. T.z => Length(N.all.d, 0)
  BY Zenon
<1>20. T.o => Length(N.all.d, 1)
  BY Zenon
<1>21. T.d => ~NeedsSig(N.all.d)
  BY Zenon
<1>22. T.type = "V" => N.all.d = {}
  BY Zenon
<1>23. E.f => NeedsSig(N.all.d)
  BY Zenon
<1>24. E.e /\ E.m => OneUnsigned(N.all.d)
  BY Zenon
<1>25. NoLocks(N.can.d)
  BY Zenon
<1> QED BY Zenon, <1>9, <1>10, <1>11, <1>12, <1>13, <1>14, <1>15, <1>16, <1>17, <1>18, <1>19,
           <1>20, <1>21, <1>22, <1>23, <1>24, <1>25
        DEF Good, GoodSat, GoodDsat, SatSound, DsatSound, Within, T, E, N

node_t(X) ==
  Node(type_t(X.flags), ext_t(X.ext),
       sat_v(X.all), sat_v(X.can))

\* t: if the children are well described and the type is accepted, so is the node.
LEMMA RuleT ==
  ASSUME NEW X,
         Good(X),
         node_t(X).flags # Invalid
  PROVE  Good(node_t(X))
<1> DEFINE N == node_t(X)
           T == N.flags
           E == N.ext
<1>1. /\ T.type = "B" /\ ~T.d
      /\ (T.z <=> X.flags.z) /\ (T.o <=> X.flags.o) /\ (T.n <=> X.flags.n)
  BY Zenon DEF node_t, Node, type_t, When, Flags, Bdu, Invalid
<1>2. /\ (E.s <=> X.ext.s) /\ (E.m <=> X.ext.m) /\ (E.k <=> X.ext.k) /\ Within(X.ext.tl, E.tl)
      /\ ~E.e /\ E.ss.sat = X.ext.ss.sat /\ E.ss.dsat = -1
  BY Zenon DEF node_t, Node, ext_t, Ext, Over, Ss, Counted, Either, Within
<1>3. /\ N.all.s = X.all.s
      /\ N.all.d = {}
      /\ N.can.s = X.can.s
      /\ N.can.d = {}
  BY Zenon DEF node_t, Node, sat_v, SD, Extra, Either
<1> HIDE DEF N, T, E
<1>4. /\ Typed(X.all.s) /\ Within(X.can.s, X.all.s)
  BY Zenon DEF Good, GoodSat, GoodDsat, SatSound, DsatSound, Within
<1>5. Typed(X.can.s)
  BY <1>4, TypedPart, Zenon
<1>9. Within(N.can.s, N.all.s) /\ Within(N.can.d, N.all.d)
  <2> QED BY <1>3, <1>4 DEF Within, Either
<1>10. LocksWithin(N.can.s, E.tl, E.k)
  <2>1. LocksWithin(X.can.s, X.ext.tl, X.ext.k)
    BY Zenon DEF Good, GoodSat, GoodDsat, SatSound, DsatSound
  <2>2. LocksWithin(X.can.s, E.tl, E.k)
    BY <1>2, <2>1, LocksWeaken, Zenon
  <2> QED BY Zenon, <1>3, <2>2
<1>11. Longest(N.can.s, E.ss.sat)
  BY Zenon, <1>2, <1>3, <1>5
     DEF Good, GoodSat, GoodDsat, SatSound, DsatSound
<1>12. Longest(N.can.d, E.ss.dsat)
  BY Zenon, <1>2, <1>3, <1>5, Empty
     DEF Good, GoodSat, GoodDsat, SatSound, DsatSound
<1> USE <1>1, <1>2, <1>3, Empty
    DEF Good, GoodSat, GoodDsat, SatSound, DsatSound
<1>13. Typed(N.all.s)
  BY Zenon
<1>14. T.z => Length(N.all.s, 0)
  BY Zenon
<1>15. T.o => Length(N.all.s, 1)
  BY Zenon
<1>16. T.n => TopNonZero(N.all.s)
  BY Zenon
<1>17. T.type = "K" \/ E.s => NeedsSig(N.all.s)
  BY Zenon
<1>18. Typed(N.all.d)
  BY Zenon
<1>19. T.z => Length(N.all.d, 0)
  BY Zenon
<1>20. T.o => Length(N.all.d, 1)
  BY Zenon
<1>21. T.d => ~NeedsSig(N.all.d)
  BY Zenon
<1>22. T.type = "V" => N.all.d = {}
  BY Zenon
<1>23. E.f => NeedsSig(N.all.d)
  BY Zenon
<1>24. E.e /\ E.m => OneUnsigned(N.all.d)
  BY Zenon
<1>25. NoLocks(N.can.d)
  BY Zenon
<1> QED BY Zenon, <1>9, <1>10, <1>11, <1>12, <1>13, <1>14, <1>15, <1>16, <1>17, <1>18, <1>19,
           <1>20, <1>21, <1>22, <1>23, <1>24, <1>25
        DEF Good, GoodSat, GoodDsat, SatSound, DsatSound, Within, T, E, N

node_v(X) ==
  Node(type_v(X.flags), ext_v(X.ext),
       sat_v(X.all), sat_v(X.can))

\* v: if the children are well described and the type is accepted, so is the node.
LEMMA RuleV ==
  ASSUME NEW X,
         Good(X),
         node_v(X).flags # Invalid
  PROVE  Good(node_v(X))
<1> DEFINE N == node_v(X)
           T == N.flags
           E == N.ext
<1>1. /\ T.type = "V" /\ ~T.d
      /\ (T.z <=> X.flags.z) /\ (T.o <=> X.flags.o) /\ (T.n <=> X.flags.n)
  BY Zenon DEF node_v, Node, type_v, When, Flags, Bdu, Invalid
<1>2. /\ (E.s <=> X.ext.s) /\ (E.m <=> X.ext.m) /\ (E.k <=> X.ext.k) /\ Within(X.ext.tl, E.tl)
      /\ ~E.e /\ E.ss.sat = X.ext.ss.sat /\ E.ss.dsat = -1
  BY Zenon DEF node_v, Node, ext_v, Ext, Over, Ss, Counted, Either, Within
<1>3. /\ N.all.s = X.all.s
      /\ N.all.d = {}
      /\ N.can.s = X.can.s
      /\ N.can.d = {}
  BY Zenon DEF node_v, Node, sat_v, SD, Extra, Either
<1> HIDE DEF N, T, E
<1>4. /\ Typed(X.all.s) /\ Within(X.can.s, X.all.s)
  BY Zenon DEF Good, GoodSat, GoodDsat, SatSound, DsatSound, Within
<1>5. Typed(X.can.s)
  BY <1>4, TypedPart, Zenon
<1>9. Within(N.can.s, N.all.s) /\ Within(N.can.d, N.all.d)
  <2> QED BY <1>3, <1>4 DEF Within, Either
<1>10. LocksWithin(N.can.s, E.tl, E.k)
  <2>1. LocksWithin(X.can.s, X.ext.tl, X.ext.k)
    BY Zenon DEF Good, GoodSat, GoodDsat, SatSound, DsatSound
  <2>2. LocksWithin(X.can.s, E.tl, E.k)
    BY <1>2, <2>1, LocksWeaken, Zenon
  <2> QED BY Zenon, <1>3, <2>2
<1>11. Longest(N.can.s, E.ss.sat)
  BY Zenon, <1>2, <1>3, <1>5
     DEF Good, GoodSat, GoodDsat, SatSound, DsatSound
<1>12. Longest(N.can.d, E.ss.dsat)
  BY Zenon, <1>2, <1>3, <1>5, Empty
     DEF Good, GoodSat, GoodDsat, SatSound, DsatSound
<1> USE <1>1, <1>2, <1>3, Empty
    DEF Good, GoodSat, GoodDsat, SatSound, DsatSound
<1>13. Typed(N.all.s)
  BY Zenon
<1>14. T.z => Length(N.all.s, 0)
  BY Zenon
<1>15. T.o => Length(N.all.s, 1)
  BY Zenon
<1>16. T.n => TopNonZero(N.all.s)
  BY Zenon
<1>17. T.type = "K" \/ E.s => NeedsSig(N.all.s)
  BY Zenon
<1>18. Typed(N.all.d)
  BY Zenon
<1>19. T.z => Length(N.all.d, 0)
  BY Zenon
<1>20. T.o => Length(N.all.d, 1)
  BY Zenon
<1>21. T.d => ~NeedsSig(N.all.d)
  BY Zenon
<1>22. T.type = "V" => N.all.d = {}
  BY Zenon
<1>23. E.f => NeedsSig(N.all.d)
  BY Zenon
<1>24. E.e /\ E.m => OneUnsigned(N.all.d)
  BY Zenon
<1>25. NoLocks(N.can.d)
  BY Zenon
<1> QED BY Zenon, <1>9, <1>10, <1>11, <1>12, <1>13, <1>14, <1>15, <1>16, <1>17, <1>18, <1>19,
           <1>20, <1>21, <1>22, <1>23, <1>24, <1>25
        DEF Good, GoodSat, GoodDsat, SatSound, DsatSound, Within, T, E, N

node_d(X, within_tr) ==
  Node(type_d(X.flags, within_tr), ext_d(X.ext),
       sat_d(X.all), sat_d(X.can))

\* d: if the children are well described and the type is accepted, so is the node.
LEMMA RuleD ==
  ASSUME NEW X, NEW within_tr,
         Good(X),
         node_d(X, within_tr).flags # Invalid
  PROVE  Good(node_d(X, within_tr))
<1> DEFINE N == node_d(X, within_tr)
           T == N.flags
           E == N.ext
<1>1. /\ X.flags.z /\ T.type = "B" /\ ~T.z
  BY Zenon DEF node_d, Node, type_d, When, Flags, Bdu, Invalid
<1>2. /\ (E.s <=> X.ext.s) /\ (E.m <=> X.ext.m) /\ (E.k <=> X.ext.k) /\ Within(X.ext.tl, E.tl)
      /\ ~E.f /\ E.ss.sat = sumcheck(1, X.ext.ss.sat) /\ E.ss.dsat = 1
  BY Zenon DEF node_d, Node, ext_d, Ext, Over, Ss, Counted, Either, Within
<1>3. /\ N.all.s = Then(W(<<E1>>), X.all.s)
      /\ N.all.d = W(<<E0>>)
      /\ N.can.s = Then(W(<<E1>>), X.can.s)
      /\ N.can.d = W(<<E0>>)
  BY Zenon DEF node_d, Node, sat_d, SD, Extra, Either
<1> HIDE DEF N, T, E
<1>4. /\ Typed(X.all.s) /\ Within(X.can.s, X.all.s)
  BY Zenon DEF Good, GoodSat, GoodDsat, SatSound, DsatSound, Within
<1>5. Typed(X.can.s)
  BY <1>4, TypedPart, Zenon
<1>6. PushFacts(W(<<E0>>)) /\ PushFacts(W(<<E1>>)) /\ TopNonZero(W(<<E1>>))
  BY Pushes, Zenon
<1>7. /\ ThenFacts(W(<<E1>>), X.all.s)
      /\ ThenFacts(W(<<E1>>), X.can.s)
  BY <1>4, <1>5, <1>6, ThenAll, Zenon DEF PushFacts
<1>9. Within(N.can.s, N.all.s) /\ Within(N.can.d, N.all.d)
  <2>1. Within(Then(W(<<E1>>), X.can.s), Then(W(<<E1>>), X.all.s))
    BY <1>4, ThenGrows, WithinSelf, Zenon
  <2> QED BY <1>3, <2>1, <1>4 DEF Within, Either
<1>10. LocksWithin(N.can.s, E.tl, E.k)
  <2>1. LocksWithin(Then(W(<<E1>>), X.can.s), X.ext.tl, X.ext.k)
    BY <1>6, <1>7, Zenon DEF PushFacts, ThenFacts, Good, GoodSat, GoodDsat, SatSound, DsatSound
  <2>2. LocksWithin(Then(W(<<E1>>), X.can.s), E.tl, E.k)
    BY <1>2, <2>1, LocksWeaken, Zenon
  <2> QED BY Zenon, <1>3, <2>2
<1>11. Longest(N.can.s, E.ss.sat)
  BY Zenon, <1>2, <1>3, <1>5, <1>6, <1>7
     DEF PushFacts, ThenFacts, Good, GoodSat, GoodDsat, SatSound, DsatSound
<1>12. Longest(N.can.d, E.ss.dsat)
  BY Zenon, <1>2, <1>3, <1>5, <1>6, <1>7
     DEF PushFacts, ThenFacts, Good, GoodSat, GoodDsat, SatSound, DsatSound
<1> USE <1>1, <1>2, <1>3, <1>6, <1>7
    DEF PushFacts, ThenFacts, Good, GoodSat, GoodDsat, SatSound, DsatSound
<1>13. Typed(N.all.s)
  BY Zenon
<1>14. T.z => Length(N.all.s, 0)
  BY Zenon
<1>15. T.o => Length(N.all.s, 1)
  BY Zenon
<1>16. T.n => TopNonZero(N.all.s)
  BY Zenon
<1>17. T.type = "K" \/ E.s => NeedsSig(N.all.s)
  BY Zenon
<1>18. Typed(N.all.d)
  BY Zenon
<1>19. T.z => Length(N.all.d, 0)
  BY Zenon
<1>20. T.o => Length(N.all.d, 1)
  BY Zenon
<1>21. T.d => ~NeedsSig(N.all.d)
  BY Zenon
<1>22. T.type = "V" => N.all.d = {}
  BY Zenon
<1>23. E.f => NeedsSig(N.all.d)
  BY Zenon
<1>24. E.e /\ E.m => OneUnsigned(N.all.d)
  BY Zenon
<1>25. NoLocks(N.can.d)
  BY Zenon
<1> QED BY Zenon, <1>9, <1>10, <1>11, <1>12, <1>13, <1>14, <1>15, <1>16, <1>17, <1>18, <1>19,
           <1>20, <1>21, <1>22, <1>23, <1>24, <1>25
        DEF Good, GoodSat, GoodDsat, SatSound, DsatSound, Within, T, E, N

node_j(X) ==
  Node(type_j(X.flags), ext_j(X.ext),
       sat_j(X.all, TRUE), sat_j(X.can, FALSE))

\* j: if the children are well described and the type is accepted, so is the node.
LEMMA RuleJ ==
  ASSUME NEW X,
         Good(X),
         node_j(X).flags # Invalid
  PROVE  Good(node_j(X))
<1> DEFINE N == node_j(X)
           T == N.flags
           E == N.ext
<1>1. /\ X.flags.n /\ T.type = "B" /\ ~T.z /\ (T.o <=> X.flags.o)
  BY Zenon DEF node_j, Node, type_j, When, Flags, Bdu, Invalid
<1>2. /\ (E.s <=> X.ext.s) /\ (E.m <=> X.ext.m) /\ (E.k <=> X.ext.k) /\ Within(X.ext.tl, E.tl)
      /\ ~E.f /\ (E.e <=> X.ext.f) /\ E.ss.sat = X.ext.ss.sat /\ E.ss.dsat = 1
  BY Zenon DEF node_j, Node, ext_j, Ext, Over, Ss, Counted, Either, Within
<1>3. /\ N.all.s = X.all.s
      /\ N.all.d = Either(W(<<E0>>), NonZero(X.all.d))
      /\ N.can.s = X.can.s
      /\ N.can.d = W(<<E0>>)
  BY Zenon DEF node_j, Node, sat_j, SD, Extra, Either, NonZero
<1> HIDE DEF N, T, E
<1>4. /\ Typed(X.all.s) /\ Within(X.can.s, X.all.s)
  BY Zenon DEF Good, GoodSat, GoodDsat, SatSound, DsatSound, Within
<1>5. Typed(X.can.s)
  BY <1>4, TypedPart, Zenon
<1>6. PushFacts(W(<<E0>>)) /\ NonZeroFacts(X.all.d)
  BY Pushes, NonZeroAll, Zenon
<1>8. /\ EitherFacts(W(<<E0>>), NonZero(X.all.d))
  BY EitherAll, Zenon
<1>9. Within(N.can.s, N.all.s) /\ Within(N.can.d, N.all.d)
  <2> QED BY <1>3, <1>4 DEF Within, Either
<1>10. LocksWithin(N.can.s, E.tl, E.k)
  <2>1. LocksWithin(X.can.s, X.ext.tl, X.ext.k)
    BY <1>6, Zenon DEF PushFacts, NonZeroFacts, Good, GoodSat, GoodDsat, SatSound, DsatSound
  <2>2. LocksWithin(X.can.s, E.tl, E.k)
    BY <1>2, <2>1, LocksWeaken, Zenon
  <2> QED BY Zenon, <1>3, <1>8, <2>2 DEF EitherFacts
<1>11. Longest(N.can.s, E.ss.sat)
  BY Zenon, <1>2, <1>3, <1>5, <1>6, <1>8
     DEF PushFacts, NonZeroFacts, EitherFacts, Good, GoodSat, GoodDsat, SatSound, DsatSound
<1>12. Longest(N.can.d, E.ss.dsat)
  BY Zenon, <1>2, <1>3, <1>5, <1>6, <1>8
     DEF PushFacts, NonZeroFacts, EitherFacts, Good, GoodSat, GoodDsat, SatSound, DsatSound
<1> USE <1>1, <1>2, <1>3, <1>6, <1>8
    DEF PushFacts, NonZeroFacts, EitherFacts, Good, GoodSat, GoodDsat, SatSound, DsatSound
<1>13. Typed(N.all.s)
  BY Zenon
<1>14. T.z => Length(N.all.s, 0)
  BY Zenon
<1>15. T.o => Length(N.all.s, 1)
  BY Zenon
<1>16. T.n => TopNonZero(N.all.s)
  BY Zenon
<1>17. T.type = "K" \/ E.s => NeedsSig(N.all.s)
  BY Zenon
<1>18. Typed(N.all.d)
  BY Zenon
<1>19. T.z => Length(N.all.d, 0)
  BY Zenon
<1>20. T.o => Length(N.all.d, 1)
  BY Zenon
<1>21. T.d => ~NeedsSig(N.all.d)
  BY Zenon
<1>22. T.type = "V" => N.all.d = {}
  BY Zenon
<1>23. E.f => NeedsSig(N.all.d)
  BY Zenon
<1>24. E.e /\ E.m => OneUnsigned(N.all.d)
  BY Zenon
<1>25. NoLocks(N.can.d)
  BY Zenon
<1> QED BY Zenon, <1>9, <1>10, <1>11, <1>12, <1>13, <1>14, <1>15, <1>16, <1>17, <1>18, <1>19,
           <1>20, <1>21, <1>22, <1>23, <1>24, <1>25
        DEF Good, GoodSat, GoodDsat, SatSound, DsatSound, Within, T, E, N

node_l(X) ==
  Node(type_lu(X.flags), ext_lu(X.ext),
       sat_l(X.all), sat_l(X.can))

\* l: if the children are well described and the type is accepted, so is the node.
LEMMA RuleL ==
  ASSUME NEW X,
         Good(X),
         node_l(X).flags # Invalid
  PROVE  Good(node_l(X))
<1> DEFINE N == node_l(X)
           T == N.flags
           E == N.ext
<1>1. /\ T.type = "B" /\ ~T.z /\ (T.o <=> X.flags.z) /\ ~T.n
  BY Zenon DEF node_l, Node, type_lu, When, Flags, Bdu, Invalid
<1>2. /\ (E.s <=> X.ext.s) /\ (E.m <=> X.ext.m) /\ (E.k <=> X.ext.k) /\ Within(X.ext.tl, E.tl)
      /\ ~E.f /\ (E.e <=> X.ext.f)
      /\ E.ss.sat = sumcheck(X.ext.ss.sat, 1)
      /\ E.ss.dsat = maxcheck(1, sumcheck(X.ext.ss.dsat, 1))
  BY Zenon DEF node_l, Node, ext_lu, Ext, Over, Ss, Counted, Either, Within
<1>3. /\ N.all.s = Then(W(<<E0>>), X.all.s)
      /\ N.all.d = Either(W(<<E1>>), Then(W(<<E0>>), X.all.d))
      /\ N.can.s = Then(W(<<E0>>), X.can.s)
      /\ N.can.d = Either(W(<<E1>>), Then(W(<<E0>>), X.can.d))
  BY Zenon DEF node_l, Node, sat_l, SD, Extra, Either
<1> HIDE DEF N, T, E
<1>4. /\ Typed(X.all.d) /\ Within(X.can.d, X.all.d)
      /\ Typed(X.all.s) /\ Within(X.can.s, X.all.s)
  BY Zenon DEF Good, GoodSat, GoodDsat, SatSound, DsatSound, Within
<1>5. Typed(X.can.d) /\ Typed(X.can.s)
  BY <1>4, TypedPart, Zenon
<1>6. PushFacts(W(<<E0>>)) /\ PushFacts(W(<<E1>>)) /\ TopNonZero(W(<<E1>>))
  BY Pushes, Zenon
<1>7. /\ ThenFacts(W(<<E0>>), X.all.s)
      /\ ThenFacts(W(<<E0>>), X.all.d)
      /\ ThenFacts(W(<<E0>>), X.can.s)
      /\ ThenFacts(W(<<E0>>), X.can.d)
  BY <1>4, <1>5, <1>6, ThenAll, Zenon DEF PushFacts
<1>8. /\ EitherFacts(W(<<E1>>), Then(W(<<E0>>), X.all.d))
      /\ EitherFacts(W(<<E1>>), Then(W(<<E0>>), X.can.d))
  BY EitherAll, Zenon
<1>9. Within(N.can.s, N.all.s) /\ Within(N.can.d, N.all.d)
  <2>1. Within(Then(W(<<E0>>), X.can.s), Then(W(<<E0>>), X.all.s))
    BY <1>4, ThenGrows, WithinSelf, Zenon
  <2>2. Within(Then(W(<<E0>>), X.can.d), Then(W(<<E0>>), X.all.d))
    BY <1>4, ThenGrows, WithinSelf, Zenon
  <2> QED BY <1>3, <2>1, <2>2, <1>4 DEF Within, Either
<1>10. LocksWithin(N.can.s, E.tl, E.k)
  <2>1. LocksWithin(Then(W(<<E0>>), X.can.s), X.ext.tl, X.ext.k)
    BY <1>6, <1>7, Zenon DEF PushFacts, ThenFacts, Good, GoodSat, GoodDsat, SatSound, DsatSound
  <2>2. LocksWithin(Then(W(<<E0>>), X.can.s), E.tl, E.k)
    BY <1>2, <2>1, LocksWeaken, Zenon
  <2> QED BY Zenon, <1>3, <1>8, <2>2 DEF EitherFacts
<1>11. Longest(N.can.s, E.ss.sat)
  BY ZenonT(40), <1>2, <1>3, <1>5, <1>6, <1>7, <1>8
     DEF PushFacts, ThenFacts, EitherFacts, Good, GoodSat, GoodDsat, SatSound, DsatSound
<1>12. Longest(N.can.d, E.ss.dsat)
  BY ZenonT(40), <1>2, <1>3, <1>5, <1>6, <1>7, <1>8
     DEF PushFacts, ThenFacts, EitherFacts, Good, GoodSat, GoodDsat, SatSound, DsatSound
<1> USE <1>1, <1>2, <1>3, <1>6, <1>7, <1>8
    DEF PushFacts, ThenFacts, EitherFacts, Good, GoodSat, GoodDsat, SatSound, DsatSound
<1>13. Typed(N.all.s)
  BY Zenon
<1>14. T.z => Length(N.all.s, 0)
  BY Zenon
<1>15. T.o => Length(N.all.s, 1)
  BY Zenon
<1>16. T.n => TopNonZero(N.all.s)
  BY Zenon
<1>17. T.type = "K" \/ E.s => NeedsSig(N.all.s)
  BY Zenon
<1>18. Typed(N.all.d)
  BY Zenon
<1>19. T.z => Length(N.all.d, 0)
  BY Zenon
<1>20. T.o => Length(N.all.d, 1)
  BY Zenon
<1>21. T.d => ~NeedsSig(N.all.d)
  BY Zenon
<1>22. T.type = "V" => N.all.d = {}
  BY Zenon
<1>23. E.f => NeedsSig(N.all.d)
  BY Zenon
<1>24. E.e /\ E.m => OneUnsigned(N.all.d)
  BY Zenon
<1>25. NoLocks(N.can.d)
  BY Zenon
<1> QED BY Zenon, <1>9, <1>10, <1>11, <1>12, <1>13, <1>14, <1>15, <1>16, <1>17, <1>18, <1>19,
           <1>20, <1>21, <1>22, <1>23, <1>24, <1>25
        DEF Good, GoodSat, GoodDsat, SatSound, DsatSound, Within, T, E, N

node_u(X) ==
  Node(type_lu(X.flags), ext_lu(X.ext),
       sat_u(X.all), sat_u(X.can))

\* u: if the children are well described and the type is accepted, so is the node.
LEMMA RuleU ==
  ASSUME NEW X,
         Good(X),
         node_u(X).flags # Invalid
  PROVE  Good(node_u(X))
<1> DEFINE N == node_u(X)
           T == N.flags
           E == N.ext
<1>1. /\ T.type = "B" /\ ~T.z /\ (T.o <=> X.flags.z) /\ ~T.n
  BY Zenon DEF node_u, Node, type_lu, When, Flags, Bdu, Invalid
<1>2. /\ (E.s <=> X.ext.s) /\ (E.m <=> X.ext.m) /\ (E.k <=> X.ext.k) /\ Within(X.ext.tl, E.tl)
      /\ ~E.f /\ (E.e <=> X.ext.f)
      /\ E.ss.sat = sumcheck(X.ext.ss.sat, 1)
      /\ E.ss.dsat = maxcheck(1, sumcheck(X.ext.ss.dsat, 1))
  BY Zenon DEF node_u, Node, ext_lu, Ext, Over, Ss, Counted, Either, Within
<1>3. /\ N.all.s = Then(W(<<E1>>), X.all.s)
      /\ N.all.d = Either(W(<<E0>>), Then(W(<<E1>>), X.all.d))
      /\ N.can.s = Then(W(<<E1>>), X.can.s)
      /\ N.can.d = Either(W(<<E0>>), Then(W(<<E1>>), X.can.d))
  BY Zenon DEF node_u, Node, sat_u, SD, Extra, Either
<1> HIDE DEF N, T, E
<1>4. /\ Typed(X.all.d) /\ Within(X.can.d, X.all.d)
      /\ Typed(X.all.s) /\ Within(X.can.s, X.all.s)
  BY Zenon DEF Good, GoodSat, GoodDsat, SatSound, DsatSound, Within
<1>5. Typed(X.can.d) /\ Typed(X.can.s)
  BY <1>4, TypedPart, Zenon
<1>6. PushFacts(W(<<E0>>)) /\ PushFacts(W(<<E1>>)) /\ TopNonZero(W(<<E1>>))
  BY Pushes, Zenon
<1>7. /\ ThenFacts(W(<<E1>>), X.all.s)
      /\ ThenFacts(W(<<E1>>), X.all.d)
      /\ ThenFacts(W(<<E1>>), X.can.s)
      /\ ThenFacts(W(<<E1>>), X.can.d)
  BY <1>4, <1>5, <1>6, ThenAll, Zenon DEF PushFacts
<1>8. /\ EitherFacts(W(<<E0>>), Then(W(<<E1>>), X.all.d))
      /\ EitherFacts(W(<<E0>>), Then(W(<<E1>>), X.can.d))
  BY EitherAll, Zenon
<1>9. Within(N.can.s, N.all.s) /\ Within(N.can.d, N.all.d)
  <2>1. Within(Then(W(<<E1>>), X.can.s), Then(W(<<E1>>), X.all.s))
    BY <1>4, ThenGrows, WithinSelf, Zenon
  <2>2. Within(Then(W(<<E1>>), X.can.d), Then(W(<<E1>>), X.all.d))
    BY <1>4, ThenGrows, WithinSelf, Zenon
  <2> QED BY <1>3, <2>1, <2>2, <1>4 DEF Within, Either
<1>10. LocksWithin(N.can.s, E.tl, E.k)
  <2>1. LocksWithin(Then(W(<<E1>>), X.can.s), X.ext.tl, X.ext.k)
    BY <1>6, <1>7, Zenon DEF PushFacts, ThenFacts, Good, GoodSat, GoodDsat, SatSound, DsatSound
  <2>2. LocksWithin(Then(W(<<E1>>), X.can.s), E.tl, E.k)
    BY <1>2, <2>1, LocksWeaken, Zenon
  <2> QED BY Zenon, <1>3, <1>8, <2>2 DEF EitherFacts
<1>11. Longest(N.can.s, E.ss.sat)
  BY ZenonT(40), <1>2, <1>3, <1>5, <1>6, <1>7, <1>8
     DEF PushFacts, ThenFacts, EitherFacts, Good, GoodSat, GoodDsat, SatSound, DsatSound
<1>12. Longest(N.can.d, E.ss.dsat)
  BY ZenonT(40), <1>2, <1>3, <1>5, <1>6, <1>7, <1>8
     DEF PushFacts, ThenFacts, EitherFacts, Good, GoodSat, GoodDsat, SatSound, DsatSound
<1> USE <1>1, <1>2, <1>3, <1>6, <1>7, <1>8
    DEF PushFacts, ThenFacts, EitherFacts, Good, GoodSat, GoodDsat, SatSound, DsatSound
<1>13. Typed(N.all.s)
  BY Zenon
<1>14. T.z => Length(N.all.s, 0)
  BY Zenon
<1>15. T.o => Length(N.all.s, 1)
  BY Zenon
<1>16. T.n => TopNonZero(N.all.s)
  BY Zenon
<1>17. T.type = "K" \/ E.s => NeedsSig(N.all.s)
  BY Zenon
<1>18. Typed(N.all.d)
  BY Zenon
<1>19. T.z => Length(N.all.d, 0)
  BY Zenon
<1>20. T.o => Length(N.all.d, 1)
  BY Zenon
<1>21. T.d => ~NeedsSig(N.all.d)
  BY Zenon
<1>22. T.type = "V" => N.all.d = {}
  BY Zenon
<1>23. E.f => NeedsSig(N.all.d)
  BY Zenon
<1>24. E.e /\ E.m => OneUnsigned(N.all.d)
  BY Zenon
<1>25. NoLocks(N.can.d)
  BY Zenon
<1> QED BY Zenon, <1>9, <1>10, <1>11, <1>12, <1>13, <1>14, <1>15, <1>16, <1>17, <1>18, <1>19,
           <1>20, <1>21, <1>22, <1>23, <1>24, <1>25
        DEF Good, GoodSat, GoodDsat, SatSound, DsatSound, Within, T, E, N

-----------------------------------------------------------------------------
(* The fragments without children. *)

\* A nonempty set of witnesses of one length: that is the longest.
LEMMA SameSize ==
  ASSUME NEW A, NEW n \in Nat, A # {}, Length(A, n)
  PROVE  Longest(A, n)
BY DEF Length, Longest

\* The facts about one witness, in one place.
WitnessFacts(w) ==
  /\ Typed(W(w)) /\ Length(W(w), Len(w)) /\ NoLocks(W(w))
  /\ NeedsSig(W(w)) <=> SigIn(w)
  /\ ~SigIn(w) => OneUnsigned(W(w))
  /\ Len(w) > 0 /\ w[Len(w)] # E0 => TopNonZero(W(w))
  /\ Longest(W(w), Len(w))
  /\ \A tl, k : LocksWithin(W(w), tl, k)

\* They hold for all witnesses.
LEMMA WitnessAll ==
  ASSUME NEW w \in Seq(Elements)
  PROVE  WitnessFacts(w)
BY OneWitness, Zenon DEF WitnessFacts

\* The set of the empty witness.
LEMMA NoWitness ==
  /\ Typed(W(<<>>)) /\ Length(W(<<>>), 0) /\ NoLocks(W(<<>>)) /\ OneUnsigned(W(<<>>))
  /\ ~NeedsSig(W(<<>>)) /\ Longest(W(<<>>), 0) /\ \A tl, k : LocksWithin(W(<<>>), tl, k)
<1>1. <<>> \in Seq(Elements) /\ Len(<<>>) = 0
  OBVIOUS
<1>2. ~SigIn(<<>>)
  BY DEF SigIn
<1>3. WitnessFacts(<<>>)
  BY <1>1, WitnessAll
<1> QED BY <1>1, <1>2, <1>3, Zenon DEF WitnessFacts

\* The witnesses of pk and pkh.
LEMMA KeyWitnesses ==
  ASSUME NEW key \in Keys
  PROVE  LET S1 == W(<< <<"sig", key>> >>)
             S2 == W(<< <<"sig", key>>, <<"pk", key>> >>)
             D2 == W(<<E0, <<"pk", key>> >>)
         IN  /\ Typed(S1) /\ Length(S1, 1) /\ NeedsSig(S1) /\ TopNonZero(S1)
             /\ Longest(S1, 1) /\ \A tl, k : LocksWithin(S1, tl, k)
             /\ Typed(S2) /\ NeedsSig(S2) /\ TopNonZero(S2)
             /\ Longest(S2, 2) /\ \A tl, k : LocksWithin(S2, tl, k)
             /\ Typed(D2) /\ ~NeedsSig(D2) /\ OneUnsigned(D2)
             /\ Longest(D2, 2) /\ NoLocks(D2)
<1> DEFINE s == <<"sig", key>>
           p == <<"pk", key>>
<1>1. s \in Elements /\ p \in Elements /\ E0 \in Elements
  BY DEF Elements
<1>2. s[1] = "sig" /\ p[1] # "sig" /\ E0[1] # "sig" /\ s # E0 /\ p # E0
  BY DEF E0
<1> HIDE DEF s, p
<1>3. <<s>> \in Seq(Elements) /\ <<s, p>> \in Seq(Elements) /\ <<E0, p>> \in Seq(Elements)
  BY <1>1
<1>4. /\ Len(<<s>>) = 1 /\ Len(<<s, p>>) = 2 /\ Len(<<E0, p>>) = 2
      /\ <<s>>[Len(<<s>>)] = s /\ <<s, p>>[Len(<<s, p>>)] = p
  OBVIOUS
<1>5. SigIn(<<s>>) /\ SigIn(<<s, p>>) /\ ~SigIn(<<E0, p>>)
  BY <1>2 DEF SigIn
<1>6. WitnessFacts(<<s>>) /\ WitnessFacts(<<s, p>>) /\ WitnessFacts(<<E0, p>>)
  BY <1>3, WitnessAll
<1>7. /\ Typed(W(<<s>>)) /\ Length(W(<<s>>), 1) /\ NeedsSig(W(<<s>>)) /\ TopNonZero(W(<<s>>))
      /\ Longest(W(<<s>>), 1) /\ \A tl, k : LocksWithin(W(<<s>>), tl, k)
  <2>1. Len(<<s>>) > 0
    BY <1>4
  <2> QED BY <1>2, <1>4, <1>5, <1>6, <2>1, Zenon DEF WitnessFacts
<1>8. /\ Typed(W(<<s, p>>)) /\ NeedsSig(W(<<s, p>>)) /\ TopNonZero(W(<<s, p>>))
      /\ Longest(W(<<s, p>>), 2) /\ \A tl, k : LocksWithin(W(<<s, p>>), tl, k)
  <2>1. Len(<<s, p>>) > 0
    BY <1>4
  <2> QED BY <1>2, <1>4, <1>5, <1>6, <2>1, Zenon DEF WitnessFacts
<1>9. /\ Typed(W(<<E0, p>>)) /\ ~NeedsSig(W(<<E0, p>>)) /\ OneUnsigned(W(<<E0, p>>))
      /\ Longest(W(<<E0, p>>), 2) /\ NoLocks(W(<<E0, p>>))
  BY <1>4, <1>5, <1>6, Zenon DEF WitnessFacts
<1> QED BY <1>7, <1>8, <1>9, Zenon DEF s, p

node_0 == Node(type_0, ext_0, sat_0, sat_0)
node_1 == Node(type_1, ext_1, sat_1, sat_1)
node_pk(key, tap) == Node(type_pk, ext_pk(tap), sat_pk(key), sat_pk(key))
node_pkh(key) == Node(type_pkh, ext_pkh, sat_pkh(key), sat_pkh(key))
node_pk_h(key) == Node(type_pk_h, ext_pk_h, sat_pkh(key), sat_pkh(key))
node_pk_k(key, tap) == Node(type_pk_k, ext_pk_k(tap), sat_pk_k(key), sat_pk_k(key))
node_older(n) ==
  Node(type_locktime, ext_older(n), sat_lock(LockKind("older", n)),
       sat_lock(LockKind("older", n)))
node_after(n) ==
  Node(type_locktime, ext_after(n), sat_lock(LockKind("after", n)),
       sat_lock(LockKind("after", n)))
node_hash(token) ==
  Node(type_hash, ext_hash256, sat_hash(token, TRUE), sat_hash(token, FALSE))
node_hash160(token) ==
  Node(type_hash160, ext_hash160, sat_hash(token, TRUE), sat_hash(token, FALSE))

\* 0 has no satisfaction, 1 no dissatisfaction.
LEMMA RuleConstants == Good(node_0) /\ Good(node_1)
<1>1. Good(node_0)
  <2>1. /\ node_0.all.s = {} /\ node_0.can.s = {} /\ node_0.ext.ss.sat = -1
        /\ node_0.all.d = W(<<>>) /\ node_0.can.d = W(<<>>) /\ node_0.ext.ss.dsat = 0
        /\ ~node_0.flags.o /\ node_0.flags.type = "B" /\ ~node_0.ext.f
    BY DEF node_0, Node, type_0, ext_0, sat_0, Flags, Leaf, Ext, Ss, SD
  <2> QED BY <2>1, Empty, NoWitness, Zenon DEF Good, GoodSat, GoodDsat, SatSound, DsatSound
<1>2. Good(node_1)
  <2>1. /\ node_1.all.s = W(<<>>) /\ node_1.can.s = W(<<>>) /\ node_1.ext.ss.sat = 0
        /\ node_1.all.d = {} /\ node_1.can.d = {} /\ node_1.ext.ss.dsat = -1
        /\ ~node_1.flags.o /\ ~node_1.flags.n /\ ~node_1.flags.d /\ node_1.flags.type = "B"
        /\ ~node_1.ext.s /\ ~node_1.ext.e
    BY DEF node_1, Node, type_1, ext_1, sat_1, Flags, Leaf, Ext, Ss, SD
  <2> QED BY <2>1, Empty, NoWitness, Zenon DEF Good, GoodSat, GoodDsat, SatSound, DsatSound
<1> QED BY <1>1, <1>2

\* The fragments of one key.  pk_k is emitted with a verifying opcode, so that only its
\* satisfaction is what the analysis says.
LEMMA RuleKeys ==
  ASSUME NEW key \in Keys, NEW tap
  PROVE  /\ Good(node_pk(key, tap)) /\ Good(node_pkh(key)) /\ Good(node_pk_h(key))
         /\ GoodSat(node_pk_k(key, tap))
<1> DEFINE S1 == W(<< <<"sig", key>> >>)
           S2 == W(<< <<"sig", key>>, <<"pk", key>> >>)
           D2 == W(<<E0, <<"pk", key>> >>)
<1>1. /\ Typed(S1) /\ Length(S1, 1) /\ NeedsSig(S1) /\ TopNonZero(S1)
      /\ Longest(S1, 1) /\ \A tl, k : LocksWithin(S1, tl, k)
      /\ Typed(S2) /\ NeedsSig(S2) /\ TopNonZero(S2)
      /\ Longest(S2, 2) /\ \A tl, k : LocksWithin(S2, tl, k)
      /\ Typed(D2) /\ ~NeedsSig(D2) /\ OneUnsigned(D2) /\ Longest(D2, 2) /\ NoLocks(D2)
  BY KeyWitnesses, Zenon
<1>2. PushFacts(W(<<E0>>))
  BY Pushes, Zenon
<1>3. Good(node_pk(key, tap))
  <2> DEFINE N == node_pk(key, tap)
  <2>1. /\ N.all.s = S1 /\ N.can.s = S1 /\ N.ext.ss.sat = 1
        /\ N.all.d = W(<<E0>>) /\ N.can.d = W(<<E0>>) /\ N.ext.ss.dsat = 1
        /\ ~N.flags.z /\ N.flags.type = "B" /\ ~N.ext.f
    BY Zenon DEF node_pk, Node, type_pk, ext_pk, sat_pk, Flags, Leaf, Ext, Ss, SD
  <2> HIDE DEF N, S1, S2, D2
  <2>2. Good(N)
    BY <1>1, <1>2, <2>1, Zenon DEF Good, GoodSat, GoodDsat, SatSound, DsatSound, PushFacts
  <2> QED BY <2>2 DEF N
<1>4. ASSUME NEW N, N = node_pkh(key) \/ N = node_pk_h(key)
      PROVE  Good(N)
  <2>1. /\ N.all.s = S2 /\ N.can.s = S2 /\ N.all.d = D2 /\ N.can.d = D2
    <3>1. N.all = sat_pkh(key) /\ N.can = sat_pkh(key)
      BY <1>4 DEF node_pkh, node_pk_h, Node
    <3>2. sat_pkh(key).s = S2 /\ sat_pkh(key).d = D2
      BY Zenon DEF sat_pkh, SD
    <3> QED BY <3>1, <3>2, Zenon
  <2>2. /\ N.flags = type_pkh \/ N.flags = type_pk_h
        /\ N.ext = ext_pkh \/ N.ext = ext_pk_h
    BY <1>4 DEF node_pkh, node_pk_h, Node
  <2>3. /\ ~N.flags.z /\ ~N.flags.o /\ N.flags.type # "V"
        /\ N.ext.ss.sat = 2 /\ N.ext.ss.dsat = 2 /\ ~N.ext.f
    BY SMTT(30), ZenonT(20), <2>2 DEF type_pkh, type_pk_h, ext_pkh, ext_pk_h, Flags, Leaf, Ext, Ss
  <2> HIDE DEF S1, S2, D2
  <2> QED BY <2>3, <1>1, <2>1, Zenon DEF Good, GoodSat, GoodDsat, SatSound, DsatSound
<1>5. GoodSat(node_pk_k(key, tap))
  <2> DEFINE N == node_pk_k(key, tap)
  <2>1. N.all.s = S1 /\ N.can.s = S1 /\ N.ext.ss.sat = 1 /\ ~N.flags.z
    BY Zenon DEF node_pk_k, Node, type_pk_k, ext_pk_k, sat_pk_k, Flags, Leaf, Ext, Ss, SD
  <2> HIDE DEF N, S1, S2, D2
  <2>2. GoodSat(N)
    BY <1>1, <2>1, Zenon DEF GoodSat, SatSound
  <2> QED BY <2>2 DEF N
<1> QED BY <1>3, <1>4, <1>5, Zenon

\* The timelocks: the code's kind is the one that the network sees.
LEMMA RuleLocks ==
  ASSUME NEW n \in Nat
  PROVE  Good(node_older(n)) /\ Good(node_after(n))
<1>1. ASSUME NEW kind \in Locks, NEW N, N.all = sat_lock(kind), N.can = sat_lock(kind),
             N.flags = type_locktime, N.ext = Locktime(kind, n)
      PROVE  Good(N)
  <2> DEFINE x == Sat(<<>>, {kind})
  <2>1. /\ N.all.s = {x} /\ N.can.s = {x} /\ N.all.d = {} /\ N.can.d = {}
        /\ ~N.flags.o /\ ~N.flags.n /\ ~N.flags.d /\ N.flags.type = "B"
    BY SMTT(90), ZenonT(40), <1>1 DEF sat_lock, SD, type_locktime, Flags
  <2>2. /\ ~N.ext.s /\ ~N.ext.e /\ N.ext.tl = {kind}
        /\ N.ext.ss.sat = 0 /\ N.ext.ss.dsat = -1
    BY <1>1 DEF Locktime, Leaf, Ext, Ss
  <2>3. x \in Witnesses /\ x.l = {kind} /\ x.w = <<>>
    BY DEF Witnesses, Sat
  <2>4. Size(x) = 0
    BY <2>3 DEF Size
  <2> HIDE DEF x
  <2>5. Typed(N.all.s) /\ Length(N.all.s, 0)
    BY <2>1, <2>3, <2>4 DEF Typed, Length
  <2>6. Longest(N.can.s, 0)
    BY <2>1, <2>5, SameSize
  <2>7. LocksWithin(N.can.s, N.ext.tl, N.ext.k)
    BY <2>1, <2>2, <2>3 DEF LocksWithin, Mixes
  <2>8. N.can.s \subseteq N.all.s
    BY <2>1
  <2> QED BY <2>1, <2>2, <2>5, <2>6, <2>7, <2>8, Empty, Zenon
          DEF Good, GoodSat, GoodDsat, SatSound, DsatSound
<1>2. LockKind("older", n) \in Locks /\ LockKind("after", n) \in Locks
  BY DEF LockKind, Locks
<1>3. /\ ext_older(n) = Locktime(LockKind("older", n), n)
      /\ ext_after(n) = Locktime(LockKind("after", n), n)
  BY DEF ext_older, ext_after, LockKind, SEQUENCE_LOCKTIME_TYPE_FLAG, LOCKTIME_THRESHOLD
<1>4. Good(node_older(n))
  <2>1. /\ node_older(n).all = sat_lock(LockKind("older", n))
        /\ node_older(n).can = sat_lock(LockKind("older", n))
        /\ node_older(n).flags = type_locktime /\ node_older(n).ext = ext_older(n)
    BY Zenon DEF node_older, Node
  <2> QED BY <1>1, <1>2, <1>3, <2>1, Zenon
<1>5. Good(node_after(n))
  <2>1. /\ node_after(n).all = sat_lock(LockKind("after", n))
        /\ node_after(n).can = sat_lock(LockKind("after", n))
        /\ node_after(n).flags = type_locktime /\ node_after(n).ext = ext_after(n)
    BY Zenon DEF node_after, Node
  <2> QED BY <1>1, <1>2, <1>3, <2>1, Zenon
<1> QED BY <1>4, <1>5

\* The hashes: their dissatisfactions, 32 bytes of anything else, are none of an honest signer.
LEMMA RuleHashes ==
  ASSUME NEW token \in Hashes
  PROVE  Good(node_hash(token)) /\ Good(node_hash160(token))
<1> DEFINE S == W(<< <<"pre", token>> >>)
           J1 == W(<< <<"junk", 1>> >>)
           J2 == W(<< <<"junk", 2>> >>)
<1>1. ASSUME NEW e \in Elements, e[1] # "sig", e # E0
      PROVE  /\ Typed(W(<<e>>)) /\ Length(W(<<e>>), 1) /\ ~NeedsSig(W(<<e>>))
             /\ TopNonZero(W(<<e>>)) /\ Longest(W(<<e>>), 1)
             /\ \A tl, k : LocksWithin(W(<<e>>), tl, k)
  <2>1. <<e>> \in Seq(Elements) /\ Len(<<e>>) = 1 /\ Len(<<e>>) > 0 /\ <<e>>[Len(<<e>>)] = e
    OBVIOUS
  <2>2. ~SigIn(<<e>>)
    BY <1>1 DEF SigIn
  <2>3. WitnessFacts(<<e>>)
    BY <2>1, WitnessAll
  <2> QED BY <1>1, <2>1, <2>2, <2>3, Zenon DEF WitnessFacts
<1>2. /\ <<"pre", token>> \in Elements /\ <<"junk", 1>> \in Elements
         /\ <<"junk", 2>> \in Elements
  BY DEF Elements
<1>3. /\ <<"pre", token>>[1] # "sig" /\ <<"junk", 1>>[1] # "sig" /\ <<"junk", 2>>[1] # "sig"
      /\ <<"pre", token>> # E0 /\ <<"junk", 1>> # E0 /\ <<"junk", 2>> # E0
  BY DEF E0
<1>4. /\ Typed(S) /\ Length(S, 1) /\ TopNonZero(S) /\ Longest(S, 1)
      /\ \A tl, k : LocksWithin(S, tl, k)
  BY <1>1, <1>2, <1>3, Zenon
<1>5. /\ Typed(J1) /\ Length(J1, 1) /\ ~NeedsSig(J1)
      /\ Typed(J2) /\ Length(J2, 1)
  BY <1>1, <1>2, <1>3, Zenon
<1> HIDE DEF S, J1, J2
<1>6. EitherFacts(J1, J2)
  BY EitherAll
<1>7. ASSUME NEW ext, ext = ext_hash256 \/ ext = ext_hash160
      PROVE  Good(Node(type_hash, ext, sat_hash(token, TRUE), sat_hash(token, FALSE)))
  <2> DEFINE N == Node(type_hash, ext, sat_hash(token, TRUE), sat_hash(token, FALSE))
  <2>1. N.all.s = S /\ N.can.s = S /\ N.all.d = Either(J1, J2) /\ N.can.d = {}
    BY Zenon DEF Node, sat_hash, SD, Extra, Either, S, J1, J2
  <2>2. /\ ~N.flags.z /\ N.flags.type = "B" /\ ~N.ext.s /\ ~N.ext.f /\ ~N.ext.e
        /\ N.ext.ss.sat = 1 /\ N.ext.ss.dsat = -1
    <3>1. N.flags = type_hash /\ N.ext = ext
      BY Zenon DEF Node
    <3>2. ~type_hash.z /\ type_hash.type = "B"
      BY Zenon DEF type_hash, Flags
    <3>3. /\ ~ext.s /\ ~ext.f /\ ~ext.e /\ ext.ss.sat = 1 /\ ext.ss.dsat = -1
      BY <1>7 DEF ext_hash160, ext_hash256, Leaf, Ext, Ss
    <3> QED BY <3>1, <3>2, <3>3, Zenon
  <2> HIDE DEF N
  <2>3. Good(N)
    BY <1>4, <1>5, <1>6, <2>1, <2>2, Empty, Zenon
       DEF Good, GoodSat, GoodDsat, SatSound, DsatSound, EitherFacts
  <2> QED BY <2>3 DEF N
<1> QED BY <1>7, Zenon DEF node_hash, node_hash160, type_hash160

\* multi and multi_a over a list of keys.
node_multi(keys, k) ==
  Node(type_multi, ext_multi(k, Len(keys)), sat_multi(keys, k), sat_multi(keys, k))
node_multi_a(keys, k) ==
  Node(type_multi_a, ext_multi_a(k, Len(keys)),
       sat_multi_a(keys, k, TRUE), sat_multi_a(keys, k, FALSE))

\* There is a way to choose k of n keys.
LEMMA SomeChoice ==
  ASSUME NEW n \in Nat, NEW k \in 1 .. n
  PROVE  Chosen(k, n) # {}
<1> DEFINE f == [i \in 1 .. k |-> i]
<1>1. f \in [1 .. k -> 1 .. n] /\ \A a, b \in 1 .. k : a < b => f[a] < f[b]
  OBVIOUS
<1> QED BY <1>1 DEF Chosen

\* What a set of witnesses of one length, all of them signed, satisfies.
LEMMA PlainWitness ==
  ASSUME NEW w \in Seq(Elements)
  PROVE  /\ Sat(w, {}) \in Witnesses /\ Sat(w, {}).l = {} /\ Size(Sat(w, {})) = Len(w)
         /\ TopOf(Sat(w, {})) = w[Len(w)] /\ (HasSig(Sat(w, {})) <=> SigIn(w))
<1>1. Sat(w, {}).w = w /\ Sat(w, {}).l = {}
  BY DEF Sat
<1>2. Sat(w, {}) \in Witnesses
  BY DEF Sat, Witnesses
<1> QED BY <1>1, <1>2 DEF Size, TopOf, HasSig, SigIn

\* The facts about a set of signed witnesses of one length and without timelocks.
LEMMA PlainSet ==
  ASSUME NEW A, NEW n \in Nat, A # {},
         \A x \in A : \E w \in Seq(Elements) : x = Sat(w, {}) /\ Len(w) = n /\ SigIn(w)
  PROVE  /\ Typed(A) /\ Length(A, n) /\ NeedsSig(A) /\ Longest(A, n) /\ NoLocks(A)
         /\ \A tl, k : LocksWithin(A, tl, k)
<1>1. ASSUME NEW x \in A
      PROVE  x \in Witnesses /\ x.l = {} /\ Size(x) = n /\ HasSig(x)
  <2>1. PICK w \in Seq(Elements) : x = Sat(w, {}) /\ Len(w) = n /\ SigIn(w)
    OBVIOUS
  <2> QED BY <2>1, PlainWitness
<1>2. Typed(A) /\ Length(A, n) /\ NeedsSig(A) /\ NoLocks(A)
  BY <1>1 DEF Typed, Length, NeedsSig, NoLocks
<1>3. \A tl, k : LocksWithin(A, tl, k)
  BY <1>1 DEF LocksWithin, Mixes
<1> QED BY <1>2, <1>3, SameSize

\* The signatures of a chosen set of keys for multi.
LEMMA MultiSigsFacts ==
  ASSUME NEW keys \in Seq(Keys), NEW k \in 1 .. Len(keys), NEW f \in Chosen(k, Len(keys))
  PROVE  /\ MultiSigs(keys, f, k) \in Seq(Elements) /\ Len(MultiSigs(keys, f, k)) = k + 1
         /\ SigIn(MultiSigs(keys, f, k)) /\ MultiSigs(keys, f, k)[k + 1] # E0
<1> DEFINE w == MultiSigs(keys, f, k)
<1>1. Len(keys) \in Nat /\ k \in Nat /\ k >= 1 /\ f \in [1 .. k -> 1 .. Len(keys)]
  BY DEF Chosen
<1>2. ASSUME NEW i \in 1 .. k + 1, i # 1
      PROVE  w[i] = <<"sig", keys[f[i - 1]]>> /\ keys[f[i - 1]] \in Keys
  <2>1. i - 1 \in 1 .. k
    BY <1>1, <1>2
  <2>2. f[i - 1] \in 1 .. Len(keys)
    BY <1>1, <2>1
  <2> QED BY <1>2, <2>2 DEF MultiSigs
<1>3. w[1] = E0
  BY <1>1 DEF MultiSigs
<1>4. DOMAIN w = 1 .. k + 1
  BY DEF MultiSigs
<1>5. \A i \in 1 .. k + 1 : w[i] \in Elements
  <2>1. ASSUME NEW i \in 1 .. k + 1 PROVE w[i] \in Elements
    <3>1. CASE i = 1
      BY <1>3, <3>1 DEF Elements
    <3>2. CASE i # 1
      <4>1. PICK key \in Keys : w[i] = <<"sig", key>>
        <5> HIDE DEF w
        <5> QED BY <1>2, <3>2
      <4>2. <<"sig", key>> \in Elements
        BY DEF Elements
      <4> QED BY <4>1, <4>2, Zenon
    <3> QED BY <3>1, <3>2
  <2> QED BY <2>1
<1>6. w = [i \in 1 .. k + 1 |-> w[i]]
  BY DEF MultiSigs
<1> HIDE DEF w
<1>7. w \in [1 .. k + 1 -> Elements]
  BY <1>5, <1>6
<1>8. k + 1 \in Nat /\ k + 1 \in 1 .. k + 1 /\ k + 1 # 1
  BY <1>1
<1>9. w \in Seq(Elements) /\ Len(w) = k + 1
  BY <1>7, <1>8
<1>10. w[k + 1] = <<"sig", keys[f[k + 1 - 1]]>>
  BY <1>2, <1>8
<1>11. SigIn(w) /\ w[k + 1] # E0
  BY <1>4, <1>8, <1>10 DEF SigIn, E0
<1> QED BY <1>9, <1>11 DEF w

\* multi of 1 <= k <= n keys is well described.
LEMMA RuleMulti ==
  ASSUME NEW keys \in Seq(Keys), NEW k \in 1 .. Len(keys)
  PROVE  Good(node_multi(keys, k))
<1> DEFINE N == node_multi(keys, k)
           S == {Sat(MultiSigs(keys, f, k), {}) : f \in Chosen(k, Len(keys))}
           z == [i \in 1 .. k + 1 |-> E0]
<1>1. Len(keys) \in Nat /\ k \in Nat /\ k + 1 \in Nat
  OBVIOUS
<1>2. /\ N.all.s = S /\ N.can.s = S /\ N.all.d = W(z) /\ N.can.d = W(z)
      /\ N.ext.ss.sat = k + 1 /\ N.ext.ss.dsat = k + 1
      /\ ~N.flags.z /\ ~N.flags.o /\ N.flags.type = "B" /\ ~N.ext.f
  BY Zenon DEF node_multi, Node, sat_multi, SD, ext_multi, Leaf, Ext, Ss, type_multi, Flags
<1> HIDE DEF N
<1>3. S # {}
  BY <1>1, SomeChoice
<1>4. ASSUME NEW x \in S
      PROVE  /\ \E w \in Seq(Elements) : x = Sat(w, {}) /\ Len(w) = k + 1 /\ SigIn(w)
             /\ Size(x) > 0 /\ TopOf(x) # E0
  <2>1. PICK f \in Chosen(k, Len(keys)) : x = Sat(MultiSigs(keys, f, k), {})
    OBVIOUS
  <2>2. PICK w : w = MultiSigs(keys, f, k)
    OBVIOUS
  <2>3. w \in Seq(Elements) /\ Len(w) = k + 1 /\ SigIn(w) /\ w[k + 1] # E0
    BY <2>2, MultiSigsFacts
  <2>4. Size(x) = k + 1 /\ TopOf(x) = w[k + 1]
    BY <2>1, <2>2, <2>3, PlainWitness
  <2>5. k + 1 > 0
    BY <1>1
  <2> QED BY <2>1, <2>2, <2>3, <2>4, <2>5
<1> HIDE DEF S
<1>5. /\ Typed(S) /\ Length(S, k + 1) /\ NeedsSig(S) /\ Longest(S, k + 1) /\ NoLocks(S)
      /\ \A tl, j : LocksWithin(S, tl, j)
  BY <1>1, <1>3, <1>4, PlainSet
<1>6. TopNonZero(S)
  BY <1>4 DEF TopNonZero
<1>7. z \in Seq(Elements) /\ Len(z) = k + 1
  BY <1>1 DEF Elements
<1>8. ~SigIn(z)
  BY <1>1 DEF SigIn, E0
<1>9. WitnessFacts(z)
  BY <1>7, WitnessAll
<1> HIDE DEF z
<1>10. Typed(W(z)) /\ ~NeedsSig(W(z)) /\ OneUnsigned(W(z)) /\ Longest(W(z), k + 1)
       /\ NoLocks(W(z))
  BY <1>7, <1>8, <1>9, Zenon DEF WitnessFacts
<1>11. Good(N)
  BY <1>2, <1>5, <1>6, <1>10, Zenon DEF Good, GoodSat, GoodDsat, SatSound, DsatSound
<1> QED BY <1>11 DEF N

\* The signatures and empty elements for multi_a.
LEMMA SignaturesFacts ==
  ASSUME NEW keys \in Seq(Keys), NEW c \in SUBSET (1 .. Len(keys))
  PROVE  /\ Signatures(keys, c) \in Seq(Elements) /\ Len(Signatures(keys, c)) = Len(keys)
         /\ SigIn(Signatures(keys, c)) <=> c # {}
<1> DEFINE w == Signatures(keys, c)
           n == Len(keys)
<1>1. n \in Nat
  OBVIOUS
<1>2. ASSUME NEW i \in 1 .. n
      PROVE  /\ n + 1 - i \in 1 .. n
             /\ n + 1 - i \in c => w[i] = <<"sig", keys[n + 1 - i]>> /\ w[i] \in Elements
             /\ n + 1 - i \notin c => w[i] = E0 /\ w[i] \in Elements
  <2>1. n + 1 - i \in 1 .. n
    BY <1>1
  <2>2. keys[n + 1 - i] \in Keys
    BY <2>1
  <2> QED BY <2>1, <2>2 DEF Signatures, Elements
<1>3. DOMAIN w = 1 .. n /\ w = [i \in 1 .. n |-> w[i]]
  BY DEF Signatures
<1> HIDE DEF w, n
<1>4. w \in [1 .. n -> Elements]
  <2>1. \A i \in 1 .. n : w[i] \in Elements
    BY <1>2
  <2> QED BY <1>3, <2>1
<1>5. w \in Seq(Elements) /\ Len(w) = n
  BY <1>1, <1>4
<1>6. ASSUME c # {} PROVE SigIn(w)
  <2>1. PICK j \in c : TRUE
    BY <1>6
  <2>2. j \in 1 .. n
    BY DEF n
  <2>3. n + 1 - j \in 1 .. n /\ n + 1 - (n + 1 - j) = j
    BY <1>1, <2>2
  <2>4. w[n + 1 - j] = <<"sig", keys[j]>>
    BY <1>2, <2>1, <2>3
  <2> QED BY <1>3, <2>3, <2>4 DEF SigIn
<1>7. ASSUME c = {} PROVE ~SigIn(w)
  <2>1. \A i \in 1 .. n : w[i] = E0
    BY <1>2, <1>7
  <2> QED BY <1>3, <2>1 DEF SigIn, E0
<1> QED BY <1>5, <1>6, <1>7 DEF w, n

\* multi_a of 1 <= k <= n keys is well described.
LEMMA RuleMultiA ==
  ASSUME NEW keys \in Seq(Keys), NEW k \in 1 .. Len(keys)
  PROVE  Good(node_multi_a(keys, k))
<1> DEFINE N == node_multi_a(keys, k)
           n == Len(keys)
           chosen == {{f[a] : a \in 1 .. k} : f \in Chosen(k, n)}
           S == {Sat(Signatures(keys, c), {}) : c \in chosen}
           D == {Sat(Signatures(keys, c), {}) : c \in SUBSET (1 .. n) \ chosen}
           z == Signatures(keys, {})
<1>1. n \in Nat /\ k \in Nat /\ k >= 1 /\ 1 \in 1 .. k
  OBVIOUS
<1>2. /\ N.all.s = S /\ N.can.s = S /\ N.all.d = Either(W(z), D) /\ N.can.d = W(z)
      /\ N.ext.ss.sat = n /\ N.ext.ss.dsat = n
      /\ ~N.flags.z /\ ~N.flags.o /\ ~N.flags.n /\ N.flags.type = "B" /\ ~N.ext.f
  BY Zenon DEF node_multi_a, Node, sat_multi_a, SD, Extra, Either, ext_multi_a, Leaf, Ext, Ss,
               type_multi_a, Flags
<1> HIDE DEF N
<1>3. ASSUME NEW c \in chosen PROVE c \in SUBSET (1 .. n) /\ c # {}
  <2>1. PICK f \in Chosen(k, n) : c = {f[a] : a \in 1 .. k}
    OBVIOUS
  <2>2. f \in [1 .. k -> 1 .. n]
    BY DEF Chosen
  <2>3. f[1] \in c
    BY <1>1, <2>1
  <2>4. ASSUME NEW x \in c PROVE x \in 1 .. n
    <3>1. PICK a \in 1 .. k : x = f[a]
      BY <2>1
    <3> QED BY <2>2, <3>1
  <2> QED BY <2>3, <2>4
<1>4. chosen # {} /\ S # {}
  <2>1. PICK f \in Chosen(k, n) : TRUE
    BY <1>1, SomeChoice
  <2>2. {f[a] : a \in 1 .. k} \in chosen
    BY <2>1, Zenon
  <2> HIDE DEF chosen
  <2>3. Sat(Signatures(keys, {f[a] : a \in 1 .. k}), {}) \in S
    BY <2>2, Zenon
  <2> QED BY <2>2, <2>3, Zenon
<1> HIDE DEF chosen
<1>5. ASSUME NEW x \in S
      PROVE  \E w \in Seq(Elements) : x = Sat(w, {}) /\ Len(w) = n /\ SigIn(w)
  <2>1. PICK c \in chosen : x = Sat(Signatures(keys, c), {})
    OBVIOUS
  <2>2. c \in SUBSET (1 .. n) /\ c # {}
    BY <1>3
  <2>3. PICK w : w = Signatures(keys, c)
    OBVIOUS
  <2>4. w \in Seq(Elements) /\ Len(w) = n /\ SigIn(w)
    BY <2>2, <2>3, SignaturesFacts
  <2> QED BY <2>1, <2>3, <2>4
<1>6. /\ Typed(S) /\ NeedsSig(S) /\ Longest(S, n)
      /\ \A tl, j : LocksWithin(S, tl, j)
  <2> HIDE DEF S, n
  <2> QED BY <1>1, <1>4, <1>5, PlainSet
<1>7. ASSUME NEW x \in D
      PROVE  x \in Witnesses /\ (~HasSig(x) => x.w = z)
  <2>1. PICK c \in SUBSET (1 .. n) : x = Sat(Signatures(keys, c), {})
    OBVIOUS
  <2>2. PICK w : w = Signatures(keys, c)
    OBVIOUS
  <2>3. w \in Seq(Elements) /\ (SigIn(w) <=> c # {})
    BY <2>1, <2>2, SignaturesFacts
  <2>4. x \in Witnesses /\ (HasSig(x) <=> SigIn(w)) /\ x.w = w
    <3>1. x = Sat(w, {}) /\ x.w = w
      BY <2>1, <2>2 DEF Sat
    <3> QED BY <2>3, <3>1, PlainWitness
  <2> QED BY <2>2, <2>3, <2>4
<1>8. z \in Seq(Elements) /\ Len(z) = n /\ ~SigIn(z)
  BY SignaturesFacts
<1>9. WitnessFacts(z)
  <2> HIDE DEF z
  <2> QED BY <1>8, WitnessAll
<1> HIDE DEF z, D, S, n
<1>10. /\ Typed(W(z)) /\ ~NeedsSig(W(z)) /\ OneUnsigned(W(z)) /\ Longest(W(z), n)
          /\ NoLocks(W(z))
  BY <1>8, <1>9, Zenon DEF WitnessFacts
<1>11. Typed(Either(W(z), D)) /\ ~NeedsSig(Either(W(z), D))
  BY <1>7, <1>10 DEF Typed, NeedsSig, Either
<1>12. OneUnsigned(Either(W(z), D))
  <2>1. W(z) = {Sat(z, {})} /\ Sat(z, {}).w = z
    BY DEF W, Sat
  <2>2. ~HasSig(Sat(z, {}))
    BY <1>8, PlainWitness
  <2>3. Sat(z, {}) \in Either(W(z), D)
    BY <2>1 DEF Either
  <2>4. ASSUME NEW y \in Either(W(z), D), ~HasSig(y) PROVE y.w = Sat(z, {}).w
    BY <1>7, <2>1, <2>4 DEF Either
  <2> QED BY <2>2, <2>3, <2>4 DEF OneUnsigned
<1>13. W(z) \subseteq Either(W(z), D)
  BY DEF Either
<1>14. Good(N)
  BY <1>2, <1>6, <1>10, <1>11, <1>12, <1>13, Zenon
     DEF Good, GoodSat, GoodDsat, SatSound, DsatSound
<1> QED BY <1>14 DEF N

\* The nodes without children.
Leaves(within_tr) ==
  {node_0, node_1}
    \cup {node_pk(key, within_tr) : key \in Keys} \cup {node_pkh(key) : key \in Keys}
    \cup {node_pk_h(key) : key \in Keys}
    \cup {node_older(n) : n \in Nat} \cup {node_after(n) : n \in Nat}
    \cup {node_hash(token) : token \in Hashes} \cup {node_hash160(token) : token \in Hashes}

\* A k of n multisig with 1 <= k <= n, as the parser requires.
IsMulti(N) ==
  \E keys \in Seq(Keys) : \E k \in 1 .. Len(keys) :
    N = node_multi(keys, k) \/ N = node_multi_a(keys, k)

\* A wrapper around X.
Wrapped(N, X, within_tr) ==
  N \in {node_a(X), node_s(X), node_c(X), node_t(X), node_d(X, within_tr), node_v(X),
         node_j(X), node_n(X), node_l(X), node_u(X)}

\* A node over X and Y. Of and_v the code does not ask that X is V; where it is not, the
\* script is not that of a miniscript and has no rule in Satisfaction.
Joined(N, X, Y) ==
  \/ N = node_and_v(X, Y) /\ X.flags.type = "V"
  \/ N \in {node_and_b(X, Y), node_and_n(X, Y), node_or_b(X, Y), node_or_c(X, Y),
            node_or_d(X, Y), node_or_i(X, Y)}

\* Node i of d is a leaf or is built from earlier nodes of d. pk_k is used as this
\* application's scripts use it: as the first child of and_v, where it verifies.
Built(d, i, within_tr) ==
  \/ d[i] \in Leaves(within_tr)
  \/ IsMulti(d[i])
  \/ \E a \in 1 .. i - 1 : Wrapped(d[i], d[a], within_tr)
  \/ \E a, b \in 1 .. i - 1 : Joined(d[i], d[a], d[b])
  \/ \E a \in 1 .. i - 1 : \E key \in Keys :
       d[i] = node_and_v(node_pk_k(key, within_tr), d[a])
  \/ \E a, b, c \in 1 .. i - 1 : d[i] = node_andor(d[a], d[b], d[c])

\* d lists a policy's nodes, children first; the parser has accepted the type of each.
Derivation(d, n, within_tr) ==
  \A i \in 1 .. n : Built(d, i, within_tr) /\ d[i].flags # Invalid

\* The leaves are well described.
LEMMA LeafIsGood ==
  ASSUME NEW within_tr, NEW N, N \in Leaves(within_tr) \/ IsMulti(N)
  PROVE  Good(N)
<1>1. CASE N \in Leaves(within_tr)
  <2>1. \/ N = node_0 \/ N = node_1
        \/ \E key \in Keys : N = node_pk(key, within_tr)
        \/ \E key \in Keys : N = node_pkh(key)
        \/ \E key \in Keys : N = node_pk_h(key)
        \/ \E n \in Nat : N = node_older(n)
        \/ \E n \in Nat : N = node_after(n)
        \/ \E token \in Hashes : N = node_hash(token)
        \/ \E token \in Hashes : N = node_hash160(token)
    BY <1>1 DEF Leaves
  <2> QED BY <2>1, RuleConstants, RuleKeys, RuleLocks, RuleHashes, Zenon
<1>2. CASE IsMulti(N)
  BY <1>2, RuleMulti, RuleMultiA, Zenon DEF IsMulti
<1> QED BY <1>1, <1>2

\* A node built from well described nodes is well described.
LEMMA StepIsGood ==
  ASSUME NEW N, NEW X, NEW Y, NEW Z, NEW within_tr, Good(X), Good(Y), Good(Z),
         N.flags # Invalid,
         \/ Wrapped(N, X, within_tr) \/ Joined(N, X, Y) \/ N = node_andor(X, Y, Z)
         \/ \E key \in Keys : N = node_and_v(node_pk_k(key, within_tr), Y)
  PROVE  Good(N)
<1>1. CASE Wrapped(N, X, within_tr)
  BY <1>1, RuleA, RuleS, RuleC, RuleT, RuleD, RuleV, RuleJ, RuleN, RuleL, RuleU, Zenon
     DEF Wrapped
<1>2. CASE Joined(N, X, Y)
  BY <1>2, RuleAndV, RuleAndB, RuleAndN, RuleOrB, RuleOrC, RuleOrD, RuleOrI, Zenon
     DEF Joined, Good
<1>3. CASE N = node_andor(X, Y, Z)
  BY <1>3, RuleAndor, Zenon
<1>4. CASE \E key \in Keys : N = node_and_v(node_pk_k(key, within_tr), Y)
  BY <1>4, RuleKeys, RuleAndV, Zenon
<1> QED BY <1>1, <1>2, <1>3, <1>4

\* A nonempty set of numbers has a least element.
LEMMA LeastElement ==
  ASSUME NEW S \in SUBSET Nat, S # {}
  PROVE  \E x \in S : \A y \in S : x <= y
<1> DEFINE Before == OpToRel(<, Nat)
<1>1. \A p \in Nat \X Nat : p \in Before <=> p[1] < p[2]
  BY Zenon DEF OpToRel
<1>2. IsWellFoundedOn(Before, Nat)
  BY NatLessThanWellFounded, Zenon
<1> HIDE DEF Before
<1>3. PICK x \in S : \A y \in S : <<y, x>> \notin Before
  BY <1>2, WFMin
<1>4. ASSUME NEW y \in S PROVE x <= y
  <2>1. <<y, x>> \in Nat \X Nat /\ <<y, x>>[1] = y /\ <<y, x>>[2] = x
    OBVIOUS
  <2>2. ~(y < x)
    BY <1>1, <1>3, <2>1, Zenon
  <2> QED BY <2>2
<1> QED BY <1>4

\* Every node of a derivation is well described: there is no first one that is not.
LEMMA DerivedIsGood ==
  ASSUME NEW d, NEW n \in Nat, NEW within_tr, Derivation(d, n, within_tr)
  PROVE  \A i \in 1 .. n : Good(d[i])
<1> DEFINE Bad == {i \in 1 .. n : ~Good(d[i])}
<1> SUFFICES ASSUME Bad # {} PROVE FALSE
  OBVIOUS
<1>1. PICK i \in Bad : \A j \in Bad : i <= j
  <2>1. Bad \in SUBSET Nat
    OBVIOUS
  <2> HIDE DEF Bad
  <2> QED BY <2>1, LeastElement
<1>2. i \in 1 .. n /\ ~Good(d[i]) /\ Built(d, i, within_tr) /\ d[i].flags # Invalid
  BY DEF Derivation
<1>3. ASSUME NEW a \in 1 .. i - 1 PROVE Good(d[a])
  <2>1. a \in 1 .. n /\ ~(i <= a)
    BY <1>2
  <2> QED BY <1>1, <2>1
<1>4. d[i] \notin Leaves(within_tr) /\ ~IsMulti(d[i])
  BY <1>2, LeafIsGood, Zenon
<1>5. ASSUME NEW a \in 1 .. i - 1, NEW b \in 1 .. i - 1, NEW c \in 1 .. i - 1
      PROVE  /\ ~Wrapped(d[i], d[a], within_tr) /\ ~Joined(d[i], d[a], d[b])
             /\ d[i] # node_andor(d[a], d[b], d[c])
             /\ ~\E key \in Keys : d[i] = node_and_v(node_pk_k(key, within_tr), d[b])
  <2>1. Good(d[a]) /\ Good(d[b]) /\ Good(d[c])
    BY <1>3
  <2> QED BY <1>2, <2>1, StepIsGood, Zenon
<1> HIDE DEF Bad
<1> QED BY <1>2, <1>4, <1>5, Zenon DEF Built

\* For every policy of any size without thresh: what parse_script and compute_miniscript
\* say of a node (type and flags, s, f, e, m, k, the timelocks, the stack sizes) is true of the
\* witnesses of its script.
THEOREM AnalysisIsSound ==
  ASSUME NEW d, NEW n \in Nat, NEW within_tr, Derivation(d, n, within_tr)
  PROVE  \A i \in 1 .. n : Sound(d[i].flags, d[i].ext, d[i].all, d[i].can)
BY DerivedIsGood, Zenon DEF Good, GoodSat, GoodDsat, Sound

\* The conditions of is_miniscript_sane that are about witnesses.
SaneNode(N) ==
  N.flags.type = "B" /\ N.ext.m /\ N.ext.s /\ N.ext.k /\ N.ext.ss.sat # -1
  /\ N.ext.ss.sat <= 100

\* A policy that is_miniscript_sane accepts can be spent; every way to spend it takes a
\* signature; and the canonical ones stay within the stack limit and do not mix timelocks of
\* one sort by time and by blocks.
THEOREM SaneIsSpendableSafely ==
  ASSUME NEW d, NEW n \in Nat, NEW within_tr, Derivation(d, n, within_tr),
         NEW i \in 1 .. n, SaneNode(d[i])
  PROVE  /\ d[i].can.s # {}
         /\ NeedsSig(d[i].all.s)
         /\ \A x \in d[i].can.s : Size(x) <= 100 /\ ~Mixes(x.l)
<1>1. Typed(d[i].all.s) /\ SatSound(d[i].flags, d[i].ext, d[i].all.s, d[i].can.s)
  BY DerivedIsGood, Zenon DEF Good, GoodSat
<1> DEFINE E == d[i].ext
           A == d[i].all.s
           C == d[i].can.s
<1>2. /\ NeedsSig(A) /\ Longest(C, E.ss.sat) /\ LocksWithin(C, E.tl, E.k)
      /\ E.k /\ E.ss.sat # -1 /\ E.ss.sat <= 100
  BY <1>1, Zenon DEF SatSound, SaneNode
<1> HIDE DEF E, A, C
<1>3. C # {} /\ E.ss.sat \in Nat
  BY <1>2, Zenon DEF Longest
<1>4. \A x \in C : Size(x) <= E.ss.sat
  <2>1. E.ss.sat < Saturated
    BY <1>2, <1>3 DEF Saturated
  <2> QED BY <1>2, <2>1, Zenon DEF Longest
<1>5. ASSUME NEW x \in C PROVE Size(x) <= 100 /\ ~Mixes(x.l)
  <2>1. ~Mixes(x.l)
    BY <1>2, Zenon DEF LocksWithin
  <2>2. Size(x) <= E.ss.sat /\ Size(x) \in Nat
    <3>1. Typed(A) /\ C \subseteq A
      BY <1>1, Zenon DEF SatSound, A, C
    <3>2. x \in Witnesses
      BY <3>1 DEF Typed
    <3>3. Size(x) \in Nat
      BY <3>2 DEF Witnesses, Size
    <3> QED BY <1>4, <3>3
  <2> QED BY <1>2, <1>3, <2>1, <2>2
<1> QED BY <1>2, <1>3, <1>5 DEF A, C
=============================================================================
