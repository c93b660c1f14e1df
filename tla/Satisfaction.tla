---------------------------- MODULE Satisfaction ----------------------------
(***************************************************************************)
(* The satisfactions and dissatisfactions of a miniscript fragment, by     *)
(* those of its children: what the rules of module Miniscript are judged   *)
(* by.  None of this is code of the repository.                            *)
(*                                                                         *)
(* Stack elements: <<"num", n>> (n = 0 is the empty element), <<"sig", x>> *)
(* a signature for the key x, <<"pk", x>>, <<"pkh", x>>, <<"pre", token>>  *)
(* the preimage of a template's hash, <<"img", token>>, <<"junk", i>> any  *)
(* other 32 bytes.                                                         *)
(*                                                                         *)
(* A satisfaction is its witness w (the last element is on top of the      *)
(* stack) and the kinds of timelock l that it needs.  With "all", also     *)
(* those that no honest signer produces.                                   *)
(***************************************************************************)
EXTENDS Integers, Sequences

E0 == <<"num", 0>>
E1 == <<"num", 1>>

Sat(w, l) == [w |-> w, l |-> l]
W(w) == {Sat(w, {})}
Size(x) == Len(x.w)
TopOf(x) == x.w[Len(x.w)]
HasSig(x) == \E i \in DOMAIN x.w : x.w[i][1] = "sig"

\* A is consumed before B.
Then(A, B) == {Sat(p[2].w \o p[1].w, p[1].l \cup p[2].l) : p \in A \X B}
Extra(all, A) == IF all THEN A ELSE {}
SD(s, d) == [s |-> s, d |-> d]

-----------------------------------------------------------------------------
sat_0 == SD({}, W(<<>>))
sat_1 == SD(W(<<>>), {})
sat_pk(key) == SD(W(<< <<"sig", key>> >>), W(<<E0>>))
sat_pk_k(key) == SD(W(<< <<"sig", key>> >>), {})    \* as emitted: it verifies
sat_pkh(key) ==
  SD(W(<< <<"sig", key>>, <<"pk", key>> >>), W(<<E0, <<"pk", key>> >>))
\* Relative and absolute, in units of time and in blocks.
LockKind(t, n) ==
  IF t = "older" THEN IF (n \div 4194304) % 2 = 1 THEN "g" ELSE "h"
  ELSE IF n >= 500000000 THEN "i" ELSE "j"
sat_lock(kind) == SD({Sat(<<>>, {kind})}, {})
\* The ways to choose k of n keys, in their order.
Chosen(k, n) ==
  {f \in [1 .. k -> 1 .. n] : \A a, b \in 1 .. k : a < b => f[a] < f[b]}
\* The signatures of k of the keys, in the order of the keys, above an empty element.
MultiSigs(keys, f, k) ==
  [i \in 1 .. k + 1 |-> IF i = 1 THEN E0 ELSE <<"sig", keys[f[i - 1]]>>]
sat_multi(keys, k) ==
  SD({Sat(MultiSigs(keys, f, k), {}) : f \in Chosen(k, Len(keys))},
     W([i \in 1 .. k + 1 |-> E0]))
\* A signature or an empty element for every key, the first key's on top.
Signatures(keys, c) ==
  LET n == Len(keys)
  IN  [i \in 1 .. n |-> IF n + 1 - i \in c THEN <<"sig", keys[n + 1 - i]>> ELSE E0]
sat_multi_a(keys, k, all) ==
  LET n == Len(keys)
      chosen == {{f[a] : a \in 1 .. k} : f \in Chosen(k, n)}
  IN  SD({Sat(Signatures(keys, c), {}) : c \in chosen},
         W(Signatures(keys, {})) \cup
         Extra(all, {Sat(Signatures(keys, c), {}) : c \in SUBSET (1 .. n) \ chosen}))
sat_hash(token, all) ==
  SD(W(<< <<"pre", token>> >>),
     Extra(all, W(<< <<"junk", 1>> >>) \cup W(<< <<"junk", 2>> >>)))

sat_andor(X, Y, Z, all) ==
  SD(Then(X.s, Y.s) \cup Then(X.d, Z.s), Then(X.d, Z.d) \cup Extra(all, Then(X.s, Y.d)))
sat_and_v(X, Y, all) == SD(Then(X.s, Y.s), Extra(all, Then(X.s, Y.d)))
sat_and_b(X, Y, all) ==
  SD(Then(X.s, Y.s),
     Then(X.d, Y.d) \cup Extra(all, Then(X.s, Y.d) \cup Then(X.d, Y.s)))
sat_and_n(X, Y, all) == SD(Then(X.s, Y.s), X.d \cup Extra(all, Then(X.s, Y.d)))
sat_or_b(X, Z, all) ==
  SD(Then(X.s, Z.d) \cup Then(X.d, Z.s) \cup Extra(all, Then(X.s, Z.s)), Then(X.d, Z.d))
sat_or_c(X, Z) == SD(X.s \cup Then(X.d, Z.s), {})
sat_or_d(X, Z) == SD(X.s \cup Then(X.d, Z.s), Then(X.d, Z.d))
sat_or_i(X, Z) ==
  SD(Then(W(<<E1>>), X.s) \cup Then(W(<<E0>>), Z.s),
     Then(W(<<E1>>), X.d) \cup Then(W(<<E0>>), Z.d))

sat_v(X) == SD(X.s, {})
sat_d(X) == SD(Then(W(<<E1>>), X.s), W(<<E0>>))
sat_j(X, all) ==
  SD(X.s, W(<<E0>>) \cup Extra(all, {x \in X.d : TopOf(x) # E0}))
sat_l(X) == SD(Then(W(<<E0>>), X.s), W(<<E1>>) \cup Then(W(<<E0>>), X.d))
sat_u(X) == SD(Then(W(<<E1>>), X.s), W(<<E0>>) \cup Then(W(<<E1>>), X.d))

-----------------------------------------------------------------------------
(* What the flags T and the properties E of a fragment promise about all   *)
(* its satisfactions and dissatisfactions A, and about the canonical ones  *)
(* C among them.                                                           *)

NeedsSig(A) == \A x \in A : HasSig(x)
OneUnsigned(A) == \E x \in A : ~HasSig(x) /\ \A y \in A : ~HasSig(y) => y.w = x.w
Length(A, n) == \A x \in A : Size(x) = n
TopNonZero(A) == \A x \in A : Size(x) > 0 /\ TopOf(x) # E0
Mixes(l) == {"g", "h"} \subseteq l \/ {"i", "j"} \subseteq l

\* n is the length of the longest witness of A: -1 if there is none, and no more than
\* "some" if the number is saturated.
Saturated == 32767
Longest(A, n) ==
  IF n = -1 THEN A = {}
  ELSE /\ n \in Nat /\ A # {}
       /\ n < Saturated => (\A x \in A : Size(x) <= n) /\ \E x \in A : Size(x) = n

\* The timelocks that A needs are of the kinds tl and, if k, can be met together.
LocksWithin(A, tl, k) == \A x \in A : x.l \subseteq tl /\ (k => ~Mixes(x.l))
NoLocks(A) == \A x \in A : x.l = {}

SatSound(T, E, A, C) ==
  /\ T.z => Length(A, 0)
  /\ T.o => Length(A, 1)
  /\ T.n => TopNonZero(A)
  /\ T.type = "K" \/ E.s => NeedsSig(A)
  /\ C \subseteq A
  /\ Longest(C, E.ss.sat)
  /\ LocksWithin(C, E.tl, E.k)
DsatSound(T, E, A, C) ==
  /\ T.z => Length(A, 0)
  /\ T.o => Length(A, 1)
  /\ T.d => ~NeedsSig(A)
  /\ T.type = "V" => A = {}
  /\ E.f => NeedsSig(A)
  /\ E.e /\ E.m => OneUnsigned(A)
  /\ C \subseteq A
  /\ Longest(C, E.ss.dsat)
  /\ NoLocks(C)
Sound(T, E, all, can) ==
  SatSound(T, E, all.s, can.s) /\ DsatSound(T, E, all.d, can.d)
=============================================================================
