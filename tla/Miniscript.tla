----------------------------- MODULE Miniscript -----------------------------
(***************************************************************************)
(* The rules that common/wallet.c applies to one miniscript fragment: the  *)
(* correctness type that parse_script gives it (a base type and the        *)
(* modifiers z, o, n, d and u), and the properties that                    *)
(* compute_miniscript_policy_ext_info computes for it.  A rule takes what  *)
(* was computed for the children; the recursion over a policy is in module *)
(* Policy.  Every rule follows the code, also where it departs from the    *)
(* miniscript type system: and_v does not ask that X is V.                 *)
(***************************************************************************)
EXTENDS Integers

-----------------------------------------------------------------------------
(* policy_node_t.flags. *)

Bases == {"B", "V", "K", "W"}
Flags(type, z, o, n, d, u) ==
  [type |-> type, z |-> z, o |-> o, n |-> n, d |-> d, u |-> u]
AllFlags == [type : Bases, z : BOOLEAN, o : BOOLEAN, n : BOOLEAN,
             d : BOOLEAN, u : BOOLEAN]
NotMiniscript == Flags("none", FALSE, FALSE, FALSE, FALSE, FALSE)
Invalid == Flags("invalid", FALSE, FALSE, FALSE, FALSE, FALSE)   \* parsing fails
When(ok, flags) == IF ok THEN flags ELSE Invalid
Bdu(X) == X.type = "B" /\ X.d /\ X.u

type_0 == Flags("B", TRUE, FALSE, FALSE, TRUE, TRUE)
type_1 == Flags("B", TRUE, FALSE, FALSE, FALSE, TRUE)
type_hash == Flags("B", FALSE, TRUE, TRUE, TRUE, TRUE)
type_hash160 == type_hash
type_pk == Flags("B", FALSE, TRUE, TRUE, TRUE, TRUE)
type_pkh == Flags("B", FALSE, FALSE, TRUE, TRUE, TRUE)
type_pk_k == Flags("K", FALSE, TRUE, TRUE, TRUE, TRUE)
type_pk_h == Flags("K", FALSE, FALSE, TRUE, TRUE, TRUE)
type_locktime == Flags("B", TRUE, FALSE, FALSE, FALSE, FALSE)
type_multi == Flags("B", FALSE, FALSE, TRUE, TRUE, TRUE)
type_multi_a == Flags("B", FALSE, FALSE, FALSE, TRUE, TRUE)

type_andor(X, Y, Z) ==
  When(Bdu(X) /\ Y.type = Z.type /\ Y.type # "W",
       Flags(Y.type, X.z /\ Y.z /\ Z.z,
             (X.z /\ Y.o /\ Z.o) \/ (X.o /\ Y.z /\ Z.z), FALSE,
             Z.d, Y.u /\ Z.u))

\* The check that X is V is commented out in the code.
type_and_v(X, Y) ==
  When(Y.type # "W",
       Flags(Y.type, X.z /\ Y.z, (X.z /\ Y.o) \/ (X.o /\ Y.z),
             X.n \/ (X.z /\ Y.n), FALSE, Y.u))

type_and_b(X, Y) ==
  When(X.type = "B" /\ Y.type = "W",
       Flags("B", X.z /\ Y.z, (X.z /\ Y.o) \/ (X.o /\ Y.z),
             X.n \/ (X.z /\ Y.n), X.d /\ Y.d, TRUE))

type_and_n(X, Y) ==
  When(Bdu(X) /\ Y.type = "B",
       Flags("B", X.z /\ Y.z, X.o /\ Y.z, FALSE, TRUE, Y.u))

type_or_b(X, Z) ==
  When(X.type = "B" /\ X.d /\ Z.type = "W" /\ Z.d,
       Flags("B", X.z /\ Z.z, (X.z /\ Z.o) \/ (X.o /\ Z.z), FALSE, TRUE, TRUE))

type_or_c(X, Z) ==
  When(Bdu(X) /\ Z.type = "V",
       Flags("V", X.z /\ Z.z, X.o /\ Z.z, FALSE, FALSE, FALSE))

type_or_d(X, Z) ==
  When(Bdu(X) /\ Z.type = "B",
       Flags("B", X.z /\ Z.z, X.o /\ Z.z, FALSE, Z.d, Z.u))

type_or_i(X, Z) ==
  When(X.type # "W" /\ X.type = Z.type,
       Flags(X.type, FALSE, X.z /\ Z.z, FALSE, X.d \/ Z.d, X.u /\ Z.u))

\* The i-th child of a thresh; its threshold is only required to be positive.
thresh_child(X, i) == X.type = (IF i = 1 THEN "B" ELSE "W") /\ X.d /\ X.u
type_thresh(k, n, count_z, count_o) ==
  When(k >= 1,
       Flags("B", count_z = n, count_z = n - 1 /\ count_o = 1, FALSE, TRUE, TRUE))

type_a(X) == When(X.type = "B", Flags("W", FALSE, FALSE, FALSE, X.d, X.u))
type_s(X) == When(X.type = "B" /\ X.o, Flags("W", FALSE, FALSE, FALSE, X.d, X.u))
type_c(X) == When(X.type = "K", Flags("B", FALSE, X.o, X.n, X.d, TRUE))
type_t(X) == When(X.type = "V", Flags("B", X.z, X.o, X.n, FALSE, TRUE))
type_d(X, within_tr) ==
  When(X.type = "V" /\ X.z, Flags("B", FALSE, TRUE, TRUE, TRUE, within_tr))
type_v(X) == When(X.type = "B", Flags("V", X.z, X.o, X.n, FALSE, FALSE))
type_j(X) == When(X.type = "B" /\ X.n, Flags("B", FALSE, X.o, TRUE, TRUE, X.u))
type_n(X) == When(X.type = "B", Flags("B", X.z, X.o, X.n, X.d, TRUE))
type_lu(X) == When(X.type = "B", Flags("B", FALSE, X.z, FALSE, TRUE, X.u))

-----------------------------------------------------------------------------
(* policy_node_ext_info_t.  tl holds the flags g, h, i and j: the kinds of *)
(* timelock below the node.                                                *)

INT16_MAX == 32767
\* Mutant: -1 is added like any other number.
sumcheck_unguarded(a, b) == IF a + b > INT16_MAX THEN INT16_MAX ELSE a + b
sumcheck(a, b) ==
  IF a < 0 \/ b < 0 THEN -1
  ELSE IF a + b > INT16_MAX THEN INT16_MAX ELSE a + b
maxcheck(a, b) == IF a < 0 THEN b ELSE IF a > b THEN a ELSE b

get_push_script_size(n) ==
  CASE n <= 16 -> 1
    [] n > 16 /\ n < 128 -> 2
    [] n >= 128 /\ n < 32768 -> 3
    [] n >= 32768 /\ n < 8388608 -> 4
    [] OTHER -> 5

Ops(count, sat, dsat) == [count |-> count, sat |-> sat, dsat |-> dsat]
Ss(sat, dsat) == [sat |-> sat, dsat |-> dsat]
Ext(s, f, e, m, tl, k, x, size, ops, ss) ==
  [s |-> s, f |-> f, e |-> e, m |-> m, tl |-> tl, k |-> k, x |-> x,
   size |-> size, ops |-> ops, ss |-> ss]

\* Two children hold a height and a time lock of the same kind.
Mixed(X, Y) ==
  \E p \in {<<"g", "h">>, <<"h", "g">>, <<"i", "j">>, <<"j", "i">>} :
    p[1] \in X.tl /\ p[2] \in Y.tl

Leaf(s, f, e, x, size, ops, ss) == Ext(s, f, e, TRUE, {}, TRUE, x, size, ops, ss)
ext_0 == Leaf(TRUE, FALSE, TRUE, TRUE, 1, Ops(0, -1, 0), Ss(-1, 0))
ext_1 == Leaf(FALSE, TRUE, FALSE, TRUE, 1, Ops(0, 0, -1), Ss(0, -1))
ext_pk_k(tap) ==
  Leaf(TRUE, FALSE, TRUE, TRUE, IF tap THEN 33 ELSE 34, Ops(0, 0, 0), Ss(1, 1))
ext_pk_h == Leaf(TRUE, FALSE, TRUE, TRUE, 3 + 21, Ops(3, 0, 0), Ss(2, 2))
ext_pk(tap) ==
  Leaf(TRUE, FALSE, TRUE, FALSE, IF tap THEN 34 ELSE 35, Ops(1, 0, 0), Ss(1, 1))
ext_pkh == Leaf(TRUE, FALSE, TRUE, FALSE, 3 + 21 + 1, Ops(4, 0, 0), Ss(2, 2))
ext_multi(k, n) ==
  Leaf(TRUE, FALSE, TRUE, FALSE,
       1 + get_push_script_size(k) + get_push_script_size(n) + 34 * n,
       Ops(1, n, n), Ss(k + 1, k + 1))
ext_multi_a(k, n) ==
  Leaf(TRUE, FALSE, TRUE, FALSE, 1 + get_push_script_size(k) + 34 * n,
       Ops(n + 1, 0, 0), Ss(n, n))
Locktime(lock, n) ==
  [Leaf(FALSE, TRUE, FALSE, TRUE, 1 + get_push_script_size(n),
        Ops(1, 0, -1), Ss(0, -1)) EXCEPT !.tl = {lock}]
SEQUENCE_LOCKTIME_TYPE_FLAG == 4194304
LOCKTIME_THRESHOLD == 500000000
ext_older(n) ==
  Locktime(IF (n \div SEQUENCE_LOCKTIME_TYPE_FLAG) % 2 = 1 THEN "g" ELSE "h", n)
ext_after(n) == Locktime(IF n >= LOCKTIME_THRESHOLD THEN "i" ELSE "j", n)
ext_hash256 == Leaf(FALSE, FALSE, FALSE, FALSE, 4 + 2 + 33, Ops(4, 0, -1), Ss(1, -1))
ext_hash160 == Leaf(FALSE, FALSE, FALSE, FALSE, 4 + 2 + 21, Ops(4, 0, -1), Ss(1, -1))

ext_andor(X, Y, Z) ==
  Ext(Z.s /\ (X.s \/ Y.s), Z.f /\ (X.s \/ Y.f), Z.e /\ (X.s \/ Y.f),
      X.m /\ Y.m /\ Z.m /\ X.e /\ (X.s \/ Y.s \/ Z.s),
      X.tl \cup Y.tl \cup Z.tl, X.k /\ Y.k /\ Z.k /\ ~Mixed(X, Y), TRUE,
      3 + X.size + Y.size + Z.size,
      Ops(3 + X.ops.count + Y.ops.count + Z.ops.count,
          maxcheck(sumcheck(Y.ops.sat, X.ops.sat), sumcheck(Y.ops.dsat, Z.ops.sat)),
          sumcheck(X.ops.dsat, Z.ops.dsat)),
      Ss(maxcheck(sumcheck(X.ss.sat, Y.ss.sat), sumcheck(X.ss.dsat, Z.ss.sat)),
         sumcheck(X.ss.dsat, Z.ss.dsat)))

ext_and_v(X, Y) ==
  Ext(X.s \/ Y.s, X.s \/ Y.f, FALSE, X.m /\ Y.m,
      X.tl \cup Y.tl, X.k /\ Y.k /\ ~Mixed(X, Y), Y.x, X.size + Y.size,
      Ops(X.ops.count + Y.ops.count, sumcheck(X.ops.sat, Y.ops.sat), -1),
      Ss(sumcheck(X.ss.sat, Y.ss.sat), -1))

ext_and_b(X, Y) ==
  Ext(X.s \/ Y.s, (X.f /\ Y.f) \/ (X.s /\ X.f) \/ (Y.s /\ Y.f),
      X.e /\ Y.e /\ X.s /\ Y.s, X.m /\ Y.m,
      X.tl \cup Y.tl, X.k /\ Y.k /\ ~Mixed(X, Y), TRUE, 1 + X.size + Y.size,
      Ops(1 + X.ops.count + Y.ops.count, sumcheck(X.ops.sat, Y.ops.sat),
          sumcheck(X.ops.dsat, Y.ops.dsat)),
      Ss(sumcheck(X.ss.sat, Y.ss.sat), sumcheck(X.ss.dsat, Y.ss.dsat)))

ext_and_n(X, Y) ==
  Ext(X.s \/ Y.s, FALSE, X.s \/ Y.f, X.m /\ Y.m /\ X.e /\ (X.s \/ Y.s),
      X.tl \cup Y.tl, X.k /\ Y.k /\ ~Mixed(X, Y), TRUE, 4 + X.size + Y.size,
      Ops(3 + X.ops.count + Y.ops.count,
          maxcheck(sumcheck(Y.ops.sat, X.ops.sat), Y.ops.dsat), X.ops.dsat),
      Ss(sumcheck(X.ss.sat, Y.ss.sat), X.ss.dsat))

ext_or_b(X, Z) ==
  Ext(X.s /\ Z.s, FALSE, TRUE, X.m /\ Z.m /\ X.e /\ Z.e /\ (X.s \/ Z.s),
      X.tl \cup Z.tl, X.k /\ Z.k, TRUE, 1 + X.size + Z.size,
      Ops(1 + X.ops.count + Z.ops.count,
          maxcheck(sumcheck(X.ops.sat, Z.ops.dsat), sumcheck(Z.ops.sat, X.ops.dsat)),
          sumcheck(X.ops.dsat, Z.ops.dsat)),
      Ss(maxcheck(sumcheck(X.ss.dsat, Z.ss.sat), sumcheck(X.ss.sat, Z.ss.dsat)),
         sumcheck(X.ss.dsat, Z.ss.dsat)))

ext_or_c(X, Z) ==
  Ext(X.s /\ Z.s, TRUE, FALSE, X.m /\ Z.m /\ X.e /\ (X.s \/ Z.s),
      X.tl \cup Z.tl, X.k /\ Z.k, TRUE, 2 + X.size + Z.size,
      Ops(2 + X.ops.count + Z.ops.count,
          maxcheck(X.ops.sat, sumcheck(Z.ops.sat, X.ops.dsat)), -1),
      Ss(maxcheck(X.ss.sat, sumcheck(X.ss.dsat, Z.ss.sat)), -1))

ext_or_d(X, Z) ==
  Ext(X.s /\ Z.s, Z.f, Z.e, X.m /\ Z.m /\ X.e /\ (X.s \/ Z.s),
      X.tl \cup Z.tl, X.k /\ Z.k, TRUE, 3 + X.size + Z.size,
      Ops(3 + X.ops.count + Z.ops.count,
          maxcheck(X.ops.sat, sumcheck(Z.ops.sat, X.ops.dsat)),
          sumcheck(X.ops.dsat, Z.ops.dsat)),
      Ss(maxcheck(X.ss.sat, sumcheck(X.ss.dsat, Z.ss.sat)),
         sumcheck(X.ss.dsat, Z.ss.dsat)))

ext_or_i(X, Z) ==
  Ext(X.s /\ Z.s, X.f /\ Z.f, (X.e /\ Z.f) \/ (Z.e /\ X.f),
      X.m /\ Z.m /\ (X.s \/ Z.s),
      X.tl \cup Z.tl, X.k /\ Z.k, TRUE, 3 + X.size + Z.size,
      Ops(3 + X.ops.count + Z.ops.count, maxcheck(X.ops.sat, Z.ops.sat),
          maxcheck(X.ops.dsat, Z.ops.dsat)),
      Ss(maxcheck(sumcheck(X.ss.sat, 1), sumcheck(Z.ss.sat, 1)),
         maxcheck(sumcheck(X.ss.dsat, 1), sumcheck(Z.ss.dsat, 1))))

-----------------------------------------------------------------------------
(* The wrappers. *)

Over(X, f, e, x, size, ops, ss) ==
  Ext(X.s, f, e, X.m, X.tl, X.k, x, X.size + size, ops, ss)
Counted(X, n) == [X.ops EXCEPT !.count = X.ops.count + n]
ext_a(X) == Over(X, X.f, X.e, TRUE, 2, Counted(X, 2), X.ss)
ext_s(X) == Over(X, X.f, X.e, X.x, 1, Counted(X, 1), X.ss)
ext_n(X) == Over(X, X.f, X.e, TRUE, 1, Counted(X, 1), X.ss)
ext_c(X) == [Over(X, X.f, X.e, FALSE, 1, Counted(X, 1), X.ss) EXCEPT !.s = TRUE]
ext_d(X) == Over(X, FALSE, TRUE, TRUE, 3, Ops(3 + X.ops.count, X.ops.sat, 0),
                 Ss(sumcheck(1, X.ss.sat), 1))
ext_t(X) == Over(X, TRUE, FALSE, TRUE, 1, Ops(X.ops.count, X.ops.sat, -1),
                 Ss(X.ss.sat, -1))
NeverVerifyOp(X) == 0   \* mutant
VerifyOp(X) == IF X.x THEN 1 ELSE 0
ext_v(X) == Over(X, TRUE, FALSE, TRUE, VerifyOp(X),
                 Ops(X.ops.count + VerifyOp(X), X.ops.sat, -1), Ss(X.ss.sat, -1))
ext_j(X) == Over(X, FALSE, X.f, TRUE, 4, Ops(4 + X.ops.count, X.ops.sat, 0),
                 Ss(X.ss.sat, 1))
ext_lu(X) == Over(X, FALSE, X.f, TRUE, 4, Counted(X, 3),
                  Ss(sumcheck(X.ss.sat, 1), maxcheck(1, sumcheck(X.ss.dsat, 1))))
=============================================================================
