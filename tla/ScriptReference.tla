--------------------------- MODULE ScriptReference ---------------------------
(***************************************************************************)
(* What the scripts of module PolicyEmit mean.  None of this is code of    *)
(* the repository: it is the outside world against which that code is      *)
(* judged.  Run is the script interpreter of Bitcoin (with the policy      *)
(* rules MINIMALIF, NULLFAIL, NULLDUMMY and clean stack) on the symbolic   *)
(* stack elements of module Satisfaction.  Sats gives the satisfactions    *)
(* and dissatisfactions of a miniscript.                                   *)
(***************************************************************************)
EXTENDS Satisfaction, SequencesExt, FiniteSets

Truth(e) == e # E0
Bool(b) == IF b THEN E1 ELSE E0

-----------------------------------------------------------------------------
(* The interpreter. *)

HashOf(name, e) ==
  IF e[1] = "pk" /\ name = "HASH160" THEN <<"pkh", e[2]>>
  ELSE IF e[1] = "pre" /\ <<e[2], name>> \in
            {<<"sha256", "SHA256">>, <<"hash256", "HASH256">>,
             <<"ripemd160", "RIPEMD160">>, <<"hash160", "HASH160">>}
  THEN <<"img", e[2]>> ELSE <<"junk", 0>>
SizeOf(e) ==
  CASE e[1] = "num" -> IF e[2] = 0 THEN 0 ELSE 1
    [] e[1] = "sig" -> 71
    [] e[1] = "pk" -> 33
    [] e[1] \in {"pre", "junk"} -> 32
    [] OTHER -> 20

\* CHECKSIG: 1, 0 or -1 for a failure of the script (NULLFAIL).
SigResult(sig, key) ==
  IF sig = E0 THEN 0 ELSE IF sig = <<"sig", key[2]>> THEN 1 ELSE -1
\* CHECKMULTISIG: the signatures are those of a subsequence of the keys.
MultisigResult(sigs, keys) ==
  IF \A i \in DOMAIN sigs : sigs[i] = E0 THEN 0
  ELSE IF \E f \in [DOMAIN sigs -> DOMAIN keys] :
            /\ \A i \in DOMAIN sigs : sigs[i] = <<"sig", keys[f[i]][2]>>
            /\ \A i, j \in DOMAIN sigs : i < j => f[i] < f[j]
  THEN 1 ELSE -1

Step(m, item) ==
  LET st == m.st
      n == Len(st)
      Top(i) == st[n - i]                       \* Top(0) is the top of the stack
      Drop(k) == SubSeq(st, 1, n - k)
      To(stack) == [m EXCEPT !.st = stack]
      failed == [m EXCEPT !.ok = FALSE]
      Need(k, r) == IF n >= k THEN r ELSE failed
      Verify(b, stack) == IF b THEN To(stack) ELSE failed
      Signed(r, stack, v) == IF r = -1 \/ (v /\ r = 0) THEN failed
                             ELSE To(IF v THEN stack ELSE Append(stack, Bool(r = 1)))
      live == \A i \in DOMAIN m.cond : m.cond[i]
      o == item[2]
      Branch(b) == [m EXCEPT !.st = Drop(1), !.cond = Append(m.cond, b)]
      \* CHECKMULTISIG: n keys over k signatures over a dummy.
      kn == Top(0)[2]
      ks == [i \in 1 .. kn |-> Top(kn + 1 - i)]
      sn == Top(kn + 1)[2]
      ss == [i \in 1 .. sn |-> Top(kn + sn + 2 - i)]
      Multi(v) == IF n < kn + sn + 3 \/ Top(kn + sn + 2) # E0 THEN failed
                  ELSE Signed(MultisigResult(ss, ks), Drop(kn + sn + 3), v)
  IN  CASE ~m.ok -> m
        [] m.ok /\ item[1] = "op" /\ o \in {"IF", "NOTIF"} ->
             IF ~live THEN [m EXCEPT !.cond = Append(m.cond, FALSE)]
             ELSE Need(1, IF Top(0) \in {E0, E1}
                          THEN Branch(Truth(Top(0)) <=> o = "IF") ELSE failed)
        [] m.ok /\ item = <<"op", "ELSE">> ->
             IF m.cond = <<>> THEN failed
             ELSE [m EXCEPT !.cond[Len(m.cond)] = ~m.cond[Len(m.cond)]]
        [] m.ok /\ item = <<"op", "ENDIF">> ->
             IF m.cond = <<>> THEN failed ELSE [m EXCEPT !.cond = Front(m.cond)]
        [] m.ok /\ ~live /\ ~(item[1] = "op" /\ o \in {"IF", "NOTIF", "ELSE", "ENDIF"}) -> m
        [] m.ok /\ live /\ item[1] # "op" ->
             To(Append(st, IF item[1] \in {"pk33", "pk32"} THEN <<"pk", o>> ELSE item))
        [] m.ok /\ live /\ item[1] = "op" /\ o \notin {"IF", "NOTIF", "ELSE", "ENDIF"} ->
             CASE o = "DUP" -> Need(1, To(Append(st, Top(0))))
               [] o = "IFDUP" -> Need(1, IF Truth(Top(0)) THEN To(Append(st, Top(0))) ELSE m)
               [] o = "SWAP" -> Need(2, To(Drop(2) \o <<Top(0), Top(1)>>))
               [] o = "TOALTSTACK" ->
                    Need(1, [m EXCEPT !.st = Drop(1), !.alt = Append(m.alt, Top(0))])
               [] o = "FROMALTSTACK" ->
                    IF m.alt = <<>> THEN failed
                    ELSE [m EXCEPT !.st = Append(st, Last(m.alt)), !.alt = Front(m.alt)]
               [] o \in {"SHA256", "HASH256", "RIPEMD160", "HASH160"} ->
                    Need(1, To(Append(Drop(1), HashOf(o, Top(0)))))
               [] o = "SIZE" -> Need(1, To(Append(st, <<"num", SizeOf(Top(0))>>)))
               [] o = "0NOTEQUAL" -> Need(1, To(Append(Drop(1), Bool(Truth(Top(0))))))
               [] o \in {"CSV", "CLTV"} -> Need(1, m)
               [] o = "VERIFY" -> Need(1, Verify(Truth(Top(0)), Drop(1)))
               [] o \in {"EQUAL", "NUMEQUAL"} ->
                    Need(2, To(Append(Drop(2), Bool(Top(0) = Top(1)))))
               [] o \in {"EQUALVERIFY", "NUMEQUALVERIFY"} ->
                    Need(2, Verify(Top(0) = Top(1), Drop(2)))
               [] o = "BOOLAND" ->
                    Need(2, To(Append(Drop(2), Bool(Truth(Top(0)) /\ Truth(Top(1))))))
               [] o = "BOOLOR" ->
                    Need(2, To(Append(Drop(2), Bool(Truth(Top(0)) \/ Truth(Top(1))))))
               [] o = "ADD" ->
                    Need(2, IF Top(0)[1] = "num" /\ Top(1)[1] = "num"
                            THEN To(Append(Drop(2), <<"num", Top(0)[2] + Top(1)[2]>>))
                            ELSE failed)
               [] o \in {"CHECKSIG", "CHECKSIGVERIFY"} ->
                    Need(2, IF Top(0)[1] # "pk" THEN failed
                            ELSE Signed(SigResult(Top(1), Top(0)), Drop(2),
                                        o = "CHECKSIGVERIFY"))
               [] o = "CHECKSIGADD" ->
                    Need(3, LET r == SigResult(Top(2), Top(0))
                            IN  IF r = -1 \/ Top(1)[1] # "num" THEN failed
                                ELSE To(Append(Drop(3), <<"num", Top(1)[2] + r>>)))
               [] o \in {"CHECKMULTISIG", "CHECKMULTISIGVERIFY"} ->
                    Need(3, IF Top(0)[1] # "num" \/ n < kn + 3 THEN failed
                            ELSE Multi(o = "CHECKMULTISIGVERIFY"))

RECURSIVE RunFrom(_, _, _)
RunFrom(script, i, m) ==
  IF ~m.ok \/ i > Len(script) THEN m ELSE RunFrom(script, i + 1, Step(m, script[i]))
\* The stack that the script leaves, or <<>> if it fails.
Run(script, witness) ==
  LET m == RunFrom(script, 1, [st |-> witness, alt |-> <<>>, cond |-> <<>>, ok |-> TRUE])
  IN  IF m.ok /\ m.cond = <<>> /\ m.alt = <<>> THEN m.st ELSE <<>>
Accepts(script, witness) ==
  LET st == Run(script, witness) IN Len(st) = 1 /\ Truth(st[1])
Rejects(script, witness) == Run(script, witness) = <<E0>>

-----------------------------------------------------------------------------
(* The satisfactions of a miniscript, from those of its parts.  K gives    *)
(* the public key of a keyexpr_index.                                      *)

\* T[j]: the ways to satisfy exactly j of the children so far.
ThreshSats(children) ==
  FoldLeft(LAMBDA T, X :
             [j \in 0 .. Cardinality(DOMAIN T) |->
                (IF j \in DOMAIN T THEN Then(T[j], X.d) ELSE {})
                \cup (IF j > 0 THEN Then(T[j - 1], X.s) ELSE {})],
           [j \in {0} |-> W(<<>>)], children)

RECURSIVE Sats(_, _, _)
Sats(n, K, all) ==
  LET S(i) == Sats(n.s[i], K, all)
      Concrete == [i \in DOMAIN n.ks |-> K[n.ks[i].ix]]
  IN  CASE n.t = "0" -> sat_0
        [] n.t = "1" -> sat_1
        [] n.t = "pk" -> sat_pk(Concrete[1])
        [] n.t = "pk_k" -> sat_pk_k(Concrete[1])
        [] n.t \in {"pkh", "pk_h"} -> sat_pkh(Concrete[1])
        [] n.t \in {"older", "after"} -> sat_lock(LockKind(n.t, n.k))
        [] n.t \in {"sha256", "hash256", "ripemd160", "hash160"} -> sat_hash(n.t, all)
        [] n.t = "multi" -> sat_multi(Concrete, n.k)
        [] n.t = "multi_a" -> sat_multi_a(Concrete, n.k, all)
        [] n.t = "andor" -> sat_andor(S(1), S(2), S(3), all)
        [] n.t = "and_v" -> sat_and_v(S(1), S(2), all)
        [] n.t = "and_b" -> sat_and_b(S(1), S(2), all)
        [] n.t = "and_n" -> sat_and_n(S(1), S(2), all)
        [] n.t = "or_b" -> sat_or_b(S(1), S(2), all)
        [] n.t = "or_c" -> sat_or_c(S(1), S(2))
        [] n.t = "or_d" -> sat_or_d(S(1), S(2))
        [] n.t = "or_i" -> sat_or_i(S(1), S(2))
        [] n.t = "thresh" ->
             LET T == ThreshSats(<<>> \o [i \in DOMAIN n.s |-> S(i)])
             IN  SD(IF n.k \in DOMAIN T THEN T[n.k] ELSE {},
                    T[0] \cup Extra(all, UNION {T[j] : j \in DOMAIN T \ {n.k}}))
        [] n.t \in {"a", "s", "c", "n"} -> S(1)
        [] n.t \in {"t", "v"} -> sat_v(S(1))
        [] n.t = "d" -> sat_d(S(1))
        [] n.t = "j" -> sat_j(S(1), all)
        [] n.t = "l" -> sat_l(S(1))
        [] n.t = "u" -> sat_u(S(1))
=============================================================================
