------------------------------ MODULE MCPolicy ------------------------------
(* Bounded families of descriptor templates for PolicyEmit, and what their *)
(* scripts must satisfy.                                                   *)
EXTENDS PolicyEmit, ScriptReference, FiniteSetsExt

-----------------------------------------------------------------------------
(* Building templates. *)

N(t, s, ks, k) == [t |-> t, s |-> s, ks |-> ks, k |-> k]
Key(i, a, b) == [musig |-> FALSE, idx |-> <<i>>, first |-> a, second |-> b, ix |-> -1]
K(i) == Key(i, 0, 1)
Musig(idx) == [musig |-> TRUE, idx |-> idx, first |-> 0, second |-> 1, ix |-> -1]
pk(i) == N("pk", <<>>, <<K(i)>>, 0)
pkh(i) == N("pkh", <<>>, <<K(i)>>, 0)
pk_k(i) == N("pk_k", <<>>, <<K(i)>>, 0)
pk_h(i) == N("pk_h", <<>>, <<K(i)>>, 0)
older(n) == N("older", <<>>, <<>>, n)
after(n) == N("after", <<>>, <<>>, n)
hash(t) == N(t, <<>>, <<>>, 0)
const(t) == N(t, <<>>, <<>>, 0)
w(t, x) == N(t, <<x>>, <<>>, 0)
two(t, x, y) == N(t, <<x, y>>, <<>>, 0)
andor(x, y, z) == N("andor", <<x, y, z>>, <<>>, 0)
thresh(k, xs) == N("thresh", xs, <<>>, k)
multi(t, k, ks) == N(t, <<>>, ks, k)
wsh(x) == N("wsh", <<x>>, <<>>, 0)
sh(x) == N("sh", <<x>>, <<>>, 0)
tr(key, trees) == N("tr", trees, <<key>>, 0)
Branch2(x, y) == N("{}", <<x, y>>, <<>>, 0)

\* Fragments with a key of index i; multi in wsh, multi_a in tr.
Multi2(ctx, i) == multi(IF ctx = "tr" THEN "multi_a" ELSE "multi", 1, <<K(i), K(i + 1)>>)
Leaves1(ctx) ==
  {const("0"), const("1"), pk(0), pkh(0), w("c", pk_h(0)), Multi2(ctx, 0),
   older(1), after(1), hash("sha256"), hash("hash160")}
Ws(x) == {w("a", x), w("s", x)}
Wrapped(x) == {w(t, x) : t \in {"v", "t", "d", "j", "n", "l", "u"}}
Typed(ctx, A) == {x \in A : parse_script(x, 1, {ctx}, 2).type \in Bases}

\* The second child, with another key.
Seconds(ctx) ==
  {const("0"), const("1"), pk(2), Multi2(ctx, 2), older(20), older(4194305),
   after(500000001), hash("ripemd160")}

Level1(ctx) == Typed(ctx, UNION {Wrapped(x) : x \in Leaves1(ctx)})
Level1v(ctx) == Typed(ctx, UNION {Wrapped(w("v", x)) : x \in Leaves1(ctx)})
Firsts(ctx) == Leaves1(ctx) \cup {w("v", x) : x \in Leaves1(ctx)} \cup {w("j", pk(0))}
Others(ctx) == Seconds(ctx) \cup UNION {Ws(x) : x \in Seconds(ctx)}
                 \cup {w("v", pk(2)), w("v", Multi2(ctx, 2))}
Level2(ctx) ==
  Typed(ctx, {two(t, x, y) : t \in {"and_v", "and_b", "and_n", "or_b", "or_c", "or_d", "or_i"},
                             x \in Firsts(ctx), y \in Others(ctx)})
Andors(ctx) ==
  Typed(ctx, {andor(x, y, z) : x \in {pk(0), Multi2(ctx, 0), hash("sha256")},
                               y \in {pk(2), older(1), after(1)},
                               z \in {pk(3), after(500000001), const("0"), Multi2(ctx, 3)}})
Threshs(ctx) ==
  Typed(ctx, {thresh(k, <<x, y, z>>) : k \in 1 .. 3, x \in {pk(0), Multi2(ctx, 0)},
                y \in {w("s", pk(2)), w("a", hash("sha256"))},
                z \in {w("a", Multi2(ctx, 3)), w("s", w("l", older(1))),
                       w("a", w("u", after(7)))}})
  \cup Typed(ctx, {thresh(k, <<x>>) : k \in 1 .. 2, x \in {pk(0), const("0")}})
  \cup Typed(ctx, {w("v", thresh(2, <<pk(0), w("s", pk(2)), w("s", pk(3))>>))})
Deep(ctx) ==
  Typed(ctx,
    {two("and_v", w("v", x), y) : x \in Andors(ctx), y \in {const("1"), pk(4)}}
    \cup {two("or_i", x, y) : x \in {two("and_v", w("v", pk(0)), older(1)),
                                    two("and_b", pk(0), w("s", pk(1)))},
                             y \in {two("and_v", w("v", pk(2)), older(4194305)),
                                    two("or_d", pk(2), w("c", pk_h(3)))}}
    \cup {two("and_v", w("v", two(t, x, w("v", pk(3)))), pk(4)) :
            t \in {"and_v", "or_c"}, x \in {pk(0), w("v", pk(0))}}
    \cup {w("t", two("or_c", pk(0), w("v", pk(1))))})

\* The leaf scripts of this application (with fewer keys): pk_k as the first child of and_v.
Babylon ==
  LET covenant == multi("multi_a", 2, <<K(3), K(4), K(1)>>)
  IN  {two("and_v", pk_k(1), two("and_v", pk_k(2), covenant)),
       two("and_v", pk_k(1), multi("multi_a", 2, <<K(2), K(3), K(4)>>)),
       two("and_v", pk_k(1), older(150))}

\* Each fragment under wsh or as the only leaf of a tr: alone, and next to a signature
\* without which few of them are sane.
In(ctx, x) == IF ctx = "wsh" THEN wsh(x) ELSE tr(K(3), <<x>>)
Signed4(ctx, x) ==
  LET type == parse_script(x, 1, {ctx}, 2).type
  IN  CASE type \in {"B", "K"} -> two("and_v", w("v", pk(4)), x)
        [] type = "V" -> two("and_v", x, pk(4))
        [] OTHER -> two("and_b", pk(4), x)
All(ctx) == Leaves1(ctx) \cup Level1(ctx) \cup Level1v(ctx) \cup Level2(ctx)
              \cup Andors(ctx) \cup Threshs(ctx) \cup Deep(ctx)
Fragments ==
  UNION {{In(ctx, x) : x \in All(ctx)} \cup {In(ctx, Signed4(ctx, x)) : x \in All(ctx)}
           : ctx \in {"wsh", "tr"}}
  \cup {tr(K(0), <<x>>) : x \in Babylon}

\* Other shapes: nested and bare scripts, sorted keys, trees, musig, repeated keys.
Sorted == {multi(t, 2, ks) : t \in {"sortedmulti", "sortedmulti_a", "multi"},
                             ks \in {<<K(0), K(1), K(2)>>, <<K(2), K(4), K(0)>>}}
Shapes ==
  {pkh(0), N("wpkh", <<>>, <<K(0)>>, 0), pk(0), sh(N("wpkh", <<>>, <<K(0)>>, 0)),
   sh(pkh(0)), wsh(tr(K(0), <<>>)), tr(K(0), <<>>), tr(Musig(<<1, 0>>), <<>>),
   sh(sh(pk(0))), sh(wsh(pk(0))), tr(K(0), <<wsh(pk(1))>>), wsh(pk_k(0)),
   tr(K(0), <<Branch2(pk(1), Branch2(pk(2), two("and_v", w("v", pk(3)), older(5))))>>),
   tr(Musig(<<0, 1>>), <<Branch2(pk(1), N("pk", <<>>, <<Musig(<<2, 1>>)>>, 0))>>),
   tr(Musig(<<0, 1>>), <<N("pk", <<>>, <<Musig(<<1, 0>>)>>, 0)>>),
   tr(K(0), <<multi("multi_a", 1, <<K(1), Musig(<<2, 3>>)>>)>>),
   tr(K(0), <<N("pk", <<>>, <<Key(0, 1, 2)>>, 0)>>),
   tr(K(0), <<N("pk", <<>>, <<Key(0, 2, 3)>>, 0)>>),
   tr(K(0), <<N("pk", <<>>, <<Key(1, 1, 1)>>, 0)>>),
   tr(K(0), <<Branch2(pk(1), Branch2(pk(2), Branch2(pk(3), pk(4))))>>),
   wsh(N("pk", <<>>, <<Musig(<<0, 1>>)>>, 0)),
   wsh(w("a", w("a", w("a", w("a", w("a", w("a", pk(0)))))))),
   wsh(w("n", w("n", w("n", w("n", w("n", w("n", pk(0)))))))),
   wsh(w("n", w("n", w("n", w("n", w("n", pk(0)))))))}
  \cup {wsh(x) : x \in Sorted} \cup {sh(x) : x \in Sorted} \cup {sh(wsh(x)) : x \in Sorted}
  \cup {tr(K(3), <<x>>) : x \in Sorted}

A1 == <<<<0, 0>>>>
MCRequests ==
  {[node |-> n, addrs |-> A1] : n \in Fragments}
  \cup {[node |-> n, addrs |-> as] : n \in Shapes,
          as \in {<<<<1, 0>>, <<0, 1>>, <<1, 2>>>>}}

\* Key 3 carries one of the reserved fingerprints; key 4 has no origin path.
MCKeys == <<[pub |-> 3, other |-> TRUE, len |-> 2], [pub |-> 1, other |-> TRUE, len |-> 3],
            [pub |-> 5, other |-> TRUE, len |-> 1], [pub |-> 2, other |-> FALSE, len |-> 2],
            [pub |-> 4, other |-> TRUE, len |-> 0]>>
-----------------------------------------------------------------------------
(* Properties. *)

NoCache == [p \in DOMAIN cache |-> 0]
PubkeyOf(n, a) ==
  LET ks == KeyExpressions(n)
  IN  [ix \in 0 .. Len(ks) - 1 |-> get_derived_pubkey(ks[ix + 1], a, NoCache)]
TypeIn(job) == parse_script(job.node, 2, {IF job.type = "tap" THEN "tr" ELSE "wsh"}, 2)
Miniscript(job) == job.type \in {"wsh", "tap"} /\ TypeIn(job).type \in Bases
Miniscripts == {job \in Range(InnerScripts(req.node)) : Miniscript(job)}

\* Where the code leaves miniscript (see the findings): X of and_v is V, or the pk_k
\* that verifies; pk_k is used nowhere else; the threshold of thresh is at most n.
RECURSIVE Orthodox(_, _)
Orthodox(n, ctx) ==
  /\ n.t = "and_v" => \/ n.s[1].t = "pk_k"
                      \/ parse_script(n.s[1], 2, {ctx}, 2).type = "V"
  /\ n.t = "thresh" => n.k <= Len(n.s)
  /\ \A i \in DOMAIN n.s : /\ n.s[i].t = "pk_k" => n.t = "and_v" /\ i = 1
                           /\ Orthodox(n.s[i], ctx)
OrthodoxJob(job) ==
  job.node.t # "pk_k" /\ Orthodox(job.node, IF job.type = "tap" THEN "tr" ELSE "wsh")
RECURSIVE CountPkK(_)
CountPkK(n) == (IF n.t = "pk_k" THEN 1 ELSE 0)
                 + FoldLeft(LAMBDA acc, c : acc + CountPkK(c), 0, n.s)

\* get_keyexpr_by_index(i) finds the i-th key expression in the order of parsing (whatever
\* the static counter held before), and the tap leaf that it is in.
KeyByIndex ==
  pc = "sane" =>
    \A i \in 0 .. counter - 1 :
      LET r == get_keyexpr_by_index(req.node, i)
      IN  /\ r.n = counter /\ r.key.ix = i
          /\ \A j \in DOMAIN r.leaf : \E m \in 0 .. counter - 1 :
                get_keyexpr_by_index(r.leaf[j], m).key = r.key
          /\ req.node.t = "tr" => (r.leaf = <<>> <=> i = 0)

\* sortedmulti and sortedmulti_a push their keys in ascending order, of the compressed and
\* of the x-only key respectively, whatever their order in the template.
Ascending(job, script) ==
  LET pushes == SelectSeq(script, LAMBDA x : x[1] \in {"pk33", "pk32"})
  IN  job.node.t \in {"sortedmulti", "sortedmulti_a"} =>
        /\ Len(pushes) = Len(job.node.ks)
        /\ \A a, b \in DOMAIN pushes :
             LET x == pushes[a][2]
                 y == pushes[b][2]
             IN  a < b => \/ job.node.t = "sortedmulti" /\ Parity(x) < Parity(y)
                          \/ x < y /\ (job.node.t = "sortedmulti" => Parity(x) = Parity(y))

\* Both passes over a tap leaf write the same script, and a script holds exactly the keys
\* that its key expressions stand for at this address: none of another address or another
\* key expression from the cache.  The sorted multisigs have them in ascending order.
KeysAreDerived ==
  pc = "done" =>
    \A i \in DOMAIN ret :
      LET job == InnerScripts(req.node)[i]
          pub == PubkeyOf(req.node, wdi)
          expected == {pub[k.ix] : k \in Range(KeyExpressions(job.node))}
          pushed == {ret[i].script[j][2] : j \in
                       {m \in DOMAIN ret[i].script :
                          ret[i].script[m][1] \in {"pk33", "pk32", "pkh"}}}
      IN  /\ pushed = expected
          /\ Ascending(job, ret[i].script)
          /\ job.type = "tap" => ret[i] = ret[IF i % 2 = 1 THEN i + 1 ELSE i - 1]

\* The emitted script of a sane policy does what its miniscript means: every satisfaction
\* leaves exactly one true element, every dissatisfaction exactly one false one.
ScriptMeansPolicy ==
  pc = "done" =>
    \A i \in DOMAIN ret :
      LET job == InnerScripts(req.node)[i]
          sd == Sats(job.node, PubkeyOf(req.node, wdi), TRUE)
      IN  Miniscript(job) /\ OrthodoxJob(job) =>
            /\ \A x \in sd.s : Accepts(ret[i].script, x.w)
            /\ \A x \in sd.d : Rejects(ret[i].script, x.w)

\* A sane policy can be spent: some witness satisfies its script, without mixing heights
\* and times of one kind of timelock, with a stack within the standard bound.
SaneIsSpendable ==
  pc = "done" =>
    \A i \in DOMAIN ret :
      LET job == InnerScripts(req.node)[i]
      IN  Miniscript(job) /\ OrthodoxJob(job) =>
            \E x \in Sats(job.node, PubkeyOf(req.node, wdi), FALSE).s :
              /\ Accepts(ret[i].script, x.w) /\ Len(x.w) <= 100
              /\ ~({"g", "h"} \subseteq x.l) /\ ~({"i", "j"} \subseteq x.l)

\* The types and the analysis are sound for every policy that parses: z, o and n describe the
\* witnesses, d promises a dissatisfaction without a signature and V that there is none; s, f
\* and e promise that every satisfaction, every dissatisfaction, all but one dissatisfaction
\* (if m) hold a signature; k promises that no satisfaction mixes timelocks; and the stack sizes
\* are those of the largest canonical satisfaction and dissatisfaction, -1 if there is none.
AnalysisSound ==
  pc = "sane" =>
    \A job \in Miniscripts :
      LET pub == PubkeyOf(req.node, <<0, 0>>)
      IN  OrthodoxJob(job) => Sound(TypeIn(job), ext_info(job.node, job.type = "tap"),
                                    Sats(job.node, pub, TRUE), Sats(job.node, pub, FALSE))

\* The length that a pass returns, with which a tap leaf is prefixed in the other pass, is the
\* number of bytes written; and the size and the number of opcodes of the analysis are those
\* of the emitted script, but for pk_k, whose CHECKSIGVERIFY the analysis does not count.
SizeIsEmitted ==
  pc = "done" =>
    \A i \in DOMAIN ret :
      LET job == InnerScripts(req.node)[i]
          ext == ext_info(job.node, job.type = "tap")
          ops == SelectSeq(ret[i].script, LAMBDA x : x[1] = "op")
      IN  /\ ret[i].length = Bytes(ret[i].script)
          /\ Miniscript(job) => /\ ret[i].length = ext.size + CountPkK(job.node)
                                /\ Len(ops) = ext.ops.count + CountPkK(job.node)

=============================================================================
