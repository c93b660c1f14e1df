------------------------------- MODULE Policy -------------------------------
(***************************************************************************)
(* Descriptor templates as trees, and what common/wallet.c and             *)
(* handler/lib/policy.c compute by recursion over them: whether a template *)
(* parses and with which miniscript type, its analysis, its sanity, and    *)
(* the lookup of a key expression by its index.                            *)
(*                                                                         *)
(* A node is a record: t its token, s its child scripts, ks its key        *)
(* expressions, k its threshold or number.  The tree of a tr node is a     *)
(* script (a leaf) or a node "{}" with two trees.  A key expression is     *)
(* [musig, idx, first, second, ix]: the key indices (one unless musig),    *)
(* the two steps of /<first;second>/* and the keyexpr_index that parsing   *)
(* gives it.  Buffers are not modelled: running out of memory is a refusal *)
(* that module PolicyEmit allows at any template.                          *)
(***************************************************************************)
EXTENDS Miniscript, SequencesExt

CONSTANTS FIRST_HARDENED,              \* 2^31, scaled down for TLC
          MAX_TAPTREE_POLICY_DEPTH

MAX_PUBKEYS_PER_MULTISIG == 16
MAX_PUBKEYS_PER_MUSIG == 5

Wrappers == {"a", "s", "c", "t", "d", "v", "j", "n", "l", "u"}
Multis == {"multi", "sortedmulti", "multi_a", "sortedmulti_a"}
SingleKey == {"pk", "pkh", "pk_k", "pk_h", "wpkh"}
Hashes == {"sha256", "hash256", "ripemd160", "hash160"}

\* F of each child, as a tuple (which TLC evaluates once).
Each(n, F(_)) == <<>> \o [i \in DOMAIN n.s |-> F(n.s[i])]

-----------------------------------------------------------------------------
(* parse_script.  ctx is the set of context flags: "sh", "wsh", "tr". *)

parse_keyexpr(key, ctx, version) ==
  /\ \A i \in DOMAIN key.idx : key.idx[i] <= INT16_MAX
  /\ key.musig => /\ "tr" \in ctx /\ version = 2
                  /\ Len(key.idx) \in 2 .. MAX_PUBKEYS_PER_MUSIG
  /\ version = 1 => key.first = 0 /\ key.second = 1
  /\ key.first <= FIRST_HARDENED /\ key.second <= FIRST_HARDENED
  /\ key.first # key.second

parse_as_miniscript(ctx) == ("wsh" \in ctx /\ "sh" \notin ctx) \/ "tr" \in ctx

token_allowed(t, depth, ctx) ==
  /\ "sh" \in ctx => t \in {"pk", "pkh", "multi", "sortedmulti", "wpkh", "wsh"}
  /\ {"sh", "wsh"} \subseteq ctx /\ depth = 2
       => t \in {"pk", "pkh", "multi", "sortedmulti"}
  /\ t = "sh" => depth = 0
  /\ t \in {"wsh", "wpkh"} => depth = 0 \/ "sh" \in ctx
  /\ t = "tr" => depth <= 1
  /\ t \in {"multi", "sortedmulti"} => "tr" \notin ctx
  /\ t \in {"multi_a", "sortedmulti_a"} => "tr" \in ctx
  /\ t = "sortedmulti" =>
       depth = (IF "sh" \in ctx THEN 1 ELSE 0) + (IF "wsh" \in ctx THEN 1 ELSE 0)

numbers_allowed(n) ==
  /\ n.t \in {"older", "after"} => n.k >= 1
  /\ n.t \in Multis =>
       1 <= n.k /\ n.k <= Len(n.ks) /\ Len(n.ks) <= MAX_PUBKEYS_PER_MULTISIG

type_leaf(t) ==
  CASE t = "0" -> type_0                 [] t = "1" -> type_1
    [] t \in {"sha256", "hash256"} -> type_hash
    [] t \in {"ripemd160", "hash160"} -> type_hash160
    [] t \in {"older", "after"} -> type_locktime
    [] t = "pk" -> type_pk               [] t = "pkh" -> type_pkh
    [] t = "pk_k" -> type_pk_k           [] t = "pk_h" -> type_pk_h
    [] t = "multi" -> type_multi         [] t = "multi_a" -> type_multi_a
    [] OTHER -> NotMiniscript

\* f: the flags of the children, in order.
type_node(n, f, within_tr) ==
  CASE n.t = "andor" -> type_andor(f[1], f[2], f[3])
    [] n.t = "and_v" -> type_and_v(f[1], f[2])
    [] n.t = "and_b" -> type_and_b(f[1], f[2])
    [] n.t = "and_n" -> type_and_n(f[1], f[2])
    [] n.t = "or_b" -> type_or_b(f[1], f[2])
    [] n.t = "or_c" -> type_or_c(f[1], f[2])
    [] n.t = "or_d" -> type_or_d(f[1], f[2])
    [] n.t = "or_i" -> type_or_i(f[1], f[2])
    [] n.t = "thresh" ->
         IF \A i \in DOMAIN f : thresh_child(f[i], i)
         THEN type_thresh(n.k, Len(f), Len(SelectSeq(f, LAMBDA X : X.z)),
                          Len(SelectSeq(f, LAMBDA X : X.o)))
         ELSE Invalid
    [] n.t = "a" -> type_a(f[1])         [] n.t = "s" -> type_s(f[1])
    [] n.t = "c" -> type_c(f[1])         [] n.t = "t" -> type_t(f[1])
    [] n.t = "d" -> type_d(f[1], within_tr)
    [] n.t = "v" -> type_v(f[1])         [] n.t = "j" -> type_j(f[1])
    [] n.t = "n" -> type_n(f[1])         [] n.t \in {"l", "u"} -> type_lu(f[1])

RECURSIVE parse_script(_, _, _, _), parse_tree(_, _, _), parse_sh_wsh(_, _, _, _),
          parse_tr(_, _, _)
parse_script(n, depth, ctx, version) ==
  IF n.t \in Wrappers
  THEN LET X == parse_script(n.s[1], depth, ctx, version)
       IN  When(parse_as_miniscript(ctx) /\ X.type \in Bases,
                type_node(n, <<X>>, "tr" \in ctx))
  ELSE IF ~( /\ token_allowed(n.t, depth, ctx) /\ numbers_allowed(n)
             /\ \A i \in DOMAIN n.ks :
                  parse_keyexpr(n.ks[i], IF n.t = "tr" THEN {"tr"} ELSE ctx, version) )
  THEN Invalid
  ELSE CASE n.t \in {"sh", "wsh"} -> parse_sh_wsh(n, depth, ctx, version)
         [] n.t = "tr" -> parse_tr(n, depth, version)
         [] n.t # "tr" /\ n.t \notin {"sh", "wsh"} /\ n.s = <<>> -> type_leaf(n.t)
         [] OTHER ->
              LET f == Each(n, LAMBDA c : parse_script(c, depth + 1, ctx, version))
              IN  When(\A i \in DOMAIN f : f[i].type \in Bases,
                       type_node(n, f, "tr" \in ctx))

parse_sh_wsh(n, depth, ctx, version) ==
  When(parse_script(n.s[1], depth + 1, ctx \cup {n.t}, version) # Invalid, NotMiniscript)

parse_tr(n, depth, version) ==
  When(\A i \in DOMAIN n.s : parse_tree(n.s[i], depth + 1, version), NotMiniscript)

parse_tree(n, depth, version) ==
  /\ depth <= MAX_TAPTREE_POLICY_DEPTH
  /\ IF n.t = "{}" THEN \A i \in {1, 2} : parse_tree(n.s[i], depth + 1, version)
     ELSE parse_script(n, depth + 1, {"tr"}, version) # Invalid

\* The nodes with the keyexpr_index that the counter c gives to their keys, in the order
\* in which they are parsed; returned with the counter's new value.
RECURSIVE index_keys(_, _)
index_keys(n, c) ==
  LET ks == <<>> \o [i \in DOMAIN n.ks |-> [n.ks[i] EXCEPT !.ix = c + i - 1]]
      children == FoldLeft(LAMBDA acc, child :
                             LET r == index_keys(child, acc[2])
                             IN  <<Append(acc[1], r[1]), r[2]>>,
                           <<<<>>, c + Len(n.ks)>>, n.s)
  IN  <<[n EXCEPT !.ks = ks, !.s = children[1]], children[2]>>

parse_descriptor_template(n, version) ==
  version \in {1, 2} /\ parse_script(n, 0, {}, version) # Invalid

-----------------------------------------------------------------------------
(* compute_miniscript_policy_ext_info. *)

\* One more child with the numbers t: sats[j + 1] is the largest for j children satisfied.
NextSats(sats, t) ==
  [j \in 1 .. Len(sats) + 1 |->
     CASE j = 1 -> sumcheck(sats[1], t.dsat)
       [] j = Len(sats) + 1 -> sumcheck(sats[j - 1], t.sat)
       [] OTHER -> maxcheck(sumcheck(sats[j], t.dsat), sumcheck(sats[j - 1], t.sat))]
\* Entries beyond the last child keep their initial value 0.
SatsAt(sats, k) == IF k < Len(sats) THEN sats[k + 1] ELSE 0
compute_thresh_ops(k, ts) ==
  LET sats == FoldLeft(LAMBDA acc, t : NextSats(acc, t.ops), <<0>>, ts)
  IN  Ops(FoldLeft(LAMBDA acc, t : acc + t.ops.count + 1, 0, ts),
          SatsAt(sats, k), sats[1])
compute_thresh_stacksize(k, ts) ==
  LET sats == FoldLeft(LAMBDA acc, t : NextSats(acc, t.ss), <<0>>, ts)
  IN  Ss(SatsAt(sats, k), sats[1])

ext_thresh(k, ts) ==
  LET n == Len(ts)
      count_s == Len(SelectSeq(ts, LAMBDA t : t.s))
      count_e == Len(SelectSeq(ts, LAMBDA t : t.e))
      locks == FoldLeft(LAMBDA out, t :
                 LET tl == out.tl \cup t.tl
                 IN  [tl |-> tl, k |-> /\ out.k /\ t.k
                                       /\ ~(k >= 2 /\ Mixed(t, [tl |-> tl]))],
                 [tl |-> {}, k |-> TRUE], ts)
  IN  Ext(n - count_s <= k - 1, FALSE, count_s = n,
          count_e = n /\ n - count_s <= k, locks.tl, locks.k, FALSE,
          FoldLeft(LAMBDA acc, t : acc + t.size + 1, get_push_script_size(k), ts),
          compute_thresh_ops(k, ts), compute_thresh_stacksize(k, ts))

RECURSIVE ext_info(_, _)
ext_info(n, tap) ==
  LET E(i) == ext_info(n.s[i], tap)
  IN  CASE n.t = "0" -> ext_0                  [] n.t = "1" -> ext_1
        [] n.t = "pk" -> ext_pk(tap)           [] n.t = "pkh" -> ext_pkh
        [] n.t = "pk_k" -> ext_pk_k(tap)       [] n.t = "pk_h" -> ext_pk_h
        [] n.t = "older" -> ext_older(n.k)     [] n.t = "after" -> ext_after(n.k)
        [] n.t \in {"sha256", "hash256"} -> ext_hash256
        [] n.t \in {"ripemd160", "hash160"} -> ext_hash160
        [] n.t = "multi" -> ext_multi(n.k, Len(n.ks))
        [] n.t = "multi_a" -> ext_multi_a(n.k, Len(n.ks))
        [] n.t = "andor" -> ext_andor(E(1), E(2), E(3))
        [] n.t = "and_v" -> ext_and_v(E(1), E(2))
        [] n.t = "and_b" -> ext_and_b(E(1), E(2))
        [] n.t = "and_n" -> ext_and_n(E(1), E(2))
        [] n.t = "or_b" -> ext_or_b(E(1), E(2))
        [] n.t = "or_c" -> ext_or_c(E(1), E(2))
        [] n.t = "or_d" -> ext_or_d(E(1), E(2))
        [] n.t = "or_i" -> ext_or_i(E(1), E(2))
        [] n.t = "thresh" -> ext_thresh(n.k, Each(n, LAMBDA c : ext_info(c, tap)))
        [] n.t = "a" -> ext_a(E(1))            [] n.t = "s" -> ext_s(E(1))
        [] n.t = "c" -> ext_c(E(1))            [] n.t = "t" -> ext_t(E(1))
        [] n.t = "d" -> ext_d(E(1))            [] n.t = "v" -> ext_v(E(1))
        [] n.t = "j" -> ext_j(E(1))            [] n.t = "n" -> ext_n(E(1))
        [] n.t \in {"l", "u"} -> ext_lu(E(1))

-----------------------------------------------------------------------------
(* Key expressions by index. *)

NoKey == [musig |-> FALSE, idx |-> <<>>, first |-> 0, second |-> 0, ix |-> -1]

\* What reading element i of a multisig's keys gives.  parse_keyexpr allocates the
\* aggregate key of a musig right behind its key expression, so that the key expressions
\* after it are not where the array has them.
key_at(n, i) ==
  IF \E j \in 1 .. i - 1 : n.ks[j].musig THEN NoKey ELSE n.ks[i]

\* The number of key expressions of the node; the i-th of them and its leaf, if i is less.
RECURSIVE get_keyexpr_by_index(_, _)
get_keyexpr_by_index(n, i) ==
  LET own == [n |-> Len(n.ks), leaf |-> <<>>,
              key |-> IF i < Len(n.ks) THEN key_at(n, i + 1) ELSE NoKey]
      IsLeaf(child) == n.t \in {"tr", "{}"} /\ child.t # "{}"
  IN  FoldLeft(LAMBDA acc, child :
                 LET found == i < acc.n
                     j == IF found THEN 0 ELSE i - acc.n
                     r == get_keyexpr_by_index(child, j)
                 IN  IF found THEN [acc EXCEPT !.n = acc.n + r.n]
                     ELSE [n |-> acc.n + r.n, key |-> r.key,
                           leaf |-> IF IsLeaf(child) /\ j < r.n THEN <<child>> ELSE r.leaf],
               own, n.s)

KeyExpressions(n) ==
  <<>> \o [i \in 1 .. get_keyexpr_by_index(n, 0).n |-> get_keyexpr_by_index(n, i - 1).key]

count_distinct_keys_info(n) ==
  LET ks == KeyExpressions(n)
  IN  Max({ks[i].idx[j] + 1 : <<i, j>> \in
             {p \in (1 .. Len(ks)) \X (1 .. MAX_PUBKEYS_PER_MUSIG) :
                p[2] \in DOMAIN ks[p[1]].idx}} \cup {-1})

-----------------------------------------------------------------------------
(* is_policy_sane. *)

\* Mutant: whether the script can be satisfied at all is not asked.
is_miniscript_sane_unsatisfiable(n, ctx) ==
  LET ext == ext_info(n, ctx = "tr")
  IN  parse_script(n, 1, {ctx}, 2).type = "B" /\ ext.m /\ ext.s /\ ext.k
is_miniscript_sane(n, ctx) ==
  LET ext == ext_info(n, ctx = "tr")
  IN  /\ parse_script(n, 1, {ctx}, 2).type = "B"
      /\ ext.m /\ ext.s /\ ext.k
      /\ ext.ss.sat # -1 /\ ext.ss.sat <= 100
      /\ ext.ops.sat # -1 /\ ext.ops.count + ext.ops.sat <= 201
      /\ ext.size <= 3600

RECURSIVE is_taptree_miniscript_sane(_)
is_taptree_miniscript_sane(n) ==
  IF n.t = "{}" THEN \A i \in {1, 2} : is_taptree_miniscript_sane(n.s[i])
  ELSE parse_script(n, 2, {"tr"}, 2) # NotMiniscript => is_miniscript_sane(n, "tr")

\* The fields compared at line 2096 alias the relative pointer of a musig, which is the
\* same for every musig (its target always lies right behind it): the test is always true.
are_key_placeholders_identical(a, b) ==
  a.musig = b.musig /\ SortSeq(a.idx, <) = SortSeq(b.idx, <)

\* keys: the keys information, of which pub is the public key.
is_policy_sane(n, keys) ==
  LET ks == KeyExpressions(n)
  IN  /\ n.t = "wsh" /\ parse_script(n.s[1], 1, {"wsh"}, 2) # NotMiniscript
           => is_miniscript_sane(n.s[1], "wsh")
      /\ n.t = "tr" => \A i \in DOMAIN n.s : is_taptree_miniscript_sane(n.s[i])
      /\ keys # <<>>            \* with no key, n_keys - 1 wraps and fetching key 0 fails
      /\ \A i, j \in DOMAIN keys : i < j => keys[i].pub # keys[j].pub
      /\ \A i \in DOMAIN ks : ks[i].musig => IsInjective(ks[i].idx)
      /\ \A i, j \in DOMAIN ks :
           i < j /\ are_key_placeholders_identical(ks[i], ks[j])
             => {ks[i].first, ks[i].second} \cap {ks[j].first, ks[j].second} = {}
=============================================================================
