----------------------------- MODULE PolicyEmit -----------------------------
(***************************************************************************)
(* From a descriptor template to the output script of an address: parsing  *)
(* and sanity (module Policy), then get_wallet_script, whose inner scripts *)
(* are emitted by get_wallet_internal_script_hash, a stack machine with a  *)
(* bounded stack that writes the script piece by piece into a hash.  A tap *)
(* leaf is emitted twice: once for its length, once to be hashed behind    *)
(* it.  SIGN_PSBT computes the scripts of many addresses with one cache of *)
(* derived keys.  One step is one iteration of the loop of that machine.   *)
(*                                                                         *)
(* A script is a sequence of items: <<"op", name>>, <<"num", n>>,          *)
(* <<"pk33", x>> and <<"pk32", x>> (a key pushed compressed or x-only),    *)
(* <<"pkh", x>> (the hash160 of a key) and <<"img", token>> (a hash of the *)
(* template).  A public key is an integer, ordered as its x coordinate.    *)
(***************************************************************************)
EXTENDS Policy

CONSTANTS
  Requests,          \* pairs of a template and a sequence of addresses <<change, index>>
  Keys,              \* the keys information: sequence of [pub, other, len]
  MAX_POLICY_DEPTH,
  MAX_CACHED_KEY_EXPRESSIONS

VARIABLES
  pc,        \* "parse", "sane", "start", "emit", "done", "failed"
  req,       \* the template (indexed once parsed) and the addresses to compute
  counter,   \* static key_expression_count of parse_script
  jobs,      \* inner scripts still to emit: [node, type, pass]
  nodes,     \* state.nodes: sequence of [node, length, step, v]
  out,       \* what the current pass has written
  ret,       \* the lengths and scripts of the passes that ended
  cache      \* sign_psbt_cache: <<keyexpr_index, change>> -> key, or 0

vars == <<pc, req, counter, jobs, nodes, out, ret, cache>>

-----------------------------------------------------------------------------
(* Keys. *)

\* bip32_CKDpub, the parity of a point and the MuSig aggregate of sorted keys, as
\* injective functions (without meaning beyond that).
bip32_CKDpub(x, i) == x * 8 + i + 1
Parity(x) == 2 + ((x \div 128) % 2)
musig_key_agg(pubs) == FoldLeft(LAMBDA acc, p : acc * 8 + p, 1, pubs) + 100000

key_info(i) == Keys[i + 1]
\* What get_extended_pubkey_from_client returns besides the key.
derive_len(i) == IF key_info(i).other THEN key_info(i).len ELSE 0
wdi == Head(req.addrs)
change_step(key, a) == IF a[1] = 1 THEN key.second ELSE key.first

\* derive_first_step_for_pubkey: the key, with the cache c.
Cached(key, a) == key.ix < MAX_CACHED_KEY_EXPRESSIONS
\* Mutant: one entry for both values of change.
first_step_shared(key, a, c) ==
  IF Cached(key, a) /\ \E ch \in {0, 1} : c[<<key.ix, ch>>] # 0
  THEN c[<<key.ix, CHOOSE ch \in {0, 1} : c[<<key.ix, ch>>] # 0>>]
  ELSE bip32_CKDpub(key_info(key.idx[1]).pub, change_step(key, a))
first_step(key, a, c) ==
  IF Cached(key, a) /\ c[<<key.ix, a[1]>>] # 0 THEN c[<<key.ix, a[1]>>]
  ELSE bip32_CKDpub(key_info(key.idx[1]).pub, change_step(key, a))

get_derived_pubkey(key, a, c) ==
  IF key.musig
  THEN musig_key_agg(SortSeq([i \in DOMAIN key.idx |-> key_info(key.idx[i]).pub], <))
  ELSE IF derive_len(key.idx[1]) > 0
  THEN bip32_CKDpub(first_step(key, a, c), a[2])
  ELSE key_info(key.idx[1]).pub

\* The cache after the keys ks were derived for the address a.
Filled(ks, a, c) ==
  [p \in DOMAIN c |->
     LET hits == {i \in DOMAIN ks : /\ ~ks[i].musig /\ ks[i].ix = p[1] /\ a[1] = p[2]
                                    /\ derive_len(ks[i].idx[1]) > 0}
     IN  IF c[p] = 0 /\ hits # {}
         THEN first_step(ks[CHOOSE i \in hits : TRUE], a, c) ELSE c[p]]

-----------------------------------------------------------------------------
(* What a step writes. *)

ItemSize(item) ==
  CASE item[1] = "op" -> 1
    [] item[1] = "num" -> get_push_script_size(item[2])
    [] item[1] = "pk33" -> 34
    [] item[1] = "pk32" -> 33
    [] item[1] = "pkh" -> 21
    [] item[1] = "img" -> IF item[2] \in {"sha256", "hash256"} THEN 33 ELSE 21
RECURSIVE Bytes(_)
Bytes(items) == IF items = <<>> THEN 0 ELSE ItemSize(Head(items)) + Bytes(Tail(items))

op(name) == <<"op", name>>
num(n) == <<"num", n>>
\* The opcode numbered one above.
PlusOne == [CHECKSIG |-> "CHECKSIGVERIFY", CHECKMULTISIG |-> "CHECKMULTISIGVERIFY",
            NUMEQUAL |-> "NUMEQUALVERIFY", EQUAL |-> "EQUALVERIFY",
            CHECKSIGVERIFY |-> "CHECKMULTISIG"]
op_without_v(item, v) == <<item>>   \* mutant
update_output_op_v(item, v) ==
  IF ~v THEN <<item>>
  ELSE IF item[1] = "op" /\ item[2] \in DOMAIN PlusOne THEN <<op(PlusOne[item[2]])>>
  ELSE <<item, op("VERIFY")>>

PushKey(x, tap) == IF tap THEN <<"pk32", x>> ELSE <<"pk33", x>>

\* The command tables of the generic processor: <<"op", item>>, <<"op_v", item>>,
\* <<"child", i>>, <<"child_v", i>>, <<"child_vv", i>>, or a push of the node's data.
O(item) == <<"op", item>>
OV(item) == <<"op_v", item>>
C(i) == <<"child", i>>
HashCommands(name) ==
  <<O(op("SIZE")), O(num(32)), O(op("EQUALVERIFY")), O(op(name)),
    <<"push_img", 0>>, OV(op("EQUAL"))>>
commands(t) ==
  CASE t = "0" -> <<OV(num(0))>>
    [] t = "1" -> <<OV(num(1))>>
    [] t = "pk_k" -> <<<<"push_pk", 0>>, OV(op("CHECKSIGVERIFY"))>>
    [] t = "pk_h" -> <<O(op("DUP")), O(op("HASH160")), <<"push_pkh", 0>>,
                       O(op("EQUALVERIFY"))>>
    [] t = "pk" -> <<<<"push_pk", 0>>, OV(op("CHECKSIG"))>>
    [] t = "older" -> <<<<"push_num", 0>>, OV(op("CSV"))>>
    [] t = "after" -> <<<<"push_num", 0>>, OV(op("CLTV"))>>
    [] t = "sha256" -> HashCommands("SHA256")
    [] t = "hash256" -> HashCommands("HASH256")
    [] t = "ripemd160" -> HashCommands("RIPEMD160")
    [] t = "hash160" -> HashCommands("HASH160")
    [] t = "andor" -> <<C(1), O(op("NOTIF")), C(3), O(op("ELSE")), C(2), OV(op("ENDIF"))>>
    [] t = "and_v" -> <<C(1), <<"child_v", 2>>>>
    [] t = "and_b" -> <<C(1), C(2), OV(op("BOOLAND"))>>
    [] t = "and_n" -> <<C(1), O(op("NOTIF")), O(num(0)), O(op("ELSE")), C(2),
                        OV(op("ENDIF"))>>
    [] t = "or_b" -> <<C(1), C(2), OV(op("BOOLOR"))>>
    [] t = "or_c" -> <<C(1), O(op("NOTIF")), C(2), OV(op("ENDIF"))>>
    [] t = "or_d" -> <<C(1), O(op("IFDUP")), O(op("NOTIF")), C(2), OV(op("ENDIF"))>>
    [] t = "or_i" -> <<O(op("IF")), C(1), O(op("ELSE")), C(2), OV(op("ENDIF"))>>
    [] t = "a" -> <<O(op("TOALTSTACK")), C(1), O(op("FROMALTSTACK"))>>
    [] t = "s" -> <<O(op("SWAP")), C(1)>>
    [] t = "c" -> <<C(1), OV(op("CHECKSIG"))>>
    [] t = "t" -> <<C(1), OV(num(1))>>
    [] t = "d" -> <<O(op("DUP")), O(op("IF")), C(1), OV(op("ENDIF"))>>
    [] t = "v" -> <<<<"child_vv", 1>>>>
    [] t = "j" -> <<O(op("SIZE")), O(op("0NOTEQUAL")), O(op("IF")), C(1), OV(op("ENDIF"))>>
    [] t = "n" -> <<C(1), OV(op("0NOTEQUAL"))>>
    [] t = "l" -> <<O(op("IF")), O(num(0)), O(op("ELSE")), C(1), OV(op("ENDIF"))>>
    [] t = "u" -> <<O(op("IF")), C(1), O(op("ELSE")), O(num(0)), OV(op("ENDIF"))>>

MiniscriptTokens ==
  {"0", "1", "pk", "pkh", "pk_k", "pk_h", "older", "after", "andor", "and_v", "and_b",
   "and_n", "or_b", "or_c", "or_d", "or_i", "thresh"} \cup Hashes \cup Wrappers
whitelist(type) ==
  CASE type = "sh" -> {"wpkh", "multi", "sortedmulti"}
    [] type = "sh_wsh" -> {"multi", "sortedmulti"}
    [] type = "wsh" -> MiniscriptTokens \cup {"multi", "sortedmulti"}
    [] type = "tap" -> MiniscriptTokens \cup {"multi_a", "sortedmulti_a"}

\* The keys of a multisig in the order in which they are pushed: a selection sort that
\* always takes the first of the smallest keys not used yet.
Less(x, y, xonly) ==
  IF xonly \/ Parity(x) = Parity(y) THEN x < y ELSE Parity(x) < Parity(y)
Smallest(xs, xonly) ==
  CHOOSE i \in DOMAIN xs : /\ \A j \in DOMAIN xs : ~Less(xs[j], xs[i], xonly)
                           /\ \A j \in 1 .. i - 1 : Less(xs[i], xs[j], xonly)
RECURSIVE selection_sort(_, _)
selection_sort(xs, xonly) ==
  IF xs = <<>> THEN <<>>
  ELSE LET i == Smallest(xs, xonly)
       IN  <<xs[i]>> \o selection_sort(RemoveAt(xs, i), xonly)
OrderedKeys(n, xs) ==
  IF n.t \in {"sortedmulti", "sortedmulti_a"}
  THEN selection_sort(xs, n.t = "sortedmulti_a") ELSE xs

process_pkh_wpkh_node(n, xs, v) ==
  IF n.t = "pkh"
  THEN <<op("DUP"), op("HASH160"), <<"pkh", xs[1]>>, op("EQUALVERIFY")>>
         \o update_output_op_v(op("CHECKSIG"), v)
  ELSE <<num(0), <<"pkh", xs[1]>>>>

process_multi_sortedmulti_node(n, xs, v) ==
  LET ys == OrderedKeys(n, xs)
  IN  <<num(n.k)>> \o [i \in DOMAIN ys |-> <<"pk33", ys[i]>>] \o <<num(Len(ys))>>
        \o update_output_op_v(op("CHECKMULTISIG"), v)

process_multi_a_sortedmulti_a_node(n, xs, v) ==
  LET ys == OrderedKeys(n, xs)
  IN  FlattenSeq([i \in DOMAIN ys |->
        <<<<"pk32", ys[i]>>, op(IF i = 1 THEN "CHECKSIG" ELSE "CHECKSIGADD")>>])
        \o <<num(n.k)>> \o update_output_op_v(op("NUMEQUAL"), v)

-----------------------------------------------------------------------------
(* Parsing and sanity. *)

Init ==
  /\ pc = "parse" /\ req \in Requests /\ counter \in {0, 3}
  /\ jobs = <<>> /\ nodes = <<>> /\ out = <<>> /\ ret = <<>>
  /\ cache = [p \in (0 .. MAX_CACHED_KEY_EXPRESSIONS - 1) \X {0, 1} |-> 0]

Fail == pc' = "failed" /\ UNCHANGED <<req, counter, jobs, nodes, out, ret, cache>>

\* depth 0 of parse_script resets the counter that numbers the key expressions.
CountGoesOn == counter   \* mutant
InitialCount == 0

ParseTemplate ==
  /\ pc = "parse" /\ parse_descriptor_template(req.node, 2)
  /\ LET r == index_keys(req.node, InitialCount)
     IN  req' = [req EXCEPT !.node = r[1]] /\ counter' = r[2]
  /\ pc' = "sane"
  /\ UNCHANGED <<jobs, nodes, out, ret, cache>>

ParseFails ==   \* refused, or the buffer for the nodes is too small
  pc = "parse" /\ Fail

CheckSane ==
  /\ pc = "sane" /\ is_policy_sane(req.node, Keys)
  /\ pc' = "start"
  /\ UNCHANGED <<req, counter, jobs, nodes, out, ret, cache>>

Insane == pc = "sane" /\ ~is_policy_sane(req.node, Keys) /\ Fail

-----------------------------------------------------------------------------
(* get_wallet_script. *)

RECURSIVE Leaves(_)
Leaves(n) == IF n.t = "{}" THEN Leaves(n.s[1]) \o Leaves(n.s[2]) ELSE <<n>>
Job(n, type) == [node |-> n, type |-> type]
compute_taptree_hash(n) ==
  FlattenSeq([i \in DOMAIN Leaves(n) |-> <<Job(Leaves(n)[i], "tap"), Job(Leaves(n)[i], "tap")>>])

InnerScripts(n) ==
  CASE n.t = "sh" -> IF n.s[1].t = "wsh" THEN <<Job(n.s[1].s[1], "sh_wsh")>>
                     ELSE <<Job(n.s[1], "sh")>>
    [] n.t = "wsh" -> <<Job(n.s[1], "wsh")>>
    [] n.t = "tr" -> IF n.s = <<>> THEN <<>> ELSE compute_taptree_hash(n.s[1])
    [] OTHER -> <<>>

Push(n, v) == [node |-> n, length |-> 0, step |-> 0, v |-> v]

\* The top-level key, if there is one, and the list of inner scripts to emit.
GetWalletScript ==
  /\ pc = "start" /\ req.node.t \in {"pkh", "wpkh", "sh", "wsh", "tr"}
  /\ LET js == InnerScripts(req.node)
     IN  IF js = <<>> THEN pc' = "done" /\ jobs' = <<>> /\ nodes' = <<>>
         ELSE pc' = "emit" /\ jobs' = js /\ nodes' = <<Push(js[1].node, FALSE)>>
  /\ cache' = Filled(req.node.ks, wdi, cache)
  /\ out' = <<>> /\ ret' = <<>>
  /\ UNCHANGED <<req, counter>>

UnsupportedScript ==   \* not a supported top-level script, or its key cannot be fetched
  /\ pc = "start"
  /\ req.node.t \notin {"pkh", "wpkh", "sh", "wsh", "tr"} \/ req.node.ks # <<>>
  /\ Fail

-----------------------------------------------------------------------------
(* get_wallet_internal_script_hash: one iteration. *)

top == nodes[Len(nodes)]
n_ == top.node
Tap == jobs[1].type = "tap"
Xs == <<>> \o [i \in DOMAIN n_.ks |-> get_derived_pubkey(key_at(n_, i), wdi, cache)]
Emitting(tokens) == pc = "emit" /\ n_.t \in whitelist(jobs[1].type) \cap tokens
Generic == MiniscriptTokens \ {"pkh", "thresh"}

\* The stack once the top node has written the items and gone to its next step.
Advanced(items) ==
  [nodes EXCEPT ![Len(nodes)].length = top.length + Bytes(items),
                ![Len(nodes)].step = top.step + 1]
Write(items) ==
  /\ out' = out \o items
  /\ nodes' = Advanced(items)
  /\ UNCHANGED <<pc, req, counter, jobs, ret>>

\* Write the items and continue with a child (state_stack_push).
Room == Len(nodes) < MAX_POLICY_DEPTH
Descend(items, child, v) ==
  /\ out' = out \o items
  /\ IF Room
     THEN /\ nodes' = Append(Advanced(items), Push(child, v))
          /\ UNCHANGED pc
     ELSE UNCHANGED nodes /\ pc' = "failed"
  /\ UNCHANGED <<req, counter, jobs, ret, cache>>

\* Write the items and end the node (state_stack_pop); the last node ends the pass.
Finish(items) ==
  LET script == out \o items
      length == top.length + Bytes(items)
      rest == Front(nodes)
  IN  IF rest # <<>>
      THEN /\ nodes' = [rest EXCEPT ![Len(rest)].length = rest[Len(rest)].length + length]
           /\ out' = script
           /\ UNCHANGED <<pc, req, counter, jobs, ret>>
      ELSE /\ ret' = Append(ret, [length |-> length, script |-> script])
           /\ jobs' = Tail(jobs) /\ out' = <<>>
           /\ IF Len(jobs) = 1 THEN pc' = "done" /\ nodes' = <<>>
              ELSE pc' = "emit" /\ nodes' = <<Push(jobs[2].node, FALSE)>>
           /\ UNCHANGED <<req, counter>>

process_generic_node ==
  LET cmds == commands(n_.t)
      code == cmds[top.step + 1][1]
      data == cmds[top.step + 1][2]
  IN  /\ Emitting(Generic)
      /\ IF top.step = Len(cmds) THEN Finish(<<>>) /\ UNCHANGED cache
         ELSE \/ /\ code \in {"child", "child_v", "child_vv"}
                 /\ Descend(<<>>, n_.s[data],
                            (code = "child_v" /\ top.v) \/ code = "child_vv")
              \/ /\ code \in {"push_pk", "push_pkh"}
                 /\ Write(<<IF code = "push_pk" THEN PushKey(Xs[1], Tap)
                            ELSE <<"pkh", Xs[1]>>>>)
                 /\ cache' = Filled(n_.ks, wdi, cache)
              \/ /\ code \in {"op", "op_v", "push_num", "push_img"}
                 /\ Write(CASE code = "op" -> <<data>>
                            [] code = "op_v" -> update_output_op_v(data, top.v)
                            [] code = "push_num" -> <<num(n_.k)>>
                            [] code = "push_img" -> <<<<"img", n_.t>>>>)
                 /\ UNCHANGED cache

process_thresh_node ==
  /\ Emitting({"thresh"})
  /\ \/ /\ top.step < Len(n_.s)
        /\ Descend(IF top.step > 1 THEN <<op("ADD")>> ELSE <<>>,
                   n_.s[top.step + 1], FALSE)
     \/ /\ top.step >= Len(n_.s)
        /\ Finish((IF Len(n_.s) >= 2 THEN <<op("ADD")>> ELSE <<>>)
                    \o <<num(n_.k)>> \o update_output_op_v(op("EQUAL"), top.v))
        /\ UNCHANGED cache

process_key_nodes ==
  /\ Emitting({"pkh", "wpkh"} \cup Multis)
  /\ Finish(CASE n_.t \in {"pkh", "wpkh"} -> process_pkh_wpkh_node(n_, Xs, top.v)
              [] n_.t \in {"multi", "sortedmulti"} ->
                   process_multi_sortedmulti_node(n_, Xs, top.v)
              [] OTHER -> process_multi_a_sortedmulti_a_node(n_, Xs, top.v))
  /\ cache' = Filled(n_.ks, wdi, cache)

NotWhitelisted == pc = "emit" /\ n_.t \notin whitelist(jobs[1].type) /\ Fail

\* The client does not give the information of a key.
KeyNotFetched == pc = "emit" /\ n_.ks # <<>> /\ Fail

NextAddress ==
  /\ pc = "done" /\ Len(req.addrs) > 1
  /\ pc' = "start" /\ req' = [req EXCEPT !.addrs = Tail(req.addrs)]
  /\ UNCHANGED <<counter, jobs, nodes, out, ret, cache>>

Next ==
  \/ ParseTemplate \/ ParseFails \/ CheckSane \/ Insane
  \/ GetWalletScript \/ UnsupportedScript
  \/ process_generic_node \/ process_thresh_node \/ process_key_nodes
  \/ NotWhitelisted \/ KeyNotFetched \/ NextAddress

Spec == Init /\ [][Next]_vars
=============================================================================
