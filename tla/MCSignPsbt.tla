----------------------------- MODULE MCSignPsbt -----------------------------
(***************************************************************************)
(* Requests for model checking SignPsbt: families of requests, each        *)
(* varying what one pass of the handler looks at.                          *)
(***************************************************************************)
EXTENDS SignPsbt

CONSTANTS A, B, p

Key(kind, ours, leaf, fp, pub) ==
  [kind |-> kind, ours |-> ours, leaf |-> leaf, fp |-> fp, pub |-> pub]
Own(leaf) == Key("normal", TRUE, leaf, "other", None)
Theirs(leaf) == Key("normal", FALSE, leaf, "other", None)
Commit(fp, pub) == Key("normal", FALSE, A, fp, pub)
Policy(step, segwit, keys) == [step |-> step, segwit |-> segwit, keys |-> keys]

Input(nonwit, wit, amount, hints, ours, path, sighash) ==
  [nonwit |-> nonwit, wit |-> wit, amount |-> amount, hints |-> hints,
   ours |-> ours, path |-> path, sighash |-> sighash]
Change(amount) ==
  [amount |-> amount, hints |-> {1, 2}, change |-> TRUE, script |-> "wallet"]
Pay(amount, script) ==
  [amount |-> amount, hints |-> {}, change |-> FALSE, script |-> script]
Request(policy, inputs, outputs) ==
  [policy |-> policy, inputs |-> inputs, outputs |-> outputs]

\* Every combination of what is checked of an input.
Checks ==
  {Request(Policy(5, segwit, <<Own(None)>>),
           <<Input(nonwit, wit, 20, {1} \ hidden, ours, Root, sighash)>>, outs) :
     segwit \in -1 .. 1, nonwit \in {"absent", "good", "bad"},
     wit \in {"absent", "good", "mismatch"}, hidden \in {{}, {1}},
     ours \in BOOLEAN, sighash \in Sighashes, outs \in {<<>>, <<Change(19)>>}}

\* Every mixture of outputs, up to four; fees that are negative, low and high.
Reviews ==
  {Request(Policy(step, 1, <<Own(None), Theirs(A), Commit("finality", None)>>),
           <<Input("absent", "good", 60, {1}, TRUE, Root, sighash)>>, outs) :
     step \in {-1, 2, 3}, sighash \in {"absent", "NONE"},
     outs \in UNION {[1 .. n -> {Change(14), Pay(17, "standard"), Pay(30, "odd")}]
                     : n \in 0 .. 2}
             \cup UNION {[1 .. n -> {Change(14), Pay(15, "standard")}] : n \in 3 .. 4}}

\* Tapscripts with the leaf hash given in both ways or not, key path and MuSig2;
\* two inputs, internal or not, of our path or another.
SigningPolicies ==
  {Policy(5, 1, <<first, Own(A), Commit(fp, pub), Commit("leaf_check", <<B, Root>>)>>) :
     first \in {Theirs(None), Key("musig", TRUE, None, "other", None)},
     fp \in {"other", "leaf_display", "leaf_check"}, pub \in {<<A, p>>, <<A, Root>>}}
SigningInputs ==
  {Input("good", wit, 10, hints, TRUE, p, "absent") :
     wit \in {"absent", "good"}, hints \in {{}, {2}, {1, 2}}}
Signings ==
  {Request(policy, <<in1, in2>>, <<Pay(18, "standard"), Change(1)>>) :
     policy \in SigningPolicies, in1 \in SigningInputs,
     in2 \in {in \in SigningInputs : in.wit = "good"}}

\* Segwit v0 and legacy, two inputs: warnings accumulate over the inputs.
Pairs ==
  {Request(Policy(5, segwit, <<Own(None), Own(None)>>),
           <<Input(n1, "good", 40, {1}, TRUE, Root, s1),
             Input(n2, w2, 30, {2}, TRUE, Root, s2)>>, <<Pay(10, "standard")>>) :
     segwit \in {-1, 0}, n1, n2 \in {"absent", "good"}, w2 \in {"absent", "good"},
     s1, s2 \in {"absent", "ALL", "NONE", "SINGLE"}}

\* More than the limits allow: inputs, own key expressions, an amount that wraps.
Limits ==
  {Request(Policy(5, 1, [k \in 1 .. n |-> Own(None)]),
           [i \in 1 .. m |-> Input("absent", "good", 1000, {1}, TRUE, Root, "absent")],
           <<Change(5)>>) : n, m \in 1 .. 3}

\* A few requests that between them take every kind of step.
FewRequests ==
  {r \in Signings : /\ r.policy.keys[3].pub = <<A, p>>
                    /\ r.inputs[1].hints # {2}}
  \cup {q \in Reviews : q.inputs[1].sighash = "absent" /\ Len(q.outputs) \in {0, 2}}

AllRequests == Checks \cup Reviews \cup Signings \cup Pairs \cup Limits
=============================================================================
