--------------------------- MODULE SignPsbt_proofs ---------------------------
(***************************************************************************)
(* SignPsbt: for every set of requests and all limits, what was checked    *)
(* and approved covers what is signed.                                     *)
(***************************************************************************)
EXTENDS SignPsbt, FiniteSetTheorems, WellFoundedInduction, TLAPS

\* What preprocess_inputs has established for an input it has passed.
Passed(i) ==
  InputInternal(i) => /\ ~UtxosRejected(req.inputs[i])
                      /\ ~InternalRejected(i)
                      /\ InputWarnings(i) \subseteq st.warnings
AllPassed == \A i \in 1 .. NIn : Passed(i)

\* What display_transaction has established when it returns true.
Consented == \A w \in st.warnings : Fact(w) \in approved

\* The leaf hash of the state is one that the policy gives.
LeafGiven ==
  st.leafhash # None =>
    \E k \in KeyIds :
      /\ req.policy.keys[k].pub = st.leafhash
      /\ \/ req.policy.keys[k].fp = "leaf_check"
         \/ req.policy.keys[k].fp = "leaf_display" /\ st.display

\* sign_transaction has yielded for key expression k and input i.
Done(k, i) == \E s \in sigs : s.key = k /\ s.input = i
NoOK == \A n \in DOMAIN sw : sw[n] # "OK"

KeysInv ==
  /\ pc # "idle" => req \in Psbts /\ st.internal \subseteq KeyIds /\ LeafGiven
  /\ pc \in {"inputs", "outputs", "hashes", "review", "sign"} => st.internal # {}
ChecksInv ==
  /\ pc = "inputs" => \A i \in 1 .. NIn : i < cur => Passed(i)
  /\ pc \in {"outputs", "hashes", "review", "sign"} => AllPassed
  /\ sigs # {} => AllPassed
ConsentInv ==
  /\ pc = "review" => /\ key > 0
                      /\ \A j \in 1 .. Len(Stages) :
                           j < key /\ Stages[j] \in st.warnings
                             => Fact(Stages[j]) \in approved
  /\ pc = "sign" => Consented
  /\ sigs # {} => Consented /\ pc \in {"sign", "return", "exited"}
ProgressInv ==
  /\ pc = "idle" => sigs = {} /\ st = ZeroState
  /\ pc = "keys" => cur = 1
  /\ pc \in {"inputs", "outputs"} => cur > 0
  /\ pc = "sign" => /\ key \in st.internal /\ cur > 0
                    /\ \A k \in st.internal, i \in 1 .. NIn :
                         k < key \/ (k = key /\ i < cur) => Done(k, i)
  /\ pc # "return" => NoOK
IInv ==
  /\ TypeOK /\ KeysInv /\ ChecksInv /\ ConsentInv /\ ProgressInv
  /\ AllSigned /\ CheckedBeforeSigned /\ SignedIsReviewed /\ LeafCommitted
-----------------------------------------------------------------------------
\* A nonempty set of key expressions has a first element.
LEMMA FirstIsMember ==
  ASSUME NEW S, S \subseteq Nat, S # {}
  PROVE  First(S) \in S /\ \A j \in S : First(S) <= j
<1> DEFINE Less == {ss \in Nat \X Nat : ss[1] < ss[2]}
<1>1. IsWellFoundedOn(Less, Nat)
  BY NatLessThanWellFounded, Zenon DEF OpToRel
<1>2. PICK x \in S : \A y \in S : ~(<<y, x>> \in Less)
  <2> HIDE DEF Less
  <2> QED BY <1>1, WFMin
<1>3. ASSUME NEW y \in S PROVE x <= y
  <2>1. <<y, x>> \in Nat \X Nat /\ ~(<<y, x>> \in Less)
    BY <1>2
  <2>2. ~(y < x)
    BY <2>1, Zenon
  <2> QED
    BY <2>2
<1> QED
  BY <1>3 DEF First

\* What the facts about the inputs are made of.
LEMMA SameRequest ==
  ASSUME req' = req
  PROVE  /\ NIn' = NIn /\ NOut' = NOut /\ KeyIds' = KeyIds /\ Segwit' = Segwit
         /\ \A s : usual_sighash(s)' = usual_sighash(s)
         /\ \A s : unusual_sighash(s)' = unusual_sighash(s)
         /\ \A i : InternalRejected(i)' = InternalRejected(i)
         /\ \A i : InputWarnings(i)' = InputWarnings(i)
<1>1. NIn' = NIn /\ NOut' = NOut /\ KeyIds' = KeyIds /\ Segwit' = Segwit
  BY DEF NIn, NOut, KeyIds, Segwit
<1>2. /\ \A s : usual_sighash(s)' = usual_sighash(s)
      /\ \A s : unusual_sighash(s)' = unusual_sighash(s)
  BY <1>1 DEF usual_sighash, unusual_sighash
<1>3. \A i : InternalRejected(i)' = InternalRejected(i)
  BY <1>1, <1>2 DEF InternalRejected
<1>4. \A i : InputWarnings(i)' = InputWarnings(i)
  BY <1>1, <1>2 DEF InputWarnings
<1> QED
  BY <1>1, <1>2, <1>3, <1>4

\* An input is internal as long as the request and the keys found do not change;
\* what was checked of it holds while the warnings do not shrink.
LEMMA SameInputs ==
  ASSUME req' = req, st'.internal = st.internal,
         st.warnings \subseteq st'.warnings
  PROVE  /\ \A i : InputInternal(i)' = InputInternal(i)
         /\ \A i : Passed(i) => Passed(i)'
<1>1. \A i : InputInternal(i)' = InputInternal(i)
  BY DEF InputInternal, Matching
<1>2. ASSUME NEW i, Passed(i) PROVE Passed(i)'
  <2>1. UtxosRejected(req.inputs[i])' = UtxosRejected(req.inputs[i])
    BY DEF UtxosRejected
  <2> QED
    BY <1>1, <1>2, <2>1, SameRequest DEF Passed
<1> QED
  BY <1>1, <1>2

\* The properties of the signatures depend on the request, the keys found,
\* what was approved and the signatures.
LEMMA SameSignatures ==
  ASSUME UNCHANGED <<req, st, approved, sigs>>
  PROVE  /\ AllPassed' = AllPassed /\ Consented' = Consented /\ LeafGiven' = LeafGiven
         /\ \A k, i : Done(k, i)' = Done(k, i)
         /\ CheckedBeforeSigned => CheckedBeforeSigned'
         /\ SignedIsReviewed => SignedIsReviewed'
         /\ LeafCommitted => LeafCommitted'
<1>0. /\ \A i : InputInternal(i)' = InputInternal(i)
      /\ \A i : UtxosRejected(req.inputs[i])' = UtxosRejected(req.inputs[i])
  BY DEF InputInternal, Matching, UtxosRejected
<1>1. AllPassed' = AllPassed
  <2>1. ASSUME NEW i PROVE Passed(i)' = Passed(i)
    BY <1>0, SameRequest DEF Passed
  <2> QED
    BY <2>1, SameRequest DEF AllPassed
<1>2. Consented' = Consented
  BY DEF Consented, Fact
<1>3. LeafGiven' = LeafGiven
  BY SameRequest DEF LeafGiven
<1>4. \A k, i : Done(k, i)' = Done(k, i)
  BY DEF Done
<1>5. CheckedBeforeSigned => CheckedBeforeSigned'
  BY <1>0, SameRequest DEF CheckedBeforeSigned, Fact
<1>6. SignedIsReviewed => SignedIsReviewed'
  BY <1>0, SameRequest DEF SignedIsReviewed, Fact
<1>7. LeafCommitted => LeafCommitted'
  BY SameRequest DEF LeafCommitted
<1> QED
  BY <1>1, <1>2, <1>3, <1>4, <1>5, <1>6, <1>7

\* A status word other than SW_OK does not become one.
LEMMA AppendNoOK ==
  ASSUME NEW s \in Seq(StatusWords), NEW code \in StatusWords, code # "OK",
         \A n \in DOMAIN s : s[n] # "OK"
  PROVE  /\ Append(s, code) \in Seq(StatusWords)
         /\ \A n \in DOMAIN Append(s, code) : Append(s, code)[n] # "OK"
<1>1. Append(s, code) \in Seq(StatusWords) /\ Len(Append(s, code)) = Len(s) + 1
  OBVIOUS
<1>2. ASSUME NEW n \in DOMAIN Append(s, code) PROVE Append(s, code)[n] # "OK"
  <2>1. n \in 1 .. Len(s) + 1
    BY <1>1
  <2>2. CASE n \in 1 .. Len(s)
    <3>1. n \in DOMAIN s /\ Append(s, code)[n] = s[n]
      BY <2>2
    <3> QED
      BY <3>1
  <2>3. CASE n = Len(s) + 1
    <3>1. Append(s, code)[n] = code
      BY <2>3
    <3> QED
      BY <3>1
  <2> QED
    BY <2>1, <2>2, <2>3
<1> QED
  BY <1>1, <1>2

\* A step that ends the handler, well or not, keeps everything that is known of
\* the signatures made so far.
LEMMA Ends ==
  ASSUME IInv, pc # "idle", pc' \in {"return", "exited"},
         UNCHANGED <<build, req, key, cur, st, approved, leaf_ok, sigs>>,
         sw' \in Seq(StatusWords), NoOK => NoOK', pc' = "exited" => NoOK'
  PROVE  IInv'
<1>1. TypeOK'
  BY DEF IInv, TypeOK
<1>2. KeysInv'
  BY SameRequest, SameSignatures DEF IInv, KeysInv
<1>3. ChecksInv'
  BY SameSignatures DEF IInv, ChecksInv
<1>4. ConsentInv'
  BY SameSignatures DEF IInv, ConsentInv
<1>5. ProgressInv'
  BY DEF IInv, ProgressInv
<1>6. AllSigned'
  <2>1. CASE NoOK
    BY <2>1 DEF NoOK, AllSigned
  <2>2. CASE ~NoOK
    <3>1. "OK" \in {sw[n] : n \in DOMAIN sw}
      BY <2>2 DEF NoOK, StatusWords
    <3> QED
      BY <3>1, SameRequest DEF IInv, AllSigned
  <2> QED
    BY <2>1, <2>2
<1> QED
  BY <1>1, <1>2, <1>3, <1>4, <1>5, <1>6, SameSignatures DEF IInv

\* Every early return.
LEMMA FailIInv ==
  ASSUME IInv, pc \notin {"idle", "return"}, NEW code \in StatusWords, code # "OK",
         sw' = Append(sw, code), pc' = "return",
         UNCHANGED <<build, req, key, cur, st, approved, leaf_ok, sigs>>
  PROVE  IInv'
<1>1. NoOK /\ sw \in Seq(StatusWords)
  BY DEF IInv, ProgressInv, TypeOK
<1>2. sw' \in Seq(StatusWords) /\ NoOK'
  BY <1>1, AppendNoOK DEF NoOK
<1> QED
  BY <1>2, Ends

\* While nothing is signed there is nothing to show of the signatures.
LEMMA NoSignatures ==
  ASSUME sigs' = {}, NoOK'
  PROVE  AllSigned' /\ CheckedBeforeSigned' /\ SignedIsReviewed' /\ LeafCommitted'
BY DEF NoOK, AllSigned, CheckedBeforeSigned, SignedIsReviewed, LeafCommitted
-----------------------------------------------------------------------------
\* memset leaves a well-typed state.
LEMMA ZeroStateType == ZeroState \in States
BY RequestsOK DEF ZeroState, States, CacheSlots, Warnings, Hashes

\* The handler is idle at first.
LEMMA InitIInv == Init => IInv
<1> SUFFICES ASSUME Init PROVE IInv
  OBVIOUS
<1>1. TypeOK
  <2>1. <<>> \in Seq(StatusWords)
    OBVIOUS
  <2> QED
    BY <2>1, ZeroStateType DEF Init, TypeOK
<1>2. NoOK
  BY DEF Init, NoOK
<1>3. KeysInv /\ ChecksInv /\ ConsentInv
  BY DEF Init, KeysInv, ChecksInv, ConsentInv
<1>4. ProgressInv
  BY <1>2 DEF Init, ProgressInv
<1>5. AllSigned /\ CheckedBeforeSigned /\ SignedIsReviewed /\ LeafCommitted
  BY <1>2 DEF Init, NoOK, AllSigned, CheckedBeforeSigned, SignedIsReviewed,
              LeafCommitted
<1> QED
  BY <1>1, <1>3, <1>4, <1>5 DEF IInv

\* The command is over: nothing is left of it.
LEMMA OverStep == IInv /\ Over => IInv'
<1> SUFFICES ASSUME IInv, Over PROVE IInv'
  OBVIOUS
<1>1. TypeOK'
  <2>1. <<>> \in Seq(StatusWords)
    OBVIOUS
  <2> QED
    BY <2>1, ZeroStateType DEF IInv, Over, TypeOK
<1>2. NoOK'
  BY DEF Over, NoOK
<1>3. KeysInv' /\ ChecksInv' /\ ConsentInv'
  BY DEF Over, KeysInv, ChecksInv, ConsentInv
<1>4. ProgressInv'
  <2>1. ZeroState' = ZeroState
    BY DEF ZeroState, CacheSlots
  <2> QED
    BY <1>2, <2>1 DEF Over, ProgressInv
<1> QED
  BY <1>1, <1>2, <1>3, <1>4, NoSignatures DEF Over, IInv

\* init_global_state.
LEMMA BeginStep ==
  ASSUME IInv, NEW r \in Requests, NEW ok \in BOOLEAN, Begin(r, ok)
  PROVE  IInv'
<1>1. /\ pc = "idle" /\ req' = r /\ r \in Psbts /\ cur' = 1
      /\ UNCHANGED <<build, key, st, approved, leaf_ok, sigs>>
      /\ pc' \in {"return", "keys"}
      /\ sw' \in {<<"NOT_SUPPORTED">>, <<>>, <<"ERROR">>}
  BY RequestsOK DEF Begin
<1>2. sw' \in Seq(StatusWords) /\ NoOK'
  <2>1. CASE sw' = <<>>
    BY <2>1 DEF NoOK
  <2>2. CASE sw' = <<"ERROR">>
    BY <2>2 DEF NoOK, StatusWords
  <2>3. CASE sw' = <<"NOT_SUPPORTED">>
    BY <2>3 DEF NoOK, StatusWords
  <2> QED
    BY <1>1, <2>1, <2>2, <2>3
<1>3. TypeOK'
  BY <1>1, <1>2 DEF IInv, TypeOK
<1>4. sigs = {} /\ st = ZeroState
  BY <1>1 DEF IInv, ProgressInv
<1>5. KeysInv'
  <2>1. st'.internal = {} /\ st'.leafhash = None
    BY <1>1, <1>4 DEF ZeroState
  <2> QED
    BY <1>1, <2>1 DEF KeysInv, LeafGiven
<1>6. ChecksInv' /\ ConsentInv'
  BY <1>1, <1>4 DEF ChecksInv, ConsentInv
<1>7. ProgressInv'
  BY <1>1, <1>2 DEF ProgressInv
<1> QED
  BY <1>1, <1>2, <1>3, <1>4, <1>5, <1>6, <1>7, NoSignatures DEF IInv

\* The state with the four fields that fill_internal_key_expressions sets.
LEMMA FilledType ==
  ASSUME NEW s \in States, NEW own \in SUBSET Nat, NEW fin \in BOOLEAN,
         NEW hash \in Hashes \cup {None}, NEW disp \in BOOLEAN
  PROVE  [s EXCEPT !.internal = own, !.finality = fin, !.leafhash = hash,
                   !.display = disp] \in States
BY DEF States

\* fill_internal_key_expressions finds own keys, and a leaf hash that the policy gives.
LEMMA FillStep ==
  ASSUME IInv, NEW bad \in SUBSET KeyIds, fill_internal_key_expressions(bad)
  PROVE  IInv'
<1> DEFINE own == {k \in KeyIds \ bad : req.policy.keys[k].ours}
           fps == {"leaf_display", "leaf_check"}
           has_leaf == KeysWith(fps, bad) # {}
<1>1. pc = "keys" /\ req \in Psbts
  BY DEF fill_internal_key_expressions, IInv, KeysInv
<1>2. CASE Fail("NOT_SUPPORTED")
  BY <1>1, <1>2, FailIInv DEF Fail, StatusWords
<1>3. CASE Fail("ERROR")
  BY <1>1, <1>3, FailIInv DEF Fail, StatusWords
<1>4. CASE /\ own # {}
           /\ st' = [st EXCEPT
                      !.internal = own,
                      !.finality = KeysWith({"finality"}, bad) # {},
                      !.leafhash = IF has_leaf
                                   THEN req.policy.keys[leaf_key(bad)].pub ELSE None,
                      !.display = has_leaf /\
                        req.policy.keys[leaf_key(bad)].fp = "leaf_display"]
           /\ pc' = "inputs"
           /\ UNCHANGED <<build, req, key, cur, approved, leaf_ok, sigs, sw>>
  <2> DEFINE keys == req.policy.keys
  <2>1. keys \in Seq(KeyExpressions) /\ KeyIds = 1 .. Len(keys) /\ KeyIds \subseteq Nat
    BY <1>1 DEF Psbts, Policies, KeyIds
  <2>2. has_leaf => /\ leaf_key(bad) \in KeyIds
                    /\ keys[leaf_key(bad)].fp \in fps
                    /\ keys[leaf_key(bad)].pub \in Hashes \cup {None}
    <3> SUFFICES ASSUME has_leaf
                 PROVE  /\ leaf_key(bad) \in KeyIds
                        /\ keys[leaf_key(bad)].fp \in fps
                        /\ keys[leaf_key(bad)].pub \in Hashes \cup {None}
      OBVIOUS
    <3>1. KeysWith(fps, bad) \subseteq Nat
      BY <2>1 DEF KeysWith
    <3>2. leaf_key(bad) \in KeysWith(fps, bad)
      BY <3>1, FirstIsMember DEF leaf_key
    <3>3. leaf_key(bad) \in KeyIds /\ keys[leaf_key(bad)].fp \in fps
      BY <3>2 DEF KeysWith
    <3>4. keys[leaf_key(bad)] \in KeyExpressions
      BY <2>1, <3>3
    <3> QED
      BY <3>3, <3>4 DEF KeyExpressions
  <2>3. st \in States /\ own \in SUBSET Nat
    BY <2>1 DEF IInv, TypeOK
  <2>4. /\ st'.internal = own
        /\ st'.leafhash = IF has_leaf THEN keys[leaf_key(bad)].pub ELSE None
        /\ st'.display = (has_leaf /\ keys[leaf_key(bad)].fp = "leaf_display")
    BY <1>4, <2>3 DEF States
  <2>5. st' \in States
    <3> DEFINE hash == IF has_leaf THEN req.policy.keys[leaf_key(bad)].pub ELSE None
               fin == KeysWith({"finality"}, bad) # {}
               disp == has_leaf /\ req.policy.keys[leaf_key(bad)].fp = "leaf_display"
    <3>1. hash \in Hashes \cup {None}
      BY <2>2
    <3>2. fin \in BOOLEAN /\ disp \in BOOLEAN
      OBVIOUS
    <3>3. st' = [st EXCEPT !.internal = own, !.finality = fin, !.leafhash = hash,
                           !.display = disp]
      BY <1>4
    <3> HIDE DEF own, hash, fin, disp
    <3> QED
      BY <2>3, <3>1, <3>2, <3>3, FilledType
  <2>6. TypeOK'
    BY <1>4, <2>5 DEF IInv, TypeOK
  <2>7. LeafGiven'
    <3>1. KeyIds' = KeyIds /\ keys' = keys
      BY <1>4, SameRequest
    <3> QED
      BY <2>2, <2>4, <3>1 DEF LeafGiven
  <2>8. KeysInv'
    BY <1>1, <1>4, <2>4, <2>7, SameRequest DEF KeysInv
  <2>9. sigs' = {} /\ NoOK'
    BY <1>1, <1>4 DEF IInv, ConsentInv, ProgressInv, NoOK
  <2>10. cur' = 1
    BY <1>1, <1>4 DEF IInv, ProgressInv
  <2>11. ChecksInv' /\ ConsentInv' /\ ProgressInv'
    BY <1>4, <2>9, <2>10 DEF ChecksInv, ConsentInv, ProgressInv
  <2> QED
    BY <2>6, <2>8, <2>9, <2>11, NoSignatures DEF IInv
<1> QED
  BY <1>2, <1>3, <1>4 DEF fill_internal_key_expressions

\* The sum of two amounts is an amount again: uint64_t wraps around.
LEMMA SumType ==
  ASSUME NEW a \in 0 .. AmountMod - 1, NEW b \in Nat
  PROVE  (a + b) % AmountMod \in 0 .. AmountMod - 1
BY RequestsOK

\* A step of the two loops over the request, which signs nothing yet.
LEMMA LoopStep ==
  ASSUME IInv, pc \in {"inputs", "outputs", "hashes"}, st' \in States,
         key' \in Nat, cur' \in Nat,
         UNCHANGED <<build, req, approved, leaf_ok, sigs, sw>>,
         pc' \in {"inputs", "outputs", "hashes", "review"},
         st'.internal = st.internal, st'.leafhash = st.leafhash,
         st'.display = st.display, ChecksInv',
         pc' = "review" => key' = 1, pc' \in {"inputs", "outputs"} => cur' > 0
  PROVE  IInv'
<1>1. TypeOK'
  BY DEF IInv, TypeOK
<1>2. KeysInv'
  BY SameRequest DEF IInv, KeysInv, LeafGiven
<1>3. sigs' = {} /\ NoOK'
  BY DEF IInv, ConsentInv, ProgressInv, NoOK
<1>4. ConsentInv'
  BY <1>3 DEF ConsentInv
<1>5. ProgressInv'
  BY <1>3 DEF ProgressInv
<1> QED
  BY <1>1, <1>2, <1>3, <1>4, <1>5, NoSignatures DEF IInv

\* preprocess_inputs passes one input, or refuses the request.
LEMMA InputStep ==
  ASSUME IInv, NEW ok \in BOOLEAN, preprocess_inputs(ok)
  PROVE  IInv'
<1>1. pc = "inputs" /\ req \in Psbts /\ cur <= NIn /\ cur \in Nat /\ st \in States
  BY DEF preprocess_inputs, IInv, KeysInv, TypeOK
<1>2. CASE Fail("ERROR")
  BY <1>1, <1>2, FailIInv DEF Fail, StatusWords
<1>3. CASE /\ ~UtxosRejected(req.inputs[cur])
           /\ ~(InputInternal(cur) /\ InternalRejected(cur))
           /\ st' = InputState(cur)
           /\ cur' = cur + 1
           /\ UNCHANGED <<build, req, pc, key, approved, leaf_ok, sigs, sw>>
  <2>1. /\ st'.internal = st.internal /\ st'.leafhash = st.leafhash
        /\ st'.display = st.display
        /\ st'.warnings = IF InputInternal(cur) THEN st.warnings \cup InputWarnings(cur)
                          ELSE st.warnings
    BY <1>1, <1>3 DEF InputState, States
  <2>2. sigs = {} /\ \A i \in 1 .. NIn : i < cur => Passed(i)
    BY <1>1 DEF IInv, ChecksInv, ConsentInv
  <2>3. st' \in States
    <3>1. cur > 0 /\ req.inputs \in Seq(Inputs)
      BY <1>1 DEF IInv, ProgressInv, Psbts
    <3>2. req.inputs[cur] \in Inputs
      BY <1>1, <3>1 DEF NIn
    <3>3. (st.in_total + req.inputs[cur].amount) % AmountMod \in 0 .. AmountMod - 1
      <4>1. req.inputs[cur].amount \in Nat /\ st.in_total \in 0 .. AmountMod - 1
        BY <1>1, <3>2 DEF States, Inputs
      <4> QED
        BY <4>1, SumType
    <3>4. InputWarnings(cur) \subseteq Warnings /\ Matching(req.inputs[cur]) \subseteq Nat
      BY <1>1 DEF InputWarnings, Matching, States
    <3> QED
      BY <1>1, <1>3, <3>3, <3>4 DEF InputState, States
  <2> PICK c \in Nat : c = cur
    BY <1>1
  <2>4. Passed(c)'
    <3>1. /\ InputInternal(c)' = InputInternal(c)
          /\ UtxosRejected(req.inputs[c])' = UtxosRejected(req.inputs[c])
      BY <1>3, <2>1 DEF InputInternal, Matching, UtxosRejected
    <3> QED
      BY <1>3, <2>1, <3>1, SameRequest DEF Passed
  <2>5. ChecksInv'
    <3>1. \A i : Passed(i) => Passed(i)'
      BY <1>3, <2>1, SameInputs
    <3>2. ASSUME NEW i \in 1 .. NIn, i < cur + 1 PROVE Passed(i)'
      BY <1>1, <2>2, <2>4, <3>1, <3>2
    <3> QED
      BY <1>1, <1>3, <2>2, <3>2, SameRequest DEF ChecksInv
  <2>6. key' \in Nat /\ cur' \in Nat /\ cur' > 0 /\ pc' = "inputs"
    BY <1>1, <1>3 DEF IInv, TypeOK
  <2> QED
    BY <1>1, <1>3, <2>1, <2>3, <2>5, <2>6, LoopStep
<1> QED
  BY <1>2, <1>3 DEF preprocess_inputs

\* After the loop of preprocess_inputs every input has been passed.
LEMMA InputsDoneStep == IInv /\ inputs_done => IInv'
<1> SUFFICES ASSUME IInv, inputs_done PROVE IInv'
  OBVIOUS
<1>1. /\ pc = "inputs" /\ pc' = "outputs" /\ cur' = 1 /\ cur > NIn
      /\ UNCHANGED <<build, req, key, st, approved, leaf_ok, sigs, sw>>
      /\ req \in Psbts /\ cur \in Nat /\ key \in Nat /\ st \in States /\ sigs = {}
  BY DEF inputs_done, IInv, KeysInv, ConsentInv, TypeOK
<1>2. AllPassed
  <2>1. NIn \in Nat
    BY <1>1 DEF NIn, Psbts
  <2> QED
    BY <1>1, <2>1 DEF AllPassed, IInv, ChecksInv
<1>3. ChecksInv'
  BY <1>1, <1>2, SameSignatures DEF ChecksInv
<1> QED
  BY <1>1, <1>3, LoopStep

\* preprocess_outputs sums and caches one output.
LEMMA OutputStep ==
  ASSUME IInv, NEW ok \in BOOLEAN, preprocess_outputs(ok)
  PROVE  IInv'
<1>1. pc = "outputs" /\ req \in Psbts /\ cur <= NOut /\ cur \in Nat /\ st \in States
  BY DEF preprocess_outputs, IInv, KeysInv, TypeOK
<1>2. CASE Fail("ERROR")
  BY <1>1, <1>2, FailIInv DEF Fail, StatusWords
<1>3. CASE /\ st' = OutputState(cur)
           /\ cur' = cur + 1
           /\ UNCHANGED <<build, req, pc, key, approved, leaf_ok, sigs, sw>>
  <2>1. /\ st'.internal = st.internal /\ st'.leafhash = st.leafhash
        /\ st'.display = st.display /\ st'.warnings = st.warnings
    BY <1>1, <1>3 DEF OutputState, States
  <2>2. st' \in States
    <3>1. cur > 0 /\ req.outputs \in Seq(Outputs)
      BY <1>1 DEF IInv, ProgressInv, Psbts
    <3>2. req.outputs[cur] \in Outputs
      BY <1>1, <3>1 DEF NOut
    <3>3. (st.out_total + req.outputs[cur].amount) % AmountMod \in 0 .. AmountMod - 1
      <4>1. req.outputs[cur].amount \in Nat /\ st.out_total \in 0 .. AmountMod - 1
        BY <1>1, <3>2 DEF States, Outputs
      <4> QED
        BY <4>1, SumType
    <3>4. [c \in CacheSlots |-> IF c = st.n_external THEN cur ELSE st.cached[c]]
            \in [CacheSlots -> Nat]
      BY <1>1 DEF States
    <3>5. CASE OutputInternal(cur)
      BY <1>1, <1>3, <3>3, <3>5 DEF OutputState, States
    <3>6. CASE ~OutputInternal(cur)
      <4>1. st' = [st EXCEPT
                    !.out_total = (st.out_total + req.outputs[cur].amount) % AmountMod,
                    !.n_external = st.n_external + 1,
                    !.cached = [c \in CacheSlots |->
                                  IF c = st.n_external THEN cur ELSE st.cached[c]]]
        BY <1>1, <1>3, <3>6 DEF OutputState, States
      <4>2. st.n_external + 1 \in Nat
        BY <1>1 DEF States
      <4> QED
        BY <1>1, <3>3, <3>4, <4>1, <4>2 DEF States
    <3> QED
      BY <3>5, <3>6
  <2>3. AllPassed' /\ sigs = {}
    BY <1>1, <1>3, <2>1, SameInputs, SameRequest
       DEF IInv, ChecksInv, ConsentInv, AllPassed
  <2>4. ChecksInv'
    BY <1>1, <1>3, <2>3 DEF ChecksInv
  <2>5. key' \in Nat /\ cur' \in Nat /\ cur' > 0 /\ pc' = "outputs"
    BY <1>1, <1>3 DEF IInv, TypeOK
  <2> QED
    BY <1>1, <1>3, <2>1, <2>2, <2>4, <2>5, LoopStep
<1> QED
  BY <1>2, <1>3 DEF preprocess_outputs

\* The checks on the fee and on the number of change outputs.
LEMMA OutputsDoneStep == IInv /\ outputs_done => IInv'
<1> SUFFICES ASSUME IInv, outputs_done PROVE IInv'
  OBVIOUS
<1>1. pc = "outputs" /\ sigs = {} /\ AllPassed
  BY DEF outputs_done, IInv, ConsentInv, ChecksInv
<1>2. CASE Fail("ERROR")
  BY <1>1, <1>2, FailIInv DEF Fail, StatusWords
<1>3. CASE Fail("NOT_SUPPORTED")
  BY <1>1, <1>3, FailIInv DEF Fail, StatusWords
<1>4. CASE /\ pc' = "hashes"
           /\ UNCHANGED <<build, req, key, cur, st, approved, leaf_ok, sigs, sw>>
  <2>1. ChecksInv'
    BY <1>1, <1>4, SameSignatures DEF ChecksInv
  <2> QED
    BY <1>1, <1>4, <2>1, LoopStep DEF IInv, TypeOK
<1> QED
  BY <1>2, <1>3, <1>4 DEF outputs_done

\* compute_tx_hashes, and the warning about a high fee.
LEMMA HashesStep ==
  ASSUME IInv, NEW ok \in BOOLEAN, compute_tx_hashes(ok)
  PROVE  IInv'
<1>1. pc = "hashes" /\ sigs = {} /\ AllPassed /\ st \in States
  BY DEF compute_tx_hashes, IInv, ConsentInv, ChecksInv, TypeOK
<1>2. CASE Fail("ERROR")
  BY <1>1, <1>2, FailIInv DEF Fail, StatusWords
<1>3. CASE /\ pc' = "review" /\ key' = 1 /\ cur' = 1
           /\ st' = [st EXCEPT !.warnings = IF HighFee THEN @ \cup {"high_fee"} ELSE @]
           /\ UNCHANGED <<build, req, approved, leaf_ok, sigs, sw>>
  <2>1. /\ st'.internal = st.internal /\ st'.leafhash = st.leafhash
        /\ st'.display = st.display /\ st.warnings \subseteq st'.warnings
        /\ st' \in States
    BY <1>1, <1>3 DEF States, Warnings
  <2>2. AllPassed'
    BY <1>1, <1>3, <2>1, SameInputs, SameRequest DEF AllPassed
  <2>3. ChecksInv'
    BY <1>3, <2>2 DEF ChecksInv
  <2> QED
    BY <1>1, <1>3, <2>1, <2>3, LoopStep DEF IInv, TypeOK
<1> QED
  BY <1>2, <1>3 DEF compute_tx_hashes
-----------------------------------------------------------------------------
\* A step of the review, in which the approvals grow.
LEMMA ReviewStep ==
  ASSUME IInv, pc = "review", pc' = "review", key' \in Nat, cur' \in Nat,
         UNCHANGED <<build, req, st, leaf_ok, sigs, sw>>,
         approved' \subseteq Facts, ConsentInv'
  PROVE  IInv'
<1>1. TypeOK'
  BY DEF IInv, TypeOK
<1>2. KeysInv'
  BY SameRequest DEF IInv, KeysInv, LeafGiven
<1>3. sigs' = {} /\ NoOK'
  BY DEF IInv, ConsentInv, ProgressInv, NoOK
<1>4. ChecksInv'
  BY <1>3, SameInputs, SameRequest DEF IInv, ChecksInv, AllPassed
<1>5. ProgressInv'
  BY <1>3 DEF ProgressInv
<1> QED
  BY <1>1, <1>2, <1>3, <1>4, <1>5, NoSignatures DEF IInv

\* The end of the review: all the warnings are approved and signing begins at
\* the first internal key expression.
LEMMA ToSigningStep ==
  ASSUME IInv, pc = "review", ToSigning,
         UNCHANGED <<build, req, st, leaf_ok, sigs, sw>>,
         approved' \subseteq Facts, Consented'
  PROVE  IInv'
<1>1. /\ pc' = "sign" /\ key' = First(st.internal) /\ cur' = 1
      /\ st.internal # {} /\ st.internal \subseteq Nat
  BY DEF ToSigning, IInv, KeysInv, TypeOK, States
<1>2. key' \in st.internal /\ \A k \in st.internal : key' <= k
  BY <1>1, FirstIsMember
<1>3. TypeOK'
  BY <1>1, <1>2 DEF IInv, TypeOK
<1>4. KeysInv'
  BY <1>1, SameRequest DEF IInv, KeysInv, LeafGiven
<1>5. sigs' = {} /\ NoOK'
  BY DEF IInv, ConsentInv, ProgressInv, NoOK
<1>6. ChecksInv'
  BY <1>1, <1>5, SameInputs, SameRequest DEF IInv, ChecksInv, AllPassed
<1>7. ConsentInv'
  BY <1>1, <1>5 DEF ConsentInv
<1>8. ProgressInv'
  <2>1. ASSUME NEW k \in st.internal, NEW i \in 1 .. NIn
        PROVE  ~(k < key' \/ (k = key' /\ i < cur'))
    BY <1>1, <1>2
  <2> QED
    BY <1>1, <1>2, <1>5, <2>1, SameRequest DEF ProgressInv
<1> QED
  BY <1>3, <1>4, <1>5, <1>6, <1>7, <1>8, NoSignatures DEF IInv

\* Every reason for a warning has its stage.
LEMMA StagesFacts ==
  /\ Len(Stages) = 7
  /\ \A j \in 1 .. 7 : Stages[j] # "outputs" => Fact(Stages[j]) \in Facts
  /\ \A w \in Warnings : \E j \in 1 .. 7 : Stages[j] = w
<1>1. /\ Len(Stages) = 7
      /\ Stages[1] = "prompt" /\ Stages[2] = "name" /\ Stages[5] = "finality"
      /\ Stages[3] = "missing_nonwitnessutxo" /\ Stages[4] = "non_default_sighash"
      /\ Stages[6] = "outputs" /\ Stages[7] = "high_fee"
  BY DEF Stages
<1>2. ASSUME NEW j \in 1 .. 7, Stages[j] # "outputs" PROVE Fact(Stages[j]) \in Facts
  <2>1. j = 1 \/ j = 2 \/ j = 3 \/ j = 4 \/ j = 5 \/ j = 6 \/ j = 7
    OBVIOUS
  <2>2. Stages[j] \in Warnings \cup {"prompt", "name", "finality"}
    BY <1>1, <1>2, <2>1 DEF Warnings
  <2> QED
    BY <2>2 DEF Fact, Facts
<1>3. ASSUME NEW w \in Warnings PROVE \E j \in 1 .. 7 : Stages[j] = w
  <2>1. 3 \in 1 .. 7 /\ 4 \in 1 .. 7 /\ 7 \in 1 .. 7
    OBVIOUS
  <2> QED
    BY <1>1, <2>1 DEF Warnings
<1> QED
  BY <1>1, <1>2, <1>3

\* The single screen of NBGL approves every warning at once.
LEMMA SimplifiedStep ==
  ASSUME IInv, NEW yes \in BOOLEAN, display_simplified(yes)
  PROVE  IInv'
<1>1. pc = "review" /\ st \in States /\ approved \subseteq Facts
  BY DEF display_simplified, IInv, TypeOK
<1>2. CASE Fail("NOT_SUPPORTED")
  BY <1>1, <1>2, FailIInv DEF Fail, StatusWords
<1>3. CASE Deny
  BY <1>1, <1>3, FailIInv DEF Deny, Fail, StatusWords
<1>4. CASE /\ Approve({Fact("name"), Fact("fee")}
                      \cup {Fact(w) : w \in st.warnings}
                      \cup IF st.n_external = 1 THEN {Shown(st.cached[0])} ELSE {})
           /\ ToSigning
  <2>1. Fact("name") \in Facts /\ Fact("fee") \in Facts
    BY DEF Fact, Facts
  <2>2. {Fact(w) : w \in st.warnings} \subseteq Facts
    BY <1>1 DEF Fact, Facts, States
  <2>3. Shown(st.cached[0]) \in Facts
    BY <1>1, RequestsOK DEF Shown, Facts, States, CacheSlots
  <2>4. approved' \subseteq Facts
    BY <1>1, <1>4, <2>1, <2>2, <2>3 DEF Approve
  <2>5. Consented'
    <3>1. st' = st /\ \A w \in st.warnings : Fact(w) \in approved'
      BY <1>4 DEF Approve
    <3> QED
      BY <3>1 DEF Consented, Fact
  <2> QED
    BY <1>1, <1>4, <2>4, <2>5, ToSigningStep DEF Approve
<1> QED
  BY <1>2, <1>3, <1>4 DEF display_simplified

\* A stage is over, with or without its screen.
LEMMA StageStep ==
  ASSUME IInv, InStage, NextStage, UNCHANGED <<build, req, st, leaf_ok, sigs, sw>>,
         approved \subseteq approved', approved' \subseteq Facts,
         Stages[key] \in st.warnings => Fact(Stages[key]) \in approved'
  PROVE  IInv'
<1>1. /\ pc = "review" /\ pc' = "review" /\ key' = key + 1 /\ cur' = 1
      /\ key \in Nat /\ key > 0 /\ sigs' = {}
  BY DEF InStage, NextStage, IInv, TypeOK, ConsentInv
<1>2. ASSUME NEW j \in 1 .. Len(Stages), j < key', Stages[j] \in st.warnings
      PROVE  Fact(Stages[j]) \in approved'
  <2>1. CASE j = key
    BY <1>2, <2>1
  <2>2. CASE j < key
    BY <1>1, <1>2, <2>2 DEF IInv, ConsentInv
  <2> QED
    BY <1>1, <1>2, <2>1, <2>2, StagesFacts
<1>3. ConsentInv'
  <2>1. ASSUME NEW j \in 1 .. Len(Stages), j < key', Stages[j] \in st'.warnings
        PROVE  Fact(Stages[j])' \in approved'
    BY <1>2, <2>1 DEF Fact
  <2> QED
    BY <1>1, <2>1 DEF ConsentInv, Stages
<1> QED
  BY <1>1, <1>3, ReviewStep

\* A screen of display_transaction.
LEMMA ScreenStep ==
  ASSUME IInv, NEW yes \in BOOLEAN, display_screen(yes)
  PROVE  IInv'
<1>1. InStage /\ pc = "review" /\ Stages[key] # "outputs" /\ approved \subseteq Facts
  BY DEF display_screen, InStage, IInv, TypeOK
<1>2. CASE Deny
  BY <1>1, <1>2, FailIInv DEF Deny, Fail, StatusWords
<1>3. CASE Approve({Fact(Stages[key])}) /\ NextStage
  <2>1. key \in 1 .. 7
    BY <1>1, StagesFacts DEF InStage, IInv, TypeOK, ConsentInv
  <2>2. Fact(Stages[key]) \in Facts
    BY <1>1, <2>1, StagesFacts
  <2> QED
    BY <1>1, <1>3, <2>2, StageStep DEF Approve
<1> QED
  BY <1>2, <1>3 DEF display_screen

\* A stage is passed over only if there is no warning of its kind.
LEMMA NextStageStep == IInv /\ next_stage => IInv'
<1> SUFFICES ASSUME IInv, next_stage PROVE IInv'
  OBVIOUS
<1>1. /\ InStage /\ NextStage /\ approved \subseteq Facts /\ st \in States
      /\ UNCHANGED <<build, req, st, approved, leaf_ok, sigs, sw>>
  BY DEF next_stage, IInv, TypeOK
<1>2. Stages[key] \notin st.warnings
  <2> SUFFICES ASSUME Stages[key] \in st.warnings PROVE FALSE
    OBVIOUS
  <2>1. Stages[key] \in Warnings
    BY <1>1 DEF States
  <2>2. Applies(Stages[key])
    BY <2>1 DEF Applies, Warnings
  <2>3. Stages[key] # "outputs"
    BY <2>1 DEF Warnings
  <2> QED
    BY <2>2, <2>3 DEF next_stage
<1> QED
  BY <1>1, <1>2, StageStep

\* What display_external_outputs shows is an output of the transaction or of the cache.
LEMMA DisplayedType ==
  ASSUME IInv, AtOutput
  PROVE  Shown(Displayed(cur)) \in Facts
<1>1. cur \in Nat /\ st \in States
  BY DEF IInv, TypeOK
<1>2. IsFiniteSet((1 .. cur - 1) \ st.internal_outputs)
  <2>1. IsFiniteSet(1 .. cur - 1)
    BY <1>1, FS_Interval
  <2> QED
    BY <2>1, FS_Difference
<1>3. ExternalBefore(cur) \in Nat
  BY <1>2, FS_CardinalityType DEF ExternalBefore
<1>4. Displayed(cur) \in Nat
  BY <1>1, <1>3, RequestsOK DEF Displayed, States, CacheSlots
<1> QED
  BY <1>4 DEF Shown, Facts

\* An external output is shown and approved, or not.
LEMMA ShowOutputStep ==
  ASSUME IInv, NEW yes \in BOOLEAN, display_output(yes)
  PROVE  IInv'
<1>1. /\ AtOutput /\ pc = "review" /\ approved \subseteq Facts /\ sigs = {}
      /\ cur \in Nat /\ key \in Nat
  BY DEF display_output, AtOutput, InStage, IInv, TypeOK, ConsentInv
<1>2. CASE Fail("NOT_SUPPORTED")
  BY <1>1, <1>2, FailIInv DEF Fail, StatusWords
<1>3. CASE Deny
  BY <1>1, <1>3, FailIInv DEF Deny, Fail, StatusWords
<1>4. CASE Approve({Shown(Displayed(cur))}) /\ cur' = cur + 1 /\ UNCHANGED <<pc, key>>
  <2>1. approved \subseteq approved' /\ approved' \subseteq Facts
    BY <1>1, <1>4, DisplayedType DEF Approve
  <2>2. ConsentInv'
    BY <1>1, <1>4, <2>1 DEF Approve, IInv, ConsentInv, Stages, Fact
  <2> QED
    BY <1>1, <1>4, <2>1, <2>2, ReviewStep DEF Approve
<1> QED
  BY <1>2, <1>3, <1>4 DEF display_output

\* A change output is passed over.
LEMMA ChangeOutputStep == IInv /\ display_change_output => IInv'
<1> SUFFICES ASSUME IInv, display_change_output PROVE IInv'
  OBVIOUS
<1>1. /\ pc = "review" /\ cur' = cur + 1 /\ cur \in Nat /\ key \in Nat
      /\ approved \subseteq Facts /\ sigs = {}
      /\ UNCHANGED <<build, req, pc, key, st, approved, leaf_ok, sigs, sw>>
  BY DEF display_change_output, AtOutput, InStage, IInv, TypeOK, ConsentInv
<1>2. ConsentInv'
  BY <1>1 DEF IInv, ConsentInv, Stages, Fact
<1> QED
  BY <1>1, <1>2, ReviewStep

\* An output that is not in the cache cannot be fetched.
LEMMA GetOutputFailsStep == IInv /\ get_output_fails => IInv'
<1> SUFFICES ASSUME IInv, get_output_fails PROVE IInv'
  OBVIOUS
<1> DEFINE two == Append(Append(sw, "ERROR"), "ERROR")
<1>1. pc = "review" /\ NoOK /\ sw \in Seq(StatusWords) /\ "ERROR" \in StatusWords
  BY DEF get_output_fails, AtOutput, InStage, IInv, ProgressInv, TypeOK, StatusWords
<1>2. sw' = two
  BY <1>1 DEF get_output_fails
<1>3. two \in Seq(StatusWords) /\ \A n \in DOMAIN two : two[n] # "OK"
  <2>1. /\ Append(sw, "ERROR") \in Seq(StatusWords)
        /\ \A n \in DOMAIN Append(sw, "ERROR") : Append(sw, "ERROR")[n] # "OK"
    BY <1>1, AppendNoOK DEF NoOK
  <2> QED
    BY <1>1, <2>1, AppendNoOK
<1>4. sw' \in Seq(StatusWords) /\ NoOK'
  BY <1>2, <1>3 DEF NoOK
<1> QED
  BY <1>1, <1>4, Ends DEF get_output_fails

\* display_transaction returns true.
LEMMA DisplayDoneStep == IInv /\ display_done => IInv'
<1> SUFFICES ASSUME IInv, display_done PROVE IInv'
  OBVIOUS
<1>1. /\ pc = "review" /\ ToSigning /\ key > Len(Stages) /\ key \in Nat
      /\ UNCHANGED <<build, req, st, approved, leaf_ok, sigs, sw>>
      /\ approved \subseteq Facts /\ st.warnings \subseteq Warnings
  BY DEF display_done, IInv, TypeOK, States
<1>2. ASSUME NEW w \in st.warnings PROVE Fact(w) \in approved
  <2>1. PICK j \in 1 .. 7 : Stages[j] = w
    BY <1>1, StagesFacts
  <2>2. j \in 1 .. Len(Stages) /\ j < key /\ Stages[j] \in st.warnings
    BY <1>1, <2>1, StagesFacts
  <2> QED
    BY <1>1, <2>1, <2>2 DEF IInv, ConsentInv
<1>3. Consented'
  BY <1>1, <1>2 DEF Consented, Fact
<1> QED
  BY <1>1, <1>3, ToSigningStep
-----------------------------------------------------------------------------
\* The user confirms the leaf hash of the current input, or not.
LEMMA ConfirmStep ==
  ASSUME IInv, NEW yes \in BOOLEAN, confirm_leafhash(yes)
  PROVE  IInv'
<1>1. pc = "sign"
  BY DEF confirm_leafhash, Ready, Signing
<1>2. CASE Deny
  BY <1>1, <1>2, FailIInv DEF Deny, Fail, StatusWords
<1>3. CASE /\ leaf_ok' = TRUE
           /\ UNCHANGED <<build, req, pc, key, cur, st, approved, sigs, sw>>
  <2>1. TypeOK'
    BY <1>3 DEF IInv, TypeOK
  <2>2. KeysInv' /\ ConsentInv'
    BY <1>1, <1>3, SameRequest, SameSignatures DEF IInv, KeysInv, ConsentInv
  <2>3. ChecksInv'
    BY <1>1, <1>3, SameSignatures DEF IInv, ChecksInv
  <2>4. ProgressInv'
    <3>1. NoOK' = NoOK /\ NIn' = NIn /\ \A k, i : Done(k, i)' = Done(k, i)
      BY <1>3, SameRequest, SameSignatures DEF NoOK
    <3>2. ProgressInv
      BY Zenon DEF IInv
    <3> QED
      BY <1>1, <1>3, <3>1, <3>2 DEF ProgressInv
  <2>5. AllSigned'
    <3>1. NoOK
      BY <1>1, Zenon DEF IInv, ProgressInv
    <3> QED
      BY <1>3, <3>1 DEF AllSigned, NoOK
  <2> QED
    BY <1>3, <2>1, <2>2, <2>3, <2>4, <2>5, SameSignatures DEF IInv
<1> QED
  BY <1>2, <1>3 DEF confirm_leafhash

\* The inner loop of sign_transaction is over: the next key expression, or SW_OK.
LEMMA NextKeyStep == IInv /\ next_key_expression => IInv'
<1> SUFFICES ASSUME IInv, next_key_expression PROVE IInv'
  OBVIOUS
<1>1. /\ pc = "sign" /\ cur > NIn /\ cur \in Nat /\ key \in st.internal
      /\ req \in Psbts /\ st.internal \subseteq Nat /\ NIn \in Nat /\ NoOK
      /\ \A k \in st.internal, i \in 1 .. NIn :
           k < key \/ (k = key /\ i < cur) => Done(k, i)
  <2>1. pc = "sign" /\ cur > NIn /\ cur \in Nat /\ req \in Psbts /\ st \in States
    BY DEF next_key_expression, IInv, KeysInv, TypeOK
  <2>2. st.internal \subseteq Nat /\ NIn \in Nat
    BY <2>1 DEF States, Psbts, NIn
  <2> QED
    BY <2>1, <2>2 DEF IInv, ProgressInv
<1>2. ASSUME NEW k \in st.internal, NEW i \in 1 .. NIn, k <= key PROVE Done(k, i)
  BY <1>1, <1>2
<1>3. CASE KeysAfter = {} /\ Fail("OK")
  <2>1. ASSUME NEW k \in st.internal, NEW i \in 1 .. NIn PROVE Done(k, i)
    BY <1>1, <1>2, <1>3 DEF KeysAfter
  <2>2. /\ pc' = "return" /\ UNCHANGED <<build, req, key, cur, st, approved, leaf_ok, sigs>>
        /\ sw' = Append(sw, "OK")
    BY <1>3 DEF Fail
  <2>3. TypeOK'
    <3>1. sw \in Seq(StatusWords) /\ "OK" \in StatusWords
      BY DEF IInv, TypeOK, StatusWords
    <3>2. sw' \in Seq(StatusWords)
      BY <2>2, <3>1
    <3> QED
      BY <2>2, <3>2 DEF IInv, TypeOK
  <2>4. KeysInv' /\ ConsentInv'
    BY <1>1, <2>2, SameRequest, SameSignatures DEF IInv, KeysInv, ConsentInv
  <2>5. ChecksInv'
    BY <1>1, <2>2, SameSignatures DEF IInv, ChecksInv
  <2>6. ProgressInv'
    BY <2>2 DEF ProgressInv
  <2>7. AllSigned'
    BY <2>1, <2>2, SameRequest DEF AllSigned, Done
  <2> QED
    BY <2>2, <2>3, <2>4, <2>5, <2>6, <2>7, SameSignatures DEF IInv
<1>4. CASE /\ KeysAfter # {}
           /\ key' = First(KeysAfter) /\ cur' = 1
           /\ UNCHANGED <<build, req, pc, st, approved, leaf_ok, sigs, sw>>
  <2>1. key' \in KeysAfter /\ \A k \in KeysAfter : key' <= k
    <3>1. KeysAfter \subseteq Nat
      BY <1>1 DEF KeysAfter
    <3> QED
      BY <1>4, <3>1, FirstIsMember
  <2>2. key' \in st.internal /\ key' \in Nat
    BY <1>1, <2>1 DEF KeysAfter
  <2>3. TypeOK'
    BY <1>4, <2>2 DEF IInv, TypeOK
  <2>4. KeysInv' /\ ConsentInv'
    BY <1>1, <1>4, SameRequest, SameSignatures DEF IInv, KeysInv, ConsentInv
  <2>5. ChecksInv'
    BY <1>1, <1>4, SameSignatures DEF IInv, ChecksInv
  <2>6. ASSUME NEW k \in st.internal, NEW i \in 1 .. NIn,
               k < key' \/ (k = key' /\ i < cur')
        PROVE  Done(k, i)
    <3>1. k < key'
      BY <1>4, <2>6
    <3>2. ~(k > key)
      BY <1>1, <2>1, <2>2, <3>1 DEF KeysAfter
    <3> QED
      BY <1>1, <1>2, <3>2
  <2>7. ProgressInv'
    <3>1. NoOK' /\ cur' > 0 /\ pc' = "sign" /\ key' \in st'.internal
      BY SMTT(30), ZenonT(20), <1>1, <1>4, <2>2 DEF NoOK
    <3>2. ASSUME NEW k \in st'.internal, NEW i \in 1 .. NIn',
                 k < key' \/ (k = key' /\ i < cur')
          PROVE  Done(k, i)'
      <4>1. k \in st.internal /\ i \in 1 .. NIn
        BY <1>4, SameRequest
      <4> QED
        BY <1>4, <2>6, <3>2, <4>1 DEF Done
    <3> QED
      BY <3>1, <3>2 DEF ProgressInv
  <2>8. AllSigned'
    BY <1>1, <1>4 DEF AllSigned, NoOK
  <2> QED
    BY <1>4, <2>3, <2>4, <2>5, <2>7, <2>8, SameSignatures DEF IInv
<1> QED
  BY <1>3, <1>4 DEF next_key_expression
-----------------------------------------------------------------------------
\* The parts of the request that the signature is made from.
LEMMA SigningFacts ==
  ASSUME IInv, Ready
  PROVE  /\ pc = "sign" /\ cur \in 1 .. NIn /\ NIn \in Nat /\ NOut \in Nat
         /\ CurInput \in Inputs /\ CurKey \in KeyExpressions /\ key \in st.internal
         /\ Segwit \in -1 .. 1 /\ Algo \in {"legacy", "v0", "v1"}
         /\ Passed(cur) /\ Consented /\ NoOK /\ LeafGiven
<1>1. /\ pc = "sign" /\ req \in Psbts /\ cur \in Nat /\ cur > 0 /\ key \in st.internal
      /\ st.internal \subseteq KeyIds /\ cur <= NIn /\ AllPassed /\ Consented /\ NoOK
      /\ LeafGiven
  BY DEF IInv, Ready, Signing, TypeOK, KeysInv, ProgressInv, ChecksInv, ConsentInv
<1>2. /\ req.inputs \in Seq(Inputs) /\ req.outputs \in Seq(Outputs)
      /\ req.policy.keys \in Seq(KeyExpressions) /\ req.policy.segwit \in -1 .. 1
  BY <1>1 DEF Psbts, Policies
<1>3. NIn \in Nat /\ NOut \in Nat /\ cur \in 1 .. NIn
  BY <1>1, <1>2 DEF NIn, NOut
<1>4. CurInput \in Inputs
  BY <1>2, <1>3 DEF CurInput, NIn
<1>5. CurKey \in KeyExpressions
  BY <1>1, <1>2 DEF CurKey, KeyIds
<1>6. Algo \in {"legacy", "v0", "v1"}
  BY DEF Algo
<1> QED
  BY <1>1, <1>2, <1>3, <1>4, <1>5, <1>6 DEF AllPassed, Segwit

\* The signature that is made now has its type.
LEMMA SignatureType ==
  ASSUME IInv, Ready
  PROVE  Signature \in Signatures
<1>1. key \in Nat /\ cur \in Nat /\ leaf_ok \in BOOLEAN
  BY DEF IInv, TypeOK
<1>2. SighashType \in Sighashes
  BY SigningFacts DEF SighashType, Inputs, Sighashes
<1>3. TapleafHash \in Hashes \cup {None}
  <2>1. CurPath \in Paths
    BY SigningFacts, RequestsOK DEF CurPath, Inputs
  <2> QED
    BY <2>1, SigningFacts DEF TapleafHash, Hashes, KeyExpressions
<1>4. ASSUME NEW anyone \in BOOLEAN, NEW outs \in SUBSET Nat
      PROVE  AllButFor(anyone, outs) \in [ins : SUBSET Nat, outs : SUBSET Nat]
  BY <1>1, SigningFacts DEF AllButFor
<1>5. /\ compute_sighash_legacy \in [ins : SUBSET Nat, outs : SUBSET Nat]
      /\ compute_sighash_segwitv0 \in [ins : SUBSET Nat, outs : SUBSET Nat]
      /\ compute_sighash_segwitv1 \in [ins : SUBSET Nat, outs : SUBSET Nat]
  <2>1. 1 .. NOut \in SUBSET Nat /\ {cur} \in SUBSET Nat /\ {} \in SUBSET Nat
        /\ {cur} \cap 1 .. NOut \in SUBSET Nat
    BY <1>1, SigningFacts
  <2>2. (SighashType = "ACP") \in BOOLEAN
    OBVIOUS
  <2>3. compute_sighash_legacy \in [ins : SUBSET Nat, outs : SUBSET Nat]
    BY <1>4, <2>1 DEF compute_sighash_legacy
  <2>4. compute_sighash_segwitv0 \in [ins : SUBSET Nat, outs : SUBSET Nat]
    BY <1>4, <2>1, <2>2 DEF compute_sighash_segwitv0
  <2>5. compute_sighash_segwitv1 \in [ins : SUBSET Nat, outs : SUBSET Nat]
    BY <1>4, <2>1, <2>2 DEF compute_sighash_segwitv1
  <2> QED
    BY <2>3, <2>4, <2>5
<1> QED
  BY <1>1, <1>2, <1>3, <1>5, SigningFacts DEF Signature, Signatures

\* The checks of preprocess_inputs cover the signature that is made now.
LEMMA SignatureChecked ==
  ASSUME IInv, Ready, InputInternal(cur)
  PROVE  /\ Algo = CASE Segwit = -1 -> "legacy" [] Segwit = 0 -> "v0" [] OTHER -> "v1"
         /\ usual_sighash(SighashType) \/ unusual_sighash(SighashType)
         /\ SighashType = "SINGLE" => cur <= NOut
         /\ CurInput.nonwit # "bad"
         /\ \/ CurInput.nonwit = "good" /\ CurInput.wit # "mismatch"
            \/ Segwit = 1
            \/ Fact("missing_nonwitnessutxo") \in approved
<1>1. /\ ~UtxosRejected(CurInput) /\ ~InternalRejected(cur)
      /\ \A w \in InputWarnings(cur) : Fact(w) \in approved
  BY SigningFacts DEF Passed, Consented, CurInput
<1>2. Algo = CASE Segwit = -1 -> "legacy" [] Segwit = 0 -> "v0" [] OTHER -> "v1"
  BY <1>1, SigningFacts DEF InternalRejected, Algo, CurInput, Inputs
<1>3. usual_sighash(SighashType) \/ unusual_sighash(SighashType)
  <2>1. CASE CurInput.sighash # "absent"
    BY <1>1, <2>1 DEF InternalRejected, SighashType, CurInput
  <2>2. CASE CurInput.sighash = "absent"
    BY <1>2, <2>2, SigningFacts DEF SighashType, usual_sighash
  <2> QED
    BY <2>1, <2>2
<1>4. SighashType = "SINGLE" => cur <= NOut
  <2> SUFFICES ASSUME SighashType = "SINGLE" PROVE cur <= NOut
    OBVIOUS
  <2>1. CurInput.sighash = "SINGLE"
    BY DEF SighashType
  <2>2. ~(cur > NOut)
    BY <1>1, <2>1 DEF InternalRejected, CurInput
  <2> QED
    BY <2>2, SigningFacts
<1>5. CurInput.nonwit # "bad"
  BY <1>1 DEF UtxosRejected
<1>6. CASE CurInput.nonwit = "good"
  BY <1>1, <1>2, <1>3, <1>4, <1>5, <1>6 DEF UtxosRejected
<1>7. CASE CurInput.nonwit = "absent"
  <2>1. Segwit # -1
    BY <1>1, <1>7 DEF InternalRejected, CurInput
  <2>2. Segwit = 0 => "missing_nonwitnessutxo" \in InputWarnings(cur)
    BY <1>7 DEF InputWarnings, Warnings, CurInput
  <2> QED
    BY <1>1, <1>2, <1>3, <1>4, <1>5, <2>1, <2>2, SigningFacts
<1> QED
  BY <1>5, <1>6, <1>7, SigningFacts DEF Inputs

\* A signature of a usual sighash type commits to the whole transaction.
LEMMA SignatureReviewed ==
  ASSUME IInv, Ready, InputInternal(cur), Fact("non_default_sighash") \notin approved
  PROVE  Signature.commits = [ins |-> 1 .. NIn, outs |-> 1 .. NOut]
<1>1. ~unusual_sighash(SighashType)
  <2> SUFFICES ASSUME unusual_sighash(SighashType) PROVE FALSE
    OBVIOUS
  <2>1. SighashType \in {"NONE", "SINGLE", "ACP"}
    BY DEF unusual_sighash
  <2>2. CurInput.sighash # "absent" /\ SighashType = CurInput.sighash
    BY <2>1 DEF SighashType
  <2>3. "non_default_sighash" \in InputWarnings(cur)
    BY <2>2 DEF InputWarnings, Warnings, CurInput
  <2> QED
    BY <2>3, SigningFacts DEF Passed, Consented
<1>2. SighashType \in {"ALL", "DEFAULT"}
  BY <1>1, SignatureChecked DEF usual_sighash
<1>3. /\ compute_sighash_legacy = [ins |-> 1 .. NIn, outs |-> 1 .. NOut]
      /\ compute_sighash_segwitv0 = [ins |-> 1 .. NIn, outs |-> 1 .. NOut]
      /\ compute_sighash_segwitv1 = [ins |-> 1 .. NIn, outs |-> 1 .. NOut]
  BY <1>2 DEF compute_sighash_legacy, compute_sighash_segwitv0,
              compute_sighash_segwitv1, AllButFor
<1> QED
  BY <1>3, SigningFacts DEF Signature

\* A tapscript is signed at the leaf hash that the policy gives.
LEMMA SignatureCommitted ==
  ASSUME IInv, Ready, ConfirmsLeaf => leaf_ok, Signature.leaf # None
  PROVE  \E k \in KeyIds :
           /\ req.policy.keys[k].pub = Signature.leaf
           /\ \/ req.policy.keys[k].fp = "leaf_check"
              \/ req.policy.keys[k].fp = "leaf_display" /\ Signature.leaf_ok
<1>1. Algo = "v1" /\ TapleafHash # None /\ Signature.leaf = TapleafHash
      /\ Signature.leaf_ok = leaf_ok
  BY DEF Signature
<1>2. TapleafHash = st.leafhash /\ st.leafhash # None
  BY <1>1 DEF Ready, RefusedV1, LeafRefused
<1>3. st.display => leaf_ok
  BY <1>1 DEF ConfirmsLeaf
<1> QED
  BY <1>1, <1>2, <1>3, SigningFacts DEF LeafGiven

\* A signature is made and yielded.
LEMMA YieldStep ==
  ASSUME IInv, NEW answered \in BOOLEAN, NEW agg \in BOOLEAN,
         sign_and_yield(answered, agg)
  PROVE  IInv'
<1>1. /\ Ready /\ (ConfirmsLeaf => leaf_ok) /\ sigs' = sigs \cup {Signature}
      /\ leaf_ok' = FALSE /\ UNCHANGED <<build, req, key, st, approved>>
      /\ \/ pc' = pc /\ cur' = cur + 1
         \/ pc' = "return" /\ cur' = cur
  BY DEF sign_and_yield
<1>2. sw' \in Seq(StatusWords) /\ NoOK'
  <2> DEFINE first == IF agg THEN sw ELSE Append(sw, "ERROR")
             both == IF answered THEN first ELSE Append(first, "BAD_STATE")
  <2>1. sw \in Seq(StatusWords) /\ NoOK /\ "ERROR" \in StatusWords
        /\ "BAD_STATE" \in StatusWords
    BY <1>1, SigningFacts DEF IInv, TypeOK, StatusWords
  <2>2. first \in Seq(StatusWords) /\ \A n \in DOMAIN first : first[n] # "OK"
    BY <2>1, AppendNoOK DEF NoOK
  <2>3. both \in Seq(StatusWords) /\ \A n \in DOMAIN both : both[n] # "OK"
    <3> HIDE DEF first
    <3> QED
      BY <2>1, <2>2, AppendNoOK
  <2>4. sw' = both
    <3>1. sw' = first \o (IF answered THEN <<>> ELSE <<"BAD_STATE">>)
      BY DEF sign_and_yield
    <3> HIDE DEF first
    <3> QED
      BY <2>1, <2>2, <3>1
  <2> HIDE DEF both
  <2> QED
    BY <2>3, <2>4 DEF NoOK
<1>3. PICK new \in Signatures : new = Signature
  BY <1>1, SignatureType
<1>4. PICK c \in 1 .. NIn : c = cur
  BY <1>1, SigningFacts
<1>5. /\ new.input = c /\ new.key = key /\ new.algo = Algo /\ new.sighash = SighashType
      /\ sigs' = sigs \cup {new}
  BY <1>1, <1>3, <1>4 DEF Signature
<1>6. TypeOK'
  <2>1. cur' \in Nat /\ sigs' \subseteq Signatures
    BY SMTT(30), ZenonT(20), <1>1, <1>5 DEF IInv, TypeOK
  <2>2. pc' \in {"sign", "return"} /\ leaf_ok' \in BOOLEAN
    BY <1>1, SigningFacts
  <2> QED
    BY <1>1, <1>2, <2>1, <2>2 DEF IInv, TypeOK
<1>7. KeysInv'
  BY <1>1, SigningFacts, SameRequest DEF IInv, KeysInv, LeafGiven
<1>8. /\ \A i : InputInternal(i)' = InputInternal(i)
      /\ \A i : Passed(i) => Passed(i)'
  BY <1>1, SameInputs
<1>9. ChecksInv' /\ ConsentInv'
  <2>1. AllPassed
    BY <1>1, SigningFacts DEF IInv, ChecksInv
  <2>2. AllPassed' /\ Consented'
    BY <1>1, <1>8, <2>1, SigningFacts, SameRequest DEF AllPassed, Consented, Fact
  <2> QED
    BY <1>1, <2>2, SigningFacts DEF ChecksInv, ConsentInv
<1>10. ASSUME NEW k, NEW i, Done(k, i) \/ (k = key /\ i = c) PROVE Done(k, i)'
  BY <1>5, <1>10 DEF Done
<1>11. ProgressInv'
  <2>1. ASSUME NEW k \in st.internal, NEW i \in 1 .. NIn,
               k < key \/ (k = key /\ i < c + 1)
        PROVE  Done(k, i)'
    <3>1. CASE k < key \/ (k = key /\ i < c)
      BY <1>1, <1>4, <1>10, <3>1, SigningFacts DEF IInv, ProgressInv
    <3>2. CASE k = key /\ i = c
      BY <1>10, <3>2
    <3> QED
      BY <2>1, <3>1, <3>2
  <2>2. ASSUME pc' = "sign"
        PROVE  key' \in st'.internal /\ cur' > 0 /\ cur' = c + 1
    BY SMTT(30), ZenonT(20), <1>1, <1>4, <2>2, SigningFacts
  <2> QED
    BY <1>1, <1>2, <2>1, <2>2, SigningFacts, SameRequest DEF ProgressInv
<1>12. AllSigned'
  BY <1>2 DEF AllSigned, NoOK
<1>13. CheckedBeforeSigned'
  <2>1. ASSUME InputInternal(c)
        PROVE  LET in == req.inputs[c]
               IN  /\ new.algo = CASE Segwit = -1 -> "legacy" [] Segwit = 0 -> "v0"
                                   [] OTHER -> "v1"
                   /\ usual_sighash(new.sighash) \/ unusual_sighash(new.sighash)
                   /\ new.sighash = "SINGLE" => c <= NOut
                   /\ in.nonwit # "bad"
                   /\ \/ in.nonwit = "good" /\ in.wit # "mismatch"
                      \/ Segwit = 1
                      \/ Fact("missing_nonwitnessutxo") \in approved
    BY <1>1, <1>4, <1>5, <2>1, SignatureChecked DEF CurInput
  <2> QED
    BY <1>1, <1>5, <1>8, <2>1, SameRequest DEF IInv, CheckedBeforeSigned, Fact
<1>14. SignedIsReviewed'
  <2>1. InputInternal(c) /\ Fact("non_default_sighash") \notin approved =>
          new.commits = [ins |-> 1 .. NIn, outs |-> 1 .. NOut]
    BY <1>1, <1>3, <1>4, SignatureReviewed
  <2> QED
    BY <1>1, <1>5, <1>8, <2>1, SameRequest DEF IInv, SignedIsReviewed, Fact
<1>15. LeafCommitted'
  <2>1. new.leaf # None =>
          \E k \in KeyIds :
            /\ req.policy.keys[k].pub = new.leaf
            /\ \/ req.policy.keys[k].fp = "leaf_check"
               \/ req.policy.keys[k].fp = "leaf_display" /\ new.leaf_ok
    BY <1>1, <1>3, SignatureCommitted
  <2> QED
    BY <1>1, <1>5, <2>1, SameRequest DEF IInv, LeafCommitted
<1> QED
  BY <1>6, <1>7, <1>9, <1>11, <1>12, <1>13, <1>14, <1>15 DEF IInv
-----------------------------------------------------------------------------
\* The handler returns in the middle of signing.
LEMMA SignFailsStep ==
  ASSUME IInv,
         \/ \E code \in {"ERROR", "BAD_STATE"} : sign_fails(code)
         \/ sign_fails_silently \/ sign_asserts \/ dispatcher_responds
  PROVE  IInv'
<1>1. ASSUME NEW code \in {"ERROR", "BAD_STATE"}, sign_fails(code) PROVE IInv'
  BY <1>1, FailIInv DEF sign_fails, Signing, Fail, StatusWords
<1>2. CASE sign_fails_silently \/ sign_asserts
  <2>1. pc = "sign" /\ NoOK /\ sw \in Seq(StatusWords)
    BY <1>2 DEF sign_fails_silently, sign_asserts, Signing, IInv, ProgressInv, TypeOK
  <2>2. sw' = sw /\ NoOK'
    BY <1>2, <2>1 DEF sign_fails_silently, sign_asserts, NoOK
  <2> QED
    BY <1>2, <2>1, <2>2, Ends DEF sign_fails_silently, sign_asserts
<1>3. CASE dispatcher_responds
  <2>1. sw' = Append(sw, "BAD_STATE") /\ sw' \in Seq(StatusWords) /\ NoOK'
    BY <1>3 DEF dispatcher_responds, NoOK, StatusWords
  <2> QED
    BY <1>3, <2>1, Ends DEF dispatcher_responds
<1> QED
  BY <1>1, <1>2, <1>3

\* Steps of the client alone.
LEMMA StutterStep == IInv /\ UNCHANGED vars => IInv'
<1> SUFFICES ASSUME IInv, UNCHANGED vars PROVE IInv'
  OBVIOUS
<1>1. UNCHANGED <<build, req, pc, key, cur, st, approved, leaf_ok, sigs, sw>>
  BY DEF vars
<1>2. TypeOK'
  BY <1>1 DEF IInv, TypeOK
<1>3. KeysInv' /\ ConsentInv'
  BY <1>1, SameRequest, SameSignatures DEF IInv, KeysInv, ConsentInv, Stages, Fact
<1>4. ChecksInv'
  BY <1>1, SameRequest, SameInputs, SameSignatures DEF IInv, ChecksInv
<1>5. ProgressInv'
  <2>1. ZeroState' = ZeroState /\ NoOK' = NoOK
    BY <1>1 DEF ZeroState, CacheSlots, NoOK
  <2>2. \A k, i : Done(k, i)' = Done(k, i)
    BY <1>1, SameSignatures
  <2> QED
    BY <1>1, <2>1, <2>2, SameRequest DEF IInv, ProgressInv
<1>6. AllSigned'
  BY SMTT(30), ZenonT(20), <1>1, SameRequest DEF IInv, AllSigned
<1> QED
  BY <1>1, <1>2, <1>3, <1>4, <1>5, <1>6, SameSignatures DEF IInv

\* Every step keeps the invariant, one case per step of the handler.
LEMMA NextIInv == IInv /\ [Next]_vars => IInv'
<1> SUFFICES ASSUME IInv, [Next]_vars PROVE IInv'
  OBVIOUS
<1>1. CASE Step
  <2>1. ASSUME NEW bad \in SUBSET KeyIds, fill_internal_key_expressions(bad) PROVE IInv'
    BY <2>1, FillStep
  <2>2. ASSUME NEW ok \in BOOLEAN, preprocess_inputs(ok) PROVE IInv'
    BY <2>2, InputStep
  <2>3. ASSUME NEW ok \in BOOLEAN, preprocess_outputs(ok) PROVE IInv'
    BY <2>3, OutputStep
  <2>4. ASSUME NEW ok \in BOOLEAN, compute_tx_hashes(ok) PROVE IInv'
    BY <2>4, HashesStep
  <2>5. CASE inputs_done
    BY <2>5, InputsDoneStep
  <2>6. CASE outputs_done
    BY <2>6, OutputsDoneStep
  <2>7. ASSUME NEW yes \in BOOLEAN, display_simplified(yes) PROVE IInv'
    BY <2>7, SimplifiedStep
  <2>8. ASSUME NEW yes \in BOOLEAN, display_screen(yes) PROVE IInv'
    BY <2>8, ScreenStep
  <2>9. ASSUME NEW yes \in BOOLEAN, display_output(yes) PROVE IInv'
    BY <2>9, ShowOutputStep
  <2>10. ASSUME NEW yes \in BOOLEAN, confirm_leafhash(yes) PROVE IInv'
    BY <2>10, ConfirmStep
  <2>11. CASE display_change_output
    BY <2>11, ChangeOutputStep
  <2>12. CASE get_output_fails
    BY <2>12, GetOutputFailsStep
  <2>13. CASE next_stage
    BY <2>13, NextStageStep
  <2>14. CASE display_done
    BY <2>14, DisplayDoneStep
  <2>15. CASE \/ \E code \in {"ERROR", "BAD_STATE"} : sign_fails(code)
            \/ sign_fails_silently \/ sign_asserts \/ dispatcher_responds
    BY <2>15, SignFailsStep
  <2>16. ASSUME NEW answered \in BOOLEAN, NEW agg \in BOOLEAN,
                sign_and_yield(answered, agg)
         PROVE  IInv'
    BY <2>16, YieldStep
  <2>17. CASE next_key_expression
    BY <2>17, NextKeyStep
  <2>18. CASE dispatcher_returns
    BY <2>18, OverStep DEF dispatcher_returns
  <2> QED
    BY <1>1, <2>1, <2>2, <2>3, <2>4, <2>5, <2>6, <2>7, <2>8, <2>9, <2>10, <2>11,
       <2>12, <2>13, <2>14, <2>15, <2>16, <2>17, <2>18 DEF Step
<1>2. CASE relaunch
  BY <1>2, OverStep DEF relaunch
<1>3. CASE \E r \in Requests, ok \in BOOLEAN : Begin(r, ok)
  BY <1>3, BeginStep
<1>4. CASE UNCHANGED vars
  BY <1>4, StutterStep
<1> QED
  BY <1>1, <1>2, <1>3, <1>4 DEF Next

\* The inductive invariant of the handler holds in every reachable state.
THEOREM Invariant == Spec => []IInv
<1>1. Init => IInv
  BY InitIInv
<1>2. IInv /\ [Next]_vars => IInv'
  BY NextIInv
<1> QED
  BY <1>1, <1>2, PTL DEF Spec

\* Amounts stay 64-bit, the cache within its slots and the state of the handler
\* within its type, whatever the request.
THEOREM TypeCorrect == Spec => []TypeOK
<1>1. IInv => TypeOK
  BY DEF IInv
<1> QED
  BY <1>1, Invariant, PTL

\* SW_OK is sent only when all internal key expressions have signed all inputs.
THEOREM Complete == Spec => []AllSigned
<1>1. IInv => AllSigned
  BY DEF IInv
<1> QED
  BY <1>1, Invariant, PTL

\* preprocess_inputs raises each warning, display_transaction has it approved,
\* and only then does sign_transaction yield.
THEOREM Warned == Spec => []WarningsApproved
<1>1. IInv => WarningsApproved
  BY DEF IInv, WarningsApproved, ChecksInv, ConsentInv, AllPassed, Passed, Consented
<1> QED
  BY <1>1, Invariant, PTL

\* What the first pass checks of an internal input holds of its signatures.
THEOREM Checked == Spec => []CheckedBeforeSigned
<1>1. IInv => CheckedBeforeSigned
  BY DEF IInv
<1> QED
  BY <1>1, Invariant, PTL

\* Without the warning about sighash types, a signature for an internal input
\* commits to the whole transaction.
THEOREM Reviewed == Spec => []SignedIsReviewed
<1>1. IInv => SignedIsReviewed
  BY DEF IInv
<1> QED
  BY <1>1, Invariant, PTL

\* compute_sighash_segwitv1 signs only a tapleaf that the policy commits to.
THEOREM Committed == Spec => []LeafCommitted
<1>1. IInv => LeafCommitted
  BY DEF IInv
<1> QED
  BY <1>1, Invariant, PTL
-----------------------------------------------------------------------------
\* The sums of the first amounts of a list.
Sums(list, m) ==
  {f \in [0 .. m -> Nat] :
     f[0] = 0 /\ \A n \in 1 .. m : f[n] = f[n - 1] + list[n].amount}
Amounts(list) == Len(list) \in Nat /\ \A n \in 1 .. Len(list) : list[n].amount \in Nat
Running(list) == CHOOSE f \in Sums(list, Len(list)) : TRUE

\* A nonempty set of numbers has a least element.
LEMMA LeastElement ==
  ASSUME NEW T \in SUBSET Nat, T # {}
  PROVE  \E x \in T : \A y \in T : x <= y
BY FirstIsMember, Zenon

\* There are sums of as many amounts as one likes.
LEMMA SumsExist ==
  ASSUME NEW list, Amounts(list)
  PROVE  \A m \in 0 .. Len(list) : Sums(list, m) # {}
<1> DEFINE Bad == {m \in 0 .. Len(list) : Sums(list, m) = {}}
<1> SUFFICES ASSUME Bad # {} PROVE FALSE
  OBVIOUS
<1>1. Bad \in SUBSET Nat
  OBVIOUS
<1> HIDE DEF Bad
<1>2. PICK m \in Bad : \A k \in Bad : m <= k
  BY <1>1, LeastElement
<1>3. m \in 0 .. Len(list) /\ Sums(list, m) = {}
  BY <1>2 DEF Bad
<1>4. m # 0
  <2>1. [n \in 0 .. 0 |-> 0] \in Sums(list, 0)
    BY DEF Sums
  <2> QED
    BY <2>1, <1>3
<1>5. m - 1 \in 0 .. Len(list) /\ m - 1 \notin Bad
  BY <1>2, <1>3, <1>4 DEF Amounts
<1>6. PICK f \in Sums(list, m - 1) : TRUE
  BY <1>5 DEF Bad
<1> DEFINE g == [n \in 0 .. m |-> IF n = m THEN f[m - 1] + list[m].amount ELSE f[n]]
<1>7. /\ f \in [0 .. m - 1 -> Nat] /\ f[0] = 0
      /\ \A n \in 1 .. m - 1 : f[n] = f[n - 1] + list[n].amount
  BY <1>6 DEF Sums
<1>8. g \in [0 .. m -> Nat] /\ g[0] = 0
  BY SMTT(30), ZenonT(20), <1>3, <1>4, <1>7 DEF Amounts
<1>9. \A n \in 1 .. m : g[n] = g[n - 1] + list[n].amount
  BY SMTT(30), ZenonT(20), <1>3, <1>4, <1>7 DEF Amounts
<1> QED
  BY <1>3, <1>8, <1>9 DEF Sums

\* Total is the last of the running sums.
LEMMA TotalIsSum ==
  ASSUME NEW list, Amounts(list)
  PROVE  /\ Running(list) \in Sums(list, Len(list))
         /\ Total(list) = Running(list)[Len(list)]
<1> DEFINE Solves(h) ==
             h = [n \in 0 .. Len(list) |-> IF n = 0 THEN 0 ELSE h[n - 1] + list[n].amount]
           g == CHOOSE h : Solves(h)
           f == Running(list)
<1>1. f \in Sums(list, Len(list))
  BY SumsExist DEF Running, Amounts
<1> HIDE DEF f
<1>2. Solves(f)
  BY <1>1 DEF Sums, Amounts
<1>3. Solves(g)
  BY <1>2
<1>4. Total(list) = g[Len(list)]
  BY DEF Total
<1> HIDE DEF g
<1>5. ASSUME NEW n \in 0 .. Len(list), g[n] # f[n] PROVE FALSE
  <2> DEFINE Bad == {k \in 0 .. Len(list) : g[k] # f[k]}
  <2>1. Bad \in SUBSET Nat /\ Bad # {}
    BY <1>5 DEF Amounts
  <2> HIDE DEF Bad
  <2>2. PICK m \in Bad : \A k \in Bad : m <= k
    BY <2>1, LeastElement
  <2>3. m \in 0 .. Len(list) /\ g[m] # f[m]
    BY <2>2 DEF Bad
  <2>4. m # 0
    BY <1>2, <1>3, <2>3
  <2>5. m - 1 \in 0 .. Len(list) /\ m - 1 \notin Bad
    BY <2>2, <2>3, <2>4 DEF Amounts
  <2>6. g[m - 1] = f[m - 1]
    BY <2>5 DEF Bad
  <2> QED
    BY <1>2, <1>3, <2>3, <2>4, <2>6
<1> QED
  BY <1>1, <1>4, <1>5 DEF f, Amounts

\* No sum of the first amounts is larger than the sum of all.
LEMMA SumsGrow ==
  ASSUME NEW list, Amounts(list), NEW f \in Sums(list, Len(list)), NEW n \in 0 .. Len(list)
  PROVE  f[n] <= f[Len(list)]
<1> DEFINE Bad == {k \in 0 .. Len(list) : ~(f[Len(list) - k] <= f[Len(list)])}
<1>0. /\ f \in [0 .. Len(list) -> Nat]
      /\ \A k \in 1 .. Len(list) : f[k] = f[k - 1] + list[k].amount
  BY DEF Sums
<1> SUFFICES ASSUME Bad # {} PROVE FALSE
  <2>1. Len(list) - n \in 0 .. Len(list) /\ Len(list) - (Len(list) - n) = n
    BY SMTT(30), ZenonT(20) DEF Amounts
  <2> QED
    BY <2>1
<1>1. Bad \in SUBSET Nat
  OBVIOUS
<1> HIDE DEF Bad
<1>2. PICK m \in Bad : \A k \in Bad : m <= k
  BY <1>1, LeastElement
<1>3. m \in 0 .. Len(list) /\ ~(f[Len(list) - m] <= f[Len(list)])
  BY <1>2 DEF Bad
<1>4. m # 0
  BY <1>0, <1>3 DEF Amounts
<1>5. m - 1 \in 0 .. Len(list) /\ m - 1 \notin Bad
  BY <1>2, <1>3, <1>4 DEF Amounts
<1>6. f[Len(list) - (m - 1)] <= f[Len(list)]
  BY <1>5 DEF Bad
<1>7. PICK a \in 1 .. Len(list) : a = Len(list) - (m - 1) /\ a - 1 = Len(list) - m
  <2>1. Len(list) \in Nat /\ m \in 1 .. Len(list)
    BY <1>3, <1>4 DEF Amounts
  <2>2. /\ Len(list) - (m - 1) \in 1 .. Len(list)
        /\ (Len(list) - (m - 1)) - 1 = Len(list) - m
    BY <2>1
  <2> QED
    BY <2>2, Zenon
<1>8. f[a] = f[a - 1] + list[a].amount
  BY <1>0, Zenon
<1>9. list[a].amount \in Nat
  BY DEF Amounts
<1>10. a - 1 \in 0 .. Len(list) /\ Len(list) \in 0 .. Len(list)
  BY DEF Amounts
<1>11. f[a - 1] \in Nat /\ f[Len(list)] \in Nat
  BY <1>0, <1>10
<1>12. f[a] <= f[Len(list)] /\ ~(f[a - 1] <= f[Len(list)])
  BY <1>3, <1>6, <1>7, Zenon
<1>13. ASSUME NEW x \in Nat, NEW y \in Nat, NEW z \in Nat, x + y <= z PROVE x <= z
  BY <1>13
<1>14. f[a - 1] + list[a].amount <= f[Len(list)]
  BY <1>8, <1>12, Zenon
<1> QED
  BY <1>9, <1>11, <1>12, <1>13, <1>14, Zenon

\* The remainder of a number that is smaller than the modulus.
LEMMA SmallMod ==
  ASSUME NEW m \in Nat \ {0}, NEW x \in 0 .. m - 1
  PROVE  x % m = x
OBVIOUS
\* The sums of the running totals: what preprocess_inputs and preprocess_outputs
\* have added up after n inputs and after n outputs.
InTotal(n) == TotalIn < AmountMod => st.in_total = Running(req.inputs)[n]
OutTotal(n) == TotalOut < AmountMod => st.out_total = Running(req.outputs)[n]

\* The two passes over the request are over.
Processed == pc \in {"hashes", "review", "sign"} \/ sigs # {}

TotalsInv ==
  /\ pc = "keys" => st = ZeroState
  /\ pc = "inputs" => cur <= NIn + 1 /\ InTotal(cur - 1) /\ st.out_total = 0
  /\ pc = "outputs" => cur <= NOut + 1 /\ InTotal(NIn) /\ OutTotal(cur - 1)
  /\ Processed => InTotal(NIn) /\ OutTotal(NOut) /\ st.out_total <= st.in_total
  /\ (pc \in {"review", "sign"} \/ sigs # {}) /\ HighFee => "high_fee" \in st.warnings

\* The external outputs before output k: how preprocess_outputs has sorted them
\* out and which of them it has cached, and that the user has approved them.
External(k) == {n \in 1 .. k - 1 : ~OutputInternal(n)}
Sorted(k) ==
  /\ st.internal_outputs = {n \in 1 .. k - 1 : OutputInternal(n)}
  /\ st.n_external = Cardinality(External(k))
  /\ \A n \in External(k) : Cardinality(External(n)) < N_CACHED_EXTERNAL_OUTPUTS
                              => st.cached[Cardinality(External(n))] = n
Approved(k) == \A n \in External(k) : Shown(n) \in approved

SortedInv ==
  /\ pc = "inputs" => st.internal_outputs = {} /\ st.n_external = 0
  /\ pc = "outputs" => Sorted(cur)
  /\ Processed => Sorted(NOut + 1)
ShownInv ==
  /\ pc = "review" /\ ~Simplified /\ req.policy.step > 2 =>
       (key = 6 => Approved(cur)) /\ (key > 6 => Approved(NOut + 1))
  /\ (pc = "sign" \/ sigs # {}) /\ (Simplified \/ req.policy.step > 2) =>
       Approved(NOut + 1)
TInv == TotalsInv /\ SortedInv /\ ShownInv

\* What the sums are made of.
LEMMA SameTotals ==
  ASSUME req' = req
  PROVE  /\ Running(req.inputs)' = Running(req.inputs)
         /\ Running(req.outputs)' = Running(req.outputs)
         /\ TotalIn' = TotalIn /\ TotalOut' = TotalOut
<1>1. Running(req.inputs)' = Running(req.inputs)
  BY DEF Running, Sums
<1>2. Running(req.outputs)' = Running(req.outputs)
  BY DEF Running, Sums
<1>3. TotalIn' = TotalIn
  BY DEF TotalIn, Total
<1>4. TotalOut' = TotalOut
  BY DEF TotalOut, Total
<1> QED
  BY <1>1, <1>2, <1>3, <1>4

\* What the outputs that are ours are made of.
LEMMA SameOutputs ==
  ASSUME req' = req, st'.internal = st.internal
  PROVE  /\ \A n : OutputInternal(n)' = OutputInternal(n)
         /\ \A k : External(k)' = External(k)
<1>1. \A n : OutputInternal(n)' = OutputInternal(n)
  BY DEF OutputInternal, Matching
<1>2. ASSUME NEW k PROVE External(k)' = External(k)
  BY <1>1 DEF External
<1> QED
  BY <1>1, <1>2

\* A step that changes neither the request nor what was found in it, and takes
\* no approval back.
LEMMA SameReview ==
  ASSUME UNCHANGED <<build, req, st>>, approved \subseteq approved'
  PROVE  /\ \A n : InTotal(n)' = InTotal(n)
         /\ \A n : OutTotal(n)' = OutTotal(n)
         /\ HighFee' = HighFee /\ Simplified' = Simplified
         /\ \A k : Sorted(k)' = Sorted(k)
         /\ \A k : Approved(k) => Approved(k)'
<1>1. \A n : InTotal(n)' = InTotal(n)
  BY SameTotals DEF InTotal
<1>2. \A n : OutTotal(n)' = OutTotal(n)
  BY SameTotals DEF OutTotal
<1>3. HighFee' = HighFee /\ Simplified' = Simplified
  BY DEF HighFee, Simplified
<1>4. ASSUME NEW k PROVE Sorted(k)' = Sorted(k)
  BY SMTT(30), ZenonT(20), SameOutputs DEF Sorted
<1>5. ASSUME NEW k, Approved(k) PROVE Approved(k)'
  <2>1. External(k)' = External(k)
    BY SameOutputs
  <2>2. \A n \in External(k) : Shown(n) \in approved'
    BY <1>5 DEF Approved
  <2> QED
    BY <2>1, <2>2, Zenon DEF Approved, Shown
<1> QED
  BY <1>1, <1>2, <1>3, <1>4, <1>5

\* The sums of a request are sums.
LEMMA RequestSums ==
  ASSUME req \in Psbts
  PROVE  /\ NIn \in Nat /\ NOut \in Nat
         /\ Amounts(req.inputs) /\ Amounts(req.outputs)
         /\ Running(req.inputs) \in [0 .. NIn -> Nat]
         /\ Running(req.outputs) \in [0 .. NOut -> Nat]
         /\ Running(req.inputs)[0] = 0 /\ Running(req.outputs)[0] = 0
         /\ TotalIn = Running(req.inputs)[NIn]
         /\ TotalOut = Running(req.outputs)[NOut]
<1>1. req.inputs \in Seq(Inputs) /\ req.outputs \in Seq(Outputs)
  BY DEF Psbts
<1>2. NIn \in Nat /\ NOut \in Nat
  BY <1>1 DEF NIn, NOut
<1>3. Amounts(req.inputs)
  <2>1. \A n \in 1 .. Len(req.inputs) : req.inputs[n] \in Inputs
    BY <1>1
  <2>2. \A n \in 1 .. Len(req.inputs) : req.inputs[n].amount \in Nat
    BY <2>1 DEF Inputs
  <2> QED
    BY <1>1, <2>2 DEF Amounts
<1>4. Amounts(req.outputs)
  <2>1. \A n \in 1 .. Len(req.outputs) : req.outputs[n] \in Outputs
    BY <1>1
  <2>2. \A n \in 1 .. Len(req.outputs) : req.outputs[n].amount \in Nat
    BY <2>1 DEF Outputs
  <2> QED
    BY <1>1, <2>2 DEF Amounts
<1>5. /\ Running(req.inputs) \in Sums(req.inputs, Len(req.inputs))
      /\ TotalIn = Running(req.inputs)[Len(req.inputs)]
  BY <1>3, TotalIsSum DEF TotalIn
<1>6. /\ Running(req.outputs) \in Sums(req.outputs, Len(req.outputs))
      /\ TotalOut = Running(req.outputs)[Len(req.outputs)]
  BY <1>4, TotalIsSum DEF TotalOut
<1>7. Running(req.inputs) \in [0 .. NIn -> Nat] /\ Running(req.inputs)[0] = 0
  BY <1>5 DEF Sums, NIn
<1>8. Running(req.outputs) \in [0 .. NOut -> Nat] /\ Running(req.outputs)[0] = 0
  BY <1>6 DEF Sums, NOut
<1> QED
  BY <1>2, <1>3, <1>4, <1>5, <1>6, <1>7, <1>8 DEF NIn, NOut

\* One more amount is added, modulo 2^64, to a sum of the first amounts of a
\* list whose total does not wrap around.
LEMMA NextSum ==
  ASSUME NEW list, Amounts(list), Total(list) < AmountMod,
         NEW n \in 1 .. Len(list)
  PROVE  (Running(list)[n - 1] + list[n].amount) % AmountMod = Running(list)[n]
<1> DEFINE f == Running(list)
<1>1. f \in Sums(list, Len(list)) /\ f[Len(list)] < AmountMod
  BY TotalIsSum
<1> HIDE DEF f
<1>2. f[n] = f[n - 1] + list[n].amount /\ f[n] \in Nat
  BY <1>1 DEF Sums
<1>3. n \in 0 .. Len(list)
  BY DEF Amounts
<1>4. f[n] <= f[Len(list)] /\ f[Len(list)] \in Nat
  <2>1. f[n] <= f[Len(list)]
    BY <1>1, <1>3, SumsGrow
  <2>2. f[Len(list)] \in Nat
    BY <1>1 DEF Sums, Amounts
  <2> QED
    BY <2>1, <2>2
<1>5. f[n] \in 0 .. AmountMod - 1
  BY SMTT(30), ZenonT(20), <1>1, <1>2, <1>4, RequestsOK
<1>6. f[n] % AmountMod = f[n]
  BY <1>5, SmallMod, RequestsOK
<1> QED
  BY <1>2, <1>6 DEF f
-----------------------------------------------------------------------------
\* The external outputs before an output can be counted.
LEMMA ExternalFinite ==
  ASSUME NEW CONSTANT k \in Nat
  PROVE  IsFiniteSet(External(k)) /\ Cardinality(External(k)) \in Nat
<1>1. IsFiniteSet(1 .. k - 1)
  BY FS_Interval
<1>2. External(k) \subseteq 1 .. k - 1
  BY DEF External
<1>3. IsFiniteSet(External(k))
  BY <1>1, <1>2, FS_Subset
<1> QED
  BY <1>3, FS_CardinalityType

\* An external output is one more than the external outputs before it.
LEMMA ExternalNext ==
  ASSUME NEW CONSTANT k \in Nat \ {0}
  PROVE  /\ OutputInternal(k) => External(k + 1) = External(k)
         /\ ~OutputInternal(k) =>
              /\ External(k + 1) = External(k) \cup {k}
              /\ Cardinality(External(k + 1)) = Cardinality(External(k)) + 1
<1>1. \A n : n \in 1 .. (k + 1) - 1 <=> n \in 1 .. k - 1 \/ n = k
  OBVIOUS
<1>2. CASE OutputInternal(k)
  <2>1. External(k + 1) = External(k)
    BY <1>1, <1>2 DEF External
  <2> QED
    BY <1>2, <2>1
<1>3. CASE ~OutputInternal(k)
  <2>1. External(k + 1) = External(k) \cup {k}
    BY <1>1, <1>3 DEF External
  <2>2. k \notin External(k)
    BY DEF External
  <2>3. IsFiniteSet(External(k)) /\ Cardinality(External(k)) \in Nat
    BY ExternalFinite
  <2>4. Cardinality(External(k) \cup {k}) = Cardinality(External(k)) + 1
    BY <2>2, <2>3, FS_AddElement
  <2> QED
    BY <1>3, <2>1, <2>4
<1> QED
  BY <1>2, <1>3

\* There are fewer external outputs before an earlier external output.
LEMMA ExternalOrder ==
  ASSUME NEW CONSTANT k \in Nat, NEW n \in External(k)
  PROVE  /\ n \in 1 .. k - 1
         /\ External(n) \subseteq External(k)
         /\ Cardinality(External(n)) \in Nat
         /\ Cardinality(External(n)) < Cardinality(External(k))
<1>1. n \in 1 .. k - 1 /\ n \in Nat
  BY DEF External
<1>2. External(n) \subseteq External(k) /\ n \notin External(n)
  BY <1>1 DEF External
<1>3. /\ IsFiniteSet(External(k)) /\ Cardinality(External(k)) \in Nat
      /\ IsFiniteSet(External(n)) /\ Cardinality(External(n)) \in Nat
  BY <1>1, ExternalFinite, FS_Subset, <1>2, FS_CardinalityType
<1>4. /\ Cardinality(External(n)) <= Cardinality(External(k))
      /\ Cardinality(External(n)) = Cardinality(External(k)) => External(n) = External(k)
  BY <1>2, <1>3, FS_Subset
<1> QED
  BY SMTT(30), ZenonT(20), <1>1, <1>2, <1>3, <1>4

\* preprocess_outputs sorts out one more output: an earlier entry of the cache
\* is not overwritten, since fewer external outputs come before it.
LEMMA SortedNext ==
  ASSUME NEW CONSTANT k \in Nat \ {0}, st \in States, Sorted(k),
         st' = OutputState(k), req' = req
  PROVE  Sorted(k + 1)'
<1>1. st'.internal = st.internal
  BY DEF OutputState, States
<1>2. /\ \A n : OutputInternal(n)' = OutputInternal(n)
      /\ \A j : External(j)' = External(j)
  BY <1>1, SameOutputs
<1>3. \A n : n \in 1 .. (k + 1) - 1 <=> n \in 1 .. k - 1 \/ n = k
  OBVIOUS
<1>4. Cardinality(External(k)) \in Nat
  BY ExternalFinite
<1>5. CASE OutputInternal(k)
  <2>1. /\ st'.internal_outputs = st.internal_outputs \cup {k}
        /\ st'.n_external = st.n_external /\ st'.cached = st.cached
    BY <1>5 DEF OutputState, States
  <2>2. External(k + 1) = External(k)
    BY <1>5, ExternalNext
  <2>3. st'.internal_outputs = {n \in 1 .. (k + 1) - 1 : OutputInternal(n)}
    BY <1>3, <1>5, <2>1 DEF Sorted
  <2> QED
    BY <1>2, <2>1, <2>2, <2>3 DEF Sorted
<1>6. CASE ~OutputInternal(k)
  <2>1. /\ st'.internal_outputs = st.internal_outputs
        /\ st'.n_external = st.n_external + 1
        /\ st'.cached = [c \in CacheSlots |-> IF c = st.n_external THEN k ELSE st.cached[c]]
    BY <1>6 DEF OutputState, States
  <2>2. /\ External(k + 1) = External(k) \cup {k}
        /\ Cardinality(External(k + 1)) = Cardinality(External(k)) + 1
    BY <1>6, ExternalNext
  <2>3. st'.internal_outputs = {n \in 1 .. (k + 1) - 1 : OutputInternal(n)}
    BY <1>3, <1>6, <2>1 DEF Sorted
  <2>4. ASSUME NEW n \in External(k + 1),
               Cardinality(External(n)) < N_CACHED_EXTERNAL_OUTPUTS
        PROVE  st'.cached[Cardinality(External(n))] = n
    <3>1. CASE n = k
      <4>1. Cardinality(External(k)) \in CacheSlots /\ st.n_external = Cardinality(External(k))
        BY SMTT(30), ZenonT(20), <1>4, <2>4, <3>1, RequestsOK DEF CacheSlots, Sorted
      <4> QED
        BY <2>1, <3>1, <4>1
    <3>2. CASE n \in External(k)
      <4>1. /\ Cardinality(External(n)) \in Nat
            /\ Cardinality(External(n)) < Cardinality(External(k))
        BY <3>2, ExternalOrder
      <4>2. /\ Cardinality(External(n)) \in CacheSlots
            /\ Cardinality(External(n)) # st.n_external
        BY SMTT(30), ZenonT(20), <1>4, <2>4, <4>1, RequestsOK DEF CacheSlots, Sorted
      <4> QED
        BY <2>1, <2>4, <3>2, <4>2 DEF Sorted
    <3> QED
      BY <2>2, <3>1, <3>2
  <2>5. st'.n_external = Cardinality(External(k + 1))
    BY <2>1, <2>2 DEF Sorted
  <2> QED
    BY <1>2, <2>3, <2>4, <2>5 DEF Sorted
<1> QED
  BY <1>5, <1>6

\* What display_external_outputs shows for an external output is that output,
\* whether it comes from the cache or is fetched again.
LEMMA DisplayedIsOutput ==
  ASSUME NEW CONSTANT n \in 1 .. NOut, NOut \in Nat, Sorted(NOut + 1),
         n \notin st.internal_outputs
  PROVE  ~OutputInternal(n) /\ Displayed(n) = n
<1>1. n \in External(NOut + 1) /\ ~OutputInternal(n)
  BY DEF Sorted, External
<1>2. (1 .. n - 1) \ st.internal_outputs = External(n)
  BY DEF Sorted, External
<1>3. ExternalBefore(n) = Cardinality(External(n))
  BY <1>2 DEF ExternalBefore
<1> QED
  BY <1>1, <1>3 DEF Displayed, Sorted
-----------------------------------------------------------------------------
\* An output is change if it was sorted as change, and external otherwise.
LEMMA SortedOut ==
  ASSUME NEW m \in Nat
  PROVE  /\ \A k \in 1 .. m : ~OutputInternal(k) => k \in External(m + 1)
         /\ Sorted(m + 1) => \A k \in st.internal_outputs : k \in 1 .. m /\ OutputInternal(k)
<1>1. m + 1 - 1 = m
  OBVIOUS
<1> QED
  BY SMTT(30), ZenonT(20), <1>1 DEF External, Sorted

\* The command returns, or signing goes on: what was found and approved stays.
LEMMA TKeeps ==
  ASSUME TInv, UNCHANGED <<build, req, st, approved>>,
         pc' \in {"sign", "return", "exited"}, pc' = "sign" => pc = "sign",
         sigs' # {} => pc = "sign" \/ sigs # {}
  PROVE  TInv'
<1>0. /\ InTotal(NIn)' = InTotal(NIn) /\ OutTotal(NOut)' = OutTotal(NOut)
      /\ HighFee' = HighFee /\ Sorted(NOut + 1)' = Sorted(NOut + 1) /\ st' = st
  BY SameReview, SameRequest
<1>a. pc' # "keys" /\ pc' # "inputs" /\ pc' # "outputs" /\ pc' # "hashes" /\ pc' # "review"
  OBVIOUS
<1>b. (pc' = "sign" \/ sigs' # {}) => pc = "sign" \/ sigs # {}
  BY Zenon
<1>c. Processed' => pc' = "sign" \/ sigs' # {}
  BY <1>a, Zenon DEF Processed
<1>d. pc = "sign" \/ sigs # {} => Processed /\ (pc \in {"review", "sign"} \/ sigs # {})
  BY Zenon DEF Processed
<1>1. TotalsInv'
  <2>1. pc = "sign" \/ sigs # {} =>
          /\ InTotal(NIn)' /\ OutTotal(NOut)' /\ st'.out_total <= st'.in_total
          /\ HighFee' => "high_fee" \in st'.warnings
    BY <1>0, <1>d, Zenon DEF TInv, TotalsInv
  <2>2. pc' \in {"review", "sign"} => pc' = "sign"
    BY <1>a
  <2> QED
    BY <1>a, <1>b, <1>c, <2>1, <2>2, Zenon DEF TotalsInv
<1>2. SortedInv'
  BY <1>0, <1>a, <1>b, <1>c, <1>d, Zenon DEF TInv, SortedInv
<1>3. ShownInv'
  <2>1. /\ Simplified' = Simplified /\ (Approved(NOut + 1) => Approved(NOut + 1)')
        /\ req' = req
    BY SameReview, SameRequest
  <2>2. (pc = "sign" \/ sigs # {}) /\ (Simplified \/ req.policy.step > 2) => Approved(NOut + 1)
    BY Zenon DEF TInv, ShownInv
  <2> QED
    BY <1>a, <1>b, <2>1, <2>2, Zenon DEF ShownInv
<1> QED
  BY <1>1, <1>2, <1>3 DEF TInv

\* Every early return keeps it.
LEMMA TFail ==
  ASSUME TInv, NEW code, Fail(code)
  PROVE  TInv'
BY TKeeps DEF Fail

\* Nothing is left of the command.
LEMMA TOver ==
  ASSUME Over
  PROVE  TInv'
<1>1. pc' = "idle" /\ sigs' = {}
  BY DEF Over
<1> QED
  BY <1>1 DEF TInv, TotalsInv, SortedInv, ShownInv, Processed

\* A request arrives while the state is zero.
LEMMA TBegin ==
  ASSUME IInv, NEW r \in Requests, NEW ok \in BOOLEAN, Begin(r, ok)
  PROVE  TInv'
<1>1. st = ZeroState /\ st' = st /\ sigs' = {} /\ pc' \in {"keys", "return"}
  BY DEF Begin, IInv, ProgressInv
<1>2. st' = ZeroState'
  BY <1>1 DEF ZeroState, CacheSlots
<1> QED
  BY <1>1, <1>2 DEF TInv, TotalsInv, SortedInv, ShownInv, Processed

\* The key expressions are found; nothing is summed up or counted yet.
LEMMA TFill ==
  ASSUME IInv, TInv, NEW bad \in SUBSET KeyIds, fill_internal_key_expressions(bad)
  PROVE  TInv'
<1> DEFINE own == {k \in KeyIds \ bad : req.policy.keys[k].ours}
           has_leaf == KeysWith({"leaf_display", "leaf_check"}, bad) # {}
<1>1. pc = "keys" /\ st = ZeroState /\ sigs = {} /\ cur = 1 /\ req \in Psbts
  BY DEF fill_internal_key_expressions, IInv, KeysInv, ConsentInv, ProgressInv,
         TInv, TotalsInv
<1>2. CASE Fail("NOT_SUPPORTED") \/ Fail("ERROR")
  BY <1>2, TFail
<1>3. CASE /\ st' = [st EXCEPT
                      !.internal = own,
                      !.finality = KeysWith({"finality"}, bad) # {},
                      !.leafhash = IF has_leaf
                                   THEN req.policy.keys[leaf_key(bad)].pub ELSE None,
                      !.display = has_leaf /\
                        req.policy.keys[leaf_key(bad)].fp = "leaf_display"]
           /\ pc' = "inputs"
           /\ UNCHANGED <<build, req, key, cur, approved, leaf_ok, sigs, sw>>
  <2>1. /\ st'.in_total = 0 /\ st'.out_total = 0
        /\ st'.internal_outputs = {} /\ st'.n_external = 0
    BY <1>1, <1>3 DEF ZeroState
  <2>2. NIn \in Nat /\ NIn' = NIn /\ Running(req.inputs)[0] = 0
    BY <1>1, <1>3, RequestSums, SameRequest
  <2>3. InTotal(0)'
    BY <1>3, <2>1, <2>2, SameTotals DEF InTotal
  <2>4. cur' - 1 = 0 /\ cur' <= NIn' + 1
    BY <1>1, <1>3, <2>2
  <2>5. InTotal(cur - 1)'
    BY <2>3, <2>4 DEF InTotal
  <2> QED
    BY <1>1, <1>3, <2>1, <2>4, <2>5 DEF TInv, TotalsInv, SortedInv, ShownInv, Processed
<1> QED
  BY <1>2, <1>3 DEF fill_internal_key_expressions

\* preprocess_inputs adds one amount.
LEMMA TInput ==
  ASSUME IInv, TInv, NEW ok \in BOOLEAN, preprocess_inputs(ok)
  PROVE  TInv'
<1>1. /\ pc = "inputs" /\ req \in Psbts /\ cur <= NIn /\ cur \in Nat /\ cur > 0
      /\ st \in States /\ sigs = {}
  BY DEF preprocess_inputs, IInv, KeysInv, ConsentInv, ProgressInv, TypeOK
<1>2. CASE Fail("ERROR")
  BY <1>2, TFail
<1>3. CASE /\ st' = InputState(cur)
           /\ cur' = cur + 1
           /\ UNCHANGED <<build, req, pc, key, approved, leaf_ok, sigs, sw>>
  <2>1. /\ st'.in_total = (st.in_total + req.inputs[cur].amount) % AmountMod
        /\ st'.out_total = st.out_total /\ st'.n_external = st.n_external
        /\ st'.internal_outputs = st.internal_outputs
    BY <1>1, <1>3 DEF InputState, States
  <2>2. NIn \in Nat /\ NIn' = NIn /\ Amounts(req.inputs)
    BY <1>1, <1>3, RequestSums, SameRequest
  <2>3. cur \in 1 .. Len(req.inputs) /\ cur' - 1 = cur /\ cur' <= NIn' + 1
    BY <1>1, <1>3, <2>2 DEF NIn
  <2>4. ASSUME TotalIn < AmountMod PROVE st'.in_total = Running(req.inputs)[cur]
    <3>1. st.in_total = Running(req.inputs)[cur - 1]
      BY <1>1, <2>4 DEF TInv, TotalsInv, InTotal
    <3>2. (Running(req.inputs)[cur - 1] + req.inputs[cur].amount) % AmountMod
            = Running(req.inputs)[cur]
      BY <2>2, <2>3, <2>4, NextSum DEF TotalIn
    <3> QED
      BY <2>1, <3>1, <3>2
  <2>5. InTotal(cur - 1)'
    BY <1>3, <2>3, <2>4, SameTotals DEF InTotal
  <2> QED
    BY <1>1, <1>3, <2>1, <2>3, <2>5 DEF TInv, TotalsInv, SortedInv, ShownInv, Processed
<1> QED
  BY <1>2, <1>3 DEF preprocess_inputs

\* All inputs are summed up, and no output yet.
LEMMA TInputsDone ==
  ASSUME IInv, TInv, inputs_done
  PROVE  TInv'
<1>1. /\ pc = "inputs" /\ req \in Psbts /\ cur > NIn /\ cur \in Nat
      /\ st \in States /\ sigs = {}
      /\ pc' = "outputs" /\ cur' = 1
      /\ UNCHANGED <<build, req, key, st, approved, leaf_ok, sigs, sw>>
  BY DEF inputs_done, IInv, KeysInv, ConsentInv, TypeOK
<1>2. NIn \in Nat /\ NOut \in Nat /\ NOut' = NOut /\ NIn' = NIn
  BY <1>1, RequestSums, SameRequest
<1>3. cur - 1 = NIn /\ InTotal(NIn) /\ st.out_total = 0
  BY SMTT(30), ZenonT(20), <1>1, <1>2 DEF TInv, TotalsInv
<1>4. OutTotal(0)
  BY <1>1, <1>3, RequestSums DEF OutTotal
<1>5. cur' - 1 = 0 /\ cur' <= NOut' + 1
  BY <1>1, <1>2
<1>6. InTotal(NIn)' /\ OutTotal(cur - 1)'
  <2>1. (\A n : InTotal(n)' = InTotal(n)) /\ (\A n : OutTotal(n)' = OutTotal(n))
    BY <1>1, SameReview
  <2>2. OutTotal(0)' /\ InTotal(NIn)'
    BY <1>2, <1>3, <1>4, <2>1, <1>1, SameTotals DEF InTotal
  <2> QED
    BY <1>5, <2>2 DEF OutTotal
<1>7. Sorted(cur)'
  <2>1. External(1) = {} /\ {n \in 1 .. 1 - 1 : OutputInternal(n)} = {}
    BY DEF External
  <2>2. st.internal_outputs = {} /\ st.n_external = 0
    BY <1>1 DEF TInv, SortedInv
  <2>3. Cardinality({}) = 0
    BY FS_EmptySet
  <2>4. Sorted(1)
    BY <2>1, <2>2, <2>3 DEF Sorted
  <2>5. Sorted(1)'
    BY <1>1, <2>4, SameReview
  <2> QED
    BY <1>1, <2>5 DEF Sorted, External
<1> QED
  BY <1>1, <1>5, <1>6, <1>7 DEF TInv, TotalsInv, SortedInv, ShownInv, Processed

\* preprocess_outputs adds one amount and sorts out one output.
LEMMA TOutput ==
  ASSUME IInv, TInv, NEW ok \in BOOLEAN, preprocess_outputs(ok)
  PROVE  TInv'
<1>1. /\ pc = "outputs" /\ req \in Psbts /\ cur <= NOut /\ cur \in Nat /\ cur > 0
      /\ st \in States /\ sigs = {}
  BY DEF preprocess_outputs, IInv, KeysInv, ConsentInv, ProgressInv, TypeOK
<1>2. CASE Fail("ERROR")
  BY <1>2, TFail
<1>3. CASE /\ st' = OutputState(cur)
           /\ cur' = cur + 1
           /\ UNCHANGED <<build, req, pc, key, approved, leaf_ok, sigs, sw>>
  <2>1. /\ st'.out_total = (st.out_total + req.outputs[cur].amount) % AmountMod
        /\ st'.in_total = st.in_total
    BY <1>1, <1>3 DEF OutputState, States
  <2>2. /\ NOut \in Nat /\ NOut' = NOut /\ NIn' = NIn /\ Amounts(req.outputs)
    BY <1>1, <1>3, RequestSums, SameRequest
  <2>3. cur \in 1 .. Len(req.outputs) /\ cur' - 1 = cur /\ cur' <= NOut' + 1
    BY <1>1, <1>3, <2>2 DEF NOut
  <2>4. ASSUME TotalOut < AmountMod PROVE st'.out_total = Running(req.outputs)[cur]
    <3>1. st.out_total = Running(req.outputs)[cur - 1]
      BY <1>1, <2>4 DEF TInv, TotalsInv, OutTotal
    <3>2. (Running(req.outputs)[cur - 1] + req.outputs[cur].amount) % AmountMod
            = Running(req.outputs)[cur]
      BY <2>2, <2>3, <2>4, NextSum DEF TotalOut
    <3> QED
      BY <2>1, <3>1, <3>2
  <2>5. OutTotal(cur - 1)'
    BY <1>3, <2>3, <2>4, SameTotals DEF OutTotal
  <2>6. InTotal(NIn)'
    BY <1>1, <1>3, <2>1, <2>2, SameTotals DEF TInv, TotalsInv, InTotal
  <2>7. Sorted(cur)'
    <3> PICK c \in Nat \ {0} : c = cur
      BY <1>1
    <3>1. Sorted(c) /\ st' = OutputState(c) /\ cur' = c + 1
      BY <1>1, <1>3 DEF TInv, SortedInv
    <3>2. Sorted(c + 1)'
      BY <1>1, <1>3, <3>1, SortedNext
    <3> QED
      BY <3>1, <3>2 DEF Sorted, External
  <2> QED
    BY <1>1, <1>3, <2>3, <2>5, <2>6, <2>7
       DEF TInv, TotalsInv, SortedInv, ShownInv, Processed
<1> QED
  BY <1>2, <1>3 DEF preprocess_outputs

\* All outputs are summed up and sorted out, and the fee is not negative.
LEMMA TOutputsDone ==
  ASSUME IInv, TInv, outputs_done
  PROVE  TInv'
<1>1. /\ pc = "outputs" /\ req \in Psbts /\ cur > NOut /\ cur \in Nat
      /\ st \in States /\ sigs = {}
  BY DEF outputs_done, IInv, KeysInv, ConsentInv, TypeOK
<1>2. CASE Fail("ERROR") \/ Fail("NOT_SUPPORTED")
  BY <1>2, TFail
<1>3. CASE /\ ~(st.in_total < st.out_total) /\ pc' = "hashes"
           /\ UNCHANGED <<build, req, key, cur, st, approved, leaf_ok, sigs, sw>>
  <2>1. NIn \in Nat /\ NOut \in Nat /\ NOut' = NOut /\ NIn' = NIn
    BY <1>1, <1>3, RequestSums, SameRequest
  <2>2. cur = NOut + 1 /\ cur - 1 = NOut
    BY SMTT(30), ZenonT(20), <1>1, <2>1 DEF TInv, TotalsInv
  <2>3. InTotal(NIn) /\ OutTotal(NOut) /\ Sorted(NOut + 1)
    BY <1>1, <2>2 DEF TInv, TotalsInv, SortedInv
  <2>4. InTotal(NIn)' /\ OutTotal(NOut)' /\ Sorted(NOut + 1)'
    BY <1>3, <2>1, <2>3, SameReview
  <2>5. st'.out_total <= st'.in_total
    BY <1>1, <1>3 DEF States
  <2> QED
    BY <1>1, <1>3, <2>4, <2>5 DEF TInv, TotalsInv, SortedInv, ShownInv, Processed
<1> QED
  BY <1>2, <1>3 DEF outputs_done

\* A high fee becomes a warning.
LEMMA THashes ==
  ASSUME IInv, TInv, NEW ok \in BOOLEAN, compute_tx_hashes(ok)
  PROVE  TInv'
<1>1. pc = "hashes" /\ sigs = {} /\ st \in States /\ req \in Psbts
  BY DEF compute_tx_hashes, IInv, KeysInv, ConsentInv, TypeOK
<1>2. CASE Fail("ERROR")
  BY <1>2, TFail
<1>3. CASE /\ pc' = "review" /\ key' = 1 /\ cur' = 1
           /\ st' = [st EXCEPT !.warnings = IF HighFee THEN @ \cup {"high_fee"} ELSE @]
           /\ UNCHANGED <<build, req, approved, leaf_ok, sigs, sw>>
  <2>1. /\ st'.internal = st.internal /\ st'.in_total = st.in_total
        /\ st'.out_total = st.out_total /\ st'.n_external = st.n_external
        /\ st'.internal_outputs = st.internal_outputs /\ st'.cached = st.cached
        /\ HighFee => "high_fee" \in st'.warnings
    BY <1>1, <1>3 DEF States
  <2>2. NOut' = NOut /\ NIn' = NIn
    BY <1>3, SameRequest
  <2>3. InTotal(NIn)' /\ OutTotal(NOut)'
    BY <1>1, <1>3, <2>1, <2>2, SameTotals
       DEF InTotal, OutTotal, TInv, TotalsInv, Processed
  <2>4. HighFee' = HighFee /\ st'.out_total <= st'.in_total
    BY <1>1, <2>1 DEF HighFee, TInv, TotalsInv, Processed
  <2>5. Sorted(NOut + 1)'
    <3>1. Sorted(NOut + 1)
      BY <1>1 DEF TInv, SortedInv, Processed
    <3> QED
      BY <1>3, <2>1, <2>2, <3>1, SameOutputs DEF Sorted
  <2> QED
    BY <1>1, <1>3, <2>1, <2>3, <2>4, <2>5
       DEF TInv, TotalsInv, SortedInv, ShownInv, Processed
<1> QED
  BY <1>2, <1>3 DEF compute_tx_hashes
-----------------------------------------------------------------------------
\* A step of the review: only what is shown has to be looked at.
LEMMA TReview ==
  ASSUME IInv, TInv, pc = "review", pc' \in {"review", "sign"},
         UNCHANGED <<build, req, st, sigs>>, approved \subseteq approved', ShownInv'
  PROVE  TInv'
<1>1. NOut' = NOut /\ NIn' = NIn
  BY SameRequest
<1>2. /\ InTotal(NIn)' = InTotal(NIn) /\ OutTotal(NOut)' = OutTotal(NOut)
      /\ HighFee' = HighFee /\ Sorted(NOut + 1)' = Sorted(NOut + 1) /\ st' = st
  BY <1>1, SameReview
<1>3. Processed /\ pc \in {"review", "sign"}
  BY Zenon DEF Processed
<1>4. /\ InTotal(NIn) /\ OutTotal(NOut) /\ st.out_total <= st.in_total
      /\ HighFee => "high_fee" \in st.warnings
      /\ Sorted(NOut + 1)
  BY <1>3, Zenon DEF TInv, TotalsInv, SortedInv
<1>5. /\ InTotal(NIn)' /\ OutTotal(NOut)' /\ st'.out_total <= st'.in_total
      /\ HighFee' => "high_fee" \in st'.warnings
      /\ Sorted(NOut + 1)'
  BY <1>2, <1>4, Zenon
<1>6. pc' # "keys" /\ pc' # "inputs" /\ pc' # "outputs"
  OBVIOUS
<1>7. TotalsInv' /\ SortedInv'
  BY <1>5, <1>6, Zenon DEF TotalsInv, SortedInv
<1> QED
  BY <1>7, Zenon DEF TInv

\* What the review of a request starts from.
LEMMA TReviewed ==
  ASSUME IInv, TInv, pc = "review"
  PROVE  /\ sigs = {} /\ st \in States /\ cur \in Nat /\ key \in Nat /\ NOut \in Nat
         /\ Sorted(NOut + 1)
         /\ st.n_external \in Nat /\ st.n_external = Cardinality(External(NOut + 1))
<1>1. /\ sigs = {} /\ st \in States /\ cur \in Nat /\ key \in Nat /\ req \in Psbts
  BY DEF IInv, KeysInv, ConsentInv, TypeOK
<1>2. NOut \in Nat
  BY <1>1, RequestSums
<1>3. Sorted(NOut + 1)
  BY DEF TInv, SortedInv, Processed
<1> QED
  BY <1>1, <1>2, <1>3 DEF Sorted, States

\* Without external outputs there is nothing to approve.
LEMMA NothingExternal ==
  ASSUME IInv, TInv, pc = "review", st.n_external = 0
  PROVE  Approved(NOut + 1)
<1>1. NOut \in Nat /\ Cardinality(External(NOut + 1)) = 0
  BY TReviewed
<1>2. PICK k \in Nat : k = NOut + 1
  BY <1>1
<1>3. IsFiniteSet(External(k)) /\ Cardinality(External(k)) = 0
  BY <1>1, <1>2, ExternalFinite
<1>4. External(k) = {}
  BY <1>3, FS_EmptySet
<1> QED
  BY <1>2, <1>4 DEF Approved

\* A stage is over: it was not the one of the outputs, or they are approved.
LEMMA TStage ==
  ASSUME IInv, TInv, InStage, NextStage, UNCHANGED <<build, req, st, sigs>>,
         approved \subseteq approved',
         key = 6 /\ req.policy.step > 2 => Approved(NOut + 1)
  PROVE  TInv'
<1>1. /\ pc = "review" /\ pc' = "review" /\ ~Simplified /\ key' = key + 1 /\ cur' = 1
  BY DEF InStage, NextStage
<1>2. sigs' = {} /\ key \in Nat
  BY <1>1, TReviewed
<1>3. Approved(cur)'
  <2>1. External(cur)' = {}
    BY <1>1 DEF External
  <2> QED
    BY <2>1 DEF Approved
<1>4. ASSUME key' > 6, req.policy.step > 2 PROVE Approved(NOut + 1)'
  <2>1. Approved(NOut + 1)
    BY <1>1, <1>2, <1>4 DEF TInv, ShownInv
  <2>2. NOut' = NOut
    BY SameRequest
  <2> QED
    BY <2>1, <2>2, SameReview
<1>5. ShownInv'
  BY <1>1, <1>2, <1>3, <1>4 DEF ShownInv
<1> QED
  BY <1>1, <1>5, TReview

\* A screen that is not one of an output.
LEMMA TScreen ==
  ASSUME IInv, TInv, NEW yes \in BOOLEAN, display_screen(yes)
  PROVE  TInv'
<1>1. CASE Deny
  BY <1>1, TFail DEF Deny
<1>2. CASE Approve({Fact(Stages[key])}) /\ NextStage
  <2>1. InStage /\ Stages[key] # "outputs"
    BY DEF display_screen
  <2>2. key # 6
    BY <2>1 DEF Stages
  <2> QED
    BY <1>2, <2>1, <2>2, TStage DEF Approve
<1> QED
  BY <1>1, <1>2 DEF display_screen

\* The stage of the outputs is over when there are none or all were shown.
LEMMA TNextStage ==
  ASSUME IInv, TInv, next_stage
  PROVE  TInv'
<1>1. /\ InStage /\ NextStage /\ pc = "review"
      /\ UNCHANGED <<build, req, st, approved, leaf_ok, sigs, sw>>
  BY DEF next_stage, InStage
<1>2. ASSUME key = 6, req.policy.step > 2 PROVE Approved(NOut + 1)
  <2>1. Stages[key] = "outputs"
    BY <1>2 DEF Stages
  <2>2. CASE st.n_external > 0
    <3>1. cur > NOut
      BY <1>2, <2>1, <2>2 DEF next_stage, Applies
    <3>2. Approved(cur)
      BY <1>1, <1>2 DEF TInv, ShownInv, InStage
    <3>3. External(NOut + 1) \subseteq External(cur)
      BY <1>1, <3>1, TReviewed DEF External
    <3> QED
      BY <3>2, <3>3 DEF Approved
  <2>3. CASE ~(st.n_external > 0)
    BY <1>1, <2>3, TReviewed, NothingExternal
  <2> QED
    BY <2>2, <2>3
<1> QED
  BY <1>1, <1>2, TStage

\* The single screen of NBGL shows the only external output, the first one cached.
LEMMA TSimplified ==
  ASSUME IInv, TInv, NEW yes \in BOOLEAN, display_simplified(yes)
  PROVE  TInv'
<1>1. pc = "review" /\ Simplified
  BY DEF display_simplified
<1>2. CASE Fail("NOT_SUPPORTED") \/ Deny
  BY <1>2, TFail DEF Deny
<1>3. CASE /\ Approve({Fact("name"), Fact("fee")}
                      \cup {Fact(w) : w \in st.warnings}
                      \cup IF st.n_external = 1 THEN {Shown(st.cached[0])} ELSE {})
           /\ ToSigning
  <2>1. /\ pc' = "sign" /\ UNCHANGED <<build, req, st, sigs>> /\ approved \subseteq approved'
        /\ st.n_external = 1 => Shown(st.cached[0]) \in approved'
    BY <1>3 DEF Approve, ToSigning
  <2>2. NOut' = NOut
    BY <2>1, SameRequest
  <2>3. ASSUME st.n_external = 0 PROVE Approved(NOut + 1)'
    <3>1. Approved(NOut + 1)
      BY <1>1, <2>3, NothingExternal
    <3> QED
      BY <2>1, <2>2, <3>1, SameReview
  <2>4. ASSUME st.n_external = 1 PROVE Approved(NOut + 1)'
    <3>1. PICK k \in Nat : k = NOut + 1
      BY <1>1, TReviewed
    <3>2. ASSUME NEW n \in External(k) PROVE Shown(n) \in approved'
      <4>1. Cardinality(External(n)) \in Nat /\ Cardinality(External(n)) < 1
        BY <1>1, <2>4, <3>1, TReviewed, ExternalOrder
      <4>2. Cardinality(External(n)) = 0 /\ 0 < N_CACHED_EXTERNAL_OUTPUTS
        BY <4>1, RequestsOK
      <4>3. st.cached[0] = n
        BY <1>1, <3>1, <4>2, TReviewed DEF Sorted
      <4> QED
        BY <2>1, <2>4, <4>3
    <3>3. External(k)' = External(k)
      BY <2>1, SameOutputs
    <3>4. Approved(k)'
      BY <3>2, <3>3, Zenon DEF Approved, Shown
    <3> QED
      BY <2>2, <3>1, <3>4 DEF Approved, External
  <2>5. Approved(NOut + 1)'
    <3>1. st.n_external = 0 \/ st.n_external = 1
      BY <1>1, TReviewed DEF Simplified
    <3> QED
      BY <2>3, <2>4, <3>1
  <2>6. ShownInv'
    BY <2>1, <2>5 DEF ShownInv
  <2> QED
    BY <1>1, <2>1, <2>6, TReview
<1> QED
  BY <1>2, <1>3 DEF display_simplified

\* A change output is not external.
LEMMA TChangeOutput ==
  ASSUME IInv, TInv, display_change_output
  PROVE  TInv'
<1>1. /\ pc = "review" /\ AtOutput /\ cur \in st.internal_outputs
      /\ ~Simplified /\ cur <= NOut /\ cur' = cur + 1
      /\ UNCHANGED <<build, req, pc, key, st, approved, leaf_ok, sigs, sw>>
  BY DEF display_change_output, AtOutput, InStage
<1>2. sigs = {} /\ cur \in Nat
  BY <1>1, TReviewed
<1>3. ASSUME Approved(cur) PROVE Approved(cur)'
  <2>1. PICK k \in Nat : k = cur
    BY <1>2
  <2>a. NOut \in Nat /\ Sorted(NOut + 1) /\ k \in st.internal_outputs
    BY <1>1, <2>1, TReviewed, Zenon
  <2>b. k \in 1 .. NOut /\ OutputInternal(k)
    BY <2>a, SortedOut, Zenon
  <2>2. OutputInternal(k) /\ k # 0
    BY <2>b
  <2>3. External(k + 1) = External(k)
    BY <2>2, ExternalNext
  <2>4. Approved(k + 1)
    BY <1>3, <2>1, <2>3 DEF Approved
  <2>5. Approved(k + 1)'
    BY <1>1, <2>4, SameReview
  <2> QED
    BY <1>1, <2>1, <2>5 DEF Approved, External
<1>4. ASSUME Approved(NOut + 1) PROVE Approved(NOut + 1)'
  BY <1>1, <1>4, SameReview, SameRequest
<1>5. ShownInv'
  BY <1>1, <1>2, <1>3, <1>4 DEF TInv, ShownInv
<1> QED
  BY <1>1, <1>5, TReview

\* An external output is approved.
LEMMA TShowOutput ==
  ASSUME IInv, TInv, NEW yes \in BOOLEAN, display_output(yes)
  PROVE  TInv'
<1>1. CASE Fail("NOT_SUPPORTED") \/ Deny
  BY <1>1, TFail DEF Deny
<1>2. CASE Approve({Shown(Displayed(cur))}) /\ cur' = cur + 1 /\ UNCHANGED <<pc, key>>
  <2>1. /\ pc = "review" /\ AtOutput /\ cur \notin st.internal_outputs
        /\ ~Simplified /\ cur <= NOut /\ cur' = cur + 1
        /\ UNCHANGED <<build, req, pc, key, st, sigs>>
        /\ approved' = approved \cup {Shown(Displayed(cur))}
    BY <1>2 DEF display_output, AtOutput, InStage, Approve
  <2>2. sigs = {} /\ cur \in Nat /\ NOut \in Nat
    BY <2>1, TReviewed
  <2>3. ASSUME Approved(cur) PROVE Approved(cur)'
    <3>1. PICK k \in Nat : k = cur
      BY <2>2
    <3>2. ASSUME NEW n \in External(k + 1) PROVE Shown(n) \in approved'
      <4>1. n \in 1 .. k
        BY DEF External
      <4>2. k \in 1 .. NOut /\ k # 0
        BY SMTT(30), ZenonT(20), <2>1, <2>2, <3>1, <4>1
      <4>3. ~OutputInternal(k) /\ Displayed(k) = k
        BY <2>1, <2>2, <3>1, <4>2, TReviewed, DisplayedIsOutput
      <4>4. External(k + 1) = External(k) \cup {k}
        BY <4>2, <4>3, ExternalNext
      <4>5. Shown(k) \in approved'
        BY <2>1, <3>1, <4>3
      <4> QED
        BY <2>1, <2>3, <3>1, <4>4, <4>5 DEF Approved
    <3>3. External(k + 1)' = External(k + 1)
      BY <2>1, SameOutputs
    <3>4. Approved(k + 1)'
      BY <3>2, <3>3, Zenon DEF Approved, Shown
    <3> QED
      BY <2>1, <3>1, <3>4 DEF Approved, External
  <2>4. ASSUME Approved(NOut + 1) PROVE Approved(NOut + 1)'
    BY <2>1, <2>4, SameReview, SameRequest
  <2>5. ShownInv'
    BY <2>1, <2>2, <2>3, <2>4 DEF TInv, ShownInv
  <2> QED
    BY <2>1, <2>5, TReview
<1> QED
  BY <1>1, <1>2 DEF display_output

\* display_transaction returns true after all its stages.
LEMMA TDisplayDone ==
  ASSUME IInv, TInv, display_done
  PROVE  TInv'
<1>1. /\ pc = "review" /\ pc' = "sign" /\ ~Simplified /\ key > 7
      /\ UNCHANGED <<build, req, st, approved, leaf_ok, sigs, sw>>
  BY StagesFacts DEF display_done, ToSigning
<1>2. Simplified' = Simplified /\ key \in Nat
  <2>1. UNCHANGED <<build, req, st>> /\ approved \subseteq approved'
    BY <1>1
  <2>2. Simplified' = Simplified
    BY <2>1, SameReview, Zenon
  <2>3. key \in Nat
    BY <1>1, TReviewed, Zenon
  <2> QED
    BY <2>2, <2>3
<1>3. req.policy.step > 2 => Approved(NOut + 1)
  BY SMTT(30), ZenonT(20), <1>1, <1>2 DEF TInv, ShownInv
<1>4. req.policy.step > 2 => Approved(NOut + 1)'
  BY <1>1, <1>3, SameReview, SameRequest
<1>5. ShownInv'
  BY <1>1, <1>2, <1>4 DEF ShownInv
<1> QED
  BY <1>1, <1>5, TReview

\* Signing changes nothing that was found or approved.
LEMMA TSign ==
  ASSUME IInv, TInv,
         \/ \E yes \in BOOLEAN : confirm_leafhash(yes)
         \/ \E code \in {"ERROR", "BAD_STATE"} : sign_fails(code)
         \/ sign_fails_silently \/ sign_asserts \/ dispatcher_responds
         \/ \E answered, agg \in BOOLEAN : sign_and_yield(answered, agg)
         \/ next_key_expression
         \/ get_output_fails
         \/ UNCHANGED vars /\ pc \in {"sign", "return", "exited"}
  PROVE  TInv'
<1>1. /\ UNCHANGED <<build, req, st, approved>>
      /\ pc' \in {"sign", "return", "exited"} /\ (pc' = "sign" => pc = "sign")
      /\ sigs' # {} => pc = "sign" \/ sigs # {}
  <2>1. CASE \E yes \in BOOLEAN : confirm_leafhash(yes)
    BY <2>1 DEF confirm_leafhash, Ready, Signing, Deny, Fail
  <2>2. CASE \E code \in {"ERROR", "BAD_STATE"} : sign_fails(code)
    BY <2>2 DEF sign_fails, Signing, Fail
  <2>3. CASE sign_fails_silently \/ sign_asserts \/ dispatcher_responds
    BY <2>3 DEF sign_fails_silently, sign_asserts, dispatcher_responds, Signing
  <2>4. CASE \E answered, agg \in BOOLEAN : sign_and_yield(answered, agg)
    BY <2>4 DEF sign_and_yield, Ready, Signing
  <2>5. CASE next_key_expression
    BY <2>5 DEF next_key_expression, Fail
  <2>6. CASE get_output_fails
    BY <2>6 DEF get_output_fails
  <2>7. CASE UNCHANGED vars /\ pc \in {"sign", "return", "exited"}
    BY <2>7 DEF vars
  <2> QED
    BY <2>1, <2>2, <2>3, <2>4, <2>5, <2>6, <2>7
<1> QED
  BY <1>1, TKeeps

\* A step that changes nothing.
LEMMA TStutter ==
  ASSUME TInv, UNCHANGED vars
  PROVE  TInv'
<1>1. UNCHANGED <<build, req, pc, key, cur, st, approved, sigs>> /\ NIn' = NIn /\ NOut' = NOut
  BY SameRequest DEF vars
<1>2. UNCHANGED <<build, req, st>> /\ approved \subseteq approved'
  BY <1>1
<1>3. /\ \A n : InTotal(n)' = InTotal(n) /\ OutTotal(n)' = OutTotal(n)
      /\ HighFee' = HighFee /\ Simplified' = Simplified
      /\ \A k : Sorted(k)' = Sorted(k)
      /\ \A k : Approved(k) => Approved(k)'
  BY <1>2, SameReview, Zenon
<1>4. /\ InTotal(cur - 1)' = InTotal(cur - 1) /\ InTotal(NIn)' = InTotal(NIn)
      /\ OutTotal(cur - 1)' = OutTotal(cur - 1) /\ OutTotal(NOut)' = OutTotal(NOut)
      /\ Sorted(cur)' = Sorted(cur) /\ Sorted(NOut + 1)' = Sorted(NOut + 1)
      /\ (Approved(cur) => Approved(cur)') /\ (Approved(NOut + 1) => Approved(NOut + 1)')
  BY <1>1, <1>3, Zenon
<1>5. TotalsInv'
  <2>1. ZeroState' = ZeroState
    BY DEF ZeroState, CacheSlots
  <2> QED
    BY <1>1, <1>3, <1>4, <2>1, Zenon DEF TInv, TotalsInv, Processed
<1>6. SortedInv'
  BY <1>1, <1>4, Zenon DEF TInv, SortedInv, Processed
<1>7. ShownInv'
  BY <1>1, <1>3, <1>4, Zenon DEF TInv, ShownInv
<1> QED
  BY <1>5, <1>6, <1>7 DEF TInv

\* Every step keeps the sums, the sorting of the outputs and what was shown.
LEMMA NextTInv == IInv /\ TInv /\ [Next]_vars => TInv'
<1> SUFFICES ASSUME IInv, TInv, [Next]_vars PROVE TInv'
  OBVIOUS
<1>1. CASE Step
  <2>1. ASSUME pc = "keys", NEW bad \in SUBSET KeyIds, fill_internal_key_expressions(bad)
        PROVE  TInv'
    BY <2>1, TFill
  <2>2. ASSUME NEW ok \in BOOLEAN,
               preprocess_inputs(ok) \/ preprocess_outputs(ok) \/ compute_tx_hashes(ok)
        PROVE  TInv'
    BY <2>2, TInput, TOutput, THashes
  <2>3. CASE inputs_done \/ outputs_done
    BY <2>3, TInputsDone, TOutputsDone
  <2>4. ASSUME NEW yes \in BOOLEAN,
               display_simplified(yes) \/ display_screen(yes) \/ display_output(yes)
        PROVE  TInv'
    BY <2>4, TSimplified, TScreen, TShowOutput
  <2>5. CASE display_change_output \/ next_stage \/ display_done
    BY <2>5, TChangeOutput, TNextStage, TDisplayDone
  <2>6. CASE \/ \E yes \in BOOLEAN : confirm_leafhash(yes)
             \/ \E code \in {"ERROR", "BAD_STATE"} : sign_fails(code)
             \/ sign_fails_silently \/ sign_asserts \/ dispatcher_responds
             \/ \E answered, agg \in BOOLEAN : sign_and_yield(answered, agg)
             \/ next_key_expression
             \/ get_output_fails
    BY <2>6, TSign
  <2>7. CASE dispatcher_returns
    BY <2>7, TOver DEF dispatcher_returns
  <2> QED
    BY <1>1, <2>1, <2>2, <2>3, <2>4, <2>5, <2>6, <2>7 DEF Step
<1>2. CASE relaunch
  BY <1>2, TOver DEF relaunch
<1>3. CASE \E r \in Requests, ok \in BOOLEAN : Begin(r, ok)
  BY <1>3, TBegin
<1>4. CASE UNCHANGED vars
  BY <1>4, TStutter
<1> QED
  BY <1>1, <1>2, <1>3, <1>4 DEF Next

\* The running totals, the cache and the approvals are those of the request in
\* every reachable state.
THEOREM TotalsInvariant == Spec => [](IInv /\ TInv)
<1>1. Init => TInv
  BY DEF Init, TInv, TotalsInv, SortedInv, ShownInv, Processed
<1>2. IInv /\ TInv /\ [Next]_vars => TInv'
  BY NextTInv
<1> QED
  BY <1>1, <1>2, Invariant, PTL DEF Spec

\* preprocess_outputs refuses a negative fee, and display_transaction has a fee
\* of a tenth or more of the inputs approved before anything is signed.
THEOREM FeeChecked == Spec => []FeeIsSane
<1>1. IInv /\ TInv => FeeIsSane
  <2> SUFFICES ASSUME IInv, TInv, sigs # {}, TotalIn < AmountMod, TotalOut < AmountMod
               PROVE  /\ TotalOut <= TotalIn
                      /\ /\ 10 * (TotalIn - TotalOut) < AmountMod
                         /\ 10 * (TotalIn - TotalOut) >= TotalIn
                         /\ TotalIn > HighFeeFloor
                         => Fact("high_fee") \in approved
    BY DEF FeeIsSane
  <2>1. req \in Psbts /\ Consented
    BY DEF IInv, KeysInv, ConsentInv
  <2>2. /\ st.in_total = TotalIn /\ st.out_total = TotalOut
        /\ st.out_total <= st.in_total /\ (HighFee => "high_fee" \in st.warnings)
        /\ TotalIn \in Nat /\ TotalOut \in Nat
    <3>1. /\ InTotal(NIn) /\ OutTotal(NOut) /\ st.out_total <= st.in_total
          /\ (HighFee => "high_fee" \in st.warnings)
      BY Zenon DEF TInv, TotalsInv, Processed
    <3>2. /\ TotalIn = Running(req.inputs)[NIn] /\ TotalOut = Running(req.outputs)[NOut]
          /\ NIn \in Nat /\ NOut \in Nat
          /\ Running(req.inputs) \in [0 .. NIn -> Nat]
          /\ Running(req.outputs) \in [0 .. NOut -> Nat]
      BY <2>1, RequestSums, Zenon
    <3>3. st.in_total = TotalIn /\ st.out_total = TotalOut
      BY <3>1, <3>2, Zenon DEF InTotal, OutTotal
    <3>4. TotalIn \in Nat /\ TotalOut \in Nat
      BY SMTT(30), ZenonT(20), <3>2
    <3> QED
      BY <3>1, <3>3, <3>4, Zenon
  <2>3. ASSUME 10 * (TotalIn - TotalOut) < AmountMod,
               10 * (TotalIn - TotalOut) >= TotalIn, TotalIn > HighFeeFloor
        PROVE  Fact("high_fee") \in approved
    <3>1. 10 * (TotalIn - TotalOut) \in 0 .. AmountMod - 1
      BY SMTT(30), ZenonT(20), <2>2, <2>3, RequestsOK
    <3>2. (10 * (TotalIn - TotalOut)) % AmountMod = 10 * (TotalIn - TotalOut)
      BY <3>1, SmallMod, RequestsOK
    <3>3. HighFee
      BY <2>2, <2>3, <3>2 DEF HighFee
    <3> QED
      BY <2>1, <2>2, <3>3 DEF Consented
  <2> QED
    BY <2>2, <2>3
<1> QED
  BY <1>1, TotalsInvariant, PTL

\* display_external_outputs and the single screen of NBGL show every output
\* that is not change, however cached and fetched ones are mixed.
THEOREM OutputsShown == Spec => []OutputsReviewed
<1>1. IInv /\ TInv => OutputsReviewed
  <2> SUFFICES ASSUME IInv, TInv, sigs # {}, req.policy.step > 2 \/ Simplified,
                      NEW n \in 1 .. NOut, ~OutputInternal(n)
               PROVE  Shown(n) \in approved
    BY DEF OutputsReviewed
  <2>a. pc \in {"sign", "return", "exited"}
    BY Zenon DEF IInv, ConsentInv
  <2>b. pc # "idle"
    BY <2>a
  <2>1. Approved(NOut + 1) /\ req \in Psbts
    BY <2>b, Zenon DEF TInv, ShownInv, IInv, KeysInv
  <2>c. NOut \in Nat
    BY <2>1, RequestSums
  <2>2. n \in External(NOut + 1)
    BY <2>c, SortedOut, Zenon
  <2> QED
    BY <2>1, <2>2 DEF Approved
<1> QED
  BY <1>1, TotalsInvariant, PTL
=============================================================================
