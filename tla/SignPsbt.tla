------------------------------ MODULE SignPsbt ------------------------------
(***************************************************************************)
(* The SIGN_PSBT command: handler_sign_psbt of handler/sign_psbt.c, from   *)
(* the request to the last status word.  The handler never holds the PSBT: *)
(* it fetches each part from the client when it needs it, checked against  *)
(* the Merkle roots of the request, in one pass that validates, one that   *)
(* reviews with the user and one that signs.  Every fetch may fail.        *)
(*                                                                         *)
(* A request is a record: its policy (the action that its name stands for, *)
(* its segwit version, its key expressions), its inputs and its outputs.   *)
(* What a hash commits to stands for the hash: a tapleaf hash is the pair  *)
(* of the leaf and the derivation path that its script is computed at.     *)
(***************************************************************************)
EXTENDS Integers, Sequences, FiniteSets

CONSTANTS Requests,                      \* the requests that clients send
          Builds,                        \* subset of {"BAGL", "NBGL"}
          Leaves, Paths, Root,           \* tapleaves, paths; Root is 0/0
          None,                          \* no leaf, no request, no leaf hash
          MAX_N_INPUTS_CAN_SIGN,
          MAX_INTERNAL_KEY_EXPRESSIONS,
          N_CACHED_EXTERNAL_OUTPUTS,
          MaxChange,                     \* 10 in the code
          AmountMod,                     \* 2^64 in the code
          HighFeeFloor                   \* 100000 in the code

Hashes == Leaves \X Paths

KeyExpressions ==
  [kind : {"normal", "musig"}, ours : BOOLEAN, leaf : Leaves \cup {None},
   fp : {"other", "leaf_display", "leaf_check", "finality"},
   pub : Hashes \cup {None}]
Policies == [step : -1 .. 5, segwit : -1 .. 1, keys : Seq(KeyExpressions)]
\* ACP is ANYONECANPAY | ALL; "other" is a type that the code does not know.
Sighashes == {"absent", "malformed", "DEFAULT", "ALL", "NONE", "SINGLE", "ACP", "other"}
Inputs == [nonwit : {"absent", "good", "bad"}, wit : {"absent", "good", "mismatch"},
           amount : Nat, hints : SUBSET Nat, ours : BOOLEAN, path : Paths,
           sighash : Sighashes]
Outputs == [amount : Nat, hints : SUBSET Nat, change : BOOLEAN,
            script : {"wallet", "standard", "odd"}]

Psbts == [policy : Policies, inputs : Seq(Inputs), outputs : Seq(Outputs)]

ASSUME RequestsOK ==
  /\ Requests \subseteq Psbts
  /\ Builds \subseteq {"BAGL", "NBGL"}
  /\ Root \in Paths
  /\ None \notin Requests /\ None \notin Leaves /\ None \notin Hashes
  /\ N_CACHED_EXTERNAL_OUTPUTS \in Nat \ {0}
  /\ AmountMod \in Nat \ {0} /\ MaxChange \in Nat /\ HighFeeFloor \in Nat
  /\ MAX_N_INPUTS_CAN_SIGN \in Nat /\ MAX_INTERNAL_KEY_EXPRESSIONS \in Nat

\* "ERROR" stands for the status words of a malformed request or a failed check.
StatusWords == {"OK", "DENY", "NOT_SUPPORTED", "BAD_STATE", "ERROR"}

VARIABLES build,     \* the UI library the app is compiled with
          req,       \* the request being served
          pc,        \* the step of the handler
          key, cur,  \* current key expression; current input, output, screen
          st,        \* sign_psbt_state_t and the two bit vectors
          approved,  \* what the user was shown and approved
          leaf_ok,   \* the user confirmed the leaf hash of this input
          sigs,      \* the signatures yielded
          sw         \* the status words sent

vars == <<build, req, pc, key, cur, st, approved, leaf_ok, sigs, sw>>

NIn == Len(req.inputs)
NOut == Len(req.outputs)
Segwit == req.policy.segwit
KeyIds == DOMAIN req.policy.keys

Warnings == {"missing_nonwitnessutxo", "non_default_sighash", "high_fee"}
Facts == [kind : Warnings \cup {"prompt", "name", "finality", "fee", "output"},
          output : Nat]
Fact(kind) == [kind |-> kind, output |-> 0]
Shown(n) == [kind |-> "output", output |-> n]

\* st.outputs.output_scripts and output_amounts; an output stands for both.
CacheSlots == 0 .. N_CACHED_EXTERNAL_OUTPUTS - 1

\* memset(&st, 0, sizeof(st))
ZeroState ==
  [internal |-> {}, to_sign |-> {}, leafhash |-> None, display |-> FALSE,
   finality |-> FALSE, in_total |-> 0, out_total |-> 0, warnings |-> {},
   n_external |-> 0, cached |-> [c \in CacheSlots |-> 0], internal_inputs |-> {},
   internal_outputs |-> {}]

States ==
  [internal : SUBSET Nat, to_sign : SUBSET Nat, leafhash : Hashes \cup {None},
   display : BOOLEAN, finality : BOOLEAN,
   in_total : 0 .. AmountMod - 1, out_total : 0 .. AmountMod - 1,
   warnings : SUBSET Warnings, n_external : Nat, cached : [CacheSlots -> Nat],
   internal_inputs : SUBSET Nat, internal_outputs : SUBSET Nat]

Signatures ==
  [key : Nat, input : Nat, algo : {"legacy", "v0", "v1"}, sighash : Sighashes,
   leaf : Hashes \cup {None}, leaf_ok : BOOLEAN,
   commits : [ins : SUBSET Nat, outs : SUBSET Nat]]

TypeOK ==
  /\ build \in Builds
  /\ req \in Psbts \cup {None}
  /\ pc \in {"idle", "keys", "inputs", "outputs", "hashes", "review", "sign",
             "return", "exited"}
  /\ key \in Nat /\ cur \in Nat
  /\ st \in States
  /\ approved \subseteq Facts
  /\ leaf_ok \in BOOLEAN
  /\ sigs \subseteq Signatures
  /\ sw \in Seq(StatusWords)

Init ==
  /\ build \in Builds
  /\ req = None /\ pc = "idle" /\ key = 0 /\ cur = 0
  /\ st = ZeroState /\ approved = {} /\ leaf_ok = FALSE
  /\ sigs = {} /\ sw = <<>>

\* A status word is sent and the handler returns; every early return.
Fail(code) ==
  /\ sw' = Append(sw, code)
  /\ pc' = "return"
  /\ UNCHANGED <<build, req, key, cur, st, approved, leaf_ok, sigs>>
-----------------------------------------------------------------------------
\* init_global_state: the request is read, the global map and the wallet
\* policy are fetched.  The hmac of the policy is read and never compared.
Begin(r, ok) ==
  /\ pc = "idle"
  /\ req' = r /\ cur' = 1
  /\ IF Len(r.inputs) > MAX_N_INPUTS_CAN_SIGN
     THEN pc' = "return" /\ sw' = <<"NOT_SUPPORTED">>
     ELSE IF ok THEN pc' = "keys" /\ sw' = <<>>
                ELSE pc' = "return" /\ sw' = <<"ERROR">>
  /\ UNCHANGED <<build, key, st, approved, leaf_ok, sigs>>

First(S) == CHOOSE k \in S : \A j \in S : k <= j
KeysWith(fps, bad) == {k \in KeyIds \ bad : req.policy.keys[k].fp \in fps}

\* Mutant of leaf_key: a later leaf hash overwrites the first.
last_leaf_key(bad) ==
  LET S == KeysWith({"leaf_display", "leaf_check"}, bad)
  IN  CHOOSE k \in S : \A j \in S : j <= k

\* get_and_verify_key_info takes the leaf hash only while it has none.
leaf_key(bad) == First(KeysWith({"leaf_display", "leaf_check"}, bad))

\* fill_internal_key_expressions.  A key expression whose key info cannot be
\* fetched (bad) is passed over like one that is not ours; the fingerprint
\* that marks a leaf hash or a finality key counts for ours and theirs alike.
fill_internal_key_expressions(bad) ==
  LET own == {k \in KeyIds \ bad : req.policy.keys[k].ours}
      has_leaf == KeysWith({"leaf_display", "leaf_check"}, bad) # {}
  IN  /\ pc = "keys"
      /\ IF Cardinality(own) > MAX_INTERNAL_KEY_EXPRESSIONS
         THEN Fail("NOT_SUPPORTED")
         ELSE IF own = {} THEN Fail("ERROR")
         ELSE /\ st' = [st EXCEPT
                   !.internal = own,
                   !.finality = KeysWith({"finality"}, bad) # {},
                   !.leafhash = IF has_leaf
                                THEN req.policy.keys[leaf_key(bad)].pub ELSE None,
                   !.display = has_leaf /\
                     req.policy.keys[leaf_key(bad)].fp = "leaf_display"]
              /\ pc' = "inputs"
              /\ UNCHANGED <<build, req, key, cur, approved, leaf_ok, sigs, sw>>
-----------------------------------------------------------------------------
\* input_keys_callback and output_keys_callback: the key expressions of ours
\* that a BIP-32 derivation of the map is compatible with.
Matching(map) == st.internal \cap map.hints

\* is_in_out_internal: some key expression was found (for an output, on the
\* change path) and the script is the wallet's at that path.
InputInternal(i) == Matching(req.inputs[i]) # {} /\ req.inputs[i].ours
OutputInternal(n) ==
  /\ Matching(req.outputs[n]) # {}
  /\ req.outputs[n].change
  /\ req.outputs[n].script = "wallet"

\* The checks on the UTXOs of any input.
UtxosRejected(in) ==
  \/ in.nonwit = "absent" /\ in.wit = "absent"
  \/ in.nonwit = "bad"
  \/ in.nonwit = "good" /\ in.wit = "mismatch"

usual_sighash(s) == s = "ALL" \/ (Segwit > 0 /\ s = "DEFAULT")
unusual_sighash(s) == Segwit >= 0 /\ s \in {"NONE", "SINGLE", "ACP"}

\* Mutant of InternalRejected: SIGHASH_SINGLE is not compared with n_outputs.
InternalRejectedNoSingle(i) ==
  LET in == req.inputs[i]
  IN  \/ Segwit = -1 /\ (in.nonwit = "absent" \/ in.wit # "absent")
      \/ Segwit >= 0 /\ in.wit = "absent"
      \/ /\ in.sighash # "absent"
         /\ ~usual_sighash(in.sighash) /\ ~unusual_sighash(in.sighash)

\* The further checks on an internal input.
InternalRejected(i) ==
  LET in == req.inputs[i]
  IN  \/ Segwit = -1 /\ (in.nonwit = "absent" \/ in.wit # "absent")
      \/ Segwit >= 0 /\ in.wit = "absent"
      \/ /\ in.sighash # "absent"
         /\ \/ ~usual_sighash(in.sighash) /\ ~unusual_sighash(in.sighash)
            \/ in.sighash = "SINGLE" /\ i > NOut

InputWarnings(i) ==
  {w \in Warnings :
     \/ /\ w = "missing_nonwitnessutxo"
        /\ Segwit = 0 /\ req.inputs[i].nonwit = "absent"
     \/ /\ w = "non_default_sighash"
        /\ req.inputs[i].sighash # "absent"
        /\ unusual_sighash(req.inputs[i].sighash)}

\* Mutant of InputState: the warnings of an input replace those before it.
InputStateForgets(i) ==
  [st EXCEPT
    !.to_sign = @ \cup Matching(req.inputs[i]),
    !.in_total = (@ + req.inputs[i].amount) % AmountMod,
    !.internal_inputs = IF InputInternal(i) THEN @ \cup {i} ELSE @,
    !.warnings = IF InputInternal(i) THEN InputWarnings(i) ELSE @]

\* What the loop of preprocess_inputs does to the state for one input.
InputState(i) ==
  [st EXCEPT
    !.to_sign = @ \cup Matching(req.inputs[i]),
    !.in_total = (@ + req.inputs[i].amount) % AmountMod,
    !.internal_inputs = IF InputInternal(i) THEN @ \cup {i} ELSE @,
    !.warnings = IF InputInternal(i) THEN @ \cup InputWarnings(i) ELSE @]

\* preprocess_inputs: the next input, or the end of the loop.
preprocess_inputs(ok) ==
  /\ pc = "inputs" /\ cur <= NIn
  /\ IF \/ ~ok
        \/ UtxosRejected(req.inputs[cur])
        \/ InputInternal(cur) /\ InternalRejected(cur)
     THEN Fail("ERROR")
     ELSE /\ st' = InputState(cur)
          /\ cur' = cur + 1
          /\ UNCHANGED <<build, req, pc, key, approved, leaf_ok, sigs, sw>>

inputs_done ==
  /\ pc = "inputs" /\ cur > NIn
  /\ pc' = "outputs" /\ cur' = 1
  /\ UNCHANGED <<build, req, key, st, approved, leaf_ok, sigs, sw>>
-----------------------------------------------------------------------------
\* Mutant of OutputState: a full cache starts again at its first slot.
OutputStateWraps(n) ==
  IF OutputInternal(n)
  THEN [st EXCEPT !.out_total = (@ + req.outputs[n].amount) % AmountMod,
                  !.internal_outputs = @ \cup {n}]
  ELSE [st EXCEPT !.out_total = (@ + req.outputs[n].amount) % AmountMod,
                  !.n_external = @ + 1,
                  !.cached =
                    [c \in CacheSlots |->
                       IF c = st.n_external % N_CACHED_EXTERNAL_OUTPUTS
                       THEN n ELSE @[c]]]

\* What the loop of preprocess_outputs does for one output: an external one is
\* counted, and cached while there is room.
OutputState(n) ==
  IF OutputInternal(n)
  THEN [st EXCEPT !.out_total = (@ + req.outputs[n].amount) % AmountMod,
                  !.internal_outputs = @ \cup {n}]
  ELSE [st EXCEPT !.out_total = (@ + req.outputs[n].amount) % AmountMod,
                  !.n_external = @ + 1,
                  !.cached =
                    [c \in CacheSlots |-> IF c = st.n_external THEN n ELSE @[c]]]

preprocess_outputs(ok) ==
  /\ pc = "outputs" /\ cur <= NOut
  /\ IF ~ok THEN Fail("ERROR")
     ELSE /\ st' = OutputState(cur)
          /\ cur' = cur + 1
          /\ UNCHANGED <<build, req, pc, key, approved, leaf_ok, sigs, sw>>

\* The end of preprocess_outputs: no negative fee, not too many change outputs.
outputs_done ==
  /\ pc = "outputs" /\ cur > NOut
  /\ IF st.in_total < st.out_total THEN Fail("ERROR")
     ELSE IF Cardinality(st.internal_outputs) > MaxChange
     THEN Fail("NOT_SUPPORTED")
     ELSE /\ pc' = "hashes"
          /\ UNCHANGED <<build, req, key, cur, st, approved, leaf_ok, sigs, sw>>

\* Mutant of HighFee: the factor is on the wrong side.
HighFeeSwapped ==
  /\ st.in_total - st.out_total >= (10 * st.in_total) % AmountMod
  /\ st.in_total > HighFeeFloor

\* The first line of display_transaction.
HighFee ==
  /\ (10 * (st.in_total - st.out_total)) % AmountMod >= st.in_total
  /\ st.in_total > HighFeeFloor

\* compute_tx_hashes fetches every input and output again; then the handler
\* enters display_transaction.
compute_tx_hashes(ok) ==
  /\ pc = "hashes"
  /\ IF ~ok THEN Fail("ERROR")
     ELSE /\ pc' = "review" /\ key' = 1 /\ cur' = 1
          /\ st' = [st EXCEPT !.warnings =
                      IF HighFee THEN @ \cup {"high_fee"} ELSE @]
          /\ UNCHANGED <<build, req, approved, leaf_ok, sigs, sw>>
-----------------------------------------------------------------------------
\* display_transaction.  A screen is approved or denied.  With NBGL one screen
\* shows a transaction that has at most one external output; otherwise the
\* screens come in the order of Stages, each only if it Applies.  The screen
\* that should show the fees last is absent: ui_validate_transaction returns
\* true without showing anything.
Simplified == build = "NBGL" /\ st.n_external <= 1

Stages == <<"prompt", "name", "missing_nonwitnessutxo", "non_default_sighash",
            "finality", "outputs", "high_fee">>

Applies(stage) ==
  CASE stage = "prompt"   -> build = "NBGL"
    [] stage = "name"     -> st.n_external > 0
    [] stage = "finality" -> st.n_external > 0 /\ st.finality
    [] stage = "outputs"  -> st.n_external > 0 /\ req.policy.step > 2
    [] OTHER              -> stage \in st.warnings

Deny == Fail("DENY")
Approve(facts) ==
  /\ approved' = approved \cup facts
  /\ UNCHANGED <<build, req, st, leaf_ok, sigs, sw>>

ToSigning == pc' = "sign" /\ key' = First(st.internal) /\ cur' = 1

\* ui_validate_transaction_simplified.
display_simplified(yes) ==
  /\ pc = "review" /\ Simplified
  /\ IF st.n_external = 1 /\ req.outputs[st.cached[0]].script = "odd"
     THEN Fail("NOT_SUPPORTED")
     ELSE IF ~yes THEN Deny
     ELSE /\ Approve({Fact("name"), Fact("fee")}
                     \cup {Fact(w) : w \in st.warnings}
                     \cup IF st.n_external = 1 THEN {Shown(st.cached[0])} ELSE {})
          /\ ToSigning

InStage == pc = "review" /\ ~Simplified /\ key <= Len(Stages)
NextStage == key' = key + 1 /\ cur' = 1 /\ UNCHANGED pc

\* A stage of one screen.  A name that is no Babylon action is denied unseen.
display_screen(yes) ==
  /\ InStage /\ Applies(Stages[key]) /\ Stages[key] # "outputs"
  /\ IF ~yes \/ (Stages[key] = "name" /\ req.policy.step < 0) THEN Deny
     ELSE Approve({Fact(Stages[key])}) /\ NextStage

\* display_external_outputs: the external outputs before output n in the order
\* of the transaction, and what is shown for n: the cached output, or n itself,
\* fetched again.
ExternalBefore(n) == Cardinality((1 .. n - 1) \ st.internal_outputs)
Displayed(n) ==
  IF ExternalBefore(n) < N_CACHED_EXTERNAL_OUTPUTS
  THEN st.cached[ExternalBefore(n)] ELSE n

AtOutput == /\ InStage /\ Stages[key] = "outputs" /\ Applies("outputs")
            /\ cur <= NOut

\* A change output is not shown.
display_change_output ==
  /\ AtOutput /\ cur \in st.internal_outputs
  /\ cur' = cur + 1
  /\ UNCHANGED <<build, req, pc, key, st, approved, leaf_ok, sigs, sw>>

display_output(yes) ==
  /\ AtOutput /\ cur \notin st.internal_outputs
  /\ IF req.outputs[Displayed(cur)].script = "odd" THEN Fail("NOT_SUPPORTED")
     ELSE IF ~yes THEN Deny
     ELSE Approve({Shown(Displayed(cur))}) /\ cur' = cur + 1 /\ UNCHANGED <<pc, key>>

\* get_output_script_and_amount fails and sends a status word, and so does its
\* caller.
get_output_fails ==
  /\ AtOutput /\ cur \notin st.internal_outputs
  /\ ExternalBefore(cur) >= N_CACHED_EXTERNAL_OUTPUTS
  /\ sw' = sw \o <<"ERROR", "ERROR">> /\ pc' = "return"
  /\ UNCHANGED <<build, req, key, cur, st, approved, leaf_ok, sigs>>

\* A stage that does not apply, or whose outputs have all been shown.
next_stage ==
  /\ InStage
  /\ Applies(Stages[key]) => Stages[key] = "outputs" /\ cur > NOut
  /\ NextStage
  /\ UNCHANGED <<build, req, st, approved, leaf_ok, sigs, sw>>

display_done ==
  /\ pc = "review" /\ ~Simplified /\ key > Len(Stages)
  /\ ToSigning
  /\ UNCHANGED <<build, req, st, approved, leaf_ok, sigs, sw>>
-----------------------------------------------------------------------------
\* sign_transaction: for each internal key expression, for each input.  The
\* flag to_sign, the second verdict on the key expression and the bit vector
\* of internal inputs are looked at and ignored.
Signing == pc = "sign" /\ cur <= NIn

CurKey == req.policy.keys[key]
CurInput == req.inputs[cur]

\* The path of the input's last compatible derivation; zeros without one.
CurPath == IF Matching(CurInput) # {} THEN CurInput.path ELSE Root

\* fill_taproot_keyexpr_info.
TapleafHash == IF CurKey.leaf = None THEN None ELSE <<CurKey.leaf, CurPath>>

\* sign_transaction_input: "Sign as segwit input iff it has a witness utxo".
Algo == IF CurInput.wit = "absent" THEN "legacy"
        ELSE IF Segwit = 0 THEN "v0" ELSE "v1"

SighashType == IF CurInput.sighash # "absent" THEN CurInput.sighash
               ELSE IF Algo = "v1" THEN "DEFAULT" ELSE "ALL"

Refused ==
  \/ CurInput.sighash = "malformed"
  \/ CurInput.wit # "absent" /\ Segwit = -1

\* LEDGER_ASSERT: only plain key expressions sign legacy and segwit v0 inputs.
Asserted == CurKey.kind = "normal" \/ Algo = "v1"

\* Mutant of LeafRefused: a policy without a leaf hash is not refused.
LeafRefusedIfGiven ==
  TapleafHash # None /\ st.leafhash # None /\ TapleafHash # st.leafhash

\* compute_sighash_segwitv1 on a tapscript: the policy must give the leaf hash.
LeafRefused ==
  TapleafHash # None /\ (st.leafhash = None \/ TapleafHash # st.leafhash)

RefusedV1 ==
  Algo = "v1" /\ ((SighashType = "SINGLE" /\ cur > NOut) \/ LeafRefused)

\* A fetch fails, the signature cannot be made, or there is no MuSig2 session.
sign_fails(code) == Signing /\ Fail(code)

\* fill_taproot_keyexpr_info fails, and so does musig_sign: no status word.
sign_fails_silently ==
  /\ Signing
  /\ CurKey.leaf # None \/ (CurKey.kind = "musig" /\ Algo = "v1")
  /\ pc' = "return"
  /\ UNCHANGED <<build, req, key, cur, st, approved, leaf_ok, sigs, sw>>

sign_asserts ==
  /\ Signing /\ ~Refused /\ ~Asserted
  /\ pc' = "exited"
  /\ UNCHANGED <<build, req, key, cur, st, approved, leaf_ok, sigs, sw>>

\* The screen of ui_confirm_leafhash is shown for every such input.
ConfirmsLeaf == Algo = "v1" /\ TapleafHash # None /\ st.display
Ready == Signing /\ ~Refused /\ Asserted /\ ~RefusedV1

confirm_leafhash(yes) ==
  /\ Ready /\ ConfirmsLeaf /\ ~leaf_ok
  /\ IF ~yes THEN Deny
     ELSE /\ leaf_ok' = TRUE
          /\ UNCHANGED <<build, req, pc, key, cur, st, approved, sigs, sw>>

\* The inputs and outputs that the three message digests commit to.
AllButFor(anyone, outs) ==
  [ins |-> IF anyone THEN {cur} ELSE 1 .. NIn, outs |-> outs]
compute_sighash_legacy == AllButFor(FALSE, 1 .. NOut)
compute_sighash_segwitv0 ==
  AllButFor(SighashType = "ACP",
            CASE SighashType = "NONE"   -> {}
              [] SighashType = "SINGLE" -> {cur} \cap 1 .. NOut
              [] OTHER                  -> 1 .. NOut)

\* Mutant of compute_sighash_segwitv1: sha_outputs for SIGHASH_ALL only.
compute_sighash_only_all ==
  AllButFor(SighashType = "ACP",
            CASE SighashType = "ALL"    -> 1 .. NOut
              [] SighashType = "SINGLE" -> {cur}
              [] OTHER                  -> {})
compute_sighash_segwitv1 ==
  AllButFor(SighashType = "ACP",
            CASE SighashType = "NONE"   -> {}
              [] SighashType = "SINGLE" -> {cur}
              [] OTHER                  -> 1 .. NOut)

Signature ==
  [key |-> key, input |-> cur, algo |-> Algo, sighash |-> SighashType,
   leaf |-> IF Algo = "v1" THEN TapleafHash ELSE None, leaf_ok |-> leaf_ok,
   commits |-> CASE Algo = "legacy" -> compute_sighash_legacy
                 [] Algo = "v0"     -> compute_sighash_segwitv0
                 [] Algo = "v1"     -> compute_sighash_segwitv1]

\* The signature leaves the device; then the client answers, or does not.
\* musig_nonce_agg may refuse the cosigners' nonces: a status word is sent, and
\* the partial signature is made all the same (agg is FALSE).
sign_and_yield(answered, agg) ==
  /\ Ready /\ (ConfirmsLeaf => leaf_ok)
  /\ ~agg => CurKey.kind = "musig"
  /\ sigs' = sigs \cup {Signature}
  /\ leaf_ok' = FALSE
  /\ sw' = (IF agg THEN sw ELSE Append(sw, "ERROR"))
           \o (IF answered THEN <<>> ELSE <<"BAD_STATE">>)
  /\ IF answered THEN cur' = cur + 1 /\ UNCHANGED pc
                 ELSE pc' = "return" /\ UNCHANGED cur
  /\ UNCHANGED <<build, req, key, st, approved>>

\* Mutant of KeysAfter: the last internal key expression is not reached.
KeysAfterShort == {k \in st.internal : k > key /\ \E j \in st.internal : j > k}

KeysAfter == {k \in st.internal : k > key}

\* All inputs are signed for this key expression: the next one, or SW_OK.
next_key_expression ==
  /\ pc = "sign" /\ cur > NIn
  /\ IF KeysAfter = {} THEN Fail("OK")
     ELSE /\ key' = First(KeysAfter) /\ cur' = 1
          /\ UNCHANGED <<build, req, pc, st, approved, leaf_ok, sigs, sw>>

\* The command is over, or a failed assertion has ended the app and the user
\* opens it again: nothing of the state of the handler is left.
Over ==
  /\ req' = None /\ pc' = "idle" /\ key' = 0 /\ cur' = 0
  /\ st' = ZeroState /\ approved' = {} /\ leaf_ok' = FALSE
  /\ sigs' = {} /\ sw' = <<>>
  /\ UNCHANGED build

\* Mutant of dispatcher_responds: the dispatcher trusts the handler.
dispatcher_trusts == pc = "return" /\ sw = <<>> /\ Over

\* apdu_dispatcher: a handler that sent nothing gets a status word sent for it.
dispatcher_responds ==
  /\ pc = "return" /\ sw = <<>>
  /\ sw' = <<"BAD_STATE">>
  /\ UNCHANGED <<build, req, pc, key, cur, st, approved, leaf_ok, sigs>>

dispatcher_returns == pc = "return" /\ sw # <<>> /\ Over
relaunch == pc = "exited" /\ Over

Step ==
  \/ pc = "keys" /\ \E bad \in SUBSET KeyIds : fill_internal_key_expressions(bad)
  \/ \E ok \in BOOLEAN : preprocess_inputs(ok) \/ preprocess_outputs(ok)
                         \/ compute_tx_hashes(ok)
  \/ inputs_done \/ outputs_done
  \/ \E yes \in BOOLEAN : \/ display_simplified(yes) \/ display_screen(yes)
                          \/ display_output(yes) \/ confirm_leafhash(yes)
  \/ display_change_output \/ get_output_fails \/ next_stage \/ display_done
  \/ \E code \in {"ERROR", "BAD_STATE"} : sign_fails(code)
  \/ sign_fails_silently \/ sign_asserts
  \/ \E answered, agg \in BOOLEAN : sign_and_yield(answered, agg)
  \/ next_key_expression
  \/ dispatcher_responds \/ dispatcher_returns

Next == Step \/ relaunch \/ \E r \in Requests, ok \in BOOLEAN : Begin(r, ok)

Spec == Init /\ [][Next]_vars
FairSpec == Spec /\ WF_vars(Step)
-----------------------------------------------------------------------------
Total(list) ==
  LET sum[n \in 0 .. Len(list)] ==
        IF n = 0 THEN 0 ELSE sum[n - 1] + list[n].amount
  IN  sum[Len(list)]
TotalIn == Total(req.inputs)
TotalOut == Total(req.outputs)

\* Every reason for a warning that an internal input gives, found while the
\* inputs were processed, was shown to the user and approved before the first
\* signature left the device, in both user interfaces.
WarningsApproved ==
  sigs # {} => \A i \in 1 .. NIn : InputInternal(i) =>
    \A w \in InputWarnings(i) : Fact(w) \in approved

\* Nothing is signed for a transaction that spends more than its inputs hold,
\* and a fee of a tenth or more of the inputs was shown as a warning.  (For
\* amounts whose sums do not wrap around.)
FeeIsSane ==
  sigs # {} /\ TotalIn < AmountMod /\ TotalOut < AmountMod =>
    /\ TotalOut <= TotalIn
    /\ /\ 10 * (TotalIn - TotalOut) < AmountMod
       /\ 10 * (TotalIn - TotalOut) >= TotalIn /\ TotalIn > HighFeeFloor
       => Fact("high_fee") \in approved

\* From BBN_POLICY_STAKE_TRANSFER on, and always on the single NBGL screen, the
\* user approved each output that is not change: the cached ones, the ones
\* fetched again, in any mixture with change outputs.
OutputsReviewed ==
  sigs # {} /\ (req.policy.step > 2 \/ Simplified) =>
    \A n \in 1 .. NOut : OutputInternal(n) \/ Shown(n) \in approved

\* A signature for an internal input commits to all inputs and outputs, so that
\* what leaves the device is what was reviewed, unless the user was warned of an
\* unusual sighash type and agreed.
SignedIsReviewed ==
  \A s \in sigs :
    InputInternal(s.input) /\ Fact("non_default_sighash") \notin approved =>
      s.commits = [ins |-> 1 .. NIn, outs |-> 1 .. NOut]

\* What was checked of an internal input when it was first fetched holds of
\* each signature made for it later, when it is fetched again: the algorithm is
\* the policy's, the sighash type is allowed there, SIGHASH_SINGLE has its
\* output, and the amount came from the verified previous transaction, from a
\* taproot output, or unverified with the user's consent.
CheckedBeforeSigned ==
  \A s \in sigs : InputInternal(s.input) =>
    LET in == req.inputs[s.input]
    IN  /\ s.algo = CASE Segwit = -1 -> "legacy" [] Segwit = 0 -> "v0"
                      [] OTHER -> "v1"
        /\ usual_sighash(s.sighash) \/ unusual_sighash(s.sighash)
        /\ s.sighash = "SINGLE" => s.input <= NOut
        /\ in.nonwit # "bad"
        /\ \/ in.nonwit = "good" /\ in.wit # "mismatch"
           \/ Segwit = 1
           \/ Fact("missing_nonwitnessutxo") \in approved

\* A tapscript is signed only if the policy commits to the hash of its leaf at
\* this input's own path, with the user's confirmation for this very input if
\* the commitment asks for it.
LeafCommitted ==
  \A s \in sigs : s.leaf # None =>
    \E k \in KeyIds :
      /\ req.policy.keys[k].pub = s.leaf
      /\ \/ req.policy.keys[k].fp = "leaf_check"
         \/ req.policy.keys[k].fp = "leaf_display" /\ s.leaf_ok

\* SW_OK means that every internal key expression has signed every input.
AllSigned ==
  "OK" \in {sw[n] : n \in DOMAIN sw} =>
    \A k \in st.internal, i \in 1 .. NIn :
      \E s \in sigs : s.key = k /\ s.input = i

\* Every command is answered, or ends the app.
Responds == pc = "keys" ~> sw # <<>> \/ pc = "exited"
-----------------------------------------------------------------------------
\* What the documentation says, and the code does not do.

\* doc/bitcoin.md, SIGN_PSBT: the command "signs each of the internal inputs".
SignsInternalOnly == \A s \in sigs : InputInternal(s.input)
=============================================================================
