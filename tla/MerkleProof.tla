----------------------------- MODULE MerkleProof -----------------------------
(***************************************************************************)
(* call_get_merkle_leaf_hash: the device asks the client for the leaf hash *)
(* at an index of a Merkle tree of which it knows the root and the size,   *)
(* and verifies the proof while its elements arrive in several messages.   *)
(* The client may answer anything.  Hashes are abstract: Combine stands    *)
(* for merkle_combine_hashes, which nobody can invert in two ways.         *)
(***************************************************************************)
EXTENDS Integers

CONSTANTS
  Hash,                 \* the hashes
  Roots,                \* those the device knows as roots
  Combine(_, _),        \* the hash of an inner node from those of its children
  Direction(_, _, _),   \* merkle_get_ith_direction: 0 left, 1 right, -1 no such node
  Path(_, _, _, _),     \* Path(root, size, index, d): the node d steps below the root on
                        \* the way to the index (any hash where there is none)
  Sizes,                \* sizes of trees
  Indices,              \* indices of leaves
  MAX_PROOF             \* the largest proof_size, 255

ASSUME ProofConstants ==
  /\ MAX_PROOF \in Nat /\ Indices \subseteq Nat /\ Roots \subseteq Hash
  /\ Roots # {} /\ 0 \in Sizes /\ 0 \in Indices
  /\ \A l, r \in Hash : Combine(l, r) \in Hash

\* The children of a node that is a Combine are what it combines: merkle_combine_hashes has
\* no collisions below a root the device knows.
ASSUME PathFollows ==
  \A r \in Roots, s \in Sizes, i \in Indices :
    /\ Path(r, s, i, 0) = r
    /\ \A d \in 0 .. MAX_PROOF : Path(r, s, i, d) \in Hash => Path(r, s, i, d) \in Roots
    /\ \A d \in 0 .. MAX_PROOF - 1, x, y \in Hash :
         Path(r, s, i, d) = Combine(x, y) =>
           /\ Direction(s, i, d) = 0 => Path(r, s, i, d + 1) = x
           /\ Direction(s, i, d) = 1 => Path(r, s, i, d + 1) = y

VARIABLES
  stage,        \* "idle", "asked", "verify", "more", "ok", "failed"
  root, size, index,
  out,          \* the leaf hash, copied before it is verified
  cur_hash, cur_step, end_step, proof_size

proofVars == <<stage, root, size, index, out, cur_hash, cur_step, end_step, proof_size>>

AnyRoot == CHOOSE r \in Roots : TRUE

ProofInit ==
  /\ stage = "idle" /\ root = AnyRoot /\ size = 0 /\ index = 0
  /\ out = root /\ cur_hash = root /\ cur_step = 0 /\ end_step = 0 /\ proof_size = 0

\* The locals of a call, before they are set and after it failed.
Blank(r) ==
  out' = r /\ cur_hash' = r /\ cur_step' = 0 /\ end_step' = 0 /\ proof_size' = 0

\* The request.
AskLeaf(r, s, i) ==
  root' = r /\ size' = s /\ index' = i /\ stage' = "asked" /\ Blank(r)

\* The call is over and its frame is gone.
ProofReturns ==
  /\ stage' = "idle" /\ root' = AnyRoot /\ size' = 0 /\ index' = 0 /\ Blank(AnyRoot)

ProofFails == stage' = "failed" /\ Blank(root) /\ UNCHANGED <<root, size, index>>

\* No answer, one that is too short, or one with more elements than it announces.
ProofRefused ==
  stage \in {"asked", "more"} /\ ProofFails

\* The answer: the leaf hash h, the length of the proof, and its first n elements.
LeafAnswer(h, length, n) ==
  /\ stage = "asked" /\ n <= length
  /\ out' = h /\ cur_hash' = h /\ proof_size' = length
  /\ cur_step' = 0 /\ end_step' = n /\ stage' = "verify"
  /\ UNCHANGED <<root, size, index>>

StepDirection == Direction(size, index, proof_size - cur_step - 1)

\* One element of the proof.
VerifyStep(sibling) ==
  /\ stage = "verify" /\ cur_step < end_step
  /\ \/ StepDirection = 0 /\ cur_hash' = Combine(cur_hash, sibling)
     \/ StepDirection = 1 /\ cur_hash' = Combine(sibling, cur_hash)
  /\ cur_step' = cur_step + 1
  /\ UNCHANGED <<stage, root, size, index, out, end_step, proof_size>>

ProofTooLong ==
  /\ stage = "verify" /\ cur_step < end_step /\ StepDirection \notin {0, 1}
  /\ ProofFails

AskMoreProof ==
  /\ stage = "verify" /\ cur_step = end_step /\ cur_step # proof_size
  /\ stage' = "more"
  /\ UNCHANGED <<root, size, index, out, cur_hash, cur_step, end_step, proof_size>>

\* n more elements (none is possible).
MoreProof(n) ==
  /\ stage = "more" /\ cur_step + n <= proof_size
  /\ end_step' = cur_step + n /\ stage' = "verify"
  /\ UNCHANGED <<root, size, index, out, cur_hash, cur_step, proof_size>>

RootMatches == cur_hash = root

CheckRoot ==
  /\ stage = "verify" /\ cur_step = end_step /\ cur_step = proof_size
  /\ \/ /\ RootMatches /\ stage' = "ok"
        /\ UNCHANGED <<root, size, index, out, cur_hash, cur_step, end_step, proof_size>>
     \/ ~RootMatches /\ ProofFails

ProofNext ==
  \/ \E r \in Roots, s \in Sizes, i \in Indices :
       AskLeaf(r, s, i)
  \/ ProofReturns \/ ProofRefused
  \/ \E h \in Hash, length, n \in 0 .. MAX_PROOF : LeafAnswer(h, length, n)
  \/ \E sibling \in Hash : VerifyStep(sibling)
  \/ ProofTooLong \/ AskMoreProof
  \/ \E n \in 0 .. MAX_PROOF : MoreProof(n)
  \/ CheckRoot

ProofSpec == ProofInit /\ [][ProofNext]_proofVars

-----------------------------------------------------------------------------
ProofTypeOK ==
  /\ stage \in {"idle", "asked", "verify", "more", "ok", "failed"}
  /\ root \in Roots /\ size \in Sizes /\ index \in Indices
  /\ out \in Hash /\ cur_hash \in Hash
  /\ proof_size \in 0 .. MAX_PROOF /\ end_step \in 0 .. proof_size
  /\ cur_step \in 0 .. end_step

\* While a proof is verified: if the current hash is the node of the path at its height,
\* then the leaf hash is the node of the path at the end of the proof.
ClimbsPath ==
  stage \in {"verify", "more"} =>
    (cur_hash = Path(root, size, index, proof_size - cur_step)
       => out = Path(root, size, index, proof_size))

\* Whatever the client answers, in however many messages: an accepted hash is the node that
\* the path of this index reaches in this tree after proof_size steps.
AcceptedIsOnPath ==
  stage = "ok" => out = Path(root, size, index, proof_size)
==============================================================================
