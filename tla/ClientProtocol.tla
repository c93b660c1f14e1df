--------------------------- MODULE ClientProtocol ----------------------------
(***************************************************************************)
(* How a handler reads a PSBT map that only the client stores.  The device *)
(* holds a commitment: the number of entries and the Merkle roots of the   *)
(* keys and of the values.  It checks once that the keys are sorted, then  *)
(* looks keys up: the client names an index, proves that the key is there, *)
(* and proves the value of the same index.  Everything the client says may *)
(* be wrong.                                                               *)
(* Modelled: call_get_merkle_leaf_element, call_get_merkle_leaf_index,     *)
(* call_get_merkleized_map and _value, _value_hash and their streams, and  *)
(* call_check_merkle_tree_sorted; MerkleProof and Preimage are the two     *)
(* exchanges they are made of.                                             *)
(***************************************************************************)
EXTENDS MerkleProof, Preimage

CONSTANTS
  Less(_, _),           \* compare_byte_arrays is negative
  Commitment(_),        \* the commitment an element encodes, or NoMap
  NoMap,
  ElementHash(_),       \* merkle_compute_element_hash
  Depth(_, _),          \* the number of directions of an index, merkle_get_ith_direction
  Keys,                 \* what the handlers look up
  Commitments,          \* the commitments of global maps
  MapTrees,             \* <<root, size, index>> of the maps of inputs and outputs
  Piece(_),             \* what the client may send after what it sent
  Lengths,              \* the lengths it may announce
  Answers,              \* the indices it may answer
  MAX_LOOKUPS,          \* lookups of a handler
  RoomOf(_)             \* the output buffer of an element, by the task that reads it

MapType == [size : Sizes, keys_root : Roots, values_root : Roots]

ASSUME ClientConstants ==
  /\ Commitments \subseteq MapType /\ Sizes \subseteq Nat /\ Keys # {}
  /\ MapTrees \subseteq Roots \X Sizes \X Indices
  /\ \A s \in Sizes : 0 .. s - 1 \subseteq Indices
  /\ Hash \subseteq Digest /\ MAX_LOOKUPS \in Nat
  /\ \A t \in {"map", "sorted", "value", "stream"} : RoomOf(t) \in Nat

VARIABLES
  task,         \* "start", "map", "sorted", "ready", "ask_index", "index", "ended", or the
                \* kind of a lookup: "value", "value_hash", "stream"
  sub,          \* the exchange in progress: "none", "proof", "preimage"
  map,          \* the commitment
  cur_el_idx, prev_el,
  key, how,     \* the lookup in progress
  lookups,      \* how many there were
  answers,      \* history: <<key, hash of the value>> of the lookups that returned one
  values,       \* history: <<key, value>> of those that returned the value
  plain         \* history: every accepted proof was of an index of the tree and reached a
                \* leaf, and every element is short and starts in its first piece

mapVars == <<task, sub, map, cur_el_idx, prev_el, key, how, lookups, answers, values, plain>>
vars == <<proofVars, preimageVars, mapVars>>

Ways == {"value", "value_hash", "stream"}
Elements == {"map", "sorted", "value"}

Init ==
  /\ ProofInit /\ PreimageInit
  /\ task = "start" /\ sub = "none" /\ map = NoMap /\ cur_el_idx = 0 /\ prev_el = <<>>
  /\ key = (CHOOSE k \in Keys : TRUE) /\ how = "value" /\ lookups = 0
  /\ answers = {} /\ values = {} /\ plain = TRUE

-----------------------------------------------------------------------------
\* The answers to the proof and preimage requests.
ProofStep ==
  /\ sub = "proof"
  /\ \/ ProofRefused
     \/ \E h \in Hash, length, n \in 0 .. MAX_PROOF : LeafAnswer(h, length, n)
     \/ \E sibling \in Hash : VerifyStep(sibling)
     \/ ProofTooLong \/ AskMoreProof
     \/ \E n \in 0 .. MAX_PROOF : MoreProof(n)
     \/ CheckRoot
  /\ UNCHANGED <<preimageVars, mapVars>>

PreimageStep ==
  /\ sub = "preimage"
  /\ \/ PreimageRefused
     \/ /\ phase = "asked"
        /\ \E length \in Lengths, piece \in Piece(<<>>) :
             /\ length \in Nat /\ piece \in Seq(Byte)
             /\ FirstPiece(length, piece) \/ FirstRefused(length, piece)
     \/ /\ phase = "more"
        /\ \E piece \in Piece(hashed) :
             piece \in Seq(Byte) /\ (MorePiece(piece) \/ PieceRefused(piece))
     \/ CheckHash
  /\ UNCHANGED <<proofVars, mapVars>>

\* A call fails: the checks of a map end the handler, a lookup reports that the key is absent.
FailWith ==
  /\ task' = IF task \in {"map", "sorted"} THEN "ended" ELSE "ready"
  /\ sub' = "none" /\ ProofReturns /\ PreimageReturns
  /\ UNCHANGED <<map, cur_el_idx, prev_el, key, how, lookups, answers, values>>

SubFailed ==
  /\ \/ sub = "proof" /\ stage = "failed"
     \/ sub = "preimage" /\ phase = "failed"
  /\ FailWith /\ UNCHANGED plain

AtLeaf == index < size /\ proof_size = Depth(size, index)

ShortElement == total < LONG /\ first # 0

\* The leaf hash of an element is known: its preimage is asked for.
LeafToPreimage ==
  /\ sub = "proof" /\ stage = "ok" /\ task \in Elements \cup {"stream"}
  /\ AskPreimage(IF task = "stream" THEN "stream" ELSE "merkle", out, RoomOf(task))
  /\ ProofReturns /\ sub' = "preimage" /\ plain' = (plain /\ AtLeaf)
  /\ UNCHANGED <<task, map, cur_el_idx, prev_el, key, how, lookups, answers, values>>

-----------------------------------------------------------------------------
\* The commitment of the index-th map of the inputs or outputs.
GetMap(tree) ==
  /\ task = "start"
  /\ AskLeaf(tree[1], tree[2], tree[3])
  /\ task' = "map" /\ sub' = "proof"
  /\ UNCHANGED <<map, cur_el_idx, prev_el, key, how, lookups, answers, values, plain>>
  /\ UNCHANGED preimageVars

\* call_check_merkle_tree_sorted, after the element el, asks for the idx-th, or ends.
AskSorted(m, idx, el) ==
  /\ PreimageReturns
  /\ \/ /\ idx < m.size /\ task' = "sorted" /\ sub' = "proof"
        /\ cur_el_idx' = idx /\ prev_el' = el
        /\ AskLeaf(m.keys_root, m.size, idx)
     \/ /\ idx >= m.size /\ task' = "ready" /\ sub' = "none"
        /\ cur_el_idx' = 0 /\ prev_el' = <<>> /\ UNCHANGED proofVars

\* The global map comes with the command.
GlobalMap(m) ==
  /\ task = "start"
  /\ map' = m /\ AskSorted(m, 0, <<>>)
  /\ UNCHANGED <<key, how, lookups, answers, values, plain>>

ParseMap ==
  /\ sub = "preimage" /\ phase = "ok" /\ task = "map" /\ plain' = (plain /\ ShortElement)
  /\ \/ /\ Commitment(given) \notin MapType /\ FailWith
     \/ /\ Commitment(given) \in MapType
        /\ map' = Commitment(given) /\ AskSorted(Commitment(given), 0, <<>>)
        /\ UNCHANGED <<key, how, lookups, answers, values>>

\* Mutant: equal neighbours pass.
NotGreater == cur_el_idx > 0 => ~Less(given, prev_el)

InOrder == cur_el_idx > 0 => Less(prev_el, given)

SortedElement ==
  /\ sub = "preimage" /\ phase = "ok" /\ task = "sorted"
  /\ plain' = (plain /\ ShortElement)
  /\ \/ /\ ~InOrder /\ FailWith
     \/ /\ InOrder
        /\ AskSorted(map, cur_el_idx + 1, given)
        /\ UNCHANGED <<map, key, how, lookups, answers, values>>

-----------------------------------------------------------------------------
\* A handler looks up a key: call_get_merkle_leaf_index asks for its index.
Lookup(k, way) ==
  /\ task = "ready" /\ lookups < MAX_LOOKUPS
  /\ task' = "ask_index" /\ sub' = "none" /\ key' = k /\ how' = way /\ lookups' = lookups + 1
  /\ UNCHANGED <<proofVars, preimageVars, map, cur_el_idx, prev_el, answers, values, plain>>

IndexRefused ==
  task = "ask_index" /\ FailWith /\ UNCHANGED plain

\* The index is truncated to 32 bits for the proof.
IndexAnswer(i) ==
  /\ task = "ask_index" /\ i % U32 \in Indices
  /\ AskLeaf(map.keys_root, map.size, i % U32)
  /\ task' = "index" /\ sub' = "proof"
  /\ UNCHANGED <<map, cur_el_idx, prev_el, key, how, lookups, answers, values, plain>>
  /\ UNCHANGED preimageVars

\* Mutant: whatever is at the index of the answer.
IsAnyKey == index < U32 \div 2

\* The leaf at the index is the key, and the index is not negative as an int.
IsKey == out = ElementHash(key) /\ index < U32 \div 2

KeyChecked ==
  /\ task = "index" /\ sub = "proof" /\ stage = "ok" /\ plain' = (plain /\ AtLeaf)
  /\ \/ /\ ~IsKey /\ FailWith
     \/ /\ IsKey /\ task' = how /\ sub' = "proof"
        /\ AskLeaf(map.values_root, map.size, index)
        /\ UNCHANGED <<map, cur_el_idx, prev_el, key, how, lookups, answers, values>>
        /\ UNCHANGED preimageVars

\* The hash of the value was asked for.
ValueHash ==
  /\ task = "value_hash" /\ sub = "proof" /\ stage = "ok"
  /\ answers' = answers \cup {<<key, out>>}
  /\ plain' = (plain /\ AtLeaf) /\ task' = "ready" /\ sub' = "none"
  /\ ProofReturns
  /\ UNCHANGED <<preimageVars, map, cur_el_idx, prev_el, key, how, lookups, values>>

\* The value is in the buffer, or was streamed.
Value ==
  /\ task \in {"value", "stream"} /\ sub = "preimage" /\ phase = "ok"
  /\ answers' = answers \cup {<<key, want>>} /\ values' = values \cup {<<key, given>>}
  /\ plain' = (plain /\ ShortElement) /\ task' = "ready" /\ sub' = "none"
  /\ PreimageReturns
  /\ UNCHANGED <<proofVars, map, cur_el_idx, prev_el, key, how, lookups>>

Next ==
  \/ ProofStep \/ PreimageStep \/ SubFailed \/ LeafToPreimage
  \/ \E tree \in MapTrees : GetMap(tree)
  \/ \E m \in Commitments : GlobalMap(m)
  \/ ParseMap \/ SortedElement
  \/ \E k \in Keys, way \in Ways : Lookup(k, way)
  \/ IndexRefused
  \/ \E i \in Answers : IndexAnswer(i)
  \/ KeyChecked \/ ValueHash \/ Value

Spec == Init /\ [][Next]_vars

-----------------------------------------------------------------------------
Tasks == {"start", "map", "sorted", "ready", "ask_index", "index", "ended"} \cup Ways

\* The states of the handler once the keys of the map are known to be sorted.
Looking == {"ready", "ask_index", "index"} \cup Ways

TypeOK ==
  /\ ProofTypeOK /\ PreimageTypeOK
  /\ task \in Tasks /\ sub \in {"none", "proof", "preimage"}
  /\ map \in MapType \cup {NoMap} /\ (task \in Looking \cup {"sorted"} => map \in MapType)
  /\ cur_el_idx \in Nat /\ prev_el \in Seq(Byte)
  /\ key \in Keys /\ how \in Ways /\ lookups \in 0 .. MAX_LOOKUPS
  /\ answers \subseteq Keys \X Digest /\ plain \in BOOLEAN
  /\ sub # "none" => task \in {"map", "sorted", "index"} \cup Ways

LeafAt(r, s, i) == Path(r, s, i, Depth(s, i))

\* call_check_merkle_tree_sorted: once it has passed, no two leaves of the keys are the same,
\* although the device saw them one at a time.
KeysDistinct ==
  task \in Looking /\ plain =>
    \A i, j \in 0 .. map.size - 1 :
      LeafAt(map.keys_root, map.size, i) = LeafAt(map.keys_root, map.size, j) => i = j

\* call_get_merkleized_map_value and its variants: a value that is returned for a key is the
\* value at an index where the key itself is.
LookupIsBound ==
  plain =>
    \A a \in answers : \E i \in 0 .. map.size - 1 :
      /\ LeafAt(map.keys_root, map.size, i) = ElementHash(a[1])
      /\ LeafAt(map.values_root, map.size, i) = a[2]

\* Whatever the client answers to two lookups of a key of one map, in any of the three ways,
\* both fail, one fails, or both return the same value.
LookupsAgree ==
  plain =>
    /\ \A a, b \in answers : a[1] = b[1] => a[2] = b[2]
    /\ \A v, w \in values : v[1] = w[1] => v[2] = w[2]
==============================================================================
