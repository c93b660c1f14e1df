-------------------------- MODULE MCClientProtocol ---------------------------
(***************************************************************************)
(* Instance of ClientProtocol: maps of up to three entries whose keys are  *)
(* sorted, unsorted or repeated, whose commitment may announce the wrong   *)
(* size, and a client that answers any hash, byte and index of the model.  *)
(***************************************************************************)
EXTENDS ClientProtocol, MerkleData, FiniteSets

B(n) == <<"byte", n>>
KeyA == <<B(1)>>
KeyB == <<B(1), B(2)>>
KeyC == <<B(2)>>
ValueX == <<B(7)>>
ValueY == <<B(7), B(8), B(9)>>
LongValue == <<B(6), B(7), B(8), B(9)>>

\* The hashes of the model and their preimages.
H(name) == <<"hash", name>>
Leaves ==
  [kA |-> KeyA, kB |-> KeyB, kC |-> KeyC, vX |-> ValueX, vY |-> ValueY, vL |-> LongValue,
   mGood |-> <<B(3), H("kABC"), H("vXYL")>>, mWrong |-> <<B(2), H("kABC"), H("vXY")>>]
Nodes ==
  [kAB |-> <<"kA", "kB">>, kABC |-> <<"kAB", "kC">>, kBA |-> <<"kB", "kA">>,
   kAA |-> <<"kA", "kA">>, vXY |-> <<"vX", "vY">>, vXYL |-> <<"vXY", "vL">>,
   mBoth |-> <<"mWrong", "mGood">>]
Known == {H(name) : name \in DOMAIN Leaves \cup DOMAIN Nodes}
MCHash == Known \cup {Junk}
MCByte == {B(n) : n \in 0 .. 9} \cup MCHash
Stray == B(5)

PreimageOf(h) ==
  IF h[2] \in DOMAIN Leaves THEN <<LeafPrefix>> \o Leaves[h[2]]
  ELSE <<NodePrefix, H(Nodes[h[2]][1]), H(Nodes[h[2]][2])>>
Preimages == {PreimageOf(h) : h \in Known}
ShaTable == [bytes \in Preimages |-> CHOOSE h \in Known : PreimageOf(h) = bytes]

\* Hashes outside the model are one hash: nothing the device knows is made of them.
MCSha(bytes) == IF bytes \in Preimages THEN ShaTable[bytes] ELSE Junk
MCElementHash(e) == MCSha(merkle_element(e))
MCCombine(l, r) == MCSha(merkle_combined(l, r))

\* The tree of RFC 6962: the left subtree has the largest power of two below the size.
RECURSIVE TreeHash(_)
TreeHash(elements) ==
  IF Len(elements) = 1 THEN MCElementHash(elements[1])
  ELSE LET n == Len(elements)
           k == CHOOSE p \in {1, 2, 4} : p < n /\ n <= 2 * p
       IN  MCCombine(TreeHash(SubSeq(elements, 1, k)), TreeHash(SubSeq(elements, k + 1, n)))

Good == Leaves.mGood
Wrong == Leaves.mWrong
Encoded(n, keys, vals) == <<B(n), TreeHash(keys), TreeHash(vals)>>
Lists ==
  {<<KeyA>>, <<KeyA, KeyB, KeyC>>, <<KeyB, KeyA>>, <<KeyA, KeyA>>, <<ValueY>>,
   <<ValueX, ValueY>>, <<ValueX, ValueY, LongValue>>, <<Good>>, <<Wrong, Good>>}

MCSizes == 0 .. 3
MCIndices == 0 .. 7
MaxProof == 2
MCDepth(s, i) ==
  Cardinality({d \in 0 .. MaxProof : merkle_get_ith_direction(s, i, d) # -1})
DirectionTable ==
  [s \in MCSizes, i \in MCIndices, d \in 0 .. MaxProof |-> merkle_get_ith_direction(s, i, d)]
MCDirection(s, i, d) == DirectionTable[s, i, d]

RECURSIVE NodeAt(_, _, _, _)
NodeAt(r, s, i, d) ==
  IF d = 0 THEN r
  ELSE LET up == NodeAt(r, s, i, d - 1)
           way == MCDirection(s, i, d - 1)
       IN  IF up[2] \in DOMAIN Nodes /\ way # -1 THEN H(Nodes[up[2]][1 + way])
           ELSE <<"hash", "none">>
PathTable ==
  [r \in Known, s \in MCSizes, i \in MCIndices, d \in 0 .. MaxProof |-> NodeAt(r, s, i, d)]
MCPath(r, s, i, d) == PathTable[r, s, i, d]

\* Preimages of the known hashes, and bytes that are nobody's preimage, cut anywhere.
Data == Preimages \cup {<<LeafPrefix, B(5), B(5)>>, <<B(5)>>}
Sent == UNION {{SubSeq(d, 1, n) : n \in 0 .. Len(d)} : d \in Data}
PieceTable ==
  [sent \in Sent |->
     {SubSeq(d, Len(sent) + 1, Len(d)) : d \in {x \in Sent : Len(x) >= Len(sent)
                                               /\ SubSeq(x, 1, Len(sent)) = sent}}]
MCPiece(sent) == PieceTable[sent]

TreeOf(list, i) == <<TreeHash(list), Len(list), i>>
MCMapTrees == {TreeOf(<<Good>>, 0), TreeOf(<<Wrong, Good>>, 0), TreeOf(<<Wrong, Good>>, 1)}
MCCommitments ==
  {read_commitment(e) : e \in
     {Good, Wrong, Encoded(2, <<KeyB, KeyA>>, <<ValueX, ValueY>>),
      Encoded(2, <<KeyA, KeyA>>, <<ValueX, ValueY>>), Encoded(1, <<KeyA>>, <<ValueY>>),
      Encoded(0, <<KeyA>>, <<ValueY>>)}}
MCKeys == {KeyA, KeyB}
MCRoom(t) == IF t = "value" THEN 2 ELSE IF t = "map" THEN 3 ELSE 4
MCLengths == {0, 1, 2, 3, 4, 5, 8 + 3}
MCAnswers == {0, 1, 4, 8 + 1}

-----------------------------------------------------------------------------
\* merkle_get_ith_direction: for a tree built as RFC 6962 says, the leaf that is accepted for
\* an index is the leaf of the element with that index.
AcceptedIsLeaf ==
  stage = "ok" /\ AtLeaf =>
    \A list \in Lists :
      TreeHash(list) = root /\ Len(list) = size => out = MCElementHash(list[index + 1])
==============================================================================
