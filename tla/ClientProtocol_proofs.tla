------------------------ MODULE ClientProtocol_proofs ------------------------
(***************************************************************************)
(* Proofs about the data the client sends, for all trees, all answers and  *)
(* all ways to cut them into messages: an accepted hash is on the path of  *)
(* its index; a delivered preimage is what was hashed; and the handler     *)
(* that reads a map is made of these exchanges, so that its lookups are    *)
(* bound to the roots and agree.                                           *)
(***************************************************************************)
EXTENDS ClientProtocol, SequenceTheorems, TLAPS

\* The variables keep their types (call_get_merkle_leaf_hash).
LEMMA ProofTypeInit == ProofInit => ProofTypeOK
  BY ProofConstants DEF ProofInit, ProofTypeOK, AnyRoot

\* Every step keeps the types: the steps never pass the announced length of the proof.
LEMMA ProofTypeStep == ProofTypeOK /\ [ProofNext]_proofVars => ProofTypeOK'
  <1> SUFFICES ASSUME ProofTypeOK, [ProofNext]_proofVars PROVE ProofTypeOK'
    OBVIOUS
  <1> USE ProofConstants DEF ProofTypeOK
  <1>1. ASSUME NEW r \in Roots, NEW s \in Sizes, NEW i \in Indices, AskLeaf(r, s, i)
        PROVE  ProofTypeOK'
    BY <1>1 DEF AskLeaf, Blank
  <1>2. CASE ProofRefused
    BY <1>2 DEF ProofRefused, ProofFails, Blank
  <1>3. ASSUME NEW h \in Hash, NEW length \in 0 .. MAX_PROOF, NEW n \in 0 .. MAX_PROOF,
               LeafAnswer(h, length, n)
        PROVE  ProofTypeOK'
    BY <1>3 DEF LeafAnswer
  <1>4. ASSUME NEW sibling \in Hash, VerifyStep(sibling)
        PROVE  ProofTypeOK'
    <2>1. cur_hash' \in Hash
      BY <1>4 DEF VerifyStep
    <2>2. cur_step' \in 0 .. end_step'
      BY <1>4 DEF VerifyStep
    <2> QED BY <1>4, <2>1, <2>2 DEF VerifyStep
  <1>5. CASE ProofTooLong
    BY <1>5 DEF ProofTooLong, ProofFails, Blank
  <1>6. CASE AskMoreProof
    BY <1>6 DEF AskMoreProof
  <1>7. ASSUME NEW n \in 0 .. MAX_PROOF, MoreProof(n)
        PROVE  ProofTypeOK'
    <2>1. end_step' \in 0 .. proof_size' /\ cur_step' \in 0 .. end_step'
      BY <1>7 DEF MoreProof
    <2> QED BY <1>7, <2>1 DEF MoreProof
  <1>8. CASE CheckRoot
    BY <1>8 DEF CheckRoot, ProofFails, Blank
  <1>9. CASE ProofReturns
    BY <1>9 DEF ProofReturns, Blank, AnyRoot
  <1>10. CASE UNCHANGED proofVars
    BY <1>10 DEF proofVars
  <1> QED
    BY <1>1, <1>2, <1>3, <1>4, <1>5, <1>6, <1>7, <1>8, <1>9, <1>10 DEF ProofNext

\* The types hold in every reachable state.
THEOREM ProofTypes == ProofSpec => []ProofTypeOK
  BY ProofTypeInit, ProofTypeStep, PTL DEF ProofSpec

\* The strengthening: how far the path has been climbed, and what acceptance means.
Climb == ProofTypeOK /\ ClimbsPath /\ AcceptedIsOnPath

\* An element of the proof climbs one edge of the path (get_merkle_leaf_hash.c, the loop
\* over the elements).
LEMMA OneEdge ==
  ASSUME ProofTypeOK, ClimbsPath, NEW sibling \in Hash, VerifyStep(sibling)
  PROVE  ClimbsPath'
  <1> DEFINE d == proof_size - cur_step - 1
  <1>1. d \in 0 .. MAX_PROOF - 1 /\ d + 1 = proof_size - cur_step
    BY ProofConstants DEF ProofTypeOK, VerifyStep
  <1>2. proof_size' - cur_step' = d
    BY DEF ProofTypeOK, VerifyStep
  <1>3. root \in Roots /\ size \in Sizes /\ index \in Indices /\ cur_hash \in Hash
    BY DEF ProofTypeOK
  <1>4. stage = "verify"
    BY DEF VerifyStep
  <1>5. ASSUME cur_hash' = Path(root, size, index, d)
        PROVE  cur_hash = Path(root, size, index, d + 1)
    <2>1. CASE Direction(size, index, d) = 0 /\ cur_hash' = Combine(cur_hash, sibling)
      BY <1>1, <1>3, <1>5, <2>1, PathFollows
    <2>2. CASE Direction(size, index, d) = 1 /\ cur_hash' = Combine(sibling, cur_hash)
      BY <1>1, <1>3, <1>5, <2>2, PathFollows
    <2> QED BY <2>1, <2>2 DEF VerifyStep, StepDirection
  <1>6. UNCHANGED <<root, size, index, out, proof_size>>
    BY DEF VerifyStep
  <1> QED BY <1>1, <1>2, <1>4, <1>5, <1>6 DEF ClimbsPath

\* Every step of a proof keeps the strengthening.
LEMMA ClimbStep == Climb /\ [ProofNext]_proofVars => Climb'
  <1> SUFFICES ASSUME Climb, [ProofNext]_proofVars PROVE Climb'
    OBVIOUS
  <1>t. ProofTypeOK /\ ProofTypeOK'
    BY ProofTypeStep DEF Climb
  <1>c. ClimbsPath /\ AcceptedIsOnPath
    BY DEF Climb
  <1> SUFFICES ClimbsPath' /\ AcceptedIsOnPath'
    BY <1>t DEF Climb
  <1>1. ASSUME NEW r \in Roots, NEW s \in Sizes, NEW i \in Indices, AskLeaf(r, s, i)
        PROVE  ClimbsPath' /\ AcceptedIsOnPath'
    BY <1>1 DEF AskLeaf, ClimbsPath, AcceptedIsOnPath
  <1>2. CASE ProofRefused
    BY <1>2 DEF ProofRefused, ProofFails, ClimbsPath, AcceptedIsOnPath
  <1>3. ASSUME NEW h \in Hash, NEW length \in 0 .. MAX_PROOF, NEW n \in 0 .. MAX_PROOF,
               LeafAnswer(h, length, n)
        PROVE  ClimbsPath' /\ AcceptedIsOnPath'
    <2>1. proof_size' - cur_step' = proof_size' /\ cur_hash' = out' /\ stage' = "verify"
      BY <1>3, ProofConstants DEF LeafAnswer
    <2> QED BY <2>1 DEF ClimbsPath, AcceptedIsOnPath
  <1>4. ASSUME NEW sibling \in Hash, VerifyStep(sibling)
        PROVE  ClimbsPath' /\ AcceptedIsOnPath'
    <2>1. ClimbsPath'
      BY <1>4, <1>t, <1>c, OneEdge
    <2>2. stage' = "verify"
      BY <1>4 DEF VerifyStep
    <2> QED BY <2>1, <2>2 DEF AcceptedIsOnPath
  <1>5. CASE ProofTooLong
    BY <1>5 DEF ProofTooLong, ProofFails, ClimbsPath, AcceptedIsOnPath
  <1>6. CASE AskMoreProof
    BY <1>6, <1>c DEF AskMoreProof, ClimbsPath, AcceptedIsOnPath
  <1>7. ASSUME NEW n \in 0 .. MAX_PROOF, MoreProof(n)
        PROVE  ClimbsPath' /\ AcceptedIsOnPath'
    BY <1>7, <1>c DEF MoreProof, ClimbsPath, AcceptedIsOnPath
  <1>8. CASE CheckRoot
    <2>1. ClimbsPath'
      BY <1>8 DEF CheckRoot, ProofFails, ClimbsPath
    <2>2. ASSUME stage' = "ok" PROVE out = Path(root, size, index, proof_size)
      <3>1. cur_hash = root /\ stage = "verify" /\ proof_size - cur_step = 0
        BY <1>8, <2>2, <1>t DEF CheckRoot, RootMatches, ProofFails, ProofTypeOK
      <3>2. Path(root, size, index, 0) = root
        BY <1>t, PathFollows DEF ProofTypeOK
      <3> QED BY <3>1, <3>2, <1>c DEF ClimbsPath
    <2>3. stage' = "ok" => UNCHANGED <<root, size, index, out, proof_size>>
      BY <1>8 DEF CheckRoot, ProofFails
    <2> QED BY <2>1, <2>2, <2>3 DEF AcceptedIsOnPath
  <1>9. CASE ProofReturns
    BY <1>9 DEF ProofReturns, ClimbsPath, AcceptedIsOnPath
  <1>10. CASE UNCHANGED proofVars
    BY <1>10, <1>c DEF proofVars, ClimbsPath, AcceptedIsOnPath
  <1> QED
    BY <1>1, <1>2, <1>3, <1>4, <1>5, <1>6, <1>7, <1>8, <1>9, <1>10 DEF ProofNext

\* The strengthening holds in every reachable state.
LEMMA Climbs == ProofSpec => []Climb
  <1>1. ProofInit => Climb
    BY ProofTypeInit DEF ProofInit, Climb, ClimbsPath, AcceptedIsOnPath
  <1> QED BY <1>1, ClimbStep, PTL DEF ProofSpec

\* A hash that call_get_merkle_leaf_hash accepts is the node that the path of the index it
\* asked for reaches after proof_size steps, whatever the client answered.
THEOREM AcceptedOnPath == ProofSpec => []AcceptedIsOnPath
  <1>1. Climb => AcceptedIsOnPath
    BY DEF Climb
  <1> QED BY <1>1, Climbs, PTL

-----------------------------------------------------------------------------
(* Preimages *)

\* Dropping the prefix byte and appending a piece commute.
LEMMA TailConcat ==
  ASSUME NEW S, NEW s \in Seq(S), NEW t \in Seq(S), s # <<>>
  PROVE  Tail(s \o t) = Tail(s) \o t
  <1>1. s \o t \in Seq(S) /\ Len(s \o t) = Len(s) + Len(t) /\ Len(s) >= 1
    BY ConcatProperties, EmptySeq, LenProperties
  <1>2. s \o t # <<>>
    BY <1>1, EmptySeq, LenProperties
  <1>3. Tail(s \o t) \in Seq(S) /\ Len(Tail(s \o t)) = Len(s) + Len(t) - 1
        /\ \A i \in 1 .. Len(Tail(s \o t)) : Tail(s \o t)[i] = (s \o t)[i + 1]
    BY <1>1, <1>2, HeadTailProperties
  <1>4. Tail(s) \in Seq(S) /\ Len(Tail(s)) = Len(s) - 1
        /\ \A i \in 1 .. Len(Tail(s)) : Tail(s)[i] = s[i + 1]
    BY HeadTailProperties
  <1>5. Tail(s) \o t \in Seq(S) /\ Len(Tail(s) \o t) = Len(s) - 1 + Len(t)
    BY <1>4, ConcatProperties
  <1>6. ASSUME NEW i \in 1 .. Len(s) + Len(t) - 1
        PROVE  Tail(s \o t)[i] = (Tail(s) \o t)[i]
    <2>1. Len(s) \in Nat /\ Len(t) \in Nat
      BY LenProperties
    <2>2. CASE i <= Len(s) - 1
      BY <1>1, <1>3, <1>4, <1>6, <2>1, <2>2, ConcatProperties
    <2>3. CASE i > Len(s) - 1
      BY <1>1, <1>3, <1>4, <1>6, <2>1, <2>3, ConcatProperties
    <2> QED BY <2>1, <2>2, <2>3
  <1> QED BY <1>3, <1>5, <1>6, SeqEqual

\* How far a transfer is: what has been handed over, and that the rest will fit.
Transfer ==
  phase \in {"more", "ok"} =>
    /\ GivenIsHashed
    /\ Len(hashed) <= total
    /\ first # 0 => hashed # <<>>
    /\ kind = "merkle" => /\ hashed # <<>> /\ total - 1 <= room
                          /\ Len(given) = Len(hashed) - 1
    /\ kind = "get" => Len(given) <= room
    /\ phase = "ok" => Sha(hashed) = want /\ Len(hashed) = total

PInv == PreimageTypeOK /\ Transfer

\* The first piece starts the transfer (the three functions, up to their loop).
LEMMA FirstPieceInv ==
  ASSUME PInv, NEW length \in Nat, NEW piece \in Seq(Byte), FirstPiece(length, piece)
  PROVE  PInv'
  <1> USE DEF Kinds
  <1>t. /\ kind \in Kinds /\ room \in Nat /\ Stale \in Byte /\ U32 \in Nat \ {0}
        /\ kind' = kind /\ room' = room /\ want' = want /\ want \in Digest
    BY PreimageConstants DEF PInv, PreimageTypeOK, FirstPiece
  <1>l. Len(piece) \in Nat /\ (piece = <<>> <=> Len(piece) = 0)
    BY LenProperties, EmptySeq
  <1>a. Announced(length) \in Nat /\ (kind = "merkle" => Announced(length) = length)
    BY <1>t DEF Announced
  <1>1. /\ total' = Announced(length) /\ hashed' = piece /\ first' = Len(piece)
        /\ given' = GivenFirst(piece) /\ phase' = "more"
        /\ Len(piece) <= Announced(length)
        /\ kind = "merkle" => Len(piece) >= 1 /\ length - 1 <= room
    BY DEF FirstPiece, Accepts
  <1>2. kind = "get" => /\ given' \in Seq(Byte) /\ Len(given') <= room
                        /\ Len(piece) <= room => given' = piece
    <2>1. Written(<<>>, piece) = IF Len(piece) <= room THEN piece ELSE <<>>
      BY <1>l, <1>t, ConcatEmptySeq, EmptySeq DEF Written
    <2>2. <<>> \in Seq(Byte) /\ Len(<<>>) = 0
      BY EmptySeq
    <2>3. kind = "get" => given' = IF Len(piece) <= room THEN piece ELSE <<>>
      BY <1>1, <2>1 DEF GivenFirst
    <2>4. CASE Len(piece) <= room
      BY <2>3, <2>4
    <2>5. CASE ~(Len(piece) <= room)
      BY <1>t, <2>2, <2>3, <2>5
    <2> QED BY <2>4, <2>5
  <1>3. kind # "get" /\ piece # <<>> => /\ given' \in Seq(Byte) /\ given' = Tail(piece)
                                        /\ Len(given') = Len(piece) - 1
    <2> SUFFICES ASSUME kind # "get", piece # <<>>
                 PROVE  given' \in Seq(Byte) /\ given' = Tail(piece)
                        /\ Len(given') = Len(piece) - 1
      OBVIOUS
    <2>1. Tail(piece) \in Seq(Byte) /\ Len(Tail(piece)) = Len(piece) - 1
      BY HeadTailProperties
    <2>2. kind = "merkle" => Written(<<>>, Tail(piece)) = Tail(piece)
      BY <1>1, <1>a, <1>l, <1>t, <2>1, ConcatEmptySeq, EmptySeq DEF Written
    <2> QED BY <1>1, <2>1, <2>2 DEF GivenFirst
  <1>4. kind # "get" /\ piece = <<>> => given' \in Seq(Byte) /\ kind = "stream"
    <2>1. <<Stale>> \in Seq(Byte)
      BY <1>t
    <2> QED BY <1>1, <1>l, <1>t, <2>1 DEF GivenFirst
  <1>5. PreimageTypeOK'
    BY <1>1, <1>2, <1>3, <1>4, <1>a, <1>l, <1>t DEF PreimageTypeOK
  <1>6. GivenIsHashed'
    BY <1>1, <1>2, <1>3, <1>a, <1>l, <1>t DEF GivenIsHashed
  <1> QED BY <1>1, <1>2, <1>3, <1>5, <1>6, <1>a, <1>l, <1>t DEF PInv, Transfer

\* A later piece continues it (the body of the loop).
LEMMA MorePieceInv ==
  ASSUME PInv, NEW piece \in Seq(Byte), MorePiece(piece)
  PROVE  PInv'
  <1> USE DEF Kinds
  <1>t. /\ kind \in Kinds /\ room \in Nat /\ total \in Nat /\ first \in Nat /\ LONG \in Nat
        /\ hashed \in Seq(Byte) /\ given \in Seq(Byte) /\ Stale \in Byte /\ want \in Digest
        /\ UNCHANGED <<phase, kind, room, want, total, first>> /\ phase = "more"
    BY PreimageConstants DEF PInv, PreimageTypeOK, MorePiece
  <1>v. Transfer
    BY DEF PInv
  <1>l. Len(piece) \in Nat /\ Len(hashed) \in Nat /\ Len(given) \in Nat
        /\ (hashed = <<>> <=> Len(hashed) = 0)
    BY <1>t, LenProperties, EmptySeq
  <1>1. hashed' = hashed \o piece /\ given' = GivenMore(piece)
        /\ Len(hashed) + Len(piece) <= total
    BY DEF MorePiece
  <1>2. /\ hashed' \in Seq(Byte) /\ Len(hashed') = Len(hashed) + Len(piece)
        /\ given \o piece \in Seq(Byte) /\ Len(given \o piece) = Len(given) + Len(piece)
    BY <1>1, <1>t, ConcatProperties
  <1>3. Shifted(piece) \in Seq(Byte) /\ Len(Shifted(piece)) = Len(piece)
        /\ (total < LONG => Shifted(piece) = piece)
    <2>1. CASE total < LONG
      BY <2>1 DEF Shifted
    <2>2. CASE ~(total < LONG)
      <3> DEFINE f == [i \in 1 .. Len(piece) |->
                         IF i + 2 <= Len(piece) THEN piece[i + 2] ELSE Stale]
      <3>1. \A i \in 1 .. Len(piece) : f[i] \in Byte
        BY <1>l, <1>t, ElementOfSeq
      <3>2. f \in Seq(Byte) /\ Len(f) = Len(piece)
        BY <3>1, <1>l, IsASeq, LenProperties
      <3> QED BY <2>2, <3>2, <1>t DEF Shifted
    <2> QED BY <2>1, <2>2
  <1>4. given \o Shifted(piece) \in Seq(Byte)
        /\ Len(given \o Shifted(piece)) = Len(given) + Len(piece)
    <2> DEFINE later == Shifted(piece)
    <2>1. later \in Seq(Byte) /\ Len(later) = Len(piece)
      BY <1>3
    <2> HIDE DEF later
    <2>2. given \o later \in Seq(Byte) /\ Len(given \o later) = Len(given) + Len(later)
      BY <1>t, <2>1, ConcatProperties
    <2> QED BY <2>1, <2>2 DEF later
  <1>5. hashed' # <<>> <=> Len(hashed') # 0
    BY <1>2, EmptySeq
  <1>6. hashed # <<>> => hashed' # <<>> /\ Tail(hashed') = Tail(hashed) \o piece
    BY <1>1, <1>2, <1>5, <1>l, <1>t, TailConcat
  <1>7. kind = "get" => /\ given' \in Seq(Byte) /\ Len(given') <= room
                        /\ total <= room => given' = hashed'
    <2> SUFFICES ASSUME kind = "get"
                 PROVE  given' \in Seq(Byte) /\ Len(given') <= room
                        /\ (total <= room => given' = hashed')
      OBVIOUS
    <2>1. Len(given) <= room /\ (total <= room => given = hashed)
      BY <1>v, <1>t DEF Transfer, GivenIsHashed
    <2>2. given' = Written(given, piece)
      BY <1>1 DEF GivenMore
    <2>3. CASE Len(given) + Len(piece) <= room
      <3>1. given' = given \o piece
        BY <2>2, <2>3 DEF Written
      <3> QED BY <1>1, <1>2, <2>1, <2>3, <3>1
    <2>4. CASE ~(Len(given) + Len(piece) <= room)
      <3>1. given' = given
        BY <2>2, <2>4 DEF Written
      <3>2. ~(total <= room)
        BY <1>1, <1>l, <1>t, <2>1, <2>4
      <3> QED BY <1>t, <2>1, <3>1, <3>2
    <2> QED BY <2>3, <2>4
  <1>8. kind = "merkle" => /\ given' \in Seq(Byte) /\ hashed' # <<>> /\ total' - 1 <= room'
                           /\ Len(given') = Len(hashed') - 1
                           /\ total < LONG => given' = Tail(hashed')
    <2> SUFFICES ASSUME kind = "merkle"
                 PROVE  given' \in Seq(Byte) /\ hashed' # <<>> /\ total' - 1 <= room'
                        /\ Len(given') = Len(hashed') - 1
                        /\ (total < LONG => given' = Tail(hashed'))
      OBVIOUS
    <2>1. /\ hashed # <<>> /\ total - 1 <= room /\ Len(given) = Len(hashed) - 1
          /\ total < LONG => given = Tail(hashed)
      BY <1>v, <1>t DEF Transfer, GivenIsHashed
    <2>2. given' = Written(given, Shifted(piece))
      BY <1>1 DEF GivenMore
    <2>3. given' = given \o Shifted(piece)
      BY <1>1, <1>3, <1>l, <1>t, <2>1, <2>2 DEF Written
    <2>4. given' \in Seq(Byte) /\ Len(given') = Len(hashed') - 1
      BY <1>2, <1>4, <1>l, <2>1, <2>3
    <2>5. total < LONG => given' = Tail(hashed')
      BY <1>3, <1>6, <2>1, <2>3
    <2> QED BY <1>6, <1>t, <2>1, <2>4, <2>5
  <1>9. kind = "stream" => given' \in Seq(Byte) /\ (first # 0 => given' = Tail(hashed'))
    <2>1. kind = "stream" => given' = given \o piece
      BY <1>1 DEF GivenMore
    <2>2. kind = "stream" /\ first # 0 => given = Tail(hashed) /\ hashed # <<>>
      BY <1>v, <1>t DEF Transfer, GivenIsHashed
    <2> QED BY <1>2, <1>6, <2>1, <2>2
  <1>10. PreimageTypeOK'
    BY <1>2, <1>7, <1>8, <1>9, <1>t DEF PreimageTypeOK
  <1>11. GivenIsHashed'
    BY <1>7, <1>8, <1>9, <1>t DEF GivenIsHashed
  <1>12. Len(hashed') <= total' /\ (first' # 0 => hashed' # <<>>)
    BY <1>1, <1>2, <1>6, <1>t, <1>v DEF Transfer
  <1>13. Transfer'
    BY <1>7, <1>8, <1>11, <1>12, <1>t DEF Transfer
  <1> QED BY <1>10, <1>13 DEF PInv

\* The transfer keeps its invariant in every step.
LEMMA PreimageStepInv == PInv /\ [PreimageNext]_preimageVars => PInv'
  <1> SUFFICES ASSUME PInv, [PreimageNext]_preimageVars PROVE PInv'
    OBVIOUS
  <1>e. <<>> \in Seq(Byte) /\ AnyHash \in Digest
    BY EmptySeq, PreimageConstants DEF AnyHash
  <1>1. ASSUME NEW k \in Kinds, NEW hash \in Digest, NEW length \in Nat,
               AskPreimage(k, hash, length)
        PROVE  PInv'
    BY <1>1, <1>e DEF AskPreimage, Empty, PInv, PreimageTypeOK, Transfer
  <1>f. ASSUME PreimageFails PROVE PInv'
    BY <1>f, <1>e DEF PreimageFails, Empty, PInv, PreimageTypeOK, Transfer
  <1>2. CASE PreimageReturns
    BY <1>2, <1>e DEF PreimageReturns, Empty, Kinds, PInv, PreimageTypeOK, Transfer
  <1>3. CASE PreimageRefused
    BY <1>3, <1>f DEF PreimageRefused
  <1>4. ASSUME NEW length \in Nat, NEW piece \in Seq(Byte),
               FirstPiece(length, piece) \/ FirstRefused(length, piece)
        PROVE  PInv'
    BY <1>4, <1>f, FirstPieceInv DEF FirstRefused
  <1>5. ASSUME NEW piece \in Seq(Byte), MorePiece(piece) \/ PieceRefused(piece)
        PROVE  PInv'
    BY <1>5, <1>f, MorePieceInv DEF PieceRefused
  <1>6. CASE CheckHash
    <2>1. CASE /\ phase = "more" /\ Len(hashed) = total /\ Sha(hashed) = want /\ phase' = "ok"
               /\ UNCHANGED <<kind, want, room, total, hashed, given, first>>
      <3>1. PreimageTypeOK'
        BY <2>1 DEF PInv, PreimageTypeOK
      <3>2. Transfer'
        BY <2>1 DEF PInv, Transfer, GivenIsHashed
      <3> QED BY <3>1, <3>2 DEF PInv
    <2> QED BY <1>6, <1>f, <2>1 DEF CheckHash
  <1>7. CASE UNCHANGED preimageVars
    BY <1>7 DEF preimageVars, PInv, PreimageTypeOK, Transfer, GivenIsHashed
  <1> QED BY <1>1, <1>2, <1>3, <1>4, <1>5, <1>6, <1>7 DEF PreimageNext

\* The initial state is between two calls.
LEMMA PreimageInitInv == PreimageInit => PInv
  BY EmptySeq, PreimageConstants
  DEF PreimageInit, AnyHash, Kinds, PInv, PreimageTypeOK, Transfer

\* What a transfer that has ended has delivered.
LEMMA TransferDelivers == PInv => PreimageDelivered
  BY LenProperties DEF PInv, PreimageTypeOK, Transfer, PreimageDelivered, Kinds

\* When call_get_preimage, call_get_merkle_preimage or call_stream_preimage succeeds, its
\* caller has the bytes that were hashed, for every length and every cut.
THEOREM Delivered == PreimageSpec => []PreimageDelivered
  BY PreimageInitInv, PreimageStepInv, TransferDelivers, PTL DEF PreimageSpec

-----------------------------------------------------------------------------
(* The handler that reads a map *)

\* A step of the handler is a step of each of the two exchanges, or leaves it alone.
Parts == [ProofNext]_proofVars /\ [PreimageNext]_preimageVars

\* The types of what only the handler has.
HandlerType ==
  /\ task \in Tasks /\ sub \in {"none", "proof", "preimage"}
  /\ map \in MapType \cup {NoMap} /\ (task \in Looking \cup {"sorted"} => map \in MapType)
  /\ cur_el_idx \in Nat /\ prev_el \in Seq(Byte)
  /\ key \in Keys /\ how \in Ways /\ lookups \in 0 .. MAX_LOOKUPS
  /\ answers \subseteq Keys \X Digest /\ plain \in BOOLEAN
  /\ sub # "none" => task \in {"map", "sorted", "index"} \cup Ways

\* The two exchanges return to their initial state.
LEMMA Returns ==
  /\ ProofReturns => [ProofNext]_proofVars
  /\ PreimageReturns => [PreimageNext]_preimageVars
  BY DEF ProofNext, PreimageNext

\* A failed call.
LEMMA FailStep ==
  ASSUME HandlerType, FailWith, plain' \in BOOLEAN,
         task \in {"map", "sorted", "index", "ask_index"} \cup Ways
  PROVE  HandlerType' /\ Parts
  <1>1. Parts
    BY Returns DEF FailWith, Parts
  <1>2. task' \in {"ended", "ready"} /\ (task' = "ready" => task \in Looking)
    BY DEF FailWith, Looking
  <1>3. HandlerType'
    BY <1>2 DEF FailWith, HandlerType, Tasks, Looking, Ways
  <1> QED BY <1>1, <1>3

\* The next element of the sorted check.
LEMMA SortedStep ==
  ASSUME NEW m \in MapType, NEW idx \in Nat, NEW el \in Seq(Byte), AskSorted(m, idx, el)
  PROVE  /\ Parts /\ task' \in {"sorted", "ready"} /\ sub' \in {"none", "proof"}
         /\ cur_el_idx' \in Nat /\ prev_el' \in Seq(Byte)
  <1>1. m.size \in Sizes /\ m.size \in Nat /\ m.keys_root \in Roots
    BY ClientConstants DEF MapType
  <1>2. [PreimageNext]_preimageVars
    BY Returns DEF AskSorted
  <1>3. CASE idx < m.size /\ task' = "sorted" /\ sub' = "proof" /\ cur_el_idx' = idx
             /\ prev_el' = el /\ AskLeaf(m.keys_root, m.size, idx)
    <2>1. idx \in Indices
      BY <1>1, <1>3, ClientConstants
    <2> QED BY <1>1, <1>2, <1>3, <2>1 DEF Parts, ProofNext
  <1>4. CASE task' = "ready" /\ sub' = "none" /\ cur_el_idx' = 0 /\ prev_el' = <<>>
             /\ UNCHANGED proofVars
    BY <1>2, <1>4, EmptySeq DEF Parts
  <1> QED BY <1>3, <1>4 DEF AskSorted

\* Every step keeps the types and is a step of the two exchanges.
LEMMA HandlerStep ==
  ASSUME ProofTypeOK, PreimageTypeOK, HandlerType, [Next]_vars
  PROVE  HandlerType' /\ Parts
  <1>1. CASE ProofStep
    <2>1. Parts
      BY <1>1 DEF ProofStep, ProofNext, Parts
    <2>2. HandlerType'
      BY <1>1 DEF ProofStep, mapVars, HandlerType
    <2> QED BY <2>1, <2>2
  <1>2. CASE PreimageStep
    <2>1. Parts
      BY <1>2 DEF PreimageStep, PreimageNext, Parts
    <2>2. HandlerType'
      BY <1>2 DEF PreimageStep, mapVars, HandlerType
    <2> QED BY <2>1, <2>2
  <1>3. CASE SubFailed
    BY <1>3, FailStep DEF SubFailed, HandlerType
  <1>4. CASE LeafToPreimage
    <2>1. RoomOf(task) \in Nat /\ out \in Digest
      BY <1>4, ClientConstants DEF LeafToPreimage, Elements, ProofTypeOK
    <2>2. [PreimageNext]_preimageVars
      BY <1>4, <2>1 DEF LeafToPreimage, PreimageNext, Kinds
    <2>3. [ProofNext]_proofVars
      BY <1>4, Returns DEF LeafToPreimage
    <2>4. HandlerType'
      BY <1>4 DEF LeafToPreimage, HandlerType
    <2> QED BY <2>2, <2>3, <2>4 DEF Parts
  <1>5. ASSUME NEW tree \in MapTrees, GetMap(tree) PROVE HandlerType' /\ Parts
    <2>1. tree[1] \in Roots /\ tree[2] \in Sizes /\ tree[3] \in Indices
      BY ClientConstants
    <2>2. Parts
      BY <1>5, <2>1 DEF GetMap, Parts, ProofNext
    <2>3. HandlerType'
      BY <1>5 DEF GetMap, HandlerType, Tasks, Looking, Ways
    <2> QED BY <2>2, <2>3
  <1>6. ASSUME NEW m \in Commitments, GlobalMap(m) PROVE HandlerType' /\ Parts
    <2>1. m \in MapType /\ 0 \in Nat /\ <<>> \in Seq(Byte) /\ AskSorted(m, 0, <<>>)
      BY <1>6, ClientConstants, EmptySeq DEF GlobalMap
    <2>2. Parts /\ task' \in {"sorted", "ready"} /\ sub' \in {"none", "proof"}
          /\ cur_el_idx' \in Nat /\ prev_el' \in Seq(Byte)
      BY <2>1, SortedStep
    <2>3. task' \in Tasks /\ (sub' # "none" => task' = "sorted")
      BY <1>6, <2>2 DEF GlobalMap, AskSorted, Tasks
    <2> QED BY <1>6, <2>1, <2>2, <2>3 DEF GlobalMap, HandlerType
  <1>7. CASE ParseMap
    <2>1. plain' \in BOOLEAN /\ task = "map"
      BY <1>7 DEF ParseMap
    <2>2. CASE FailWith
      BY <2>1, <2>2, FailStep
    <2>3. CASE /\ Commitment(given) \in MapType /\ map' = Commitment(given)
               /\ AskSorted(Commitment(given), 0, <<>>)
               /\ UNCHANGED <<key, how, lookups, answers, values>>
      <3>1. 0 \in Nat /\ <<>> \in Seq(Byte)
        BY EmptySeq
      <3>2. Parts /\ task' \in {"sorted", "ready"} /\ sub' \in {"none", "proof"}
            /\ cur_el_idx' \in Nat /\ prev_el' \in Seq(Byte)
        BY <2>3, <3>1, SortedStep
      <3>3. task' \in Tasks /\ (sub' # "none" => task' = "sorted")
        BY <2>3, <3>2 DEF AskSorted, Tasks
      <3> QED BY <2>1, <2>3, <3>2, <3>3 DEF HandlerType
    <2> QED BY <1>7, <2>2, <2>3 DEF ParseMap
  <1>8. CASE SortedElement
    <2>1. plain' \in BOOLEAN /\ task = "sorted" /\ map \in MapType
      BY <1>8 DEF SortedElement, HandlerType
    <2>2. CASE FailWith
      BY <2>1, <2>2, FailStep
    <2>3. CASE /\ AskSorted(map, cur_el_idx + 1, given)
               /\ UNCHANGED <<map, key, how, lookups, answers, values>>
      <3>1. cur_el_idx + 1 \in Nat /\ given \in Seq(Byte)
        BY DEF HandlerType, PreimageTypeOK
      <3>2. Parts /\ task' \in {"sorted", "ready"} /\ sub' \in {"none", "proof"}
            /\ cur_el_idx' \in Nat /\ prev_el' \in Seq(Byte)
        BY <2>1, <2>3, <3>1, SortedStep
      <3>3. task' \in Tasks /\ (sub' # "none" => task' = "sorted")
        BY <2>3, <3>2 DEF AskSorted, Tasks
      <3> QED BY <2>1, <2>3, <3>2, <3>3 DEF HandlerType
    <2> QED BY <1>8, <2>2, <2>3 DEF SortedElement
  <1>9. ASSUME NEW k \in Keys, NEW way \in Ways, Lookup(k, way) PROVE HandlerType' /\ Parts
    <2>1. lookups' \in 0 .. MAX_LOOKUPS
      BY <1>9, ClientConstants DEF Lookup, HandlerType
    <2>2. HandlerType'
      BY <1>9, <2>1 DEF Lookup, HandlerType, Tasks, Looking
    <2>3. Parts
      BY <1>9 DEF Lookup, Parts
    <2> QED BY <2>2, <2>3
  <1>10. CASE IndexRefused
    BY <1>10, FailStep DEF IndexRefused, HandlerType
  <1>11. ASSUME NEW i \in Answers, IndexAnswer(i) PROVE HandlerType' /\ Parts
    <2>1. map \in MapType /\ map.keys_root \in Roots /\ map.size \in Sizes
      BY <1>11 DEF IndexAnswer, HandlerType, Looking, MapType
    <2>2. Parts
      BY <1>11, <2>1 DEF IndexAnswer, Parts, ProofNext
    <2>3. HandlerType'
      BY <1>11, <2>1 DEF IndexAnswer, HandlerType, Tasks
    <2> QED BY <2>2, <2>3
  <1>12. CASE KeyChecked
    <2>1. plain' \in BOOLEAN /\ task = "index" /\ map \in MapType
      BY <1>12 DEF KeyChecked, HandlerType, Looking
    <2>2. CASE FailWith
      BY <2>1, <2>2, FailStep
    <2>3. CASE /\ task' = how /\ sub' = "proof" /\ AskLeaf(map.values_root, map.size, index)
               /\ UNCHANGED <<map, cur_el_idx, prev_el, key, how, lookups, answers, values>>
               /\ UNCHANGED preimageVars
      <3>1. map.values_root \in Roots /\ map.size \in Sizes /\ index \in Indices
        BY <2>1 DEF MapType, ProofTypeOK
      <3>2. Parts
        BY <2>3, <3>1 DEF Parts, ProofNext
      <3>3. HandlerType'
        BY <2>1, <2>3 DEF HandlerType, Tasks
      <3> QED BY <3>2, <3>3
    <2> QED BY <1>12, <2>2, <2>3 DEF KeyChecked
  <1>13. CASE ValueHash
    <2>1. Parts
      BY <1>13, Returns DEF ValueHash, Parts
    <2>2. out \in Digest /\ key \in Keys /\ map \in MapType
      BY <1>13, ClientConstants DEF ValueHash, ProofTypeOK, HandlerType, Looking, Ways
    <2>3. answers' \subseteq Keys \X Digest
      BY <1>13, <2>2 DEF ValueHash, HandlerType
    <2>4. HandlerType'
      BY <1>13, <2>2, <2>3 DEF ValueHash, HandlerType, Tasks
    <2> QED BY <2>1, <2>4
  <1>14. CASE Value
    <2>1. Parts
      BY <1>14, Returns DEF Value, Parts
    <2>2. want \in Digest /\ key \in Keys /\ map \in MapType
      BY <1>14 DEF Value, PreimageTypeOK, HandlerType, Looking, Ways
    <2>3. answers' \subseteq Keys \X Digest
      BY <1>14, <2>2 DEF Value, HandlerType
    <2>4. HandlerType'
      BY <1>14, <2>2, <2>3 DEF Value, HandlerType, Tasks
    <2> QED BY <2>1, <2>4
  <1>15. CASE UNCHANGED vars
    BY <1>15 DEF vars, mapVars, Parts, HandlerType
  <1> QED
    BY <1>1, <1>2, <1>3, <1>4, <1>5, <1>6, <1>7, <1>8, <1>9, <1>10, <1>11, <1>12, <1>13,
       <1>14, <1>15 DEF Next

\* The exchanges and the handler together.
Base == Climb /\ PInv /\ HandlerType

\* The initial state.
LEMMA BaseInit == Init => Base
  <1> SUFFICES ASSUME Init PROVE Base
    OBVIOUS
  <1>1. Climb
    BY ProofTypeInit DEF Init, ProofInit, Climb, ClimbsPath, AcceptedIsOnPath
  <1>2. PInv
    BY PreimageInitInv DEF Init
  <1>3. HandlerType
    BY ClientConstants, EmptySeq DEF Init, HandlerType, Tasks, Looking, Ways
  <1> QED BY <1>1, <1>2, <1>3 DEF Base

\* Every step.
LEMMA BaseStep == Base /\ [Next]_vars => Base' /\ Parts
  <1> SUFFICES ASSUME Base, [Next]_vars PROVE Base' /\ Parts
    OBVIOUS
  <1>1. HandlerType' /\ Parts
    BY HandlerStep DEF Base, Climb, PInv
  <1>2. Climb' /\ PInv'
    BY <1>1, ClimbStep, PreimageStepInv DEF Base, Parts
  <1> QED BY <1>1, <1>2 DEF Base

\* The handler that reads a map is made of verified proofs and verified preimages: it
\* implements both exchanges, whatever it does between them.
THEOREM MadeOfExchanges == Spec => ProofSpec /\ PreimageSpec
  <1>1. Init => ProofInit /\ PreimageInit
    BY DEF Init
  <1>2. Base /\ [Next]_vars => [ProofNext]_proofVars /\ [PreimageNext]_preimageVars
    BY BaseStep DEF Parts
  <1> QED BY <1>1, <1>2, BaseInit, BaseStep, PTL DEF Spec, ProofSpec, PreimageSpec

\* The types hold in every reachable state of the handler.
THEOREM TypeCorrect == Spec => []TypeOK
  <1>1. Base => TypeOK
    BY DEF Base, Climb, PInv, HandlerType, TypeOK
  <1> QED BY <1>1, BaseInit, BaseStep, PTL DEF Spec

\* Every leaf hash that a handler accepts is on the path of its index.
THEOREM HandlerAcceptsPath == Spec => []AcceptedIsOnPath
  BY MadeOfExchanges, AcceptedOnPath, PTL

\* Every preimage that a handler receives is what was hashed.
THEOREM HandlerReceives == Spec => []PreimageDelivered
  BY MadeOfExchanges, Delivered, PTL

-----------------------------------------------------------------------------
(* Lookups.  They rest on two facts about bytes: nobody finds two preimages *)
(* of a hash the device knows, and compare_byte_arrays is a strict order.   *)

NoCollisions == \A a, b \in Seq(Byte) : Sha(a) \in Roots /\ Sha(a) = Sha(b) => a = b
StrictOrder ==
  \A a, b, c \in Seq(Byte) : ~Less(a, a) /\ (Less(a, b) /\ Less(b, c) => Less(a, c))

KeyLeaf(m, i) == LeafAt(m.keys_root, m.size, i)
Bound(m, k, h) ==
  \E i \in 0 .. m.size - 1 :
    KeyLeaf(m, i) = ElementHash(k) /\ LeafAt(m.values_root, m.size, i) = h
Distinct(m, n) == \A i, j \in 0 .. n - 1 : KeyLeaf(m, i) = KeyLeaf(m, j) => i = j
Below(m, n, el) ==
  \A i \in 0 .. n - 1 : \A b \in Seq(Byte) :
    b # <<>> /\ Sha(b) = KeyLeaf(m, i) => Tail(b) = el \/ Less(Tail(b), el)

\* Which node an exchange is about.
InProof ==
  sub = "proof" =>
    /\ task \in {"sorted", "index"} => root = map.keys_root /\ size = map.size
    /\ task = "sorted" => index = cur_el_idx
    /\ task \in Ways => root = map.values_root /\ size = map.size
    /\ task \in Ways /\ plain => index < map.size /\ KeyLeaf(map, index) = ElementHash(key)
InPreimage ==
  sub = "preimage" =>
    /\ kind \in {"merkle", "stream"} /\ task \in {"map", "sorted", "value", "stream"}
    /\ plain => want \in Roots
    /\ plain /\ task = "sorted" => want = KeyLeaf(map, cur_el_idx)
    /\ plain /\ task \in {"value", "stream"} => Bound(map, key, want)
\* What the sorted check knows of the keys it has seen, and what is known when it is over.
SoFar ==
  /\ task = "sorted" /\ plain => Distinct(map, cur_el_idx) /\ Below(map, cur_el_idx, prev_el)
  /\ task \in Looking /\ plain => Distinct(map, map.size)
Results ==
  /\ task \notin Looking => answers = {} /\ values = {}
  /\ plain => \A a \in answers : Bound(map, a[1], a[2])
  /\ plain => \A v \in values : \E b \in Seq(Byte) :
                v[2] = Tail(b) /\ Sha(b) \in Roots /\ Bound(map, v[1], Sha(b))

MapInv == InProof /\ InPreimage /\ SoFar /\ Results

\* A proof that reached a leaf.
LEMMA AcceptedLeaf ==
  ASSUME Base, stage = "ok", AtLeaf
  PROVE  out = LeafAt(root, size, index) /\ out \in Roots /\ index \in 0 .. size - 1
  <1>1. ProofTypeOK /\ AcceptedIsOnPath
    BY DEF Base, Climb
  <1>2. out = Path(root, size, index, proof_size) /\ proof_size = Depth(size, index)
    BY <1>1 DEF AcceptedIsOnPath, AtLeaf
  <1>3. out \in Roots
    BY <1>1, <1>2, PathFollows DEF ProofTypeOK
  <1>4. index \in 0 .. size - 1
    BY <1>1, ProofConstants, ClientConstants DEF ProofTypeOK, AtLeaf
  <1> QED BY <1>2, <1>3, <1>4 DEF LeafAt

\* An element that arrived.
LEMMA ReceivedElement ==
  ASSUME Base, phase = "ok", kind \in {"merkle", "stream"}, ShortElement
  PROVE  /\ hashed \in Seq(Byte) /\ hashed # <<>> /\ Sha(hashed) = want
         /\ given = Tail(hashed) /\ given \in Seq(Byte)
  <1>1. PreimageTypeOK /\ Transfer
    BY DEF Base, PInv
  <1>2. /\ GivenIsHashed /\ hashed # <<>> /\ Sha(hashed) = want
    BY <1>1 DEF Transfer, ShortElement
  <1> QED BY <1>1, <1>2 DEF GivenIsHashed, ShortElement, PreimageTypeOK

\* A key above the keys so far (the body of call_check_merkle_tree_sorted_with_callback).
LEMMA NextKey ==
  ASSUME NoCollisions, StrictOrder, NEW m, NEW n \in Nat, NEW prev \in Seq(Byte),
         NEW b \in Seq(Byte), b # <<>>, Sha(b) = KeyLeaf(m, n), Sha(b) \in Roots,
         Distinct(m, n), Below(m, n, prev), n > 0 => Less(prev, Tail(b))
  PROVE  Distinct(m, n + 1) /\ Below(m, n + 1, Tail(b))
  <1>t. Tail(b) \in Seq(Byte)
    BY HeadTailProperties
  <1>1. ASSUME NEW i \in 0 .. n - 1 PROVE KeyLeaf(m, i) # KeyLeaf(m, n)
    <2> SUFFICES ASSUME KeyLeaf(m, i) = KeyLeaf(m, n) PROVE FALSE
      OBVIOUS
    <2>1. Tail(b) = prev \/ Less(Tail(b), prev)
      BY DEF Below
    <2>2. Less(prev, Tail(b))
      OBVIOUS
    <2>3. Less(prev, prev)
      BY <1>t, <2>1, <2>2 DEF StrictOrder
    <2> QED BY <2>3 DEF StrictOrder
  <1>2. Distinct(m, n + 1)
    <2> SUFFICES ASSUME NEW i \in 0 .. n, NEW j \in 0 .. n, KeyLeaf(m, i) = KeyLeaf(m, j)
                 PROVE  i = j
      BY DEF Distinct
    <2>1. CASE i = n /\ j = n
      BY <2>1
    <2>2. CASE i = n /\ j \in 0 .. n - 1
      BY <1>1, <2>2
    <2>3. CASE j = n /\ i \in 0 .. n - 1
      BY <1>1, <2>3
    <2>4. CASE i \in 0 .. n - 1 /\ j \in 0 .. n - 1
      BY <2>4 DEF Distinct
    <2> QED BY <2>1, <2>2, <2>3, <2>4
  <1>3. Below(m, n + 1, Tail(b))
    <2> SUFFICES ASSUME NEW i \in 0 .. n, NEW c \in Seq(Byte), c # <<>>,
                        Sha(c) = KeyLeaf(m, i)
                 PROVE  Tail(c) = Tail(b) \/ Less(Tail(c), Tail(b))
      BY DEF Below
    <2>1. CASE i = n
      BY <2>1 DEF NoCollisions
    <2>2. CASE i \in 0 .. n - 1
      <3>1. Tail(c) = prev \/ Less(Tail(c), prev)
        BY <2>2 DEF Below
      <3>2. Less(prev, Tail(b)) /\ Tail(c) \in Seq(Byte)
        BY <2>2, HeadTailProperties
      <3> QED BY <1>t, <3>1, <3>2 DEF StrictOrder
    <2> QED BY <2>1, <2>2
  <1> QED BY <1>2, <1>3

\* The sorted check goes on, or is over.
LEMMA SortedGoesOn ==
  ASSUME HandlerType, NEW m \in MapType, NEW n \in Nat, NEW el, AskSorted(m, n, el), map' = m,
         answers' = {}, values' = {},
         plain' => Distinct(m, n) /\ Below(m, n, el)
  PROVE  MapInv'
  <1>1. m.size \in Nat
    BY ClientConstants DEF MapType
  <1>2. CASE /\ task' = "sorted" /\ sub' = "proof" /\ cur_el_idx' = n /\ prev_el' = el
             /\ AskLeaf(m.keys_root, m.size, n)
    <2>1. InProof' /\ InPreimage'
      BY <1>2 DEF InProof, InPreimage, AskLeaf, Ways
    <2>2. SoFar'
      BY <1>2 DEF SoFar, Looking, Ways
    <2> QED BY <2>1, <2>2 DEF MapInv, Results
  <1>3. CASE n >= m.size /\ task' = "ready" /\ sub' = "none"
    <2>1. InProof' /\ InPreimage'
      BY <1>3 DEF InProof, InPreimage
    <2>2. plain' => Distinct(m, m.size)
      BY <1>1, <1>3 DEF Distinct
    <2>3. SoFar'
      BY <1>3, <2>2 DEF SoFar
    <2> QED BY <2>1, <2>3 DEF MapInv, Results
  <1> QED BY <1>2, <1>3 DEF AskSorted

\* A failed call loses nothing that is known of the map.
LEMMA FailKeeps ==
  ASSUME HandlerType, MapInv, FailWith, plain' => plain,
         task \in {"map", "sorted", "index", "ask_index"} \cup Ways
  PROVE  MapInv'
  <1>1. sub' = "none" /\ task' \in {"ended", "ready"} /\ (task' = "ready" => task \in Looking)
        /\ (task' = "ended" => task \notin Looking)
    BY DEF FailWith, Looking, Ways
  <1>2. InProof' /\ InPreimage'
    BY <1>1 DEF InProof, InPreimage
  <1>3. SoFar'
    BY <1>1 DEF MapInv, SoFar, FailWith, Looking, Ways
  <1>4. Results'
    BY <1>1 DEF MapInv, Results, FailWith, Looking, Ways
  <1> QED BY <1>2, <1>3, <1>4 DEF MapInv

\* Every step keeps what is known of the map.
LEMMA MapStep ==
  ASSUME NoCollisions, StrictOrder, Base, MapInv, [Next]_vars
  PROVE  MapInv'
  <1>t. HandlerType
    BY DEF Base
  <1>i. InProof /\ InPreimage /\ SoFar /\ Results
    BY DEF MapInv
  <1>1. CASE ProofStep
    <2>1. UNCHANGED <<root, size, index, kind, want, mapVars>>
      BY <1>1 DEF ProofStep, preimageVars, ProofRefused, ProofFails, LeafAnswer, VerifyStep,
                  ProofTooLong, AskMoreProof, MoreProof, CheckRoot
    <2>2. InProof' /\ InPreimage'
      BY <1>i, <2>1 DEF InProof, InPreimage, mapVars
    <2>3. SoFar' /\ Results'
      BY <1>i, <2>1 DEF SoFar, Results, mapVars
    <2> QED BY <2>2, <2>3 DEF MapInv
  <1>2. CASE PreimageStep
    <2>1. UNCHANGED <<root, size, index, kind, want, mapVars>>
      BY <1>2 DEF PreimageStep, proofVars, PreimageRefused, PreimageFails, FirstPiece,
                  FirstRefused, MorePiece, PieceRefused, CheckHash
    <2>2. InProof' /\ InPreimage'
      BY <1>i, <2>1 DEF InProof, InPreimage, mapVars
    <2>3. SoFar' /\ Results'
      BY <1>i, <2>1 DEF SoFar, Results, mapVars
    <2> QED BY <2>2, <2>3 DEF MapInv
  <1>3. CASE SubFailed
    BY <1>3, <1>t, FailKeeps DEF SubFailed, HandlerType
  <1>4. CASE LeafToPreimage
    <2>1. /\ sub = "proof" /\ stage = "ok" /\ task \in {"map", "sorted", "value", "stream"}
          /\ sub' = "preimage" /\ kind' \in {"merkle", "stream"} /\ want' = out
          /\ UNCHANGED <<task, map, cur_el_idx, prev_el, key, answers, values>>
          /\ plain' = (plain /\ AtLeaf)
      BY <1>4 DEF LeafToPreimage, AskPreimage, Elements
    <2>2. plain' => plain /\ out = LeafAt(root, size, index) /\ out \in Roots
                    /\ index \in 0 .. size - 1
      BY <2>1, AcceptedLeaf
    <2>3. plain' /\ task = "sorted" => out = KeyLeaf(map, cur_el_idx)
      BY <1>i, <2>1, <2>2 DEF InProof, KeyLeaf
    <2>4. plain' /\ task \in {"value", "stream"} => Bound(map, key, out)
      BY <1>i, <2>1, <2>2 DEF InProof, Bound, Ways
    <2>5. InProof' /\ InPreimage'
      BY <2>1, <2>2, <2>3, <2>4 DEF InProof, InPreimage
    <2>6. SoFar' /\ Results'
      BY <1>i, <2>1, <2>2 DEF SoFar, Results
    <2> QED BY <2>5, <2>6 DEF MapInv
  <1>5. ASSUME NEW tree \in MapTrees, GetMap(tree) PROVE MapInv'
    <2>1. answers' = {} /\ values' = {} /\ task' = "map" /\ sub' = "proof"
      BY <1>5, <1>i DEF GetMap, Results, Looking, Ways
    <2>2. InProof' /\ InPreimage' /\ SoFar' /\ Results'
      BY <2>1 DEF InProof, InPreimage, SoFar, Results, Looking, Ways
    <2> QED BY <2>2 DEF MapInv
  <1>6. ASSUME NEW m \in Commitments, GlobalMap(m) PROVE MapInv'
    <2>1. answers' = {} /\ values' = {} /\ map' = m /\ AskSorted(m, 0, <<>>)
      BY <1>6, <1>i DEF GlobalMap, Results, Looking, Ways
    <2>2. m \in MapType /\ Distinct(m, 0) /\ Below(m, 0, <<>>)
      BY ClientConstants DEF Distinct, Below
    <2> QED BY <1>t, <2>1, <2>2, SortedGoesOn
  <1>7. CASE ParseMap
    <2>1. task = "map" /\ (plain' => plain) /\ answers = {} /\ values = {}
      BY <1>7, <1>i DEF ParseMap, Results, Looking, Ways
    <2>2. CASE FailWith
      BY <1>t, <2>1, <2>2, FailKeeps
    <2>3. CASE /\ Commitment(given) \in MapType /\ map' = Commitment(given)
               /\ AskSorted(Commitment(given), 0, <<>>)
               /\ UNCHANGED <<key, how, lookups, answers, values>>
      <3> DEFINE m == Commitment(given)
      <3>1. Distinct(m, 0) /\ Below(m, 0, <<>>)
        BY DEF Distinct, Below
      <3>2. m \in MapType /\ map' = m /\ AskSorted(m, 0, <<>>) /\ answers' = {} /\ values' = {}
        BY <2>1, <2>3
      <3> HIDE DEF m
      <3> QED BY <1>t, <3>1, <3>2, SortedGoesOn
    <2> QED BY <1>7, <2>2, <2>3 DEF ParseMap
  <1>8. CASE SortedElement
    <2>1. /\ task = "sorted" /\ sub = "preimage" /\ phase = "ok"
          /\ plain' = (plain /\ ShortElement) /\ answers = {} /\ values = {}
          /\ map \in MapType /\ cur_el_idx \in Nat /\ prev_el \in Seq(Byte)
      BY <1>8, <1>i, <1>t DEF SortedElement, Results, Looking, Ways, HandlerType
    <2>2. CASE FailWith
      BY <1>t, <2>1, <2>2, FailKeeps
    <2>3. CASE /\ InOrder /\ AskSorted(map, cur_el_idx + 1, given)
               /\ UNCHANGED <<map, key, how, lookups, answers, values>>
      <3>1. ASSUME plain' PROVE Distinct(map, cur_el_idx + 1) /\ Below(map, cur_el_idx + 1, given)
        <4>1. /\ hashed \in Seq(Byte) /\ hashed # <<>> /\ Sha(hashed) = want
              /\ given = Tail(hashed)
          BY <1>i, <2>1, <3>1, ReceivedElement DEF InPreimage
        <4>2. want = KeyLeaf(map, cur_el_idx) /\ want \in Roots
          BY <1>i, <2>1, <3>1 DEF InPreimage
        <4>3. Distinct(map, cur_el_idx) /\ Below(map, cur_el_idx, prev_el)
          BY <1>i, <2>1, <3>1 DEF SoFar
        <4>4. cur_el_idx > 0 => Less(prev_el, Tail(hashed))
          BY <2>3, <4>1 DEF InOrder
        <4>5. Distinct(map, cur_el_idx + 1) /\ Below(map, cur_el_idx + 1, Tail(hashed))
          BY <2>1, <4>1, <4>2, <4>3, <4>4, NextKey
        <4> QED BY <4>1, <4>5
      <3>2. cur_el_idx + 1 \in Nat /\ map' = map /\ answers' = {} /\ values' = {}
        BY <2>1, <2>3
      <3> QED BY <1>t, <2>1, <2>3, <3>1, <3>2, SortedGoesOn
    <2> QED BY <1>8, <2>2, <2>3 DEF SortedElement
  <1>9. ASSUME NEW k \in Keys, NEW way \in Ways, Lookup(k, way) PROVE MapInv'
    <2>1. InProof' /\ InPreimage'
      BY <1>9 DEF Lookup, InProof, InPreimage
    <2>2. SoFar' /\ Results'
      BY <1>9, <1>i DEF Lookup, SoFar, Results, Looking, Ways
    <2> QED BY <2>1, <2>2 DEF MapInv
  <1>10. CASE IndexRefused
    BY <1>10, <1>t, FailKeeps DEF IndexRefused
  <1>11. ASSUME NEW i \in Answers, IndexAnswer(i) PROVE MapInv'
    <2>1. InProof' /\ InPreimage'
      BY <1>11 DEF IndexAnswer, AskLeaf, InProof, InPreimage, Ways
    <2>2. SoFar' /\ Results'
      BY <1>11, <1>i DEF IndexAnswer, SoFar, Results, Looking, Ways
    <2> QED BY <2>1, <2>2 DEF MapInv
  <1>12. CASE KeyChecked
    <2>1. task = "index" /\ sub = "proof" /\ stage = "ok" /\ plain' = (plain /\ AtLeaf)
      BY <1>12 DEF KeyChecked
    <2>2. CASE FailWith
      BY <1>t, <2>1, <2>2, FailKeeps
    <2>3. CASE /\ IsKey /\ task' = how /\ sub' = "proof"
               /\ AskLeaf(map.values_root, map.size, index)
               /\ UNCHANGED <<map, cur_el_idx, prev_el, key, how, lookups, answers, values>>
      <3>1. root = map.keys_root /\ size = map.size /\ how \in Ways
        BY <1>i, <1>t, <2>1 DEF InProof, HandlerType
      <3>2. plain' => plain /\ index \in 0 .. size - 1 /\ KeyLeaf(map, index) = ElementHash(key)
        BY <2>1, <2>3, <3>1, AcceptedLeaf DEF IsKey, KeyLeaf
      <3>3. plain' => index < map.size
        BY <2>1, <3>1 DEF AtLeaf
      <3>4. InProof'
        BY <2>3, <3>1, <3>2, <3>3 DEF InProof, AskLeaf, Ways
      <3>5. InPreimage'
        BY <2>3 DEF InPreimage
      <3>6. SoFar' /\ Results'
        BY <1>i, <2>1, <2>3, <3>1, <3>2 DEF SoFar, Results, Looking, Ways
      <3> QED BY <3>4, <3>5, <3>6 DEF MapInv
    <2> QED BY <1>12, <2>2, <2>3 DEF KeyChecked
  <1>13. CASE ValueHash
    <2>1. /\ task = "value_hash" /\ sub = "proof" /\ stage = "ok" /\ plain' = (plain /\ AtLeaf)
          /\ task' = "ready" /\ sub' = "none" /\ answers' = answers \cup {<<key, out>>}
          /\ UNCHANGED <<map, cur_el_idx, prev_el, key, values>>
      BY <1>13 DEF ValueHash
    <2>2. plain' => plain /\ Bound(map, key, out)
      BY <1>i, <2>1, AcceptedLeaf DEF InProof, Bound, Ways
    <2>3. InProof' /\ InPreimage' /\ SoFar'
      BY <1>i, <2>1 DEF InProof, InPreimage, SoFar, Looking, Ways
    <2>4. plain' => \A a \in answers' : Bound(map, a[1], a[2])
      BY <1>i, <2>1, <2>2 DEF Results
    <2>5. Results'
      BY <1>i, <2>1, <2>4 DEF Results, Looking
    <2> QED BY <2>3, <2>5 DEF MapInv
  <1>14. CASE Value
    <2>1. /\ task \in {"value", "stream"} /\ sub = "preimage" /\ phase = "ok"
          /\ plain' = (plain /\ ShortElement) /\ task' = "ready" /\ sub' = "none"
          /\ answers' = answers \cup {<<key, want>>} /\ values' = values \cup {<<key, given>>}
          /\ UNCHANGED <<map, cur_el_idx, prev_el, key>>
      BY <1>14 DEF Value
    <2>2. plain' => plain /\ Bound(map, key, want) /\ want \in Roots
      BY <1>i, <2>1 DEF InPreimage
    <2>3. plain' => hashed \in Seq(Byte) /\ given = Tail(hashed) /\ Sha(hashed) = want
      BY <1>i, <2>1, ReceivedElement DEF InPreimage
    <2>4. InProof' /\ InPreimage' /\ SoFar'
      BY <1>i, <2>1 DEF InProof, InPreimage, SoFar, Looking, Ways
    <2>5. plain' => \A a \in answers' : Bound(map, a[1], a[2])
      BY SMTT(30), ZenonT(20), <1>i, <2>1, <2>2 DEF Results
    <2>6. plain' => \A v \in values' : \E b \in Seq(Byte) :
                      v[2] = Tail(b) /\ Sha(b) \in Roots /\ Bound(map, v[1], Sha(b))
      BY SMTT(30), ZenonT(20), <1>i, <2>1, <2>2, <2>3 DEF Results
    <2>7. Results'
      BY <2>1, <2>5, <2>6 DEF Results, Looking
    <2> QED BY <2>4, <2>7 DEF MapInv
  <1>15. CASE UNCHANGED vars
    <2>1. InProof' /\ InPreimage'
      BY <1>i, <1>15 DEF vars, proofVars, preimageVars, mapVars, InProof, InPreimage
    <2>2. SoFar' /\ Results'
      BY <1>i, <1>15 DEF vars, mapVars, SoFar, Results
    <2> QED BY <2>1, <2>2 DEF MapInv
  <1> QED
    BY <1>1, <1>2, <1>3, <1>4, <1>5, <1>6, <1>7, <1>8, <1>9, <1>10, <1>11, <1>12, <1>13,
       <1>14, <1>15 DEF Next

\* What is known of the map implies what the runs check.
LEMMA MapMeans ==
  ASSUME NoCollisions, Base, MapInv
  PROVE  KeysDistinct /\ LookupIsBound /\ LookupsAgree
  <1>1. KeysDistinct
    BY DEF MapInv, SoFar, Distinct, KeysDistinct, KeyLeaf
  <1>2. LookupIsBound
    BY DEF MapInv, Results, Bound, LookupIsBound, KeyLeaf
  <1>3. ASSUME plain, NEW k, NEW g, NEW h, Bound(map, k, g), Bound(map, k, h), task \in Looking
        PROVE  g = h
    BY <1>3 DEF MapInv, SoFar, Distinct, Bound
  <1>4. ASSUME plain, NEW a \in answers, NEW b \in answers, a[1] = b[1] PROVE a[2] = b[2]
    BY <1>3, <1>4 DEF MapInv, Results
  <1>5. ASSUME plain, NEW v \in values, NEW w \in values, v[1] = w[1] PROVE v[2] = w[2]
    <2>1. PICK b \in Seq(Byte) :
            v[2] = Tail(b) /\ Sha(b) \in Roots /\ Bound(map, v[1], Sha(b))
      BY <1>5 DEF MapInv, Results
    <2>2. PICK c \in Seq(Byte) :
            w[2] = Tail(c) /\ Sha(c) \in Roots /\ Bound(map, w[1], Sha(c))
      BY <1>5 DEF MapInv, Results
    <2>3. task \in Looking
      BY <1>5 DEF MapInv, Results
    <2>4. Sha(b) = Sha(c)
      BY <1>3, <1>5, <2>1, <2>2, <2>3
    <2> QED BY <2>1, <2>2, <2>4 DEF NoCollisions
  <1>6. LookupsAgree
    BY <1>4, <1>5 DEF LookupsAgree
  <1> QED BY <1>1, <1>2, <1>6

\* In every reachable state of the handler: the keys of a checked map are distinct, a value
\* belongs to the index of its key, and two lookups of a key agree, whatever the client says.
THEOREM LookupsAreCommitted ==
  NoCollisions /\ StrictOrder => (Spec => [](KeysDistinct /\ LookupIsBound /\ LookupsAgree))
  <1> SUFFICES ASSUME NoCollisions, StrictOrder
               PROVE  Spec => [](KeysDistinct /\ LookupIsBound /\ LookupsAgree)
    OBVIOUS
  <1>1. Init => MapInv
    BY DEF Init, MapInv, InProof, InPreimage, SoFar, Results, Looking, Ways
  <1>2. Base /\ MapInv /\ [Next]_vars => MapInv'
    BY MapStep
  <1>3. Base /\ MapInv => KeysDistinct /\ LookupIsBound /\ LookupsAgree
    BY MapMeans
  <1> QED BY <1>1, <1>2, <1>3, BaseInit, BaseStep, PTL DEF Spec

\* call_get_merkleized_map_value answers with the value at the index of the
\* key it was asked for.
THEOREM LookupsAreBound == NoCollisions /\ StrictOrder => (Spec => []LookupIsBound)
  <1> SUFFICES ASSUME NoCollisions, StrictOrder PROVE Spec => []LookupIsBound
    OBVIOUS
  <1>1. Spec => [](KeysDistinct /\ LookupIsBound /\ LookupsAgree)
    BY LookupsAreCommitted
  <1> QED BY <1>1, PTL
==============================================================================
