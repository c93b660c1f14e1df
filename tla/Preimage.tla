------------------------------ MODULE Preimage -------------------------------
(***************************************************************************)
(* The three functions that ask the client for the preimage of a hash and  *)
(* receive it in pieces:                                                   *)
(*   "get"     call_get_preimage: all the bytes, into a buffer;            *)
(*   "merkle"  call_get_merkle_preimage: a leaf without its prefix byte,   *)
(*             into a buffer;                                              *)
(*   "stream"  call_stream_preimage: a leaf without its prefix byte, each  *)
(*             piece to a callback before the hash of the whole is known.  *)
(* The client may answer anything.                                         *)
(***************************************************************************)
EXTENDS Integers, Sequences

CONSTANTS
  Byte,         \* what a preimage is made of
  Stale,        \* a byte that is not of this message
  Sha(_),       \* SHA-256
  Digest,       \* the hashes
  U32,          \* 2^32
  LONG          \* 253, the first length whose varint takes three bytes

ASSUME PreimageConstants ==
  /\ U32 \in Nat \ {0} /\ LONG \in Nat /\ Stale \in Byte /\ Digest # {}

VARIABLES
  phase,        \* "idle", "asked", "more", "ok", "failed"
  kind,         \* which of the three functions
  want,         \* the hash
  room,         \* the length of the output buffer
  total,        \* the announced length
  hashed,       \* the bytes fed to the hash
  given,        \* the bytes written to the buffer or given to the callback
  first         \* the length of the first piece

preimageVars == <<phase, kind, want, room, total, hashed, given, first>>

Kinds == {"get", "merkle", "stream"}

AnyHash == CHOOSE h \in Digest : TRUE

PreimageInit ==
  /\ phase = "idle" /\ kind = "get" /\ want = AnyHash /\ room = 0 /\ total = 0
  /\ hashed = <<>> /\ given = <<>> /\ first = 0

\* The locals of a call, before they are set and after it failed.
Empty == total' = 0 /\ hashed' = <<>> /\ given' = <<>> /\ first' = 0

AskPreimage(k, hash, length) ==
  phase' = "asked" /\ kind' = k /\ want' = hash /\ room' = length /\ Empty

\* The call is over and its frame is gone.
PreimageReturns ==
  /\ phase' = "idle" /\ kind' = "get" /\ want' = AnyHash /\ room' = 0 /\ Empty

PreimageFails == phase' = "failed" /\ Empty /\ UNCHANGED <<kind, want, room>>

\* No answer, a short one, or elements that are not single bytes.
PreimageRefused ==
  phase \in {"asked", "more"} /\ PreimageFails

\* The length each function works with: call_get_merkle_preimage compares the 64 bits.
Announced(length) == IF kind = "merkle" THEN length ELSE length % U32

Accepts(length, n) ==
  /\ Announced(length) >= 1 /\ n <= Announced(length)
  /\ kind = "merkle" => n >= 1 /\ length - 1 <= room

\* buffer_write_bytes writes all of a piece or nothing.
Written(old, piece) == IF Len(old) + Len(piece) <= room THEN old \o piece ELSE old

\* What the first piece gives: a Merkle leaf loses its prefix.  An empty first piece of a
\* stream makes a buffer of length -1.
GivenFirst(piece) ==
  IF kind = "get" THEN Written(<<>>, piece)
  ELSE IF piece = <<>> THEN <<Stale>>
  ELSE IF kind = "merkle" THEN Written(<<>>, Tail(piece))
  ELSE Tail(piece)

\* What call_get_merkle_preimage copies of a later piece: it reads from where the first
\* message had its data, two bytes too far if the length took three.
Shifted(piece) ==
  IF total < LONG THEN piece
  ELSE [i \in 1 .. Len(piece) |-> IF i + 2 <= Len(piece) THEN piece[i + 2] ELSE Stale]

\* Mutant: the first message's data again.
GivenAgain(piece) ==
  IF kind = "get" THEN Written(given, piece)
  ELSE IF kind = "merkle" THEN Written(given, SubSeq(hashed \o piece, 1, Len(piece)))
  ELSE given \o piece

GivenMore(piece) ==
  IF kind = "get" THEN Written(given, piece)
  ELSE IF kind = "merkle" THEN Written(given, Shifted(piece))
  ELSE given \o piece

FirstPiece(length, piece) ==
  /\ phase = "asked" /\ Accepts(length, Len(piece))
  /\ total' = Announced(length) /\ hashed' = piece /\ first' = Len(piece)
  /\ given' = GivenFirst(piece)
  /\ phase' = "more"
  /\ UNCHANGED <<kind, want, room>>

FirstRefused(length, piece) ==
  phase = "asked" /\ ~Accepts(length, Len(piece)) /\ PreimageFails

\* A later piece (an empty one too).
MorePiece(piece) ==
  /\ phase = "more" /\ Len(hashed) < total /\ Len(hashed) + Len(piece) <= total
  /\ hashed' = hashed \o piece /\ given' = GivenMore(piece)
  /\ UNCHANGED <<phase, kind, want, room, total, first>>

PieceRefused(piece) ==
  /\ phase = "more" /\ Len(hashed) < total /\ Len(hashed) + Len(piece) > total
  /\ PreimageFails

CheckHash ==
  /\ phase = "more" /\ Len(hashed) = total
  /\ \/ /\ Sha(hashed) = want /\ phase' = "ok"
        /\ UNCHANGED <<kind, want, room, total, hashed, given, first>>
     \/ Sha(hashed) # want /\ PreimageFails

PreimageNext ==
  \/ \E k \in Kinds, hash \in Digest, length \in Nat :
       AskPreimage(k, hash, length)
  \/ PreimageReturns \/ PreimageRefused
  \/ \E length \in Nat, piece \in Seq(Byte) :
       FirstPiece(length, piece) \/ FirstRefused(length, piece)
  \/ \E piece \in Seq(Byte) : MorePiece(piece) \/ PieceRefused(piece)
  \/ CheckHash

PreimageSpec == PreimageInit /\ [][PreimageNext]_preimageVars

-----------------------------------------------------------------------------
PreimageTypeOK ==
  /\ phase \in {"idle", "asked", "more", "ok", "failed"}
  /\ kind \in Kinds /\ want \in Digest /\ room \in Nat /\ total \in Nat /\ first \in Nat
  /\ hashed \in Seq(Byte) /\ given \in Seq(Byte)

\* The bytes handed over, at every point of the transfer.
GivenIsHashed ==
  /\ kind = "get" /\ total <= room => given = hashed
  /\ kind = "merkle" /\ total < LONG => given = Tail(hashed)
  /\ kind = "stream" /\ first # 0 => given = Tail(hashed)

\* However the client cuts the preimage: when a call succeeds, the caller has exactly the
\* bytes that were hashed (without the prefix of a leaf), as many as were announced, if they
\* fit in a buffer, their length is a one-byte varint, or the first piece of a stream is not
\* empty.
PreimageDelivered ==
  phase = "ok" =>
    /\ Sha(hashed) = want /\ Len(hashed) = total
    /\ GivenIsHashed
    /\ kind # "stream" => Len(given) <= room
==============================================================================
