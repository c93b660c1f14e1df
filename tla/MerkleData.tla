----------------------------- MODULE MerkleData ------------------------------
(***************************************************************************)
(* What ClientProtocol leaves abstract: the two kinds of preimages and the *)
(* shape of the trees (common/merkle), the order of elements, and the      *)
(* encoding of a commitment.  A byte is <<"byte", n>>; the 32 bytes of a   *)
(* hash are one <<"hash", name>>.                                          *)
(***************************************************************************)
EXTENDS Integers, Sequences

LeafPrefix == <<"byte", 0>>
NodePrefix == <<"byte", 1>>
Junk == <<"hash", "junk">>

\* What merkle_compute_element_hash and merkle_combine_hashes hash.
merkle_element(in) == <<LeafPrefix>> \o in
merkle_combined(left, right) == <<NodePrefix, left, right>>

\* The smallest d with 2^d >= n.
ceil_lg(n) == CHOOSE d \in 0 .. n : 2 ^ d >= n /\ \A e \in 0 .. d - 1 : 2 ^ e < n

RECURSIVE DirectionsFrom(_, _)
DirectionsFrom(size, index) ==
  IF size <= 1 THEN <<>>
  ELSE LET mask == 2 ^ (ceil_lg(size) - 1)
       IN  IF (index \div mask) % 2 = 1
             THEN <<1>> \o DirectionsFrom(size - mask, index - mask)
             ELSE <<0>> \o DirectionsFrom(mask, index)

\* Mutant: a set bit goes left.
merkle_get_direction_flipped(size, index, i) ==
  IF size <= 1 \/ index >= size THEN -1
  ELSE LET d == DirectionsFrom(size, index)
       IN  IF i < Len(d) THEN 1 - d[i + 1] ELSE -1

merkle_get_ith_direction(size, index, i) ==
  IF size <= 1 \/ index >= size THEN -1
  ELSE LET d == DirectionsFrom(size, index)
       IN  IF i < Len(d) THEN d[i + 1] ELSE -1

\* compare_byte_arrays < 0.  Hashes compare like large bytes.
Rank(byte) == IF byte[1] = "byte" THEN byte[2] ELSE 256

compare_less(array1, array2) ==
  \/ /\ Len(array1) < Len(array2)
     /\ \A i \in 1 .. Len(array1) : Rank(array1[i]) = Rank(array2[i])
  \/ \E i \in 1 .. Len(array1) :
       /\ i <= Len(array2) /\ Rank(array1[i]) < Rank(array2[i])
       /\ \A j \in 1 .. i - 1 : Rank(array1[j]) = Rank(array2[j])

\* The varint of the size, and the two roots; what follows them is not looked at.
read_commitment(bytes) ==
  IF Len(bytes) >= 3 /\ bytes[1][1] = "byte" /\ bytes[2][1] # "byte" /\ bytes[3][1] # "byte"
    THEN [size |-> bytes[1][2], keys_root |-> bytes[2], values_root |-> bytes[3]]
    ELSE [size |-> -1, keys_root |-> Junk, values_root |-> Junk]
==============================================================================
