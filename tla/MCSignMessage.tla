--------------------------- MODULE MCSignMessage ---------------------------
(***************************************************************************)
(* Messages for model checking SignMessage.                                *)
(***************************************************************************)
EXTENDS SignMessage

\* One chunk to three displays, the longest that is shown, one more, a binary chunk
\* in each place, a short chunk in each place.
MCMessages ==
  [n : 1 .. 4, short : {{}}, binary : {{}}]
  \cup {[n |-> n, short |-> {n - 1}, binary |-> {}] : n \in {5, 6, 7}}
  \cup {[n |-> 3, short |-> {}, binary |-> {b}] : b \in 0 .. 2}
  \cup {[n |-> 3, short |-> {s}, binary |-> {}] : s \in 0 .. 1}
=============================================================================
