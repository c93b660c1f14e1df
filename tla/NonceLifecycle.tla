--------------------------- MODULE NonceLifecycle ---------------------------
(***************************************************************************)
(* What the MuSig2 session store promises, as a specification of its own.  *)
(* A root of randomness is drawn for one session; it may be kept across    *)
(* commands, then it is taken out to be spent, and it dies.  Every nonce   *)
(* derived from it signs at most once, and only while the root is being    *)
(* spent.  A dead root never comes back.                                   *)
(***************************************************************************)
EXTENDS Naturals

CONSTANTS Roots,     \* the roots of randomness that can be drawn
          Positions  \* the (key expression, input) pairs of a transaction

VARIABLES life,  \* life[r]: where the root r is
          used   \* the nonces, as <<root, position>>, that have signed

vars == <<life, used>>

Stages == {"undrawn", "fresh", "kept", "spending", "dead"}

TypeOK ==
  /\ life \in [Roots -> Stages]
  /\ used \subseteq Roots \X Positions

Init ==
  /\ life = [r \in Roots |-> "undrawn"]
  /\ used = {}

\* The stages a root may move to in one step; a root that was just drawn may
\* already be lost at the end of the step, when yielding its pubnonce fails.
May(a, b) ==
  \/ a = b
  \/ a = "undrawn" /\ b \in {"fresh", "dead"}
  \/ a = "fresh" /\ b \in {"kept", "dead"}
  \/ a = "kept" /\ b \in {"spending", "dead"}
  \/ a = "spending" /\ b = "dead"

\* At most one nonce signs in a step: its root is being spent, or is taken out
\* of the store by this very step, and it has not signed before.
MaySign ==
  \/ used' = used
  \/ \E r \in Roots, p \in Positions :
       /\ life[r] \in {"kept", "spending"}
       /\ life'[r] \in {"spending", "dead"}
       /\ <<r, p>> \notin used
       /\ used' = used \cup {<<r, p>>}

Next ==
  /\ life' \in [Roots -> Stages]
  /\ \A r \in Roots : May(life[r], life'[r])
  /\ MaySign

Spec == Init /\ [][Next]_vars
=============================================================================
