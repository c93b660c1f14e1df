----------------------------- MODULE RawTxWhole -----------------------------
(***************************************************************************)
(* What the parser promises, whatever its steps are: it runs over the      *)
(* transaction as a whole.  There is no chunk, no store and no callback.   *)
(***************************************************************************)
EXTENDS Integers, Sequences

CONSTANTS InitState(_), Halted(_), dbuffer_can_read(_, _), Takes(_, _), Parse(_, _)
CONSTANTS Streams,    \* the values that the client may stream
          Indices     \* the outputs that may be asked for

VARIABLES bytes,      \* the value of the map, a serialized transaction
          pos,        \* how much of it the parser has read
          s,          \* the state of the parser
          result      \* what call_psbt_parse_rawtx returned

vars == <<bytes, pos, s, result>>

Rest == SubSeq(bytes, pos + 1, Len(bytes))

Init ==
  /\ bytes \in Streams /\ pos = 0
  /\ s \in {InitState(i) : i \in Indices}
  /\ result = "none"

Read ==
  /\ result = "none" /\ ~Halted(s) /\ dbuffer_can_read(s, Rest)
  /\ s' = Parse(s, SubSeq(Rest, 1, Takes(s, Rest)))
  /\ pos' = pos + Takes(s, Rest)
  /\ UNCHANGED <<bytes, result>>

Fail == result = "none" /\ result' = "failed" /\ UNCHANGED <<bytes, pos, s>>

\* Success is the result when the parser cannot go on, finished or not.
Succeed ==
  /\ result = "none" /\ ~s.error
  /\ Halted(s) \/ ~dbuffer_can_read(s, Rest)
  /\ result' = "ok"
  /\ UNCHANGED <<bytes, pos, s>>

Next == Read \/ Fail \/ Succeed

Spec == Init /\ [][Next]_vars
=============================================================================
