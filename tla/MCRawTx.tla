------------------------------ MODULE MCRawTx -------------------------------
(***************************************************************************)
(* Transactions for model checking RawTx, and what parsing them must give. *)
(* A transaction is given by the sizes of its scripts and of the elements  *)
(* of its witness stacks.                                                  *)
(***************************************************************************)
EXTENDS RawTx, SequencesExt

Widths == [version |-> 2, txid |-> 9, vout |-> 2, sequence |-> 1, value |-> 3,
           locktime |-> 2]

Fill(n, k) == [i \in 1 .. n |-> (i + k) % Base]
String(n, k) == varint_write(n) \o Fill(n, k)
List(seq, Bytes(_)) == varint_write(Len(seq)) \o FlattenSeq([i \in DOMAIN seq |-> Bytes(i)])

InputBytes(tx, i) ==
  Fill(Width["txid"], i) \o Fill(Width["vout"], 3) \o String(tx.ins[i], i)
    \o Fill(Width["sequence"], 4)
Value(i) == Fill(Width["value"], 2 * i)
OutputBytes(tx, i) == Value(i) \o String(tx.outs[i], i)
StackBytes(stack) == List(stack, LAMBDA e : String(stack[e], e))

Version == Fill(Width["version"], 1)
Locktime == Fill(Width["locktime"], 6)
Lists(tx) == List(tx.ins, LAMBDA i : InputBytes(tx, i))
               \o List(tx.outs, LAMBDA i : OutputBytes(tx, i))

\* What the txid is the hash of, and the serialization of BIP-144.
Hashed(tx) == Version \o Lists(tx) \o Locktime
Serialized(tx) ==
  IF tx.stacks = <<>> THEN Hashed(tx)
  ELSE Version \o <<0, 1>> \o Lists(tx)
         \o FlattenSeq([i \in DOMAIN tx.stacks |-> StackBytes(tx.stacks[i])]) \o Locktime

Tx(ins, outs, stacks) == [ins |-> ins, outs |-> outs, stacks |-> stacks]

Transactions ==
  {Tx(<<sig>>, outs, stacks) :
     sig \in {4, 19}, outs \in {<<11>>, <<0, 10>>, <<12, 5>>},
     stacks \in {<<>>, << <<10, 0>> >>}}
  \cup {Tx(<<0, 5>>, <<9>>, << <<>>, <<3>> >>)}

\* Whole transactions, transactions cut short, and ones with a byte too many; a
\* wrong flag, and a script whose size is negative as an int.
SomeStreams ==
  LET whole == {Serialized(tx) : tx \in Transactions}
  IN  whole
      \cup {SubSeq(b, 1, Len(b) - 3) : b \in whole} \cup {b \o <<5>> : b \in whole}
      \cup {Version \o <<0, 2>> \o Fill(4, 1)}
      \cup {Version \o <<1>> \o Fill(Width["txid"], 1) \o Fill(Width["vout"], 3)
              \o varint_write(UintMod - 1) \o Fill(15, 1)}
-----------------------------------------------------------------------------
\* Whatever is streamed as the previous transaction: if it is accepted, and the
\* hash is the txid that the PSBT names, then the amount and the scriptPubKey are
\* those of the output asked for.  (If there is such an output, of a supported
\* size.)
AcceptedIsPrevout ==
  result = "ok" => \A tx \in Transactions :
    LET i == s.output_index + 1
    IN  /\ i <= Len(tx.outs) /\ tx.outs[i] <= MAX_PREVOUT_SCRIPTPUBKEY_LEN
        /\ s.hashed = Hashed(tx)
        => /\ s.value = Value(i)
           /\ s.spk_len = tx.outs[i]
           /\ SubSeq(s.script, 1, s.spk_len) = Fill(tx.outs[i], i)

\* A transaction that the client serializes as BIP-144 says is read to its end,
\* and its txid found, however it is cut.  (If the size of the scriptPubKey asked
\* for is supported.)
SerializedIsAccepted ==
  result = "ok" => \A tx \in Transactions :
    LET i == s.output_index + 1
    IN  /\ i <= Len(tx.outs) => tx.outs[i] <= MAX_PREVOUT_SCRIPTPUBKEY_LEN
        /\ bytes = Serialized(tx)
        => s.where = "end" /\ s.hashed = Hashed(tx)

\* parse_rawtxoutput_scriptpubkey: "not expecting any scriptPubkey larger than
\* MAX_PREVOUT_SCRIPTPUBKEY_LEN", which is an error.
LongScriptIsError ==
  result = "ok" => s.spk_len \in {Junk} \cup 0 .. MAX_PREVOUT_SCRIPTPUBKEY_LEN
=============================================================================
