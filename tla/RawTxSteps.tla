----------------------------- MODULE RawTxSteps -----------------------------
(***************************************************************************)
(* The steps of the parser of a serialized transaction, psbt_parse_rawtx.c.*)
(* The state of the parser and of its sub-parsers is one record; a step    *)
(* reads some bytes and says which step is next.  The init steps, which    *)
(* read nothing, are part of the step before them.  Bytes are the numbers  *)
(* below Base, so that a varint can have its four forms with a small Base. *)
(***************************************************************************)
EXTENDS Integers, Sequences

CONSTANTS Base,       \* 256
          UintMod,    \* 2^32, an unsigned int
          Chunk,      \* 32, the size of the store and of the largest read
          Width,      \* the sizes of the fields of fixed size, by step
          MAX_PREVOUT_SCRIPTPUBKEY_LEN,
          Junk        \* what uninitialized memory holds

Fixed == {"version", "txid", "vout", "sequence", "value", "locktime"}
Varints == {"input_count", "scriptsig_size", "output_count", "scriptpubkey_size",
            "stack", "element_len"}
Blocks == {"scriptsig", "scriptpubkey", "element"}
Steps == Fixed \cup Varints \cup Blocks \cup {"check_segwit", "end"}

ASSUME SizesOK ==
  /\ Base \in Nat /\ Base > 3
  /\ Chunk \in Nat /\ Chunk > 8
  /\ UintMod \in Nat /\ UintMod \div 2 > Chunk
  /\ Width \in [Fixed -> 1 .. Chunk]

\* The state of call_psbt_parse_rawtx before the first byte.
InitState(output_index) ==
  [where |-> "version", error |-> FALSE, is_segwit |-> FALSE,
   n_inputs |-> 0, n_outputs |-> 0, counter |-> 0,
   size |-> 0, done |-> 0, stack |-> 0, element |-> 0,
   output_index |-> output_index, hashed |-> <<>>, value |-> Junk, spk_len |-> Junk,
   script |-> [i \in 1 .. MAX_PREVOUT_SCRIPTPUBKEY_LEN |-> Junk]]

Fields == DOMAIN InitState(0)

ParserOK(s) ==
  /\ s = [f \in Fields |-> s[f]]
  /\ s.where \in Steps /\ s.error \in BOOLEAN
  /\ s.size \in Nat /\ s.done \in 0 .. s.size

LittleEndian(v, n) == [i \in 1 .. n |-> (v \div Base ^ (i - 1)) % Base]

\* varint_write, for crypto_hash_update_varint.
varint_write(v) ==
  IF v < Base - 3 THEN <<v>>
  ELSE IF v < Base ^ 2 THEN <<Base - 3>> \o LittleEndian(v, 2)
  ELSE IF v < Base ^ 4 THEN <<Base - 2>> \o LittleEndian(v, 4)
  ELSE <<Base - 1>> \o LittleEndian(v, 8)

VarintLen(first) ==
  CASE first = Base - 3 -> 2 [] first = Base - 2 -> 4 [] first = Base - 1 -> 8
    [] OTHER -> 0

\* The value of the bytes b that dbuffer_read_varint reads: 1, 3, 5 or 9.
dbuffer_read_varint(b) ==
  LET Two(i, above) == b[i] + Base * (b[i + 1] + Base * above)
  IN  CASE Len(b) = 3 -> Two(2, 0)
        [] Len(b) = 5 -> Two(2, Two(4, 0))
        [] Len(b) = 9 -> Two(2, Two(4, Two(6, Two(8, 0))))
        [] OTHER -> b[1]

\* Mutant of DataLen: the rest is read at once.
DataLenRest(s) == s.size - s.done

\* A read of at most Chunk bytes.  A rest that is negative as an int is not cut,
\* and becomes a large size_t again.
DataLen(s) ==
  LET rest == s.size - s.done
  IN  IF rest < UintMod \div 2 /\ rest > Chunk THEN Chunk ELSE rest

\* How many bytes the step wants to see, if avail are the ones there are...
Need(s, avail) ==
  CASE s.where \in Fixed -> Width[s.where]
    [] s.where \in Varints ->
         IF avail = <<>> THEN 1 ELSE 1 + VarintLen(avail[1])
    [] s.where = "check_segwit" -> IF avail # <<>> /\ avail[1] = 0 THEN 2 ELSE 1
    [] s.where \in Blocks -> DataLen(s)
    [] OTHER -> 0

\* ... and how many it reads: the first byte of a legacy transaction is a peek.
Takes(s, avail) ==
  IF s.where = "check_segwit" /\ avail[1] # 0 THEN 0 ELSE Need(s, avail)

dbuffer_can_read(s, avail) == Need(s, avail) <= Len(avail)

Halted(s) == s.error \/ s.where = "end"
-----------------------------------------------------------------------------
crypto_hash_update(s, b) == [s EXCEPT !.hashed = @ \o b]

\* Mutant of Relevant: every output is taken for the one asked for.
RelevantAny(s) == TRUE

Relevant(s) == s.counter = s.output_index

parse_rawtx_inputs(s) ==
  [s EXCEPT !.where = IF s.counter < s.n_inputs THEN "txid" ELSE "output_count"]

parse_rawtx_witnesses(s) ==
  [s EXCEPT !.where = IF s.is_segwit /\ s.counter < s.n_inputs
                      THEN "stack" ELSE "locktime"]

parse_rawtx_outputs(s) ==
  IF s.counter < s.n_outputs THEN [s EXCEPT !.where = "value"]
  ELSE parse_rawtx_witnesses([s EXCEPT !.counter = 0])

next_element(s) ==
  IF s.element < s.stack THEN [s EXCEPT !.where = "element_len"]
  ELSE parse_rawtx_witnesses([s EXCEPT !.counter = @ + 1])

\* Mutant of parse_rawtx_check_segwit: the marker and the flag are hashed.
parse_rawtx_check_segwit_hashed(s, b) ==
  IF b = <<>> THEN [s EXCEPT !.where = "input_count"]
  ELSE [crypto_hash_update(s, b) EXCEPT !.is_segwit = TRUE, !.where = "input_count"]

\* Reads the marker and the flag of a segwit transaction, or nothing.
parse_rawtx_check_segwit(s, b) ==
  IF b = <<>> THEN [s EXCEPT !.where = "input_count"]
  ELSE IF b[2] # 1 THEN [s EXCEPT !.error = TRUE]
  ELSE [s EXCEPT !.is_segwit = TRUE, !.where = "input_count"]

\* Mutant of parse_rawtxinput_scriptsig: an empty script never ends.
parse_rawtxinput_scriptsig_some(s, b) ==
  LET t == [crypto_hash_update(s, b) EXCEPT !.done = @ + Len(b)]
  IN  [t EXCEPT !.where = IF t.done = t.size /\ b # <<>> THEN "sequence" ELSE @]

parse_rawtxinput_scriptsig(s, b) ==
  LET t == [crypto_hash_update(s, b) EXCEPT !.done = @ + Len(b)]
  IN  [t EXCEPT !.where = IF t.done = t.size THEN "sequence" ELSE @]

parse_rawtxoutput_value(s, b) ==
  [crypto_hash_update(s, b) EXCEPT !.where = "scriptpubkey_size",
                                   !.value = IF Relevant(s) THEN b ELSE @]

parse_rawtxoutput_scriptpubkey_size(s, v) ==
  [crypto_hash_update(s, varint_write(v)) EXCEPT
     !.where = "scriptpubkey", !.size = v % UintMod, !.done = 0,
     !.spk_len = IF Relevant(s) THEN v % UintMod ELSE @]

\* Mutant of memcpy: every block goes to the start of the buffer.
memcpy_start(script, at, b) ==
  [i \in DOMAIN script |-> IF i \in 1 .. Len(b) THEN b[i] ELSE script[i]]

\* The block b at offset at of vout_scriptpubkey.
memcpy(script, at, b) ==
  [i \in DOMAIN script |-> IF i \in at + 1 .. at + Len(b) THEN b[i - at] ELSE script[i]]

\* parse_rawtx_outputs keeps the result of the sub-parser in a bool, so the error
\* of a scriptPubKey that is too long counts as the end of the output.
parse_rawtxoutput_scriptpubkey(s, b) ==
  LET t == crypto_hash_update(s, b)
      next == parse_rawtx_outputs([t EXCEPT !.counter = @ + 1])
      copied == [t EXCEPT !.done = @ + Len(b),
                          !.script = IF Relevant(s) THEN memcpy(@, s.done, b) ELSE @]
  IN  IF Relevant(s) /\ s.spk_len > MAX_PREVOUT_SCRIPTPUBKEY_LEN THEN next
      ELSE IF copied.done = s.size
      THEN parse_rawtx_outputs([copied EXCEPT !.counter = @ + 1])
      ELSE copied

\* The length and the bytes of a stack element; an empty one has no bytes to read.
parse_element_len(s, v) ==
  IF v % UintMod = 0 THEN next_element([s EXCEPT !.element = @ + 1])
  ELSE [s EXCEPT !.where = "element", !.size = v % UintMod, !.done = 0]
parse_element(s, b) ==
  IF s.done + Len(b) < s.size THEN [s EXCEPT !.done = @ + Len(b)]
  ELSE next_element([s EXCEPT !.element = @ + 1])

\* One call of a step that has its bytes.
Parse(s, b) ==
  LET v == dbuffer_read_varint(b)
      hash == crypto_hash_update(s, b)
      hash_v == crypto_hash_update(s, varint_write(v))
  IN  CASE s.where = "version" -> [hash EXCEPT !.where = "check_segwit"]
        [] s.where = "check_segwit" -> parse_rawtx_check_segwit(s, b)
        [] s.where = "input_count" ->
             parse_rawtx_inputs([hash_v EXCEPT !.n_inputs = v % UintMod, !.counter = 0])
        [] s.where = "txid" -> [hash EXCEPT !.where = "vout"]
        [] s.where = "vout" -> [hash EXCEPT !.where = "scriptsig_size"]
        [] s.where = "scriptsig_size" ->
             [hash_v EXCEPT !.where = "scriptsig", !.size = v % UintMod, !.done = 0]
        [] s.where = "scriptsig" -> parse_rawtxinput_scriptsig(s, b)
        [] s.where = "sequence" ->
             parse_rawtx_inputs([hash EXCEPT !.counter = @ + 1])
        [] s.where = "output_count" ->
             parse_rawtx_outputs([hash_v EXCEPT !.n_outputs = v % UintMod, !.counter = 0])
        [] s.where = "value" -> parse_rawtxoutput_value(s, b)
        [] s.where = "scriptpubkey_size" -> parse_rawtxoutput_scriptpubkey_size(s, v)
        [] s.where = "scriptpubkey" -> parse_rawtxoutput_scriptpubkey(s, b)
        [] s.where = "stack" -> next_element([s EXCEPT !.stack = v % UintMod, !.element = 0])
        [] s.where = "element_len" -> parse_element_len(s, v)
        [] s.where = "element" -> parse_element(s, b)
        [] s.where = "locktime" -> [hash EXCEPT !.where = "end"]
=============================================================================
