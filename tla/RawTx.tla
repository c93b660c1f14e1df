------------------------------- MODULE RawTx --------------------------------
(***************************************************************************)
(* call_psbt_parse_rawtx: a previous transaction is streamed by the client *)
(* in pieces of the client's choice, and parsed while it arrives.  The     *)
(* parser stops when a step lacks bytes and keeps the unread ones in a     *)
(* store of Chunk bytes.  call_stream_preimage is modelled by what it does *)
(* to its callback; that it compares the hash of the value is in           *)
(* stream_ends.                                                            *)
(***************************************************************************)
EXTENDS RawTxSteps

CONSTANTS Streams,    \* the values that the client may stream
          Indices,    \* the outputs that may be asked for
          MaxPiece    \* bytes in one answer of the client, 253 at most

ASSUME StreamsOK ==
  /\ MaxPiece \in Nat /\ Chunk + MaxPiece < UintMod \div 2
  /\ \A b \in Streams : b \in Seq(0 .. Base - 1) /\ Len(b) < UintMod \div 2

VARIABLES bytes,      \* the value that the map commits to
          sent,       \* how much of it was streamed
          pos,        \* how much of it the parser has read (no state of the code)
          s,          \* parser_state and parser_context
          store, off, \* the store and the offset of its buffer
          data,       \* what is unread of the piece given to cb_process_data
          pc,         \* "parsing" inside cb_process_data, "waiting" outside
          result      \* what call_psbt_parse_rawtx returned

vars == <<bytes, sent, pos, s, store, off, data, pc, result>>

TypeOK ==
  /\ bytes \in Streams
  /\ sent \in 0 .. Len(bytes) /\ pos \in 0 .. Len(bytes)
  /\ ParserOK(s)
  /\ store \in Seq(0 .. Base - 1) /\ Len(store) <= Chunk /\ off \in 0 .. Len(store)
  /\ data \in Seq(0 .. Base - 1) /\ Len(data) <= MaxPiece
  /\ pc \in {"parsing", "waiting"} /\ result \in {"none", "ok", "failed"}

Init ==
  /\ bytes \in Streams /\ sent = 0 /\ pos = 0
  /\ s \in {InitState(i) : i \in Indices}
  /\ store = <<>> /\ off = 0 /\ data = <<>>
  /\ pc = "waiting" /\ result = "none"

\* The two buffers of the parser, one after the other.
Unread == SubSeq(store, off + 1, Len(store)) \o data

Min2(a, b) == IF a < b THEN a ELSE b

\* dbuffer_read_bytes: the store is exhausted first.
dbuffer_read_bytes(n) ==
  LET n0 == Min2(n, Len(store) - off)
  IN  /\ off' = off + n0
      /\ data' = SubSeq(data, n - n0 + 1, Len(data))

\* parser_run, one step that has its bytes.
parser_run ==
  /\ pc = "parsing" /\ ~Halted(s) /\ dbuffer_can_read(s, Unread)
  /\ LET n == Takes(s, Unread)
     IN  /\ s' = Parse(s, SubSeq(Unread, 1, n))
         /\ pos' = pos + n
         /\ dbuffer_read_bytes(n)
  /\ UNCHANGED <<bytes, sent, store, pc, result>>

\* Mutant of parser_consolidate_buffers: the unread part of the store is forgotten.
parser_consolidate_new ==
  store' = IF Len(Unread) > Chunk THEN store ELSE data

\* What does not fit is lost, as cb_process_data ignores the result.
parser_consolidate_buffers ==
  store' = IF Len(Unread) > Chunk THEN store ELSE Unread

\* cb_process_data when parser_run returns: 0, or 1 or -1.  Afterwards the buffer
\* of the store starts at 0 again.
parser_returns ==
  /\ pc = "parsing"
  /\ \/ Halted(s) /\ UNCHANGED store
     \/ ~Halted(s) /\ ~dbuffer_can_read(s, Unread) /\ parser_consolidate_buffers
  /\ off' = 0 /\ data' = <<>> /\ pc' = "waiting"
  /\ UNCHANGED <<bytes, sent, pos, s, result>>

\* call_stream_preimage: the next n bytes are given to cb_process_data, which
\* ignores them after an error.
cb_process_data(n) ==
  /\ pc = "waiting" /\ result = "none"
  /\ sent < Len(bytes) /\ sent + n <= Len(bytes)
  /\ sent' = sent + n
  /\ IF s.error THEN UNCHANGED <<data, pc>>
     ELSE data' = SubSeq(bytes, sent + 1, sent + n) /\ pc' = "parsing"
  /\ UNCHANGED <<bytes, pos, s, store, off, result>>

\* The client refuses, or what it sent does not have the right hash.
stream_fails ==
  /\ pc = "waiting" /\ result = "none"
  /\ result' = "failed"
  /\ UNCHANGED <<bytes, sent, pos, s, store, off, data, pc>>

\* All was sent, and has the right hash.
stream_ends ==
  /\ pc = "waiting" /\ result = "none" /\ sent = Len(bytes)
  /\ result' = IF s.error THEN "failed" ELSE "ok"
  /\ UNCHANGED <<bytes, sent, pos, s, store, off, data, pc>>

Returned == result # "none" /\ UNCHANGED vars

Next ==
  \/ parser_run \/ parser_returns
  \/ \E n \in 0 .. MaxPiece : cb_process_data(n)
  \/ stream_fails \/ stream_ends \/ Returned

Spec == Init /\ [][Next]_vars

\* The device runs, and the client does not send empty answers for ever.
FairSpec ==
  /\ Spec
  /\ WF_vars(parser_run \/ parser_returns)
  /\ SF_vars(stream_ends \/ \E n \in 1 .. MaxPiece : cb_process_data(n))
-----------------------------------------------------------------------------
Whole == INSTANCE RawTxWhole

\* The parser finds the same, however the client cuts the transaction: it does
\* what a parser does that has the whole of it.
RefinesWhole == Whole!Spec

\* The comment of the reads of blocks: "we can always interrupt with less than
\* 32 unparsed bytes", so that the store always takes them.  (For sizes that are
\* not negative as an int: the parser is stuck on those.)
StoreSuffices ==
  pc = "parsing" /\ ~Halted(s) /\ ~dbuffer_can_read(s, Unread) =>
    Len(Unread) < Chunk \/ Need(s, Unread) >= UintMod \div 2

\* Parsing ends: no cut of the transaction makes the parser wait for ever.
Ends == <>(result # "none")
=============================================================================
