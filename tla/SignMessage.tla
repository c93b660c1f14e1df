---------------------------- MODULE SignMessage ----------------------------
(***************************************************************************)
(* SIGN_MESSAGE: the handler hashes the message chunk by chunk, fetches    *)
(* it again to show it (or shows its hash), asks for consent, and signs.   *)
(* The review is paged: on the devices with buttons the user may walk in   *)
(* both directions, inside a display and across displays, and the place    *)
(* reached is kept in a global that handler and screens share.             *)
(***************************************************************************)
EXTENDS Integers, FiniteSets, Sequences

CONSTANTS
  Messages,     \* what a client may ask to sign: see Message
  MAX_DISPLAYS, \* the 5 of MAX_DISPLAYBLE_CHUNK_NUMBER
  MaxPages      \* pages of the screen that one display can take, at most

MESSAGE_CHUNK_PER_DISPLAY == 2
MAX_DISPLAYBLE_CHUNK_NUMBER == MAX_DISPLAYS * MESSAGE_CHUNK_PER_DISPLAY
SizeMod == 65536        \* size_t wraps; 2^32 on the device
ByteMod == 256          \* uint8_t wraps

\* A message: its number of chunks, those shorter than MESSAGE_CHUNK_SIZE, and
\* those with a character outside 0x20 .. 0x7E.
Message == [n : Nat, short : SUBSET Nat, binary : SUBSET Nat]

ASSUME MessagesAssumption ==
  /\ Messages \subseteq Message
  /\ \A m \in Messages : m.n < SizeMod
ASSUME DisplaysAssumption == MAX_DISPLAYS \in 1 .. 100
ASSUME PagesAssumption == MaxPages \in Nat \ {0}

VARIABLES
  lib,          \* the user interface of the device: "bagl" or "nbgl"
  pc,           \* where the handler is
  msg,          \* the message of the command
  i,            \* chunks hashed
  printable,
  index,        \* g_current_streaming_index
  start,        \* show_message_start_page
  kind,         \* the flow on the screen: "content", "hash" or "confirm"
  flow,         \* its steps
  at,           \* the step shown
  text,         \* chunks in g_ui_state.path_and_message.message
  page, count,  \* layout_paging of the message content
  sw,           \* status word of the command
  \* What the user was shown since the command began:
  screens,      \* steps
  seen,         \* chunks that were on the screen
  read,         \* chunks that were on the screen to their last page
  skipped,      \* the user left a display with both buttons
  partial       \* a chunk could not be fetched for the screen

ui == <<kind, flow, at, text, page, count>>
history == <<screens, seen, read, skipped, partial>>
vars == <<lib, pc, msg, i, printable, index, start, ui, sw, history>>

Chunks == 0 .. msg.n - 1
LastDisplayRounded == (msg.n \div MESSAGE_CHUNK_PER_DISPLAY) - 1
LastDisplay == ((msg.n - 1) % SizeMod) \div MESSAGE_CHUNK_PER_DISPLAY
get_streaming_index == index % ByteMod
----------------------------------------------------------------------------
(* The handler up to the review *)

Init ==
  /\ lib \in {"bagl", "nbgl"}
  /\ pc = "idle" /\ msg \in Messages /\ i = 0 /\ printable = TRUE
  /\ index = 0 /\ start = FALSE
  /\ kind = "none" /\ flow = <<>> /\ at = 0 /\ text = {} /\ page = 0 /\ count = 0
  /\ sw = "none"
  /\ screens = {} /\ seen = {} /\ read = {} /\ skipped = FALSE /\ partial = FALSE

Return(word) == pc' = "idle" /\ sw' = word

\* A command arrives. It is refused at once if malformed.
Begin(m) ==
  /\ pc = "idle"
  /\ msg' = m /\ i' = 0
  /\ printable' = (m.n <= MAX_DISPLAYBLE_CHUNK_NUMBER)
  /\ \/ pc' = "chunks" /\ sw' = "none"
     \/ Return("INCORRECT_DATA")
  /\ screens' = {} /\ seen' = {} /\ read' = {} /\ skipped' = FALSE /\ partial' = FALSE
  /\ UNCHANGED <<lib, index, start, ui>>

ChunkRefused == i \in msg.short /\ i # msg.n - 1

PrintableLast == i \notin msg.binary
Printable == printable /\ i \notin msg.binary

hash_chunk ==
  /\ pc = "chunks" /\ i < msg.n /\ ~ChunkRefused
  /\ printable' = Printable
  /\ i' = i + 1
  /\ UNCHANGED <<lib, pc, msg, index, start, ui, sw, history>>

\* The client gave no chunk, or gave a short one that is not the last.
hash_chunk_fails ==
  /\ pc = "chunks" /\ i < msg.n
  /\ Return("BAD_STATE")
  /\ UNCHANGED <<lib, msg, i, printable, index, start, ui, history>>

reset_streaming_index == 0

\* ui_pre_processing_message, then one of the two reviews.
begin_review ==
  /\ pc = "chunks" /\ i = msg.n
  /\ start' = TRUE
  /\ IF printable
     THEN pc' = "displays" /\ index' = reset_streaming_index
     ELSE pc' = "hash" /\ index' = index
  /\ UNCHANGED <<lib, msg, i, printable, ui, sw, history>>
----------------------------------------------------------------------------
(* Flows *)

ContentFlow(first) ==
  IF lib = "bagl"
  THEN IF first THEN <<"title", "path", "content", "content">> ELSE <<"content">>
  ELSE IF start THEN <<"title", "content">> ELSE <<"content">>
HashFlow ==
  IF lib = "bagl" THEN <<"title", "path", "hash", "accept", "reject">>
  ELSE <<"title", "hash", "accept">>
ConfirmFlow ==
  IF lib = "bagl" THEN <<"accept", "reject">> ELSE <<"accept">>

ContentFlows ==
  {<<"title", "path", "content", "content">>, <<"content">>, <<"title", "content">>}
HashFlows == {<<"title", "path", "hash", "accept", "reject">>, <<"title", "hash", "accept">>}
ConfirmFlows == {<<"accept", "reject">>, <<"accept">>}
Steps == {"title", "path", "content", "hash", "accept", "reject"}

\* With NBGL the path is on the page of the hash and on that of the first display.
With(step, first) ==
  {step} \cup (IF lib = "nbgl" /\ (step = "hash" \/ (step = "content" /\ first))
               THEN {"path"} ELSE {})

\* The user gets to see a step of the flow.
Show(step, chunks) ==
  /\ screens' = screens \cup With(step, get_streaming_index = 0)
  /\ seen' = IF step = "content" THEN seen \cup chunks ELSE seen

Open(k, steps, chunks) ==
  /\ kind' = k /\ text' = chunks /\ flow' = steps
  /\ start' = (start /\ k # "content")
  /\ at' = 1 /\ page' = 0 /\ count' \in 1 .. MaxPages
  /\ Show(steps[1], chunks)
  /\ pc' = "ui"

Group ==
  {c \in Chunks : /\ get_streaming_index * MESSAGE_CHUNK_PER_DISPLAY <= c
                  /\ c < (get_streaming_index + 1) * MESSAGE_CHUNK_PER_DISPLAY}

\* One round of the loop over displays: fetch the chunks, of which some may fail,
\* and show what there is.
display_content ==
  /\ pc = "displays" /\ get_streaming_index <= LastDisplay
  /\ \E c \in 0 .. msg.n :
       LET fetched == {d \in Group : d < c} IN
       /\ partial' = (partial \/ fetched # Group)
       /\ Open("content", ContentFlow(get_streaming_index = 0), fetched)
  /\ UNCHANGED <<lib, msg, i, printable, index, sw, read, skipped>>

display_confirm ==
  /\ pc = "displays" /\ get_streaming_index > LastDisplay
  /\ Open("confirm", ConfirmFlow, {})
  /\ UNCHANGED <<lib, msg, i, printable, index, sw, read, skipped, partial>>

display_hash ==
  /\ pc = "hash"
  /\ Open("hash", HashFlow, {})
  /\ UNCHANGED <<lib, msg, i, printable, index, sw, read, skipped, partial>>

\* set_ux_flow_response, and what the handler does when io_ui_process returns.
Respond(approved) ==
  IF approved
  THEN pc' = (IF kind = "content" THEN "displays" ELSE "sign") /\ sw' = sw
  ELSE Return("DENY")
----------------------------------------------------------------------------
(* BAGL: two buttons *)

Step == flow[at]
Bagl == lib = "bagl" /\ pc = "ui"
OnLastPage == page = count - 1

Move(to) ==
  /\ at' = to /\ page' = 0
  /\ Show(flow[to], text)
  /\ UNCHANGED <<lib, pc, msg, i, printable, index, start, kind, flow, text, count, sw,
                 read, skipped, partial>>

Turn(to) ==
  /\ page' = to
  /\ UNCHANGED <<lib, pc, msg, i, printable, index, start, kind, flow, at, text, count,
                 sw, history>>

increase_forgotten == index
increase_streaming_index == index + 1
decrease_streaming_index == IF index > 0 THEN index - 1 ELSE 0

right ==
  /\ Bagl
  /\ \/ Step # "content" /\ at < Len(flow) /\ Move(at + 1)
     \/ Step = "content" /\ ~OnLastPage /\ Turn(page + 1)
     \/ /\ Step = "content" /\ OnLastPage
        /\ index' = increase_streaming_index
        /\ read' = read \cup text
        /\ Respond(TRUE)
        /\ UNCHANGED <<lib, msg, i, printable, start, ui, screens, seen, skipped, partial>>

left ==
  /\ Bagl
  /\ \/ Step # "content" /\ at > 1 /\ Move(at - 1)
     \/ Step = "content" /\ page > 0 /\ Turn(page - 1)
     \/ /\ Step = "content" /\ page = 0
        /\ index' = decrease_streaming_index
        /\ Respond(TRUE)
        /\ UNCHANGED <<lib, msg, i, printable, start, ui, history>>

\* Both buttons: the steps with a callback end the flow, the others ignore it.
both ==
  /\ Bagl /\ Step \in {"content", "path", "accept", "reject"}
  /\ index' = IF Step = "content" THEN increase_streaming_index ELSE index
  /\ skipped' = (skipped \/ (Step = "content" /\ ~OnLastPage))
  /\ read' = IF Step = "content" /\ OnLastPage THEN read \cup text ELSE read
  /\ Respond(Step # "reject")
  /\ UNCHANGED <<lib, msg, i, printable, start, ui, screens, seen, partial>>
----------------------------------------------------------------------------
(* NBGL: the user goes on or cancels *)

Nbgl == lib = "nbgl" /\ pc = "ui"

confirm ==
  /\ Nbgl
  /\ \/ at < Len(flow) /\ Move(at + 1)
     \/ /\ at = Len(flow)
        /\ index' = IF kind = "content" THEN increase_streaming_index ELSE index
        /\ read' = IF kind = "content" THEN read \cup text ELSE read
        /\ Respond(TRUE)
        /\ UNCHANGED <<lib, msg, i, printable, start, ui, screens, seen, skipped, partial>>

cancel ==
  /\ Nbgl
  /\ Respond(FALSE)
  /\ UNCHANGED <<lib, msg, i, printable, index, start, ui, history>>

\* crypto_ecdsa_sign_sha256_hash_with_key, which may fail, and the response.
sign ==
  /\ pc = "sign"
  /\ \/ Return("OK")
     \/ Return("BAD_STATE")
  /\ UNCHANGED <<lib, msg, i, printable, index, start, ui, history>>
----------------------------------------------------------------------------
Handler ==
  hash_chunk \/ hash_chunk_fails \/ begin_review \/ display_content \/ display_confirm
  \/ display_hash \/ sign
User == right \/ left \/ both \/ confirm \/ cancel
Next == (\E m \in Messages : Begin(m)) \/ Handler \/ User

Spec == Init /\ [][Next]_vars

\* What a user does who wants to get to the end.
Forward == right \/ confirm \/ (Bagl /\ Step \in {"content", "accept", "reject"} /\ both)
Backward == left \/ (Bagl /\ Step = "path" /\ both)

\* The handler runs, and a user who is asked something answers.
FairSpec == Spec /\ WF_vars(Handler) /\ WF_vars(Forward)
----------------------------------------------------------------------------
(* Properties *)

TypeOK ==
  /\ lib \in {"bagl", "nbgl"}
  /\ pc \in {"idle", "chunks", "displays", "hash", "ui", "sign"}
  /\ msg \in Messages /\ i \in 0 .. msg.n
  /\ printable \in BOOLEAN /\ index \in Nat /\ start \in BOOLEAN
  /\ kind \in {"none", "content", "hash", "confirm"}
  /\ flow \in {<<>>} \cup ContentFlows \cup HashFlows \cup ConfirmFlows
  /\ at \in Nat /\ text \subseteq Nat /\ page \in Nat /\ count \in Nat
  /\ sw \in {"none", "OK", "DENY", "BAD_STATE", "INCORRECT_DATA"}
  /\ screens \subseteq Steps
  /\ seen \subseteq Nat /\ read \subseteq seen
  /\ skipped \in BOOLEAN /\ partial \in BOOLEAN

\* What is signed was reviewed.  Whatever it is, the BIP-32 path was on the screen
\* (doc/bitcoin.md:303), on the first display of a text or before the hash.  A text was
\* reviewed whole: when display_message_content_and_confirm
\* ends in a signature, every chunk was on the screen, however the user walked back
\* and forth between displays; to its last page unless the user skipped pages.
\* The exception is a chunk that could not be fetched a second time: the length
\* that call_get_merkle_leaf_element returns is not checked there.
SignedWasReviewed ==
  sw = "OK" =>
    /\ "path" \in screens
    /\ printable /\ ~partial => /\ seen = Chunks
                                /\ skipped \/ read = Chunks
                                /\ "accept" \in screens

\* No chunk with an unprintable character is ever shown as text, not even before
\* the chunk that has it: printable is decided over the whole message first.
OnlyTextIsShown == seen # {} => seen \cap msg.binary = {} /\ printable /\ i = msg.n

\* A display has something to show: a text of at least one chunk takes at most
\* MAX_DISPLAYS displays, and the streaming index never runs past the last one.
DisplaysBounded ==
  (pc = "ui" /\ kind = "content" /\ msg.n > 0) =>
    /\ index < MAX_DISPLAYS
    /\ index * MESSAGE_CHUNK_PER_DISPLAY < msg.n

\* If from some time on the user only goes forward, every command with a message of
\* at least one chunk ends, with a status word.
ReviewEnds ==
  <>[][~Backward]_vars => []((pc # "idle" /\ msg.n > 0) => <>(pc = "idle" /\ sw # "none"))

=============================================================================
