------------------------- MODULE SignMessage_proofs -------------------------
(***************************************************************************)
(* The review of a message covers what is signed, for all messages and     *)
(* limits. The invariant says what the displays up to the streaming index  *)
(* have shown, and ties the step on the screen to it.                      *)
(***************************************************************************)
EXTENDS SignMessage, TLAPS

\* The step on the screen is one of the flow of its kind.
OnScreen ==
  pc = "ui" =>
    /\ \/ kind = "content" /\ flow \in ContentFlows
       \/ kind = "hash" /\ flow \in HashFlows
       \/ kind = "confirm" /\ flow \in ConfirmFlows
    /\ at \in 1 .. Len(flow)
    /\ flow[1] = "title" =>
         flow[2] = "path" \/ (lib = "nbgl" /\ flow[2] \in {"content", "hash"})

InContent == pc = "displays" \/ (pc = "ui" /\ kind = "content")
InConfirm == (pc \in {"ui", "sign"} /\ kind = "confirm") \/ (sw = "OK" /\ printable)
InHash == pc = "hash" \/ (pc = "ui" /\ kind = "hash")

Located ==
  /\ pc = "sign" => kind \in {"hash", "confirm"}
  /\ pc # "idle" => sw = "none"
  /\ InContent \/ InConfirm => printable /\ i = msg.n
  /\ InHash \/ (pc = "sign" /\ kind = "hash") => ~printable

TextOnly ==
  /\ printable /\ pc # "idle" => msg.n <= MAX_DISPLAYBLE_CHUNK_NUMBER
  /\ printable => \A c \in 0 .. i - 1 : c \notin msg.binary
  /\ seen \subseteq Chunks
  /\ seen # {} => printable /\ i = msg.n
  /\ pc = "ui" => text \subseteq Chunks

Bounded ==
  InContent /\ msg.n > 0 =>
    /\ 2 * index <= msg.n + 1
    /\ pc = "ui" => 2 * index < msg.n

Covered ==
  InContent /\ ~partial =>
    /\ \A c \in Chunks : c < 2 * index => c \in seen /\ (skipped \/ c \in read)
    /\ pc = "ui" => \A c \in Chunks : 2 * index <= c /\ c < 2 * index + 2 => c \in text

StepShown ==
  pc = "ui" /\ kind = "content" /\ flow[at] = "content" =>
    text \subseteq seen /\ "path" \in screens

Complete ==
  InConfirm =>
    /\ ~partial => seen = Chunks /\ (skipped \/ read = Chunks)
    /\ "accept" \in screens

PathShown ==
  /\ InContent /\ index > 0 => "path" \in screens
  /\ pc = "ui" /\ flow[1] = "title" /\ at > 1 => "path" \in screens
  /\ pc = "sign" \/ InConfirm \/ sw = "OK" => "path" \in screens

IInv ==
  /\ TypeOK /\ OnScreen /\ Located /\ TextOnly /\ Bounded /\ Covered /\ StepShown
  /\ Complete /\ PathShown
----------------------------------------------------------------------------
(* Arithmetic of the displays, and the flows *)

\* While a text is on display the streaming index fits in its byte.
LEMMA SmallIndex ==
  ASSUME IInv, InContent, msg.n > 0
  PROVE  get_streaming_index = index
  BY DisplaysAssumption DEF IInv, TypeOK, Located, Bounded, TextOnly, InContent,
     get_streaming_index, ByteMod, MAX_DISPLAYBLE_CHUNK_NUMBER, MESSAGE_CHUNK_PER_DISPLAY

\* A message has a number of chunks below SizeMod.
LEMMA MsgType == ASSUME TypeOK PROVE msg.n \in Nat /\ msg.n < SizeMod /\ msg.binary \subseteq Nat
  BY MessagesAssumption DEF TypeOK, Message

\* The last display holds the last chunk.
LEMMA LastDisplayHolds ==
  ASSUME TypeOK
  PROVE  /\ LastDisplay \in Nat
         /\ msg.n > 0 => 2 * LastDisplay < msg.n /\ msg.n <= 2 * LastDisplay + 2
  BY MsgType DEF LastDisplay, SizeMod, MESSAGE_CHUNK_PER_DISPLAY

\* The steps of the flows of a text, and those of the others.
LEMMA ContentSteps ==
  ASSUME NEW f \in ContentFlows
  PROVE  /\ 1 \in 1 .. Len(f) /\ f[Len(f)] = "content"
         /\ \A a \in 1 .. Len(f) : f[a] \in {"title", "path", "content"}
         /\ f[1] = "content" => Len(f) = 1
         /\ f[1] \in {"title", "content"}
<1>1. CASE f = <<"title", "path", "content", "content">>
  BY <1>1
<1>2. CASE f = <<"content">>
  BY <1>2
<1>3. CASE f = <<"title", "content">>
  BY <1>3
<1> QED
  BY <1>1, <1>2, <1>3 DEF ContentFlows

\* The steps of the hash flow and of the confirmation; neither shows a text.
LEMMA OtherSteps ==
  ASSUME NEW f \in HashFlows \cup ConfirmFlows
  PROVE  /\ 1 \in 1 .. Len(f)
         /\ \A a \in 1 .. Len(f) : f[a] \in {"title", "path", "hash", "accept", "reject"}
         /\ f \in HashFlows => f[1] = "title" /\ \A a \in 1 .. Len(f) : f[a] = "accept" => a > 1
         /\ f \in ConfirmFlows => f[1] = "accept"
<1>1. CASE f = <<"title", "path", "hash", "accept", "reject">>
  BY <1>1 DEF ConfirmFlows
<1>2. CASE f = <<"title", "hash", "accept">>
  BY <1>2 DEF ConfirmFlows
<1>3. CASE f = <<"accept", "reject">>
  BY <1>3 DEF HashFlows
<1>4. CASE f = <<"accept">>
  BY <1>4 DEF HashFlows
<1> QED
  BY <1>1, <1>2, <1>3, <1>4 DEF HashFlows, ConfirmFlows

\* The flows that are opened.
LEMMA FlowsOpened ==
  ASSUME NEW first, TypeOK
  PROVE  /\ ContentFlow(first) \in ContentFlows
         /\ HashFlow \in HashFlows
         /\ ConfirmFlow \in ConfirmFlows
         /\ \A f \in {ContentFlow(first), HashFlow} : f[1] = "title" =>
              f[2] = "path" \/ (lib = "nbgl" /\ f[2] \in {"content", "hash"})
         /\ ContentFlow(first)[1] = "content" => lib = "nbgl" \/ ~first
  BY DEF ContentFlow, HashFlow, ConfirmFlow, ContentFlows, HashFlows, ConfirmFlows, TypeOK
----------------------------------------------------------------------------
(* Steps of the user inside a flow *)

\* Going to a neighbouring step keeps the invariant.
LEMMA MoveInv ==
  ASSUME IInv, pc = "ui", NEW to \in 1 .. Len(flow), to = at + 1 \/ to = at - 1, Move(to)
  PROVE  IInv'
<1> USE DEF IInv
<1>1. /\ UNCHANGED <<lib, pc, msg, i, printable, index, start, kind, flow, text, count, sw,
                     read, skipped, partial>>
      /\ at' = to /\ page' = 0
  BY DEF Move
<1>2. /\ screens' = screens \cup With(flow[to], get_streaming_index = 0)
      /\ seen' = IF flow[to] = "content" THEN seen \cup text ELSE seen
  BY DEF Move, Show
<1>3. flow[to] \in Steps /\ flow[to] \in screens'
  BY <1>2, ContentSteps, OtherSteps DEF OnScreen, Steps, With
<1>4. flow[to] = "content" => kind = "content"
  BY ContentSteps, OtherSteps DEF OnScreen
<1>5. TypeOK'
  <2>1. With(flow[to], get_streaming_index = 0) \subseteq Steps
    BY <1>3 DEF With, Steps
  <2>2. seen' \subseteq Nat /\ read' \subseteq seen'
    BY <1>1, <1>2 DEF TypeOK
  <2> QED
    BY <1>1, <1>2, <2>1, <2>2 DEF TypeOK, OnScreen
<1>6. OnScreen' /\ Located' /\ Bounded'
  BY <1>1 DEF OnScreen, Located, Bounded, InContent, InConfirm, InHash
<1>7. TextOnly'
  BY <1>1, <1>2, <1>4 DEF TextOnly, Located, Chunks, InContent
<1>8. Covered' /\ Complete'
  BY <1>1, <1>2, <1>4, <1>6 DEF Covered, Complete, InContent, InConfirm, Chunks, Located, TypeOK
<1>9. PathShown'
  <2>1. flow[1] = "title" /\ to > 1 => "path" \in screens'
    <3>1. CASE at > 1
      BY <3>1, <1>2 DEF PathShown
    <3>2. CASE at = 1 /\ flow[1] = "title"
      <4>1. to = 2 /\ (flow[2] = "path" \/ (lib = "nbgl" /\ flow[2] \in {"content", "hash"}))
        BY <3>2 DEF OnScreen
      <4>2. CASE flow[2] = "content" /\ get_streaming_index # 0
        BY <4>2, <4>1, <1>2, <1>4 DEF PathShown, InContent, get_streaming_index, ByteMod, TypeOK
      <4> QED
        BY <4>1, <4>2, <1>2 DEF With
    <3> QED
      BY <3>1, <3>2 DEF OnScreen
  <2> QED
    BY <2>1, <1>1, <1>2 DEF PathShown, InContent, InConfirm
<1>10. StepShown'
  <2>1. flow[to] = "content" => flow[1] = "title" /\ to > 1
    BY <1>4, ContentSteps DEF OnScreen
  <2> QED
    BY <2>1, <1>1, <1>2, <1>9 DEF StepShown, PathShown
<1> QED
  BY <1>5, <1>6, <1>7, <1>8, <1>9, <1>10

\* So does turning a page.
LEMMA TurnInv ==
  ASSUME IInv, pc = "ui", NEW to \in Nat, Turn(to)
  PROVE  IInv'
<1> USE DEF IInv, Turn, history
<1>1. TypeOK' /\ OnScreen'
  BY DEF TypeOK, OnScreen
<1>2. Located' /\ TextOnly' /\ Bounded'
  BY DEF Located, TextOnly, Bounded, InContent, InConfirm, InHash, Chunks
<1>3. Covered' /\ StepShown'
  BY DEF Covered, StepShown, InContent, Chunks
<1>4. Complete' /\ PathShown'
  BY DEF Complete, PathShown, InContent, InConfirm, Chunks
<1> QED
  BY <1>1, <1>2, <1>3, <1>4

\* Leaving a display for the next one: its chunks have been shown.
LEMMA NextDisplay ==
  ASSUME IInv, pc = "ui", kind = "content", flow[at] = "content",
         index' = index + 1, pc' = "displays", sw' = sw,
         skipped' \in BOOLEAN, skipped => skipped',
         read' = read \cup text \/ (read' = read /\ skipped'),
         UNCHANGED <<lib, msg, i, printable, start, ui, screens, seen, partial>>
  PROVE  IInv'
<1> USE DEF IInv
<1>1. TypeOK'
  <2>1. read' \subseteq seen
    BY DEF TypeOK, StepShown
  <2> QED
    BY <2>1 DEF TypeOK, ui
<1>2. OnScreen' /\ Located' /\ TextOnly' /\ StepShown'
  BY DEF OnScreen, Located, TextOnly, StepShown, InContent, InConfirm, InHash, Chunks, ui
<1>3. Bounded'
  BY MsgType DEF Bounded, InContent, TypeOK
<1>4. Covered'
  <2> SUFFICES ASSUME ~partial, NEW c \in Chunks, c < 2 * (index + 1)
               PROVE  c \in seen /\ (skipped' \/ c \in read')
    BY DEF Covered, Chunks
  <2>1. CASE c < 2 * index
    BY <2>1 DEF Covered, InContent
  <2>2. CASE ~(c < 2 * index)
    <3>1. c \in text
      BY <2>2, MsgType DEF Covered, InContent, Chunks, TypeOK
    <3> QED
      BY <3>1 DEF StepShown
  <2> QED
    BY <2>1, <2>2
<1>5. Complete' /\ PathShown'
  BY DEF Complete, PathShown, StepShown, InContent, InConfirm, Located
<1> QED
  BY <1>1, <1>2, <1>3, <1>4, <1>5

\* Doubling keeps the order: for comparing display numbers with chunk numbers.
LEMMA Doubled == \A x, y \in Nat : x <= y => 2 * x <= 2 * y
  OBVIOUS

\* Leaving it for the one before.
LEMMA PreviousDisplay ==
  ASSUME IInv, pc = "ui", kind = "content",
         index' = decrease_streaming_index \/ index' = index, pc' = "displays", sw' = sw,
         UNCHANGED <<lib, msg, i, printable, start, ui, history>>
  PROVE  IInv'
<1> USE DEF IInv
<1>1. index' \in Nat /\ index' <= index
  BY DEF decrease_streaming_index, TypeOK
<1>2. TypeOK'
  BY <1>1 DEF TypeOK, ui, history
<1>3. OnScreen' /\ Located' /\ TextOnly' /\ StepShown'
  BY DEF OnScreen, Located, TextOnly, StepShown, InContent, InConfirm, InHash, Chunks, ui, history
<1>4. Bounded'
  BY <1>1, MsgType DEF Bounded, InContent, TypeOK
<1>5. Covered'
  <2>1. \A c \in Chunks : c < 2 * index' => c < 2 * index
    <3>1. index \in Nat /\ msg.n \in Nat
      BY MsgType DEF TypeOK
    <3>2. 2 * index' <= 2 * index
      BY <1>1, <3>1, Doubled
    <3>3. \A c \in Chunks : c \in Int
      BY <3>1 DEF Chunks
    <3> QED
      BY <1>1, <3>1, <3>2, <3>3
  <2> QED
    BY <2>1 DEF Covered, InContent, Chunks, history
<1>6. Complete' /\ PathShown'
  BY <1>1 DEF Complete, PathShown, InContent, InConfirm, Located, history, TypeOK
<1> QED
  BY <1>2, <1>3, <1>4, <1>5, <1>6
----------------------------------------------------------------------------
(* The handler opens a flow *)

\* A display of the text: the chunks of its group are fetched and shown.
LEMMA DisplayContentInv == IInv /\ display_content => IInv'
<1> SUFFICES ASSUME IInv, display_content PROVE IInv'
  OBVIOUS
<1> USE DEF IInv
<1> DEFINE f == ContentFlow(get_streaming_index = 0)
<1>1. PICK c \in 0 .. msg.n :
        /\ partial' = (partial \/ {d \in Group : d < c} # Group)
        /\ Open("content", f, {d \in Group : d < c})
  BY DEF display_content
<1>2. /\ pc = "displays" /\ get_streaming_index <= LastDisplay /\ printable /\ i = msg.n
      /\ UNCHANGED <<lib, msg, i, printable, index, sw, read, skipped>>
  BY DEF display_content, Located, InContent
<1>3. /\ pc' = "ui" /\ kind' = "content" /\ flow' = f /\ at' = 1 /\ page' = 0
      /\ text' \subseteq Group /\ (~partial' => ~partial /\ text' = Group)
      /\ count' \in Nat /\ start' \in BOOLEAN
      /\ screens' = screens \cup With(f[1], get_streaming_index = 0)
      /\ seen' = IF f[1] = "content" THEN seen \cup text' ELSE seen
  <2>1. text' = {d \in Group : d < c}
    BY <1>1 DEF Open
  <2>2. ~partial' => ~partial /\ text' = Group
    BY <1>1, <2>1, Zenon
  <2>3. count' \in Nat /\ start' \in BOOLEAN
    BY <1>1, PagesAssumption DEF Open, TypeOK
  <2> QED
    BY <1>1, <2>1, <2>2, <2>3 DEF Open, Show
<1>4. f \in ContentFlows /\ f[1] \in {"title", "content"} /\ 1 \in 1 .. Len(f)
  BY FlowsOpened, ContentSteps
<1>5. f[1] = "title" => f[2] = "path" \/ (lib = "nbgl" /\ f[2] \in {"content", "hash"})
  BY FlowsOpened
<1>6. Group \subseteq Chunks
  BY DEF Group
<1> HIDE DEF f
<1>7. TypeOK'
  <2>1. screens' \subseteq Steps
    BY <1>3, <1>4 DEF With, Steps, TypeOK
  <2>2. text' \subseteq Nat /\ seen' \subseteq Nat /\ read' \subseteq seen'
    BY <1>2, <1>3, <1>6, MsgType DEF TypeOK, Chunks
  <2> QED
    BY <1>1, <1>2, <1>3, <1>4, <2>1, <2>2 DEF TypeOK
<1>8. OnScreen' /\ Located'
  BY <1>2, <1>3, <1>4, <1>5 DEF OnScreen, Located, InContent, InConfirm, InHash
<1>9. TextOnly'
  BY <1>2, <1>3, <1>6 DEF TextOnly, Chunks
<1>10. Bounded'
  <2>1. msg.n > 0 => index <= LastDisplay
    BY <1>2, SmallIndex DEF InContent
  <2>2. msg.n > 0 => 2 * index < msg.n
    <3>1. /\ LastDisplay \in Nat /\ index \in Nat /\ msg.n \in Nat
          /\ msg.n > 0 => 2 * LastDisplay < msg.n
      BY LastDisplayHolds, MsgType DEF TypeOK
    <3> QED
      BY <2>1, <3>1
  <2> QED
    BY <2>2, <1>2, <1>3, MsgType DEF Bounded, TypeOK
<1>11. Covered'
  <2>1. msg.n > 0 => get_streaming_index = index
    BY <1>2, SmallIndex DEF InContent
  <2>2. ~partial' => \A d \in Chunks : 2 * index <= d /\ d < 2 * index + 2 => d \in text'
    <3> SUFFICES ASSUME ~partial', NEW d \in Chunks, 2 * index <= d, d < 2 * index + 2
                 PROVE  d \in Group
      BY <1>3
    <3>1. msg.n > 0 /\ d \in Nat
      BY MsgType DEF Chunks
    <3> QED
      BY <2>1, <3>1 DEF Group, MESSAGE_CHUNK_PER_DISPLAY, TypeOK
  <2>3. ~partial' => \A d \in Chunks : d < 2 * index => d \in seen' /\ (skipped \/ d \in read)
    BY <1>2, <1>3 DEF Covered, InContent
  <2> QED
    BY <1>2, <1>3, <2>2, <2>3 DEF Covered, Chunks
<1>12. Complete'
  BY <1>2, <1>3 DEF Complete, InConfirm, Located
<1>13. f[1] = "content" => "path" \in screens'
  <2>1. f[1] = "content" => lib = "nbgl" \/ get_streaming_index # 0
    BY FlowsOpened DEF f
  <2>2. get_streaming_index # 0 => index > 0
    BY DEF get_streaming_index, ByteMod, TypeOK
  <2>3. get_streaming_index # 0 => "path" \in screens
    BY <2>2, <1>2 DEF PathShown, InContent
  <2> QED
    BY <2>1, <2>3, <1>3 DEF With
<1>14. StepShown' /\ PathShown'
  BY <1>2, <1>3, <1>13 DEF StepShown, PathShown, InContent, InConfirm, Located
<1> QED
  BY <1>7, <1>8, <1>9, <1>10, <1>11, <1>12, <1>14

\* The confirmation: no display is left.
LEMMA DisplayConfirmInv == IInv /\ display_confirm => IInv'
<1> SUFFICES ASSUME IInv, display_confirm PROVE IInv'
  OBVIOUS
<1> USE DEF IInv
<1>1. /\ pc = "displays" /\ get_streaming_index > LastDisplay /\ printable /\ i = msg.n
      /\ UNCHANGED <<lib, msg, i, printable, index, sw, read, skipped, partial>>
  BY DEF display_confirm, Located, InContent
<1>2. ConfirmFlow \in ConfirmFlows /\ ConfirmFlow[1] = "accept" /\ 1 \in 1 .. Len(ConfirmFlow)
  BY FlowsOpened, OtherSteps
<1>3. /\ pc' = "ui" /\ kind' = "confirm" /\ flow' = ConfirmFlow /\ at' = 1 /\ page' = 0
      /\ text' = {} /\ count' \in Nat /\ start' \in BOOLEAN /\ seen' = seen
      /\ screens' = screens \cup {"accept"}
  BY <1>2, PagesAssumption DEF display_confirm, Open, Show, With, TypeOK
<1>4. TypeOK'
  BY <1>1, <1>2, <1>3 DEF TypeOK, Steps
<1>5. OnScreen' /\ Located' /\ TextOnly' /\ Bounded' /\ Covered' /\ StepShown'
  BY <1>1, <1>2, <1>3 DEF OnScreen, Located, TextOnly, Bounded, Covered, StepShown, InContent,
     InConfirm, InHash, Chunks
<1>6. index > 0
  BY <1>1, LastDisplayHolds DEF get_streaming_index, ByteMod, TypeOK
<1>7. ~partial => seen = Chunks /\ (skipped \/ read = Chunks)
  <2>1. ASSUME ~partial, NEW c \in Chunks
        PROVE  c \in seen /\ (skipped \/ c \in read)
    <3>1. msg.n > 0 /\ c \in Nat /\ c < msg.n
      BY <2>1, MsgType DEF Chunks
    <3>2. c < 2 * index
      <4>1. index > LastDisplay
        BY <3>1, <1>1, SmallIndex DEF InContent
      <4>2. /\ LastDisplay \in Nat /\ index \in Nat /\ msg.n \in Nat
            /\ msg.n > 0 => msg.n <= 2 * LastDisplay + 2
        BY LastDisplayHolds, MsgType DEF TypeOK
      <4> QED
        BY <3>1, <4>1, <4>2
    <3> QED
      BY <2>1, <3>2, <1>1 DEF Covered, InContent
  <2> QED
    BY <2>1 DEF TextOnly, TypeOK
<1>8. Complete' /\ PathShown'
  BY <1>1, <1>2, <1>3, <1>6, <1>7 DEF Complete, PathShown, InContent, InConfirm, Chunks
<1> QED
  BY <1>4, <1>5, <1>8

\* The hash, for a message that is not shown.
LEMMA DisplayHashInv == IInv /\ display_hash => IInv'
<1> SUFFICES ASSUME IInv, display_hash PROVE IInv'
  OBVIOUS
<1> USE DEF IInv
<1>1. /\ pc = "hash" /\ ~printable
      /\ UNCHANGED <<lib, msg, i, printable, index, sw, read, skipped, partial>>
  BY DEF display_hash, Located, InHash
<1>2. /\ HashFlow \in HashFlows /\ HashFlow[1] = "title" /\ 1 \in 1 .. Len(HashFlow)
      /\ HashFlow[2] = "path" \/ (lib = "nbgl" /\ HashFlow[2] \in {"content", "hash"})
  BY FlowsOpened, OtherSteps
<1>3. /\ pc' = "ui" /\ kind' = "hash" /\ flow' = HashFlow /\ at' = 1 /\ page' = 0
      /\ text' = {} /\ count' \in Nat /\ start' \in BOOLEAN /\ seen' = seen
      /\ screens' = screens \cup {"title"}
  BY <1>2, PagesAssumption DEF display_hash, Open, Show, With, TypeOK
<1>4. TypeOK'
  BY <1>1, <1>2, <1>3 DEF TypeOK, Steps
<1>5. OnScreen' /\ Located' /\ TextOnly' /\ Bounded' /\ Covered' /\ StepShown'
  BY <1>1, <1>2, <1>3 DEF OnScreen, Located, TextOnly, Bounded, Covered, StepShown, InContent,
     InConfirm, InHash, Chunks
<1>6. Complete' /\ PathShown'
  BY <1>1, <1>3 DEF Complete, PathShown, InContent, InConfirm, Located
<1> QED
  BY <1>4, <1>5, <1>6
----------------------------------------------------------------------------
(* The user ends a flow *)

\* The path is on the screen before a flow other than that of a text can be approved.
LEMMA ApproveInv ==
  ASSUME IInv, pc = "ui", kind # "content", pc' = "sign", sw' = sw, "path" \in screens,
         UNCHANGED <<lib, msg, i, printable, index, start, ui, history>>
  PROVE  IInv'
<1> USE DEF IInv, ui, history
<1>1. TypeOK'
  BY DEF TypeOK
<1>2. TextOnly' /\ OnScreen'
  BY DEF TextOnly, OnScreen, Chunks
<1>3. Located' /\ Bounded' /\ Covered' /\ StepShown'
  BY DEF Located, OnScreen, Bounded, Covered, StepShown, InContent, InConfirm, InHash
<1>4. Complete' /\ PathShown'
  BY DEF Complete, PathShown, OnScreen, InContent, InConfirm, Chunks
<1> QED
  BY <1>1, <1>2, <1>3, <1>4

\* A command that ends without a signature.
LEMMA ReturnInv ==
  ASSUME IInv, pc # "idle", NEW word \in {"DENY", "BAD_STATE"}, Return(word),
         UNCHANGED <<lib, msg, i, printable, start, ui, history>>, index' \in Nat
  PROVE  IInv'
<1> USE DEF IInv, Return, ui, history
<1>1. TypeOK'
  BY DEF TypeOK
<1>2. TextOnly' /\ OnScreen'
  BY DEF TextOnly, OnScreen, Chunks
<1>3. Located' /\ Bounded' /\ Covered' /\ StepShown' /\ Complete' /\ PathShown'
  BY DEF Located, Bounded, Covered, StepShown, Complete, PathShown, InContent, InConfirm, InHash
<1> QED
  BY <1>1, <1>2, <1>3

\* An approval of a hash or of a confirmation comes after the path was shown.
LEMMA PathBeforeApproval ==
  ASSUME IInv, pc = "ui", kind # "content",
         (flow[1] = "title" /\ at > 1) \/ kind = "confirm"
  PROVE  "path" \in screens
  BY DEF IInv, PathShown, InConfirm
----------------------------------------------------------------------------
(* The invariant *)

\* At power on nothing is on display.
LEMMA InitInv == Init => IInv
<1> SUFFICES ASSUME Init PROVE IInv
  OBVIOUS
<1> USE DEF Init
<1>1. TypeOK
  <2>1. msg.n \in Nat
    BY MessagesAssumption DEF Message
  <2>2. i \in 0 .. msg.n
    BY <2>1
  <2>3. flow \in {<<>>} /\ screens \subseteq Steps /\ seen \subseteq Nat /\ read \subseteq seen
    OBVIOUS
  <2> QED
    BY <2>2, <2>3 DEF TypeOK
<1>2. OnScreen /\ Located /\ TextOnly /\ Bounded /\ Covered /\ StepShown /\ Complete /\ PathShown
  BY DEF OnScreen, Located, TextOnly, Bounded, Covered, StepShown, Complete, PathShown,
     InContent, InConfirm, InHash, Chunks
<1> QED
  BY <1>1, <1>2 DEF IInv

\* A command begins: what was shown for the one before does not count.
LEMMA BeginInv ==
  ASSUME IInv, NEW m \in Messages, Begin(m)
  PROVE  IInv'
<1> USE DEF IInv
<1>1. TypeOK'
  <2>1. m.n \in Nat
    BY MessagesAssumption DEF Message
  <2>2. i' \in 0 .. msg'.n /\ printable' \in BOOLEAN
    BY <2>1 DEF Begin
  <2>3. /\ pc' \in {"idle", "chunks"} /\ sw' \in {"none", "INCORRECT_DATA"}
        /\ seen' = {} /\ read' = {} /\ screens' = {}
        /\ msg' \in Messages /\ skipped' \in BOOLEAN /\ partial' \in BOOLEAN
        /\ UNCHANGED <<lib, index, start, kind, flow, at, text, page, count>>
    BY DEF Begin, Return, ui
  <2> QED
    BY <2>2, <2>3 DEF TypeOK
<1>2. TextOnly'
  <2>1. /\ msg' = m /\ i' = 0 /\ seen' = {} /\ pc' # "ui"
        /\ printable' => m.n <= MAX_DISPLAYBLE_CHUNK_NUMBER
    BY DEF Begin, Return
  <2>2. 0 .. i' - 1 = {}
    BY <2>1
  <2> QED
    BY <2>1, <2>2 DEF TextOnly
<1>3. OnScreen' /\ Located' /\ Bounded' /\ Covered' /\ StepShown' /\ Complete' /\ PathShown'
  BY DEF Begin, Return, OnScreen, Located, Bounded, Covered, StepShown, Complete, PathShown,
     InContent, InConfirm, InHash, ui
<1> QED
  BY <1>1, <1>2, <1>3

\* The first pass over the message.
LEMMA HashChunkInv == IInv /\ hash_chunk => IInv'
<1> SUFFICES ASSUME IInv, hash_chunk PROVE IInv'
  OBVIOUS
<1> USE DEF IInv, hash_chunk
<1>1. TypeOK'
  BY SMTT(30), ZenonT(20), MsgType DEF TypeOK, Printable, ui, history
<1>2. TextOnly'
  <2>1. i \in Nat /\ msg.n \in Nat /\ i < msg.n
    BY MsgType DEF TypeOK
  <2>2. seen = {}
    BY <2>1 DEF TextOnly
  <2>3. printable' => printable /\ i \notin msg.binary
    BY DEF Printable
  <2>4. printable' => \A c \in 0 .. i : c \notin msg.binary
    BY <2>1, <2>3 DEF TextOnly
  <2>5. 0 .. i' - 1 = 0 .. i
    BY <2>1
  <2>6. /\ UNCHANGED <<pc, msg, seen, text>> /\ pc = "chunks"
        /\ printable => msg.n <= MAX_DISPLAYBLE_CHUNK_NUMBER
    BY DEF TextOnly, ui, history
  <2> HIDE DEF hash_chunk, IInv
  <2> QED
    BY <2>2, <2>3, <2>4, <2>5, <2>6 DEF TextOnly
<1>3. OnScreen' /\ Located' /\ Bounded' /\ Covered' /\ StepShown' /\ Complete' /\ PathShown'
  BY DEF OnScreen, Located, Bounded, Covered, StepShown, Complete, PathShown, InContent,
     InConfirm, InHash, ui, history
<1> QED
  BY <1>1, <1>2, <1>3

\* The review begins at the first display: the streaming index is reset.
LEMMA BeginReviewInv == IInv /\ begin_review => IInv'
<1> SUFFICES ASSUME IInv, begin_review PROVE IInv'
  OBVIOUS
<1> USE DEF IInv, begin_review, reset_streaming_index
<1>1. TypeOK'
  BY DEF TypeOK, ui, history
<1>2. Bounded' /\ Covered'
  BY MsgType DEF Bounded, Covered, InContent, Chunks, ui, history
<1>3. OnScreen' /\ Located' /\ TextOnly' /\ StepShown' /\ Complete' /\ PathShown'
  BY SMTT(30), ZenonT(20)
     DEF OnScreen, Located, TextOnly, StepShown, Complete, PathShown, InContent, InConfirm,
         InHash, Chunks, ui, history
<1> QED
  BY <1>1, <1>2, <1>3

\* The signature, or its failure, ends the command.
LEMMA SignInv == IInv /\ sign => IInv'
<1> SUFFICES ASSUME IInv, sign PROVE IInv'
  OBVIOUS
<1>1. CASE Return("BAD_STATE")
  BY <1>1, ReturnInv DEF sign, IInv, TypeOK
<1>2. CASE Return("OK")
  <2> USE <1>2 DEF sign, IInv, Return, ui, history
  <2>1. TypeOK'
    BY DEF TypeOK
  <2>2. TextOnly' /\ OnScreen'
    BY DEF TextOnly, OnScreen, Chunks
  <2>3. Located' /\ Bounded' /\ Covered' /\ StepShown'
    BY DEF Located, Bounded, Covered, StepShown, InContent, InConfirm, InHash
  <2>4. Complete' /\ PathShown'
    BY DEF Complete, PathShown, Located, InContent, InConfirm, InHash, Chunks
  <2> QED
    BY <2>1, <2>2, <2>3, <2>4
<1> QED
  BY <1>1, <1>2 DEF sign

\* The buttons.
LEMMA RightInv == IInv /\ right => IInv'
<1> SUFFICES ASSUME IInv, right PROVE IInv'
  OBVIOUS
<1>0. pc = "ui" /\ at \in 1 .. Len(flow) /\ page \in Nat /\ skipped \in BOOLEAN
  BY DEF right, Bagl, IInv, OnScreen, TypeOK
<1>1. CASE at < Len(flow) /\ Move(at + 1)
  <2>1. at + 1 \in 1 .. Len(flow)
    BY <1>0, <1>1 DEF IInv, TypeOK, ContentFlows, HashFlows, ConfirmFlows
  <2> QED
    BY <1>0, <1>1, <2>1, MoveInv
<1>2. CASE Turn(page + 1)
  BY <1>0, <1>2, TurnInv
<1>3. CASE Step = "content" /\ Respond(TRUE) /\ index' = increase_streaming_index
           /\ read' = read \cup text
           /\ UNCHANGED <<lib, msg, i, printable, start, ui, screens, seen, skipped, partial>>
  <2>1. kind = "content"
    BY <1>0, <1>3, OtherSteps DEF Step, IInv, OnScreen
  <2> QED
    BY <1>0, <1>3, <2>1, NextDisplay DEF Respond, Step, increase_streaming_index
<1> QED
  BY <1>1, <1>2, <1>3 DEF right

\* To the previous step, page or display.
LEMMA LeftInv == IInv /\ left => IInv'
<1> SUFFICES ASSUME IInv, left PROVE IInv'
  OBVIOUS
<1>0. pc = "ui" /\ at \in 1 .. Len(flow) /\ page \in Nat
  BY DEF left, Bagl, IInv, OnScreen, TypeOK
<1>1. CASE at > 1 /\ Move(at - 1)
  <2>1. at - 1 \in 1 .. Len(flow)
    BY <1>0, <1>1 DEF IInv, TypeOK, ContentFlows, HashFlows, ConfirmFlows
  <2> QED
    BY <1>0, <1>1, <2>1, MoveInv
<1>2. CASE page > 0 /\ Turn(page - 1)
  BY <1>0, <1>2, TurnInv
<1>3. CASE Step = "content" /\ Respond(TRUE) /\ index' = decrease_streaming_index
           /\ UNCHANGED <<lib, msg, i, printable, start, ui, history>>
  <2>1. kind = "content"
    BY <1>0, <1>3, OtherSteps DEF Step, IInv, OnScreen
  <2> QED
    BY <1>0, <1>3, <2>1, PreviousDisplay DEF Respond
<1> QED
  BY <1>1, <1>2, <1>3 DEF left

\* Both buttons: the steps with a callback end the flow.
LEMMA BothInv == IInv /\ both => IInv'
<1> SUFFICES ASSUME IInv, both PROVE IInv'
  OBVIOUS
<1>0. /\ pc = "ui" /\ at \in 1 .. Len(flow) /\ skipped \in BOOLEAN /\ index \in Nat
      /\ UNCHANGED <<lib, msg, i, printable, start, ui, screens, seen, partial>>
  BY DEF both, Bagl, IInv, OnScreen, TypeOK
<1>1. CASE Step = "content"
  <2>1. kind = "content"
    BY <1>0, <1>1, OtherSteps DEF Step, IInv, OnScreen
  <2>2. /\ index' = index + 1 /\ pc' = "displays" /\ sw' = sw
        /\ skipped' = (skipped \/ ~OnLastPage)
        /\ read' = IF OnLastPage THEN read \cup text ELSE read
    BY <1>0, <1>1, <2>1 DEF both, Respond, increase_streaming_index
  <2>3. skipped' \in BOOLEAN /\ (skipped => skipped')
    BY <2>2, <1>0
  <2>4. read' = read \cup text \/ (read' = read /\ skipped')
    BY <2>2
  <2> QED
    BY <1>0, <1>1, <2>1, <2>2, <2>3, <2>4, NextDisplay DEF Step
<1>2. CASE Step # "content"
  <2>1. index' = index /\ UNCHANGED history
    BY <1>0, <1>2 DEF both, history
  <2>2. CASE Step = "reject"
    BY <1>0, <1>2, <2>1, <2>2, ReturnInv DEF both, Respond
  <2>3. CASE Step # "reject" /\ kind = "content"
    BY <1>0, <1>2, <2>1, <2>3, PreviousDisplay DEF both, Respond
  <2>4. CASE Step \in {"path", "accept"} /\ kind # "content"
    <3>1. (flow[1] = "title" /\ at > 1) \/ kind = "confirm"
      BY <1>0, <2>4, OtherSteps DEF Step, IInv, OnScreen
    <3> QED
      BY <1>0, <2>1, <2>4, <3>1, PathBeforeApproval, ApproveInv DEF both, Respond
  <2> QED
    BY <1>2, <2>2, <2>3, <2>4 DEF both
<1> QED
  BY <1>1, <1>2

\* The touch screens.
LEMMA ConfirmInv == IInv /\ confirm => IInv'
<1> SUFFICES ASSUME IInv, confirm PROVE IInv'
  OBVIOUS
<1>0. pc = "ui" /\ at \in 1 .. Len(flow) /\ skipped \in BOOLEAN
  BY DEF confirm, Nbgl, IInv, OnScreen, TypeOK
<1>1. CASE at < Len(flow) /\ Move(at + 1)
  <2>1. at + 1 \in 1 .. Len(flow)
    BY <1>0, <1>1 DEF IInv, TypeOK, ContentFlows, HashFlows, ConfirmFlows
  <2> QED
    BY <1>0, <1>1, <2>1, MoveInv
<1>2. CASE /\ at = Len(flow)
           /\ index' = IF kind = "content" THEN increase_streaming_index ELSE index
           /\ read' = IF kind = "content" THEN read \cup text ELSE read
           /\ Respond(TRUE)
           /\ UNCHANGED <<lib, msg, i, printable, start, ui, screens, seen, skipped, partial>>
  <2>1. CASE kind = "content"
    <3>1. flow[at] = "content"
      BY <1>0, <1>2, <2>1, ContentSteps DEF IInv, OnScreen
    <3> QED
      BY <1>0, <1>2, <2>1, <3>1, NextDisplay DEF Respond, increase_streaming_index
  <2>2. CASE kind # "content"
    <3>1. (flow[1] = "title" /\ at > 1) \/ kind = "confirm"
      BY <1>0, <1>2, <2>2 DEF IInv, OnScreen, HashFlows
    <3> QED
      BY <1>0, <1>2, <2>2, <3>1, PathBeforeApproval, ApproveInv DEF Respond, history
  <2> QED
    BY <2>1, <2>2
<1> QED
  BY <1>1, <1>2 DEF confirm

\* Every step keeps the invariant.
LEMMA NextInv == IInv /\ [Next]_vars => IInv'
<1> SUFFICES ASSUME IInv, [Next]_vars PROVE IInv'
  OBVIOUS
<1>1. CASE hash_chunk_fails \/ cancel
  BY <1>1, ReturnInv DEF hash_chunk_fails, cancel, Nbgl, Respond, IInv, TypeOK
<1>2. CASE UNCHANGED vars
  <2> USE <1>2 DEF vars, IInv, ui, history
  <2>1. TypeOK' /\ OnScreen'
    BY SMTT(30), ZenonT(20) DEF TypeOK, OnScreen
  <2>2. Located' /\ TextOnly' /\ Bounded'
    BY DEF Located, TextOnly, Bounded, InContent, InConfirm, InHash, Chunks
  <2>3. Covered' /\ StepShown'
    BY DEF Covered, StepShown, InContent, Chunks
  <2>4. Complete' /\ PathShown'
    BY DEF Complete, PathShown, InContent, InConfirm, Chunks
  <2> QED
    BY <2>1, <2>2, <2>3, <2>4
<1> QED
  BY <1>1, <1>2, BeginInv, HashChunkInv, BeginReviewInv, DisplayContentInv, DisplayConfirmInv,
     DisplayHashInv, SignInv, RightInv, LeftInv, BothInv, ConfirmInv DEF Next, Handler, User

\* The invariant holds in every reachable state.
LEMMA Invariance == Spec => []IInv
  BY InitInv, NextInv, PTL DEF Spec

\* The variables of the review keep their types, for all messages and limits.
THEOREM TypeCorrect == Spec => []TypeOK
<1>1. IInv => TypeOK
  BY DEF IInv
<1> QED
  BY <1>1, Invariance, PTL

\* What is signed had its path on the screen, and a text was there to the end, for all
\* messages, limits and ways to walk through the displays.
THEOREM Reviewed == Spec => []SignedWasReviewed
<1>1. IInv => SignedWasReviewed
  BY DEF IInv, SignedWasReviewed, Complete, PathShown, InConfirm
<1> QED
  BY <1>1, Invariance, PTL

\* What is shown as text is printable, all of it.
THEOREM TextReviewed == Spec => []OnlyTextIsShown
<1>1. IInv => OnlyTextIsShown
  BY MsgType DEF IInv, OnlyTextIsShown, TextOnly, Chunks, TypeOK
<1> QED
  BY <1>1, Invariance, PTL

\* The displays of a text stay within the limits.
THEOREM DisplaysInBounds == Spec => []DisplaysBounded
<1>1. IInv => DisplaysBounded
  BY MsgType, DisplaysAssumption DEF IInv, DisplaysBounded, Bounded, InContent, TextOnly, Located,
     TypeOK, MAX_DISPLAYBLE_CHUNK_NUMBER, MESSAGE_CHUNK_PER_DISPLAY
<1> QED
  BY <1>1, Invariance, PTL
=============================================================================
