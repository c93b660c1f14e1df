--------------------------- MODULE DeviceIO_proofs ---------------------------
(***************************************************************************)
(* DeviceIO: the safety properties hold for every tick counter width and   *)
(* all timeouts.                                                           *)
(***************************************************************************)
EXTENDS DeviceIO, TLAPS

\* The inductive invariant.  A flow is waited for with the processing timeout
\* off; a status word that is still set was really sent; and with BAGL the flag
\* or the mark that brings the menu back is set whenever it is not displayed.
FlowInv ==
  pc = "ui" => /\ ~processing
               /\ ~ended => screen = "flow"
               /\ ended => answer # "none" /\ response = answer
ReplyInv ==
  /\ pc \in {"wait", "handler", "ui"} => ~out
  /\ pc \in {"handler", "ui"} /\ sw # "none" => answered
ScreenInv ==
  build = "BAGL" => /\ screen = "processing" => shown
                    /\ screen = "flow" => dirty /\ pc # "wait"
IInv == TypeOK /\ FlowInv /\ ReplyInv /\ ScreenInv

\* coin_main starts with the invariant.
LEMMA InitIInv == Init => IInv
<1> SUFFICES ASSUME Init PROVE IInv
  OBVIOUS
<1>1. 0 \in Ticks
  BY TimeoutsOK DEF Ticks
<1>2. TypeOK
  BY <1>1 DEF Init, TypeOK
<1>3. FlowInv /\ ReplyInv /\ ScreenInv
  BY DEF Init, FlowInv, ReplyInv, ScreenInv
<1>4. QED
  BY <1>2, <1>3 DEF IInv

\* Every step of the thread and every event keeps the types.
LEMMA TypeStep == TypeOK /\ [Next]_vars => TypeOK'
<1> SUFFICES ASSUME TypeOK, [Next]_vars PROVE TypeOK'
  OBVIOUS
<1> USE DEF TypeOK, timers, reply, flow
<1>1. CASE UNCHANGED vars
  BY <1>1 DEF vars
<1>2. CASE apdu_dispatcher \/ apdu_refused
  BY <1>2 DEF apdu_dispatcher, apdu_refused
<1>3. CASE apdu_malformed \/ usb_unpowered
  BY <1>3 DEF apdu_malformed, usb_unpowered, Restart
<1>4. CASE interrupt \/ process_interruption \/ interruption_refused
  BY <1>4 DEF interrupt, process_interruption, AfterExchange, interruption_refused
<1>5. CASE send_response \/ response_sent \/ handler_silent
  BY <1>5 DEF send_response, response_sent, handler_silent
<1>6. CASE dispatcher_ends
  <2>1. answered' \in BOOLEAN
    BY <1>6 DEF dispatcher_ends
  <2>2. shown' \in BOOLEAN /\ screen' \in {"menu", "processing", "flow"}
    BY <1>6 DEF dispatcher_ends
  <2>3. QED
    BY <1>6, <2>1, <2>2 DEF dispatcher_ends
<1>7. CASE io_show_processing_screen \/ ui_menu_main
  BY <1>7 DEF io_show_processing_screen, ui_menu_main, ShowProcessing
<1>8. CASE io_ui_process \/ io_ui_returns
  BY <1>8 DEF io_ui_process, io_ui_returns, BeforeFlow
<1>9. CASE \E yes \in {"yes", "no"} : set_ux_flow_response(yes)
  BY <1>9 DEF set_ux_flow_response
<1>10. CASE tick
  <2>1. NextTick \in Ticks
    BY TimeoutsOK DEF NextTick, Ticks
  <2>2. processing' \in BOOLEAN /\ interruption' \in BOOLEAN /\ shown' \in BOOLEAN
    BY <1>10 DEF tick
  <2>3. /\ pc' \in {"wait", pc} /\ out' \in BOOLEAN
        /\ screen' \in {"menu", "processing", "flow"}
    BY <1>10 DEF tick, Restart
  <2>4. UNCHANGED <<build, processing_start, interruption_start, dirty, sw, answered,
                    flow>> /\ ticks' = NextTick
    BY <1>10 DEF tick
  <2>5. QED
    BY <2>1, <2>2, <2>3, <2>4
<1>11. QED
  BY <1>1, <1>2, <1>3, <1>4, <1>5, <1>6, <1>7, <1>8, <1>9, <1>10 DEF Next

\* Every step keeps FlowInv: the processing timeout is off while a flow is
\* waited for, so no tick draws over it.
LEMMA FlowStep == IInv /\ [Next]_vars => FlowInv'
<1> SUFFICES ASSUME IInv, [Next]_vars PROVE FlowInv'
  OBVIOUS
<1> USE DEF IInv, TypeOK, FlowInv, timers, reply, flow
<1>1. CASE UNCHANGED vars
  BY <1>1 DEF vars
<1>2. CASE apdu_dispatcher \/ apdu_refused
  BY <1>2 DEF apdu_dispatcher, apdu_refused
<1>3. CASE apdu_malformed \/ usb_unpowered
  BY <1>3 DEF apdu_malformed, usb_unpowered, Restart
<1>4. CASE interrupt \/ process_interruption \/ interruption_refused
  BY <1>4 DEF interrupt, process_interruption, interruption_refused
<1>5. CASE send_response \/ response_sent \/ handler_silent \/ dispatcher_ends
  BY <1>5 DEF send_response, response_sent, handler_silent, dispatcher_ends
<1>6. CASE io_show_processing_screen \/ ui_menu_main
  BY <1>6 DEF io_show_processing_screen, ui_menu_main
<1>7. CASE io_ui_process \/ io_ui_returns
  BY <1>7 DEF io_ui_process, io_ui_returns, BeforeFlow
<1>8. CASE \E yes \in {"yes", "no"} : set_ux_flow_response(yes)
  BY <1>8 DEF set_ux_flow_response
<1>9. CASE tick
  BY <1>9 DEF tick, Restart, Fires
<1>10. QED
  BY <1>1, <1>2, <1>3, <1>4, <1>5, <1>6, <1>7, <1>8, <1>9 DEF Next

\* Every step keeps ReplyInv: an interruption that was answered leaves neither
\* its bytes nor its status word behind.
LEMMA ReplyStep == IInv /\ [Next]_vars => ReplyInv'
<1> SUFFICES ASSUME IInv, [Next]_vars PROVE ReplyInv'
  OBVIOUS
<1> USE DEF IInv, TypeOK, ReplyInv, timers, reply, flow
<1>1. CASE UNCHANGED vars
  BY <1>1 DEF vars
<1>2. CASE apdu_dispatcher \/ apdu_refused
  BY <1>2 DEF apdu_dispatcher, apdu_refused
<1>3. CASE apdu_malformed \/ usb_unpowered
  BY <1>3 DEF apdu_malformed, usb_unpowered, Restart
<1>4. CASE interrupt \/ process_interruption \/ interruption_refused
  BY <1>4 DEF interrupt, process_interruption, AfterExchange, interruption_refused
<1>5. CASE send_response \/ response_sent \/ handler_silent \/ dispatcher_ends
  BY <1>5 DEF send_response, response_sent, handler_silent, dispatcher_ends
<1>6. CASE io_show_processing_screen \/ ui_menu_main
  BY <1>6 DEF io_show_processing_screen, ui_menu_main
<1>7. CASE io_ui_process \/ io_ui_returns
  BY <1>7 DEF io_ui_process, io_ui_returns
<1>8. CASE \E yes \in {"yes", "no"} : set_ux_flow_response(yes)
  BY <1>8 DEF set_ux_flow_response
<1>9. CASE tick
  BY <1>9 DEF tick, Restart
<1>10. QED
  BY <1>1, <1>2, <1>3, <1>4, <1>5, <1>6, <1>7, <1>8, <1>9 DEF Next

\* Every step keeps ScreenInv: what covers the menu marks the UX as dirty.
LEMMA ScreenStep == IInv /\ [Next]_vars => ScreenInv'
<1> SUFFICES ASSUME IInv, [Next]_vars PROVE ScreenInv'
  OBVIOUS
<1> USE DEF IInv, TypeOK, ScreenInv, timers, reply, flow
<1>1. CASE UNCHANGED vars
  BY <1>1 DEF vars
<1>2. CASE apdu_dispatcher \/ apdu_refused
  BY <1>2 DEF apdu_dispatcher, apdu_refused
<1>3. CASE apdu_malformed \/ usb_unpowered
  BY <1>3 DEF apdu_malformed, usb_unpowered, Restart
<1>4. CASE interrupt \/ process_interruption \/ interruption_refused
  BY <1>4 DEF interrupt, process_interruption, interruption_refused
<1>5. CASE send_response \/ response_sent \/ handler_silent
  BY <1>5 DEF send_response, response_sent, handler_silent
<1>6. CASE dispatcher_ends
  BY <1>6 DEF dispatcher_ends, is_ux_dirty
<1>7. CASE io_show_processing_screen \/ ui_menu_main
  BY <1>7 DEF io_show_processing_screen, ui_menu_main, ShowProcessing
<1>8. CASE io_ui_process \/ io_ui_returns
  BY <1>8 DEF io_ui_process, io_ui_returns, BeforeFlow
<1>9. CASE \E yes \in {"yes", "no"} : set_ux_flow_response(yes)
  BY <1>9 DEF set_ux_flow_response, Listening
<1>10. CASE tick
  BY <1>10 DEF tick, Restart
<1>11. QED
  BY <1>1, <1>2, <1>3, <1>4, <1>5, <1>6, <1>7, <1>8, <1>9, <1>10 DEF Next

\* The invariant is inductive.
THEOREM Invariant == Spec => []IInv
<1>1. IInv /\ [Next]_vars => IInv'
  BY TypeStep, FlowStep, ReplyStep, ScreenStep DEF IInv
<1>2. QED
  BY InitIInv, <1>1, PTL DEF Spec

\* The command loop keeps its types, ticks included.
THEOREM TypeCorrect == Spec => []TypeOK
<1>1. IInv => TypeOK
  BY DEF IInv
<1>2. QED
  BY Invariant, <1>1, PTL

\* While io_ui_process waits, its flow is on the display.
THEOREM FlowVisible == Spec => []FlowIsShown
<1>1. IInv => FlowIsShown
  BY DEF IInv, FlowInv, FlowIsShown
<1>2. QED
  BY Invariant, <1>1, PTL

\* Every response is built in an empty buffer.
THEOREM EmptyStart == Spec => []ResponseStartsEmpty
<1>1. IInv => ResponseStartsEmpty
  BY DEF IInv, ReplyInv, ResponseStartsEmpty
<1>2. QED
  BY Invariant, <1>1, PTL

\* io_ui_process returns the answer to its own flow.
THEOREM Fresh == Spec => AnswerIsFresh
<1>1. IInv /\ [Next]_vars
        => [pc = "ui" /\ pc' = "handler" => answer # "none" /\ response = answer]_vars
  <2> SUFFICES ASSUME IInv, Next, pc = "ui", pc' = "handler"
               PROVE  answer # "none" /\ response = answer
    BY DEF vars
  <2>1. ended
    <3> USE DEF TypeOK, IInv
    <3>1. CASE io_ui_returns
      BY <3>1 DEF io_ui_returns
    <3>2. CASE tick
      BY <3>2 DEF tick, Restart
    <3>3. CASE usb_unpowered \/ \E yes \in {"yes", "no"} : set_ux_flow_response(yes)
      BY <3>3 DEF usb_unpowered, Restart, set_ux_flow_response
    <3>4. QED
      BY <3>1, <3>2, <3>3 DEF Next, apdu_dispatcher, apdu_refused, apdu_malformed,
        interrupt, process_interruption, interruption_refused, send_response,
        response_sent, handler_silent, dispatcher_ends, io_show_processing_screen,
        ui_menu_main, io_ui_process
  <2>2. QED
    BY <2>1 DEF IInv, FlowInv
<1>2. QED
  BY Invariant, <1>1, PTL DEF Spec, AnswerIsFresh

\* A handler that returned has answered its command.
THEOREM Answered == Spec => CommandAnswered
<1>1. IInv /\ [Next]_vars => [pc = "handler" /\ pc' = "wait" => answered]_vars
  <2> SUFFICES ASSUME IInv, Next, pc = "handler", pc' = "wait" PROVE answered
    BY DEF vars
  <2>1. CASE dispatcher_ends
    BY <2>1 DEF dispatcher_ends, IInv, ReplyInv
  <2>2. CASE tick \/ usb_unpowered \/ \E yes \in {"yes", "no"} : set_ux_flow_response(yes)
    BY <2>2 DEF tick, usb_unpowered, set_ux_flow_response, Listening
  <2>3. QED
    BY <2>1, <2>2 DEF Next, apdu_dispatcher, apdu_refused, apdu_malformed,
      interrupt, process_interruption, interruption_refused, send_response,
      response_sent, handler_silent, io_show_processing_screen,
      ui_menu_main, io_ui_process, io_ui_returns
<1>2. QED
  BY Invariant, <1>1, PTL DEF Spec, CommandAnswered

\* With BAGL every command ends with the menu on the display.
THEOREM MenuBack == Spec => MenuAfterCommand
<1>1. IInv /\ [Next]_vars
        => [build = "BAGL" /\ pc \in {"handler", "fallback"} /\ pc' = "wait"
              => screen' = "menu"]_vars
  <2> SUFFICES ASSUME IInv, Next, build = "BAGL", pc \in {"handler", "fallback"},
                      pc' = "wait"
               PROVE  screen' = "menu"
    BY DEF vars
  <2>1. CASE dispatcher_ends
    BY <2>1 DEF dispatcher_ends, is_ux_dirty, IInv, TypeOK, ScreenInv
  <2>2. CASE usb_unpowered
    BY <2>2 DEF usb_unpowered, Restart
  <2>3. CASE tick
    BY <2>3 DEF tick, Restart
  <2>4. CASE \E yes \in {"yes", "no"} : set_ux_flow_response(yes)
    BY <2>4 DEF set_ux_flow_response
  <2>5. QED
    BY <2>1, <2>2, <2>3, <2>4 DEF Next, apdu_dispatcher, apdu_refused, apdu_malformed,
      interrupt, process_interruption, interruption_refused, send_response,
      response_sent, handler_silent, io_show_processing_screen,
      ui_menu_main, io_ui_process, io_ui_returns
<1>2. QED
  BY Invariant, <1>1, PTL DEF Spec, MenuAfterCommand
=============================================================================
