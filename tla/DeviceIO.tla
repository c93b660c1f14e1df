------------------------------ MODULE DeviceIO ------------------------------
(***************************************************************************)
(* The command loop and its timers: app_main and coin_main of main.c,      *)
(* boilerplate/dispatcher.c, boilerplate/io.c and io_ui_process of         *)
(* ui/display.c.  The device has one thread.  Ticks, presses and the loss  *)
(* of USB power are seen only inside io_exchange and io_ui_process, and    *)
(* the handler of a command never runs meanwhile.  A handler is any        *)
(* sequence of the operations that the handlers are made of.  What the     *)
(* client and the user do is external.                                     *)
(***************************************************************************)
EXTENDS Integers

CONSTANTS Builds,                     \* subset of {"BAGL", "NBGL"}
          TickMod,                    \* 2^16 in the code
          PROCESSING_TIMEOUT_TICKS,
          INTERRUPTION_TIMEOUT_TICKS

ASSUME TimeoutsOK ==
  /\ Builds \subseteq {"BAGL", "NBGL"}
  /\ TickMod \in Nat \ {0}
  /\ PROCESSING_TIMEOUT_TICKS \in Nat \ {0}
  /\ INTERRUPTION_TIMEOUT_TICKS \in Nat \ {0}

VARIABLES
  build,                        \* the UI library the app is compiled with
  pc,                           \* where the thread is
  ticks,                        \* G_ticks
  processing, processing_start, \* the two timeouts: active, and since when
  interruption, interruption_start,
  shown,                        \* G_was_processing_screen_shown
  screen,                       \* what is on the display
  dirty,                        \* G_dispatcher_state.had_ux_flow
  sw,                           \* G_dispatcher_state.sw
  out,                          \* G_output_len is not 0
  answered,                     \* the client got a final response
  ended, response,              \* g_ux_flow_ended, g_ux_flow_response
  answer                        \* what the user answered to this flow

timers == <<processing, processing_start, interruption, interruption_start>>
reply == <<sw, out, answered>>
flow == <<ended, response, answer>>
vars == <<build, pc, ticks, timers, shown, screen, dirty, reply, flow>>

Ticks == 0 .. TickMod - 1

TypeOK ==
  /\ build \in Builds
  /\ pc \in {"wait", "handler", "interrupted", "ui", "sending", "fallback"}
  /\ ticks \in Ticks
  /\ processing \in BOOLEAN /\ processing_start \in Ticks
  /\ interruption \in BOOLEAN /\ interruption_start \in Ticks
  /\ shown \in BOOLEAN /\ screen \in {"menu", "processing", "flow"}
  /\ dirty \in BOOLEAN
  /\ sw \in {"none", "interrupted", "final"}
  /\ out \in BOOLEAN /\ answered \in BOOLEAN
  /\ ended \in BOOLEAN /\ response \in {"yes", "no"}
  /\ answer \in {"none", "yes", "no"}

\* coin_main; "The initial value [of G_ticks] does not matter".
Init ==
  /\ build \in Builds /\ pc = "wait" /\ ticks \in Ticks
  /\ processing = FALSE /\ processing_start = 0
  /\ interruption = FALSE /\ interruption_start = 0
  /\ shown = FALSE /\ screen = "menu" /\ dirty = FALSE
  /\ sw = "none" /\ out = FALSE /\ answered = FALSE
  /\ ended = FALSE /\ response = "no" /\ answer = "none"

\* The loop of coin_main after app_main returned or threw EXCEPTION_IO_RESET:
\* UX_INIT, the menu, and app_main again.  The timers and the flags stay.
Restart == pc' = "wait" /\ screen' = "menu" /\ out' = FALSE
-----------------------------------------------------------------------------
\* app_main and apdu_dispatcher: a command for one of the handlers.
apdu_dispatcher ==
  /\ pc = "wait"
  /\ pc' = "handler"
  /\ dirty' = FALSE /\ sw' = "none" /\ answered' = FALSE
  /\ processing' = TRUE /\ processing_start' = ticks
  /\ UNCHANGED <<build, ticks, interruption, interruption_start, shown, screen,
                 out, flow>>

\* A wrong P2, an unexpected CONTINUE, an unknown class or instruction: the
\* dispatcher answers at once.
apdu_refused ==
  /\ pc = "wait"
  /\ dirty' = FALSE /\ sw' = "none"
  /\ UNCHANGED <<build, pc, ticks, timers, shown, screen, out, answered, flow>>

\* An APDU that cannot be parsed ends app_main.
apdu_malformed ==
  /\ pc = "wait"
  /\ Restart
  /\ UNCHANGED <<build, ticks, timers, shown, dirty, sw, answered, flow>>

\* The handler asks the client: SW_INTERRUPTED_EXECUTION, process_interruption.
interrupt ==
  /\ pc = "handler"
  /\ pc' = "interrupted"
  /\ sw' = "interrupted" /\ out' = TRUE
  /\ interruption' = TRUE /\ interruption_start' = ticks
  /\ UNCHANGED <<build, ticks, processing, processing_start, shown, screen, dirty,
                 answered, flow>>

\* Mutant of AfterExchange: the status word of the interruption stays.
AfterExchangeKeeps == interruption' = FALSE /\ out' = FALSE /\ UNCHANGED sw

\* process_interruption after io_exchange.
AfterExchange == interruption' = FALSE /\ out' = FALSE /\ sw' = "none"

\* The client answers with CONTINUE.
process_interruption ==
  /\ pc = "interrupted"
  /\ pc' = "handler"
  /\ AfterExchange
  /\ UNCHANGED <<build, ticks, processing, processing_start, interruption_start,
                 shown, screen, dirty, answered, flow>>

\* It answers with anything else: process_interruption itself sends a status
\* word, and fails.  The handler may send another one.
interruption_refused ==
  /\ pc = "interrupted"
  /\ pc' = "sending"
  /\ sw' = "final" /\ out' = TRUE
  /\ interruption' = FALSE
  /\ UNCHANGED <<build, ticks, processing, processing_start, interruption_start,
                 shown, screen, dirty, answered, flow>>

\* SEND_SW and SEND_RESPONSE, up to the io_exchange of io_confirm_response...
send_response ==
  /\ pc = "handler"
  /\ pc' = "sending"
  /\ sw' = "final" /\ out' = TRUE
  /\ UNCHANGED <<build, ticks, timers, shown, screen, dirty, answered, flow>>

\* ... and after it.
response_sent ==
  /\ pc = "sending"
  /\ pc' = "handler"
  /\ out' = FALSE /\ answered' = TRUE
  /\ UNCHANGED <<build, ticks, timers, shown, screen, dirty, sw, flow>>

\* The handler returns without a status word: the dispatcher sends one.
handler_silent ==
  /\ pc = "handler" /\ sw = "none"
  /\ pc' = "fallback" /\ out' = TRUE
  /\ UNCHANGED <<build, ticks, timers, shown, screen, dirty, sw, answered, flow>>

\* Mutant of is_ux_dirty: only a flow makes the UX dirty.
is_ux_dirty_flow == dirty

is_ux_dirty == dirty \/ shown

\* The end of apdu_dispatcher.  With NBGL the termination callback is not called.
dispatcher_ends ==
  /\ \/ pc = "handler" /\ sw # "none" /\ UNCHANGED answered
     \/ pc = "fallback" /\ answered' = TRUE
  /\ pc' = "wait" /\ out' = FALSE
  /\ IF is_ux_dirty
     THEN /\ shown' = FALSE
          /\ screen' = IF build = "BAGL" THEN "menu" ELSE screen
     ELSE UNCHANGED <<shown, screen>>
  /\ processing' = FALSE
  /\ UNCHANGED <<build, ticks, processing_start, interruption, interruption_start,
                 dirty, sw, flow>>
-----------------------------------------------------------------------------
ShowProcessing == /\ shown' = TRUE
                  /\ screen' = IF shown THEN screen ELSE "processing"

\* io_show_processing_screen, called by handler_sign_psbt.
io_show_processing_screen ==
  /\ pc = "handler"
  /\ ShowProcessing
  /\ UNCHANGED <<build, pc, ticks, timers, dirty, reply, flow>>

\* With NBGL a handler shows a status that gives way to the menu, or the menu.
ui_menu_main ==
  /\ pc = "handler" /\ build = "NBGL"
  /\ screen' = "menu"
  /\ UNCHANGED <<build, pc, ticks, timers, shown, dirty, reply, flow>>

\* Mutant of BeforeFlow: an earlier answer is not forgotten.
BeforeFlowRemembers == shown' = FALSE /\ processing' = FALSE /\ UNCHANGED ended

\* Mutant of BeforeFlow: the processing timeout goes on.
BeforeFlowKeepsTimeout == shown' = FALSE /\ ended' = FALSE /\ UNCHANGED processing

\* io_ui_process before its loop.
BeforeFlow == shown' = FALSE /\ ended' = FALSE /\ processing' = FALSE

\* A flow is drawn, and io_ui_process waits for its end.
io_ui_process ==
  /\ pc = "handler"
  /\ pc' = "ui"
  /\ screen' = "flow" /\ answer' = "none"
  /\ BeforeFlow
  /\ dirty' = (build = "BAGL" \/ dirty)
  /\ UNCHANGED <<build, ticks, processing_start, interruption, interruption_start,
                 response, reply>>

\* The flow has ended: io_ui_process returns response.
io_ui_returns ==
  /\ pc = "ui" /\ ended
  /\ pc' = "handler"
  /\ processing' = TRUE /\ processing_start' = ticks
  /\ UNCHANGED <<build, ticks, interruption, interruption_start, shown, screen,
                 dirty, reply, flow>>
-----------------------------------------------------------------------------
\* io_event runs while the thread is in io_exchange or in io_ui_process.
Listening == pc \in {"wait", "interrupted", "sending", "fallback"} \/ (pc = "ui" /\ ~ended)

\* set_ux_flow_response.  The flow stays on the display after its end, so it may
\* be answered when nobody asks; with NBGL it may give way to a status.
set_ux_flow_response(yes) ==
  /\ Listening /\ screen = "flow"
  /\ ended' = TRUE /\ response' = yes
  /\ answer' = IF pc = "ui" THEN yes ELSE answer
  /\ \/ UNCHANGED screen
     \/ build = "NBGL" /\ screen' = "menu"
  /\ UNCHANGED <<build, pc, ticks, timers, shown, dirty, reply>>

\* A status event: USB is not powered any more.
usb_unpowered ==
  /\ Listening
  /\ Restart
  /\ UNCHANGED <<build, ticks, timers, shown, dirty, sw, answered, flow>>

\* Mutant of Fires: the operands are swapped.
FiresSwapped(active, start, now, timeout) == active /\ start - now >= timeout

\* The subtraction is one of ints: it is negative after G_ticks wrapped around.
Fires(active, start, now, timeout) == active /\ now - start >= timeout

NextTick == (ticks + 1) % TickMod

\* A ticker event.
tick ==
  LET show == Fires(processing, processing_start, NextTick, PROCESSING_TIMEOUT_TICKS)
      reset == Fires(interruption, interruption_start, NextTick,
                     INTERRUPTION_TIMEOUT_TICKS)
  IN  /\ Listening
      /\ ticks' = NextTick
      /\ processing' = (processing /\ ~show)
      /\ interruption' = (interruption /\ ~reset)
      /\ shown' = (shown \/ show)
      /\ IF reset THEN Restart
         ELSE /\ screen' = IF show /\ ~shown THEN "processing" ELSE screen
              /\ UNCHANGED <<pc, out>>
      /\ UNCHANGED <<build, processing_start, interruption_start, dirty, sw, answered,
                     flow>>

Next ==
  \/ apdu_dispatcher \/ apdu_refused \/ apdu_malformed
  \/ interrupt \/ process_interruption \/ interruption_refused
  \/ send_response \/ response_sent \/ handler_silent \/ dispatcher_ends
  \/ io_show_processing_screen \/ ui_menu_main \/ io_ui_process \/ io_ui_returns
  \/ \E yes \in {"yes", "no"} : set_ux_flow_response(yes)
  \/ usb_unpowered \/ tick

Spec == Init /\ [][Next]_vars
FairSpec == Spec /\ WF_vars(tick)
-----------------------------------------------------------------------------
\* io_ui_process returns what the user answered to the flow it was called for,
\* never an answer given before to an earlier flow that was still displayed.
AnswerIsFresh ==
  [][pc = "ui" /\ pc' = "handler" => answer # "none" /\ response = answer]_vars

\* While the handler waits for the user, the flow is on the display: neither
\* timeout covers it with the "Processing..." screen.
FlowIsShown == pc = "ui" /\ ~ended => screen = "flow"

\* A command whose handler returned was answered, though the status word that
\* the dispatcher looks at is also set by every interruption.
CommandAnswered == [][pc = "handler" /\ pc' = "wait" => answered]_vars

\* No response starts with bytes of an earlier one, even if the earlier one was
\* an interruption that a reset cut short.
ResponseStartsEmpty == pc \in {"wait", "handler", "ui"} => ~out

\* With BAGL the menu is on the display at the end of every command, whatever
\* timeouts and resets came before.
MenuAfterCommand ==
  [][build = "BAGL" /\ pc \in {"handler", "fallback"} /\ pc' = "wait"
       => screen' = "menu"]_vars

\* A client that stops answering an interruption does not block the device, if
\* G_ticks does not wrap around in the meantime.
InterruptionEnds ==
  pc = "interrupted" /\ interruption_start + INTERRUPTION_TIMEOUT_TICKS < TickMod
    ~> pc # "interrupted"
-----------------------------------------------------------------------------
\* What the comments say, and the code does not do.

\* io.c: "The initial value does not matter", for the interruption timeout.
InterruptionAlwaysEnds == pc = "interrupted" ~> pc # "interrupted"
=============================================================================
