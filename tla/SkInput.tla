------------------------------- MODULE SkInput -------------------------------
(* Buttons and the switch of sk_os on their way to the UI thread: the edges *)
(* confreg latches, the interrupt handler that collects them, the input     *)
(* thread that turns them and the debounced switch into events every        *)
(* millisecond, and the message queue the UI thread reads (sketch_os.c,     *)
(* board.c).  The fourth button has no event and is left out.               *)
EXTENDS Naturals, Sequences

CONSTANTS SK_OS_MQ_DEPTH, Buttons
ASSUME SkInputAssumption ==
  SK_OS_MQ_DEPTH \in Nat \ {0} /\ Buttons \subseteq {"UP", "DOWN", "AUX"}

VARIABLES int_state,   \* CONFREG_INT_STATE, its button bits
          irq,         \* the interrupt handler: where it is, the bits it read
          g_pending_buttons,
          input,       \* the input thread: where it is, the bits it took
          masked,      \* rt_hw_interrupt_disable
          switch,      \* SW0
          bounce,      \* g_switch_candidate, _stable, _debounce
          g_event_mq,
          owed,        \* buttons pressed for which no event was posted yet
          samples      \* the last four samples of the switch
input_vars == <<int_state, irq, g_pending_buttons, input, masked, switch, bounce,
                g_event_mq, owed, samples>>

Place == [UP |-> 1, DOWN |-> 2, AUX |-> 3]     \* the order of their events

InputInit ==
  /\ int_state = {} /\ irq = [at |-> "idle", bits |-> {}] /\ g_pending_buttons = {}
  /\ input = [at |-> "sleep", bits |-> {}] /\ masked = FALSE
  /\ switch \in {0, 1}
  /\ bounce = [candidate |-> switch, stable |-> switch, debounce |-> 0]
  /\ g_event_mq = <<>> /\ owed = {} /\ samples = <<switch, switch, switch, switch>>

-----------------------------------------------------------------------------
(* Fingers: an edge on a button is latched (confreg.v), the switch moves.   *)
Press(b) ==
  /\ int_state' = int_state \cup {b} /\ owed' = owed \cup {b}
  /\ UNCHANGED <<irq, g_pending_buttons, input, masked, switch, bounce, g_event_mq, samples>>
Toggle ==
  /\ switch' = 1 - switch
  /\ UNCHANGED <<int_state, irq, g_pending_buttons, input, masked, bounce, g_event_mq, owed, samples>>

(* HWI0_IntrHandler reads the latched bits, Button_IntrHandler adds them to *)
(* those pending and acknowledges them: presses may come in between.        *)
HWI0_IntrHandler ==
  /\ irq.at = "idle" /\ ~masked /\ int_state # {}
  /\ irq' = [at |-> "read", bits |-> int_state]
  /\ UNCHANGED <<int_state, g_pending_buttons, input, masked, switch, bounce, g_event_mq, owed, samples>>
sketch_os_on_button_irq ==
  /\ irq.at = "read" /\ irq' = [irq EXCEPT !.at = "noted"]
  /\ g_pending_buttons' = g_pending_buttons \cup irq.bits
  /\ UNCHANGED <<int_state, input, masked, switch, bounce, g_event_mq, owed, samples>>
acknowledged == int_state \ irq.bits
Button_IntrHandler ==
  /\ irq.at = "noted" /\ irq' = [at |-> "idle", bits |-> {}]
  /\ int_state' = acknowledged
  /\ UNCHANGED <<g_pending_buttons, input, masked, switch, bounce, g_event_mq, owed, samples>>

-----------------------------------------------------------------------------
(* input_thread_entry.                                                      *)
InputAt(place) == input.at = place /\ irq.at = "idle"

post_event(e) == IF Len(g_event_mq) < SK_OS_MQ_DEPTH THEN Append(g_event_mq, e) ELSE g_event_mq

(* The pending bits are read and cleared with interrupts disabled.          *)
masks == masked' = TRUE
ReadPending ==
  /\ InputAt("sleep") /\ masks
  /\ input' = [at |-> "clear", bits |-> g_pending_buttons]
  /\ UNCHANGED <<int_state, irq, g_pending_buttons, switch, bounce, g_event_mq, owed, samples>>
ClearPending ==
  /\ InputAt("clear") /\ masked' = FALSE
  /\ g_pending_buttons' = {} /\ input' = [input EXCEPT !.at = "post"]
  /\ UNCHANGED <<int_state, irq, switch, bounce, g_event_mq, owed, samples>>

PostButtons ==
  /\ InputAt("post")
  /\ \E b \in input.bits :
       /\ \A c \in input.bits : Place[b] <= Place[c]
       /\ g_event_mq' = post_event(b) /\ owed' = owed \ {b}
       /\ input' = [input EXCEPT !.bits = @ \ {b}]
  /\ UNCHANGED <<int_state, irq, g_pending_buttons, masked, switch, bounce, samples>>

(* A new value must be seen four times in a row.                            *)
candidate_kept(s) == [bounce EXCEPT !.candidate = s]                  \* faulty
candidate(s) == [bounce EXCEPT !.candidate = s, !.debounce = 0]
debounced(s) ==
  IF s # bounce.candidate THEN candidate(s)
  ELSE IF bounce.debounce < 2 THEN [bounce EXCEPT !.debounce = @ + 1]
  ELSE [bounce EXCEPT !.stable = bounce.candidate]
SampleSwitch ==
  /\ InputAt("post") /\ input.bits = {}
  /\ bounce' = debounced(switch) /\ samples' = Append(Tail(samples), switch)
  /\ g_event_mq' = IF bounce'.stable # bounce.stable THEN post_event("CONFIRM") ELSE g_event_mq
  /\ input' = [input EXCEPT !.at = "sleep"]
  /\ UNCHANGED <<int_state, irq, g_pending_buttons, masked, switch, owed>>

(* The UI thread has a lower priority: it takes an event while the input    *)
(* thread sleeps, as late as it likes.                                      *)
TakeEvent ==
  /\ InputAt("sleep") /\ g_event_mq # <<>> /\ g_event_mq' = Tail(g_event_mq)
  /\ UNCHANGED <<int_state, irq, g_pending_buttons, input, masked, switch, bounce, owed, samples>>

input_thread_entry == ReadPending \/ ClearPending \/ PostButtons \/ SampleSwitch
InputNext == \/ \E b \in Buttons : Press(b)
             \/ Toggle \/ HWI0_IntrHandler \/ sketch_os_on_button_irq \/ Button_IntrHandler
             \/ input_thread_entry \/ TakeEvent
InputSpec == InputInit /\ [][InputNext]_input_vars

-----------------------------------------------------------------------------
(* No press is lost before it is posted: a button pressed since its last    *)
(* event is latched, pending or in the hands of the input thread, wherever  *)
(* handler and thread are in their read and clear (sketch_os.c:667, 714).   *)
PressesKept == owed \subseteq int_state \cup g_pending_buttons \cup input.bits

(* A confirm is sent only for a value of the switch that the last four      *)
(* samples agree on (sketch_os.c:678-688).                                  *)
Debounced ==
  [][bounce'.stable # bounce.stable => \A i \in 1 .. 4 : samples'[i] = bounce'.stable]_input_vars

(* Of each press there is an event, and of the switch none but true ones.   *)
EventsTrue == []PressesKept /\ Debounced
=============================================================================
