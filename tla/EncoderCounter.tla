--------------------------- MODULE EncoderCounter ---------------------------
(***************************************************************************)
(* The pulse counters of encoder_isr.c.  The interrupt handler increments  *)
(* them on core 0; get_rms_task, on whichever core, reads them once a      *)
(* second, reports the speed and then sets them to zero.  The counters are *)
(* not protected, so the handler's increment is a load and a store.        *)
(* Lines 72-77, an edit that does not compile, are left out.               *)
(***************************************************************************)
EXTENDS Integers

CONSTANT MaxCount   \* the count at which a wheel stops turning (a bound)

ASSUME EncoderCounterAssumption == MaxCount \in Nat

VARIABLES
  cont,      \* cont_left_encoder, cont_right_encoder
  isr,       \* the increment the handler is in, if any
  task,      \* where get_rms_task is
  counted,   \* what it read of the right wheel, from which avg_speed follows
  arrived,   \* increments of the right wheel stored since then
  early,     \* those of them that the reset has wiped out
  revived    \* old pulses that an increment begun before the reset wrote back

counterVars == <<cont, isr, task, counted, arrived, early, revived>>

Wheel == {"left", "right"}   \* GPIO_INPUT_LEFT_ENCODER, ..._RIGHT_ENCODER
NoPulse == [wheel |-> "none", loaded |-> 0]

CounterTypeOK ==
  /\ cont \in [Wheel -> Nat]
  /\ isr \in {NoPulse} \cup [wheel : Wheel, loaded : Nat]
  /\ task \in {"off", "read", "send", "reset_left", "reset_right", "delay"}
  /\ counted \in Nat
  /\ {arrived, early, revived} \subseteq Nat

CounterInit ==
  /\ cont = [w \in Wheel |-> 0] /\ isr = NoPulse
  /\ task = "off" /\ counted = 0
  /\ arrived = 0 /\ early = 0 /\ revived = 0

\* set_encoder_ISRs, and the start of the task.
StartTask ==
  /\ task = "off"
  /\ task' = "read"
  /\ UNCHANGED <<cont, isr, counted, arrived, early, revived>>

\* An edge at a pin (GPIO_PIN_INTR_ANYEDGE); one handler runs at a time.
PulseLoad(w) ==
  /\ task # "off" /\ isr = NoPulse /\ cont[w] < MaxCount
  /\ isr' = [wheel |-> w, loaded |-> cont[w]]
  /\ UNCHANGED <<cont, task, counted, arrived, early, revived>>

PulseStore ==
  /\ isr # NoPulse
  /\ cont' = [cont EXCEPT ![isr.wheel] = isr.loaded + 1]
  /\ isr' = NoPulse
  /\ IF isr.wheel = "right"
     THEN /\ arrived' = arrived + 1
          /\ revived' = revived + isr.loaded - cont["right"]
     ELSE UNCHANGED <<arrived, revived>>
  /\ UNCHANGED <<task, counted, early>>

\* Lines 83-89; what is left of the last second's arithmetic starts afresh.
ReadCounters ==
  /\ task = "read"
  /\ task' = "send"
  /\ counted' = cont["right"]
  /\ arrived' = 0 /\ early' = 0 /\ revived' = 0
  /\ UNCHANGED <<cont, isr>>

\* Line 100, see SpeedReport.tla.
SendSpeed ==
  /\ task = "send"
  /\ task' = "reset_left"
  /\ UNCHANGED <<cont, isr, counted, arrived, early, revived>>

ResetLeft ==
  /\ task = "reset_left"
  /\ task' = "reset_right"
  /\ cont' = [cont EXCEPT !["left"] = 0]
  /\ UNCHANGED <<isr, counted, arrived, early, revived>>

\* Faulty: the counter that is reported is not reset.
ResetRightForgotten ==
  /\ task = "reset_right"
  /\ task' = "delay"
  /\ early' = arrived
  /\ UNCHANGED <<cont, isr, counted, arrived, revived>>

ResetRight ==
  /\ task = "reset_right"
  /\ task' = "delay"
  /\ cont' = [cont EXCEPT !["right"] = 0]
  /\ early' = arrived
  /\ UNCHANGED <<isr, counted, arrived, revived>>

\* vTaskDelay(DELAY_CALCULATE_RPM): a second is longer than any increment.
Delay ==
  /\ task = "delay" /\ isr = NoPulse
  /\ task' = "read"
  /\ UNCHANGED <<cont, isr, counted, arrived, early, revived>>

\* The ESP32 is reset.
CounterReset ==
  /\ task # "off"
  /\ task' = "off"
  /\ cont' = [w \in Wheel |-> 0] /\ isr' = NoPulse
  /\ counted' = 0 /\ arrived' = 0 /\ early' = 0 /\ revived' = 0

CounterNext ==
  \/ StartTask \/ (\E w \in Wheel : PulseLoad(w)) \/ PulseStore
  \/ ReadCounters \/ SendSpeed \/ ResetLeft \/ ResetRight \/ Delay
  \/ CounterReset

CounterSpec == CounterInit /\ [][CounterNext]_counterVars

-----------------------------------------------------------------------------

\* Every report is of the pulses since the one before, except those stored
\* between its reading and its reset, which are lost (lines 83-104), and except
\* that an increment which the reset falls into brings everything back that the
\* last report has counted: never a part of it, never more.
BeforeReset == task \in {"send", "reset_left", "reset_right"}

PulsesAreAccountedFor ==
  /\ BeforeReset => cont["right"] = counted + arrived
  /\ ~BeforeReset => /\ cont["right"] = arrived - early + revived
                     /\ revived \in {0, counted + early}
=============================================================================
