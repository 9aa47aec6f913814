------------------------- MODULE CarControlHistory -------------------------
(***************************************************************************)
(* CarControl.tla with history variables that say how the tasks have       *)
(* interleaved, and the properties of the brake that hold whatever the     *)
(* interleaving or as long as one interleaving has not happened.           *)
(***************************************************************************)
EXTENDS CarControl

VARIABLES
  mixed,     \* two tasks have been amid register writes at the same time
  touched,   \* bt has written a register since the last brake began
  stale,     \* in AUTOBRAKE, bt has written for a command decided before it
  completed  \* in AUTOBRAKE, an emergency_brake has come to its end

history == <<mixed, touched, stale, completed>>
histVars == <<vars, history>>

Writing(task) == todo[task] # <<>> /\ IsPwm(Head(todo[task]))

BrakeBegins == todo["uart"] = <<>> /\ todo'["uart"] # <<>>
BrakeEnds == todo["uart"] # <<>> /\ todo'["uart"] = <<>>
BtWrites == todo["bt"] # <<>> /\ todo'["bt"] # todo["bt"]

\* A command decided on AUTOBRAKE that runs to its end repairs what a stale
\* one has left behind.
BtRepairs == BtWrites /\ seen = AUTOBRAKE /\ todo'["bt"] = <<>>

Track ==
  /\ mixed' = (mixed \/ (Writing("uart") /\ Writing("bt"))')
  /\ touched' = (~BrakeBegins /\ (touched \/ BtWrites))
  /\ stale' = /\ current_state' = AUTOBRAKE
              /\ ~BtRepairs
              /\ stale \/ (BtWrites /\ seen # AUTOBRAKE)
  /\ completed' = (current_state' = AUTOBRAKE /\ (completed \/ BrakeEnds))

HistInit ==
  /\ Init
  /\ mixed = FALSE /\ touched = FALSE /\ stale = FALSE /\ completed = FALSE
HistNext == Next /\ Track
HistSpec == HistInit /\ [][HistNext]_histVars
HistFairSpec == HistSpec /\ Fairness

HistTypeOK ==
  /\ TypeOK
  /\ {mixed, touched, stale, completed} \subseteq BOOLEAN

-----------------------------------------------------------------------------

\* emergency_brake is in progress, from its first message to its last.
Braking == todo["uart"] # <<>>

\* The first stop of emergency_brake, four writes after the buzzer's, is over.
Stopped == Len(todo["uart"]) <= Len(EmergencyBrake) - 5

InDelay(ms) == todo["uart"] # <<>> /\ Head(todo["uart"]) = DelayMs(ms)

\* In AUTOBRAKE, once the brake has stopped the motors, a wheel is driven
\* forward only as long as a joystick command decided before the change of
\* state has not been followed by one decided after it: the pair of checks in
\* get_ECU_serial_parameters_TASK and mcpwm_motor_control leaves no other way.
ForwardOnlyByStaleCommand ==
  current_state = AUTOBRAKE /\ Stopped /\ ~stale
    => \A wheel \in Wheel : ~Forward(pwm, wheel)

\* The brake is a pulse backward and then a stop, unless a joystick command is
\* written in the middle of it (emergency_brake shares the registers with
\* mcpwm_motor_control).
BrakesAsDesigned ==
  ~touched => \A wheel \in Wheel :
    /\ InDelay(PulseMs) => /\ ~Forward(pwm, wheel)
                           /\ Backward(pwm, wheel)
                           /\ pwm[wheel]["B"].duty = BrakeDuty
    /\ InDelay(HoldMs) => ~Forward(pwm, wheel) /\ ~Backward(pwm, wheel)

\* Both inputs of a bridge are driven only if two tasks have been amid their
\* register writes at the same time: one routine after the other, even between
\* the pulse and the hold of a brake, never does.
NotDrivenBothWays ==
  ~mixed => \A wheel \in Wheel : ~(Forward(pwm, wheel) /\ Backward(pwm, wheel))

\* One approach, one pulse: once the brake of this AUTOBRAKE has ended, the car
\* goes backward only because the joystick says so, however often the
\* Raspberry Pi repeats the state (it does every 50 ms).
OnePulsePerAutobrake ==
  completed => \A wheel \in Wheel : Backward(pwm, wheel) => touched

\* mcpwm_brushed_dc_control.c line 86 announces the emergency brake on and
\* line 101 released: the motors do not drive the car forward in between.
NotForwardWhileBraking ==
  Braking /\ Stopped => \A wheel \in Wheel : ~Forward(pwm, wheel)
=============================================================================
