----------------------------- MODULE LedcMotor -----------------------------
(***************************************************************************)
(* The motor driver of the first firmware (src/CarControlESP32, control.c) *)
(* on the LED PWM unit.  Every routine is the sequence of the duties that  *)
(* it writes; the unit is kept by the module that executes them.           *)
(***************************************************************************)
EXTENDS Integers, Sequences

Channel ==
  {"left_front", "right_front", "left_back", "right_back"}

\* ledc_set_duty and the ledc_update_duty that follows it: one task at a time
\* writes the unit, and each sets the duty of a channel only to update it.
Call == [channel : Channel, duty : 0 .. 255]
Set(channel, duty) == [channel |-> channel, duty |-> duty]

\* What the pins are driven with.
Unit == [Channel -> 0 .. 255]

Executed(unit, call) == [unit EXCEPT ![call.channel] = call.duty]

-----------------------------------------------------------------------------

\* init_motor
InitMotor == [channel \in Channel |-> 0]

\* The order in which all routines write the four channels.
FrontAndBack(front, back) ==
  <<Set("left_front", front), Set("right_front", front),
    Set("left_back", back), Set("right_back", back)>>

GoStraightPwm(duty) == FrontAndBack(duty, 0)

StopPwm == FrontAndBack(0, 0)

Abs(n) == IF n < 0 THEN -n ELSE n

\* The dead zone of set_all_duty.
Centred(axis) == Abs(axis) < 10

\* The conditions of the four branches of set_all_duty: the signs of x and y.
Branches == <<<<1, 1>>, <<1, -1>>, <<-1, 1>>, <<-1, -1>>>>
HasSign(axis, sign) == axis * sign > 0

\* What each of them writes, whatever duties have been computed.
BranchPwm == FrontAndBack(0, 0)

\* Once around the loop of each_full_power: only one direction is left in it,
\* and stop_pwm after every delay.
EachFullPower ==
  GoStraightPwm(255) \o StopPwm \o StopPwm \o StopPwm \o StopPwm
=============================================================================
