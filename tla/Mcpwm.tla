------------------------------- MODULE Mcpwm -------------------------------
(***************************************************************************)
(* The motor driver of ESP_IDF_CarControlESP32:                            *)
(* mcpwm_brushed_dc_control.c drives two wheels through the PWM unit of    *)
(* the ESP32.  Every routine is the sequence of the register writes (and   *)
(* waits) it makes, because two tasks run these routines at once and only  *)
(* one write is atomic.  Duties are in thirds of a percent, which makes    *)
(* the driver's division by three exact.                                   *)
(***************************************************************************)
EXTENDS Integers, Sequences

Wheel == {"left", "right"}   \* MCPWM_TIMER_0, MCPWM_TIMER_1
Opr   == {"A", "B"}          \* generators: A drives forward, B backward

Percent(p) == 3 * p
Duty == 0 .. Percent(128)    \* abs of an int8_t

\* A generator is held low or follows its duty cycle.
Generator == [mode : {"low", "duty"}, duty : Duty]
Registers == [Wheel -> [Opr -> Generator]]

PwmStep == [do : {"low", "duty", "type"}, wheel : Wheel, opr : Opr, duty : Duty]
BuzzerStep == [do : {"buzzer"}, level : {0, 1}]
DelayStep == [do : {"delay"}, ms : Nat]
Step == PwmStep \cup BuzzerStep \cup DelayStep

IsPwm(step) == step.do \in {"low", "duty", "type"}

-----------------------------------------------------------------------------

SignalLow(wheel, opr) ==
  [do |-> "low", wheel |-> wheel, opr |-> opr, duty |-> 0]
SetDuty(wheel, opr, duty) ==
  [do |-> "duty", wheel |-> wheel, opr |-> opr, duty |-> duty]
SetDutyType(wheel, opr) ==
  [do |-> "type", wheel |-> wheel, opr |-> opr, duty |-> 0]
SetBuzzer(level) == [do |-> "buzzer", level |-> level]
DelayMs(ms) == [do |-> "delay", ms |-> ms]

\* The library's three calls on the registers of one generator: the duty is
\* remembered while the generator is held low, and takes effect again with
\* the duty type.
Written(pwm, step) ==
  IF step.do = "low"  THEN [pwm EXCEPT ![step.wheel][step.opr].mode = "low"]
  ELSE IF step.do = "duty"
                      THEN [pwm EXCEPT ![step.wheel][step.opr].duty = step.duty]
                      ELSE [pwm EXCEPT ![step.wheel][step.opr].mode = "duty"]

\* mcpwm_example_gpio_initialize: both timers start at duty 0.
InitialRegisters ==
  [wheel \in Wheel |-> [opr \in Opr |-> [mode |-> "duty", duty |-> 0]]]

\* What the H bridge sees.
Driven(pwm, wheel, opr) ==
  pwm[wheel][opr].mode = "duty" /\ pwm[wheel][opr].duty > 0
Forward(pwm, wheel)  == Driven(pwm, wheel, "A")
Backward(pwm, wheel) == Driven(pwm, wheel, "B")

-----------------------------------------------------------------------------

\* Faulty: the other generator is left as it was.
MotorForwardOnly(wheel, duty) ==
  <<SetDuty(wheel, "A", duty), SetDutyType(wheel, "A")>>

MotorForward(wheel, duty) ==
  <<SignalLow(wheel, "B"), SetDuty(wheel, "A", duty), SetDutyType(wheel, "A")>>

\* Faulty: a generator held low is given a duty and stays low.
MotorBackwardNoType(wheel, duty) ==
  <<SignalLow(wheel, "A"), SetDuty(wheel, "B", duty)>>

MotorBackward(wheel, duty) ==
  <<SignalLow(wheel, "A"), SetDuty(wheel, "B", duty), SetDutyType(wheel, "B")>>

\* Faulty: one generator is lowered twice.
MotorStopReverse(wheel) == <<SignalLow(wheel, "B"), SignalLow(wheel, "B")>>

MotorStop(wheel) == <<SignalLow(wheel, "A"), SignalLow(wheel, "B")>>

BothStop == MotorStop("left") \o MotorStop("right")
BothForward(leftDuty, rightDuty) ==
  MotorForward("left", leftDuty) \o MotorForward("right", rightDuty)
BothBackward(duty) ==
  MotorBackward("left", duty) \o MotorBackward("right", duty)

PulseMs == 120
HoldMs  == 880
BrakeDuty == Percent(50)

\* emergency_brake: stop, push backward for PulseMs, stop again and hold.
EmergencyBrake ==
  <<SetBuzzer(1)>>
  \o BothStop
  \o BothBackward(BrakeDuty)
  \o <<DelayMs(PulseMs)>>
  \o BothStop
  \o <<DelayMs(HoldMs), SetBuzzer(0)>>

-----------------------------------------------------------------------------

Limit == 60
AUTOBRAKE == 2

Abs(n) == IF n < 0 THEN -n ELSE n

\* The branch of mcpwm_motor_control taken when the car brakes by itself.
BrakingControl(y_axis) ==
  IF y_axis < -Limit THEN BothBackward(Percent(Abs(y_axis))) ELSE BothStop

\* The branch taken otherwise: the wheel on the inner side of a turn gets a
\* third of the duty.
FreeControl(x_axis, y_axis) ==
  IF x_axis > Limit THEN BothForward(Percent(Abs(x_axis)), Abs(x_axis))
  ELSE IF x_axis < -Limit THEN BothForward(Abs(x_axis), Percent(Abs(x_axis)))
  ELSE IF y_axis > Limit
       THEN BothForward(Percent(Abs(y_axis)), Percent(Abs(y_axis)))
  ELSE BrakingControl(y_axis)

\* Faulty: the car is driven by the joystick in every state.
AlwaysFree(state, x_axis, y_axis) == FreeControl(x_axis, y_axis)

MotorControl(state, x_axis, y_axis) ==
  IF state = AUTOBRAKE THEN BrakingControl(y_axis)
                       ELSE FreeControl(x_axis, y_axis)
=============================================================================
