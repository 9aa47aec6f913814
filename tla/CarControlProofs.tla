-------------------------- MODULE CarControlProofs --------------------------
(***************************************************************************)
(* Theorems about Mcpwm.tla and CarControl.tla, for every set of bytes and *)
(* every set of joystick commands.                                         *)
(***************************************************************************)
EXTENDS CarControlHistory, SequenceTheorems, TLAPS

(***************************************************************************)
(* The routines of the motor driver are sequences of steps.                *)
(***************************************************************************)

LEMMA DutyIsInterval == Duty = 0 .. 384
  BY DEF Duty, Percent

LEMMA StepTypes ==
  ASSUME NEW wheel \in Wheel, NEW opr \in Opr, NEW duty \in Duty,
         NEW level \in {0, 1}, NEW ms \in Nat
  PROVE  /\ SignalLow(wheel, opr) \in Step
         /\ SetDuty(wheel, opr, duty) \in Step
         /\ SetDutyType(wheel, opr) \in Step
         /\ SetBuzzer(level) \in Step
         /\ DelayMs(ms) \in Step
<1>1. 0 \in Duty
  BY DutyIsInterval
<1>2. SignalLow(wheel, opr) \in PwmStep
  BY <1>1 DEF SignalLow, PwmStep
<1>3. SetDuty(wheel, opr, duty) \in PwmStep
  BY DEF SetDuty, PwmStep
<1>4. SetDutyType(wheel, opr) \in PwmStep
  BY <1>1 DEF SetDutyType, PwmStep
<1>5. SetBuzzer(level) \in BuzzerStep
  BY DEF SetBuzzer, BuzzerStep
<1>6. DelayMs(ms) \in DelayStep
  BY DEF DelayMs, DelayStep
<1> QED
  BY <1>2, <1>3, <1>4, <1>5, <1>6 DEF Step

LEMMA WheelRoutines ==
  ASSUME NEW wheel \in Wheel, NEW duty \in Duty
  PROVE  /\ MotorForward(wheel, duty) \in Seq(Step)
         /\ MotorBackward(wheel, duty) \in Seq(Step)
         /\ MotorStop(wheel) \in Seq(Step)
<1>1. \A opr \in Opr : /\ SignalLow(wheel, opr) \in Step
                       /\ SetDuty(wheel, opr, duty) \in Step
                       /\ SetDutyType(wheel, opr) \in Step
  <2> SUFFICES ASSUME NEW opr \in Opr
               PROVE  /\ SignalLow(wheel, opr) \in Step
                      /\ SetDuty(wheel, opr, duty) \in Step
                      /\ SetDutyType(wheel, opr) \in Step
    OBVIOUS
  <2>1. 0 \in {0, 1} /\ 0 \in Nat
    OBVIOUS
  <2> QED
    BY <2>1, StepTypes
<1>2. "A" \in Opr /\ "B" \in Opr
  BY DEF Opr
<1>3. \A a, b, c \in Step : <<a, b, c>> \in Seq(Step) /\ <<a, b>> \in Seq(Step)
  OBVIOUS
<1> QED
  BY <1>1, <1>2, <1>3 DEF MotorForward, MotorBackward, MotorStop

LEMMA ConcatType ==
  ASSUME NEW s \in Seq(Step), NEW t \in Seq(Step)
  PROVE  s \o t \in Seq(Step)
  BY ConcatProperties

LEMMA CarRoutines ==
  /\ BothStop \in Seq(Step)
  /\ \A duty \in Duty : BothBackward(duty) \in Seq(Step)
  /\ \A left, right \in Duty : BothForward(left, right) \in Seq(Step)
<1>1. "left" \in Wheel /\ "right" \in Wheel /\ 0 \in Duty
  BY DutyIsInterval DEF Wheel
<1>2. BothStop \in Seq(Step)
  BY <1>1, WheelRoutines, ConcatType DEF BothStop
<1>3. ASSUME NEW duty \in Duty PROVE BothBackward(duty) \in Seq(Step)
  BY <1>1, WheelRoutines, ConcatType DEF BothBackward
<1>4. ASSUME NEW left \in Duty, NEW right \in Duty
      PROVE  BothForward(left, right) \in Seq(Step)
  BY <1>1, WheelRoutines, ConcatType DEF BothForward
<1> QED
  BY <1>2, <1>3, <1>4

LEMMA EmergencyBrakeType == EmergencyBrake \in Seq(Step)
<1>1. "left" \in Wheel /\ "A" \in Opr /\ 0 \in Duty /\ BrakeDuty \in Duty
  BY DutyIsInterval DEF Wheel, Opr, BrakeDuty, Percent
<1>2. /\ SetBuzzer(0) \in Step /\ SetBuzzer(1) \in Step
      /\ DelayMs(PulseMs) \in Step /\ DelayMs(HoldMs) \in Step
  <2>1. PulseMs \in Nat /\ HoldMs \in Nat
    BY DEF PulseMs, HoldMs
  <2> QED
    BY <1>1, <2>1, StepTypes
<1>3. /\ <<SetBuzzer(1)>> \in Seq(Step)
      /\ <<DelayMs(PulseMs)>> \in Seq(Step)
      /\ <<DelayMs(HoldMs), SetBuzzer(0)>> \in Seq(Step)
  BY <1>2
<1>4. <<SetBuzzer(1)>> \o BothStop \in Seq(Step)
  BY <1>3, CarRoutines, ConcatType
<1>5. <<SetBuzzer(1)>> \o BothStop \o BothBackward(BrakeDuty) \in Seq(Step)
  BY <1>1, <1>4, CarRoutines, ConcatType
<1>6. <<SetBuzzer(1)>> \o BothStop \o BothBackward(BrakeDuty)
        \o <<DelayMs(PulseMs)>> \in Seq(Step)
  BY <1>3, <1>5, ConcatType
<1>7. <<SetBuzzer(1)>> \o BothStop \o BothBackward(BrakeDuty)
        \o <<DelayMs(PulseMs)>> \o BothStop \in Seq(Step)
  BY <1>6, CarRoutines, ConcatType
<1> QED
  BY <1>3, <1>7, ConcatType DEF EmergencyBrake

LEMMA MotorControlType ==
  ASSUME NEW state, NEW x_axis \in -128 .. 127, NEW y_axis \in -128 .. 127
  PROVE  MotorControl(state, x_axis, y_axis) \in Seq(Step)
<1>1. ASSUME NEW n \in -128 .. 127
      PROVE  Abs(n) \in Duty /\ Percent(Abs(n)) \in Duty
  BY DutyIsInterval DEF Abs, Percent
<1>2. BrakingControl(y_axis) \in Seq(Step)
  BY <1>1, CarRoutines DEF BrakingControl
<1>3. FreeControl(x_axis, y_axis) \in Seq(Step)
  BY <1>1, <1>2, CarRoutines DEF FreeControl
<1> QED
  BY <1>2, <1>3 DEF MotorControl

-----------------------------------------------------------------------------

\* A library call leaves well-formed registers.
LEMMA WrittenType ==
  ASSUME NEW step \in Step, IsPwm(step), pwm \in Registers
  PROVE  Written(pwm, step) \in Registers
<1>1. step \in PwmStep
  BY DEF Step, BuzzerStep, DelayStep, PwmStep, IsPwm
<1>2. step.wheel \in Wheel /\ step.opr \in Opr /\ step.duty \in Duty
  BY <1>1 DEF PwmStep
<1>3. pwm[step.wheel] \in [Opr -> Generator]
  BY <1>2 DEF Registers
<1>4. pwm[step.wheel][step.opr] \in Generator
  BY <1>2, <1>3
<1> DEFINE g == pwm[step.wheel][step.opr]
<1>5. /\ [g EXCEPT !.mode = "low"] \in Generator
      /\ [g EXCEPT !.mode = "duty"] \in Generator
      /\ [g EXCEPT !.duty = step.duty] \in Generator
  BY <1>2, <1>4 DEF Generator
<1> HIDE DEF g
<1>6. ASSUME NEW h \in Generator
      PROVE  [pwm EXCEPT ![step.wheel][step.opr] = h] \in Registers
  BY <1>2, <1>3, <1>6 DEF Registers
<1> QED
  BY <1>5, <1>6 DEF Written, g

\* The beginning of a task's routine keeps the queues well-formed.
LEMMA TodoType ==
  ASSUME TypeOK, NEW task \in Task, NEW routine \in Seq(Step)
  PROVE  [todo EXCEPT ![task] = routine] \in [Task -> Seq(Step)]
  BY DEF TypeOK

LEMMA ExecuteType ==
  ASSUME TypeOK, NEW task \in Task, Execute(task)
  PROVE  TypeOK'
<1> DEFINE step == Head(todo[task])
<1>1. todo[task] \in Seq(Step) /\ todo[task] # <<>>
  BY DEF TypeOK, Execute
<1>2. step \in Step /\ Tail(todo[task]) \in Seq(Step)
  BY <1>1, HeadTailProperties
<1>3. todo' \in [Task -> Seq(Step)]
  BY <1>2 DEF TypeOK, Execute
<1>4. pwm' \in Registers
  BY <1>2, WrittenType DEF TypeOK, Execute
<1>5. buzzer' \in {0, 1}
  BY <1>2 DEF TypeOK, Execute, Step, PwmStep, BuzzerStep, DelayStep
<1> QED
  BY <1>3, <1>4, <1>5 DEF TypeOK, Execute

\* Every step of the three tasks keeps the types.
LEMMA NextType ==
  ASSUME TypeOK, [Next]_vars
  PROVE  TypeOK'
<1>1. ASSUME NEW byte \in Byte, UartByte(byte)
      PROVE  TypeOK'
  <2>1. Decoded(byte) \in State
    BY CarControlAssumption DEF Decoded, State
  <2>2. "uart" \in Task
    BY DEF Task
  <2>3. todo' \in [Task -> Seq(Step)]
    BY <1>1, <2>2, EmergencyBrakeType, TodoType DEF UartByte, TypeOK
  <2> QED
    BY <1>1, <2>1, <2>3 DEF UartByte, TypeOK
<1>2. ASSUME NEW axes \in Command, BtCommand(axes[1], axes[2])
      PROVE  TypeOK'
  <2>1. axes[1] \in -128 .. 127 /\ axes[2] \in -128 .. 127
    BY CarControlAssumption
  <2>2. MotorControl(current_state, axes[1], axes[2]) \in Seq(Step)
    BY <2>1, MotorControlType
  <2>3. todo' \in [Task -> Seq(Step)]
    BY <1>2, <2>2, TodoType DEF BtCommand, Task
  <2> QED
    BY <1>2, <2>3 DEF BtCommand, TypeOK
<1>3. CASE AlarmsPoll
  <2>1. buzzer_status' \in {0, 1}
    BY <1>3 DEF AlarmsPoll, TypeOK
  <2>2. \A level \in {0, 1}, ms \in Nat :
          SetBuzzer(level) \in Step /\ DelayMs(ms) \in Step
    BY DEF SetBuzzer, BuzzerStep, DelayMs, DelayStep, Step
  <2>3. /\ <<SetBuzzer(0), DelayMs(5)>> \in Seq(Step)
        /\ <<SetBuzzer(buzzer_status'), DelayMs(80)>> \in Seq(Step)
    BY <2>1, <2>2
  <2>4. todo' \in [Task -> Seq(Step)]
    BY <1>3, <2>3, TodoType DEF AlarmsPoll, Task
  <2> QED
    BY <1>3, <2>1, <2>4 DEF AlarmsPoll, TypeOK
<1>4. ASSUME NEW task \in Task, Execute(task)
      PROVE  TypeOK'
  BY <1>4, ExecuteType
<1>5. CASE UNCHANGED vars
  BY <1>5 DEF vars, TypeOK
<1> QED
  BY <1>1, <1>2, <1>3, <1>4, <1>5 DEF Next

LEMMA InitialTypes ==
  ASSUME HistInit
  PROVE  HistTypeOK
<1>1. 0 \in Duty
  BY DutyIsInterval
<1>2. pwm \in Registers
  BY <1>1 DEF HistInit, Init, InitialRegisters, Registers, Generator
<1>3. TypeOK
  BY <1>2 DEF HistInit, Init, TypeOK, State, NORMAL
<1>4. {mixed, touched, stale, completed} \subseteq BOOLEAN
  BY ZenonT(20) DEF HistInit
<1> QED
  BY <1>3, <1>4 DEF HistTypeOK

LEMMA TypesAgain ==
  ASSUME HistTypeOK, [HistNext]_histVars
  PROVE  HistTypeOK'
<1>1. TypeOK'
  BY NextType DEF HistTypeOK, HistNext, histVars
<1>2. {mixed, touched, stale, completed}' \subseteq BOOLEAN
  BY DEF HistTypeOK, HistNext, Track, histVars, history
<1> QED
  BY <1>1, <1>2 DEF HistTypeOK

\* Type correctness of the three tasks: every routine they start is made of
\* calls with a duty the driver accepts, and the state fits a uint8_t.
THEOREM CarControlTypeCorrect == HistSpec => []HistTypeOK
<1>1. HistInit => HistTypeOK
  BY InitialTypes
<1>2. HistTypeOK /\ [HistNext]_histVars => HistTypeOK'
  BY TypesAgain
<1> QED
  BY <1>1, <1>2, PTL DEF HistSpec

-----------------------------------------------------------------------------

(***************************************************************************)
(* What is left of the routines.                                           *)
(***************************************************************************)

Other(opr) == IF opr = "A" THEN "B" ELSE "A"

\* Calls after which a generator may drive its input.
TurnsOn(step) == step.do \in {"duty", "type"}

\* A routine that turns a generator on drives each wheel one way only, and has
\* lowered the other generator before.
OneWay(q) ==
  \A j, k \in 1 .. Len(q) :
    TurnsOn(q[j]) /\ TurnsOn(q[k]) /\ q[j].wheel = q[k].wheel
      => q[j].opr = q[k].opr
LowersBefore(q, k) ==
  \E j \in 1 .. k - 1 : q[j] = SignalLow(q[k].wheel, Other(q[k].opr))
LowersFirst(q) == \A k \in 1 .. Len(q) : TurnsOn(q[k]) => LowersBefore(q, k)

NeverForward(q) ==
  \A k \in 1 .. Len(q) : IsPwm(q[k]) => q[k].do = "low" \/ q[k].opr = "B"
Lowers(q, wheel) == \E k \in 1 .. Len(q) : q[k] = SignalLow(wheel, "A")

AllPwm(q) == \A k \in 1 .. Len(q) : IsPwm(q[k])
NoPwm(q) == \A k \in 1 .. Len(q) : ~IsPwm(q[k])

Left == Len(todo["uart"])

\* The reading task is in no routine but the brake, and in order.
Queues ==
  /\ Left <= 18
  /\ \A k \in 1 .. Left : todo["uart"][k] = EmergencyBrake[18 - Left + k]
  /\ Left > 0 => current_state = AUTOBRAKE
  /\ AllPwm(todo["bt"]) /\ OneWay(todo["bt"])
  /\ NoPwm(todo["alarms"])

\* What is still to be turned on has its other generator lowered, by a call
\* still to come or by one of this very routine.
Guarded(task) ==
  \A k \in 1 .. Len(todo[task]) :
    LET step == todo[task][k] IN
      TurnsOn(step) =>
        \/ LowersBefore(todo[task], k)
        \/ /\ IsPwm(Head(todo[task]))
           /\ pwm[step.wheel][Other(step.opr)].mode = "low"

Apart ==
  ~mixed => /\ ~(Writing("uart") /\ Writing("bt"))
            /\ Guarded("uart") /\ Guarded("bt")

\* A command decided in AUTOBRAKE takes both wheels off forward drive.
Repairing ==
  seen = AUTOBRAKE =>
    /\ NeverForward(todo["bt"])
    /\ todo["bt"] # <<>> =>
         \A wheel \in Wheel : Forward(pwm, wheel) => Lowers(todo["bt"], wheel)

\* Which wheels the first stop of the brake has reached.
CutOff ==
  current_state = AUTOBRAKE /\ ~stale =>
    /\ Left <= 16 => ~Forward(pwm, "left")
    /\ Left <= 14 => ~Forward(pwm, "right")

\* The registers of a brake nobody has touched, call by call.
Undisturbed ==
  /\ Left <= 16 => pwm["left"]["A"].mode = "low"
  /\ Left <= 14 => pwm["right"]["A"].mode = "low"
  /\ Left <= 11 => pwm["left"]["B"].duty = BrakeDuty
  /\ Left <= 8 => pwm["right"]["B"].duty = BrakeDuty
  /\ Left \in 5 .. 10 => pwm["left"]["B"].mode = "duty"
  /\ Left \in 3 .. 7 => pwm["right"]["B"].mode = "duty"
  /\ Left <= 4 => pwm["left"]["B"].mode = "low"
  /\ Left <= 2 => pwm["right"]["B"].mode = "low"

BrakeInOrder ==
  /\ ~touched /\ (Left > 0 \/ completed) => Undisturbed
  /\ completed => current_state = AUTOBRAKE /\ Left = 0

IInv ==
  /\ HistTypeOK /\ Queues /\ Apart /\ Repairing /\ CutOff /\ BrakeInOrder
  /\ NotDrivenBothWays

-----------------------------------------------------------------------------

(***************************************************************************)
(* The routines, call by call.                                             *)
(***************************************************************************)

LEMMA ConcatCalls ==
  ASSUME NEW S, NEW s \in Seq(S), NEW t \in Seq(S), NEW m \in Nat, Len(s) = m
  PROVE  /\ s \o t \in Seq(S) /\ Len(s \o t) = m + Len(t)
         /\ \A k \in 1 .. m + Len(t) :
              (s \o t)[k] = IF k <= m THEN s[k] ELSE t[k - m]
  BY ConcatProperties

LEMMA Pairs ==
  ASSUME NEW S, NEW a \in S, NEW b \in S, NEW c \in S, NEW d \in S
  PROVE  <<a, b>> \o <<c, d>> = <<a, b, c, d>>
<1> DEFINE s == <<a, b>> \o <<c, d>>
<1>1. /\ <<a, b>> \in Seq(S) /\ Len(<<a, b>>) = 2
      /\ <<c, d>> \in Seq(S) /\ Len(<<c, d>>) = 2
  OBVIOUS
<1>2. s \in Seq(S) /\ Len(s) = 4 /\ s[1] = a /\ s[2] = b /\ s[3] = c /\ s[4] = d
  BY <1>1, ConcatCalls
<1> HIDE DEF s
<1>3. s = <<a, b, c, d>>
  BY <1>2
<1> QED
  BY <1>3 DEF s

LEMMA Triples ==
  ASSUME NEW S, NEW a \in S, NEW b \in S, NEW c \in S, NEW d \in S,
         NEW e \in S, NEW f \in S
  PROVE  <<a, b, c>> \o <<d, e, f>> = <<a, b, c, d, e, f>>
<1> DEFINE s == <<a, b, c>> \o <<d, e, f>>
<1>1. /\ <<a, b, c>> \in Seq(S) /\ Len(<<a, b, c>>) = 3
      /\ <<d, e, f>> \in Seq(S) /\ Len(<<d, e, f>>) = 3
  OBVIOUS
<1>2. /\ s \in Seq(S) /\ Len(s) = 6 /\ s[1] = a /\ s[2] = b /\ s[3] = c
      /\ s[4] = d /\ s[5] = e /\ s[6] = f
  BY <1>1, ConcatCalls
<1> HIDE DEF s
<1>3. s = <<a, b, c, d, e, f>>
  BY <1>2
<1> QED
  BY <1>3 DEF s

\* A routine that stops both wheels.
LEMMA StopCalls ==
  BothStop = <<SignalLow("left", "A"), SignalLow("left", "B"),
               SignalLow("right", "A"), SignalLow("right", "B")>>
<1>1. \A wheel \in Wheel, opr \in Opr : SignalLow(wheel, opr) \in Step
  BY DutyIsInterval DEF SignalLow, Step, PwmStep
<1> QED
  BY <1>1, Pairs DEF BothStop, MotorStop, Wheel, Opr

LEMMA BackwardCalls ==
  ASSUME NEW duty \in Duty
  PROVE  BothBackward(duty) =
           <<SignalLow("left", "A"), SetDuty("left", "B", duty),
             SetDutyType("left", "B"),
             SignalLow("right", "A"), SetDuty("right", "B", duty),
             SetDutyType("right", "B")>>
<1>1. \A wheel \in Wheel, opr \in Opr :
        /\ SignalLow(wheel, opr) \in Step
        /\ SetDuty(wheel, opr, duty) \in Step
        /\ SetDutyType(wheel, opr) \in Step
  BY 0 \in {0, 1}, 0 \in Nat, StepTypes
<1> QED
  BY <1>1, Triples DEF BothBackward, MotorBackward, Wheel, Opr

LEMMA ForwardCalls ==
  ASSUME NEW left \in Duty, NEW right \in Duty
  PROVE  BothForward(left, right) =
           <<SignalLow("left", "B"), SetDuty("left", "A", left),
             SetDutyType("left", "A"),
             SignalLow("right", "B"), SetDuty("right", "A", right),
             SetDutyType("right", "A")>>
<1>1. \A wheel \in Wheel, opr \in Opr, duty \in Duty :
        /\ SignalLow(wheel, opr) \in Step
        /\ SetDuty(wheel, opr, duty) \in Step
        /\ SetDutyType(wheel, opr) \in Step
  BY 0 \in {0, 1}, 0 \in Nat, StepTypes
<1> QED
  BY <1>1, Triples DEF BothForward, MotorForward, Wheel, Opr

LEMMA BrakeCalls ==
  EmergencyBrake =
    <<SetBuzzer(1),
      SignalLow("left", "A"), SignalLow("left", "B"),
      SignalLow("right", "A"), SignalLow("right", "B"),
      SignalLow("left", "A"), SetDuty("left", "B", BrakeDuty),
      SetDutyType("left", "B"),
      SignalLow("right", "A"), SetDuty("right", "B", BrakeDuty),
      SetDutyType("right", "B"),
      DelayMs(PulseMs),
      SignalLow("left", "A"), SignalLow("left", "B"),
      SignalLow("right", "A"), SignalLow("right", "B"),
      DelayMs(HoldMs), SetBuzzer(0)>>
<1>1. /\ 0 \in Duty /\ BrakeDuty \in Duty
      /\ 0 \in {0, 1} /\ 1 \in {0, 1} /\ PulseMs \in Nat /\ HoldMs \in Nat
  BY DutyIsInterval DEF BrakeDuty, Percent, PulseMs, HoldMs
<1>2. \A wheel \in Wheel, opr \in Opr :
        /\ SignalLow(wheel, opr) \in Step
        /\ SetDuty(wheel, opr, BrakeDuty) \in Step
        /\ SetDutyType(wheel, opr) \in Step
        /\ SetBuzzer(0) \in Step /\ SetBuzzer(1) \in Step
        /\ DelayMs(PulseMs) \in Step /\ DelayMs(HoldMs) \in Step
  BY <1>1, StepTypes
<1>3. BothBackward(BrakeDuty) =
        <<SignalLow("left", "A"), SetDuty("left", "B", BrakeDuty),
          SetDutyType("left", "B"),
          SignalLow("right", "A"), SetDuty("right", "B", BrakeDuty),
          SetDutyType("right", "B")>>
  BY <1>1, BackwardCalls
<1> DEFINE a == SetBuzzer(1)
           s1 == SignalLow("left", "A")
           s2 == SignalLow("left", "B")
           s3 == SignalLow("right", "A")
           s4 == SignalLow("right", "B")
           b2 == SetDuty("left", "B", BrakeDuty)
           b3 == SetDutyType("left", "B")
           b5 == SetDuty("right", "B", BrakeDuty)
           b6 == SetDutyType("right", "B")
           d == DelayMs(PulseMs)
           h == DelayMs(HoldMs)
           z == SetBuzzer(0)
<1>4. /\ a \in Step /\ s1 \in Step /\ s2 \in Step /\ s3 \in Step
      /\ s4 \in Step /\ b2 \in Step /\ b3 \in Step /\ b5 \in Step
      /\ b6 \in Step /\ d \in Step /\ h \in Step /\ z \in Step
  BY <1>2 DEF Wheel, Opr
<1>5. /\ BothStop = <<s1, s2, s3, s4>>
      /\ BothBackward(BrakeDuty) = <<s1, b2, b3, s3, b5, b6>>
      /\ EmergencyBrake = <<a>> \o BothStop \o BothBackward(BrakeDuty) \o <<d>>
                            \o BothStop \o <<h, z>>
  BY <1>3, StopCalls DEF EmergencyBrake
<1> HIDE DEF a, s1, s2, s3, s4, b2, b3, b5, b6, d, h, z
<1> DEFINE stop == <<s1, s2, s3, s4>>
           back == <<s1, b2, b3, s3, b5, b6>>
           p == <<a>> \o stop
           q == p \o back
           r == q \o <<d>>
           s == r \o stop
           t == s \o <<h, z>>
<1>6. /\ stop \in Seq(Step) /\ Len(stop) = 4
      /\ back \in Seq(Step) /\ Len(back) = 6
      /\ <<h, z>> \in Seq(Step) /\ Len(<<h, z>>) = 2
      /\ <<a>> \in Seq(Step) /\ Len(<<a>>) = 1
      /\ <<d>> \in Seq(Step) /\ Len(<<d>>) = 1
  BY <1>4
<1>7. p = <<a, s1, s2, s3, s4>>
  <2>1. /\ p \in Seq(Step) /\ Len(p) = 5
        /\ p[1] = a /\ p[2] = s1 /\ p[3] = s2 /\ p[4] = s3 /\ p[5] = s4
    BY <1>6, ConcatCalls
  <2> HIDE DEF p
  <2> QED
    BY <2>1
<1> HIDE DEF p
<1>8. q = <<a, s1, s2, s3, s4, s1, b2, b3, s3, b5, b6>>
  <2>1. /\ q \in Seq(Step) /\ Len(q) = 11
        /\ \A k \in 1 .. 5 : q[k] = p[k]
        /\ \A k \in 1 .. 6 : q[k + 5] = back[k]
    BY <1>6, <1>7, ConcatCalls
  <2> HIDE DEF q
  <2>2. /\ q[6] = s1 /\ q[7] = b2 /\ q[8] = b3
        /\ q[9] = s3 /\ q[10] = b5 /\ q[11] = b6
    BY <2>1
  <2> QED
    BY <1>7, <2>1, <2>2
<1> HIDE DEF q
<1>9. r = <<a, s1, s2, s3, s4, s1, b2, b3, s3, b5, b6, d>>
  <2>1. /\ r \in Seq(Step) /\ Len(r) = 12
        /\ \A k \in 1 .. 11 : r[k] = q[k]
        /\ r[12] = d
    BY <1>6, <1>8, ConcatCalls
  <2> HIDE DEF r
  <2> QED
    BY <1>8, <2>1
<1> HIDE DEF r
<1>10. s = <<a, s1, s2, s3, s4, s1, b2, b3, s3, b5, b6, d, s1, s2, s3, s4>>
  <2>1. /\ s \in Seq(Step) /\ Len(s) = 16
        /\ \A k \in 1 .. 12 : s[k] = r[k]
        /\ \A k \in 1 .. 4 : s[k + 12] = stop[k]
    BY <1>6, <1>9, ConcatCalls
  <2> HIDE DEF s
  <2>2. s[13] = s1 /\ s[14] = s2 /\ s[15] = s3 /\ s[16] = s4
    BY <2>1
  <2> QED
    BY <1>9, <2>1, <2>2
<1> HIDE DEF s
<1>11. t = <<a, s1, s2, s3, s4, s1, b2, b3, s3, b5, b6, d,
            s1, s2, s3, s4, h, z>>
  <2>1. /\ t \in Seq(Step) /\ Len(t) = 18
        /\ \A k \in 1 .. 16 : t[k] = s[k]
        /\ t[17] = h /\ t[18] = z
    BY <1>6, <1>10, ConcatCalls
  <2> HIDE DEF t
  <2> QED
    BY <1>10, <2>1
<1>12. EmergencyBrake = t
  BY <1>5 DEF p, q, r, s, t
<1> QED
  BY <1>11, <1>12 DEF a, s1, s2, s3, s4, b2, b3, b5, b6, d, h, z

\* The brake as a table: which call does what.
LEMMA BrakeTable ==
  /\ Len(EmergencyBrake) = 18
  /\ \A p \in {1, 12, 17, 18} : ~IsPwm(EmergencyBrake[p])
  /\ EmergencyBrake[12] = DelayMs(PulseMs)
  /\ EmergencyBrake[17] = DelayMs(HoldMs)
  /\ \A p \in 1 .. 18 :
       EmergencyBrake[p] \in {DelayMs(PulseMs), DelayMs(HoldMs)} => p \in {12, 17}
  /\ \A p \in {2, 6, 13} : EmergencyBrake[p] = SignalLow("left", "A")
  /\ \A p \in {3, 14} : EmergencyBrake[p] = SignalLow("left", "B")
  /\ \A p \in {4, 9, 15} : EmergencyBrake[p] = SignalLow("right", "A")
  /\ \A p \in {5, 16} : EmergencyBrake[p] = SignalLow("right", "B")
  /\ EmergencyBrake[7] = SetDuty("left", "B", BrakeDuty)
  /\ EmergencyBrake[8] = SetDutyType("left", "B")
  /\ EmergencyBrake[10] = SetDuty("right", "B", BrakeDuty)
  /\ EmergencyBrake[11] = SetDutyType("right", "B")
<1> DEFINE e == EmergencyBrake
<1> USE DEF SetBuzzer, DelayMs, SignalLow, SetDuty, SetDutyType
<1>1. /\ Len(e) = 18
      /\ e[1] = SetBuzzer(1) /\ e[18] = SetBuzzer(0)
      /\ e[12] = DelayMs(PulseMs) /\ e[17] = DelayMs(HoldMs)
      /\ e[2] = SignalLow("left", "A") /\ e[6] = SignalLow("left", "A")
      /\ e[13] = SignalLow("left", "A")
      /\ e[3] = SignalLow("left", "B") /\ e[14] = SignalLow("left", "B")
      /\ e[4] = SignalLow("right", "A") /\ e[9] = SignalLow("right", "A")
      /\ e[15] = SignalLow("right", "A")
      /\ e[5] = SignalLow("right", "B") /\ e[16] = SignalLow("right", "B")
      /\ e[7] = SetDuty("left", "B", BrakeDuty)
      /\ e[8] = SetDutyType("left", "B")
      /\ e[10] = SetDuty("right", "B", BrakeDuty)
      /\ e[11] = SetDutyType("right", "B")
  BY BrakeCalls
<1> HIDE DEF e
<1>2. \A p \in {1, 12, 17, 18} : ~IsPwm(e[p])
  BY <1>1 DEF IsPwm
<1>3. \A p \in 1 .. 18 :
        e[p] \in {DelayMs(PulseMs), DelayMs(HoldMs)} => p \in {12, 17}
  <2>1. \A p \in 1 .. 18 : p \notin {12, 17} => e[p].do # "delay"
    BY <1>1
  <2> QED
    BY <2>1
<1> QED
  BY <1>1, <1>2, <1>3 DEF e

\* What the calls are made of.
LEMMA CallFields ==
  ASSUME NEW wheel, NEW opr, NEW duty
  PROVE  /\ SignalLow(wheel, opr).do = "low"
         /\ SignalLow(wheel, opr).wheel = wheel
         /\ SignalLow(wheel, opr).opr = opr
         /\ SetDuty(wheel, opr, duty).do = "duty"
         /\ SetDuty(wheel, opr, duty).wheel = wheel
         /\ SetDuty(wheel, opr, duty).opr = opr
         /\ SetDuty(wheel, opr, duty).duty = duty
         /\ SetDutyType(wheel, opr).do = "type"
         /\ SetDutyType(wheel, opr).wheel = wheel
         /\ SetDutyType(wheel, opr).opr = opr
  BY DEF SignalLow, SetDuty, SetDutyType

\* The brake in the terms of the invariant.
LEMMA BrakeRoutine ==
  /\ \A p \in 1 .. 18 : IsPwm(EmergencyBrake[p]) <=> p \notin {1, 12, 17, 18}
  /\ \A p \in 1 .. 18 : TurnsOn(EmergencyBrake[p]) => p \in {7, 8, 10, 11}
  /\ OneWay(EmergencyBrake) /\ LowersFirst(EmergencyBrake)
  /\ NeverForward(EmergencyBrake)
<1> DEFINE e == EmergencyBrake
<1>1. /\ Len(e) = 18
      /\ \A p \in {1, 12, 17, 18} : ~IsPwm(e[p])
      /\ \A p \in {2, 6, 13} : e[p] = SignalLow("left", "A")
      /\ \A p \in {3, 14} : e[p] = SignalLow("left", "B")
      /\ \A p \in {4, 9, 15} : e[p] = SignalLow("right", "A")
      /\ \A p \in {5, 16} : e[p] = SignalLow("right", "B")
      /\ e[7] = SetDuty("left", "B", BrakeDuty)
      /\ e[8] = SetDutyType("left", "B")
      /\ e[10] = SetDuty("right", "B", BrakeDuty)
      /\ e[11] = SetDutyType("right", "B")
  BY BrakeTable
<1> HIDE DEF e
<1>2. /\ \A p \in {2, 3, 4, 5, 6, 9, 13, 14, 15, 16} : e[p].do = "low"
      /\ \A p \in {7, 10} : e[p].do = "duty"
      /\ \A p \in {8, 11} : e[p].do = "type"
      /\ \A p \in {7, 8, 10, 11} : e[p].opr = "B"
      /\ \A p \in {7, 8} : e[p].wheel = "left"
      /\ \A p \in {10, 11} : e[p].wheel = "right"
  BY <1>1, CallFields
<1>3. \A p \in 1 .. 18 : IsPwm(e[p]) <=> p \notin {1, 12, 17, 18}
  BY <1>1, <1>2 DEF IsPwm
<1>4. \A p \in 1 .. 18 : TurnsOn(e[p]) => p \in {7, 8, 10, 11}
  BY <1>2, <1>3 DEF TurnsOn, IsPwm
<1>5. OneWay(e)
  BY <1>1, <1>2, <1>4 DEF OneWay
<1>6. LowersFirst(e)
  <2> SUFFICES ASSUME NEW k \in {7, 8, 10, 11}
               PROVE  \E j \in 1 .. k - 1 : e[j] = SignalLow(e[k].wheel, "A")
    BY <1>1, <1>2, <1>4 DEF LowersFirst, LowersBefore, Other
  <2>1. CASE k \in {7, 8}
    <3>1. 6 \in 1 .. k - 1 /\ e[6] = SignalLow(e[k].wheel, "A")
      BY <2>1, <1>1, <1>2
    <3> QED
      BY <3>1
  <2>2. CASE k \in {10, 11}
    <3>1. 9 \in 1 .. k - 1 /\ e[9] = SignalLow(e[k].wheel, "A")
      BY <2>2, <1>1, <1>2
    <3> QED
      BY <3>1
  <2> QED
    BY <2>1, <2>2
<1>7. NeverForward(e)
  BY <1>1, <1>2, <1>3 DEF NeverForward
<1> QED
  BY <1>3, <1>4, <1>5, <1>6, <1>7 DEF e

\* A joystick command, whatever it asks for.
GoodCommand(q) == AllPwm(q) /\ OneWay(q) /\ LowersFirst(q) /\ Len(q) > 0

LEMMA StopRoutine ==
  GoodCommand(BothStop) /\ NeverForward(BothStop)
  /\ \A wheel \in Wheel : Lowers(BothStop, wheel)
<1> DEFINE q == BothStop
<1>1. /\ Len(q) = 4
      /\ q[1] = SignalLow("left", "A") /\ q[2] = SignalLow("left", "B")
      /\ q[3] = SignalLow("right", "A") /\ q[4] = SignalLow("right", "B")
  BY StopCalls
<1> HIDE DEF q
<1>2. \A k \in 1 .. 4 : q[k].do = "low"
  BY <1>1, CallFields
<1>3. GoodCommand(q) /\ NeverForward(q)
  BY <1>1, <1>2 DEF GoodCommand, AllPwm, OneWay, LowersFirst, NeverForward,
     IsPwm, TurnsOn
<1>4. \A wheel \in Wheel : Lowers(q, wheel)
  BY <1>1 DEF Lowers, Wheel
<1> QED
  BY <1>3, <1>4 DEF q

LEMMA BackwardRoutine ==
  ASSUME NEW duty \in Duty
  PROVE  /\ GoodCommand(BothBackward(duty)) /\ NeverForward(BothBackward(duty))
         /\ \A wheel \in Wheel : Lowers(BothBackward(duty), wheel)
<1> DEFINE q == BothBackward(duty)
<1>1. /\ Len(q) = 6
      /\ q[1] = SignalLow("left", "A") /\ q[2] = SetDuty("left", "B", duty)
      /\ q[3] = SetDutyType("left", "B")
      /\ q[4] = SignalLow("right", "A") /\ q[5] = SetDuty("right", "B", duty)
      /\ q[6] = SetDutyType("right", "B")
  BY BackwardCalls
<1> HIDE DEF q
<1>2. /\ \A k \in {1, 4} : q[k].do = "low"
      /\ \A k \in {2, 5} : q[k].do = "duty"
      /\ \A k \in {3, 6} : q[k].do = "type"
      /\ \A k \in {2, 3} : q[k].wheel = "left" /\ q[k].opr = "B"
      /\ \A k \in {5, 6} : q[k].wheel = "right" /\ q[k].opr = "B"
  BY <1>1, CallFields
<1>3. \A k \in 1 .. 6 : TurnsOn(q[k]) => k \in {2, 3, 5, 6}
  BY <1>2 DEF TurnsOn
<1>4. AllPwm(q) /\ NeverForward(q)
  BY <1>1, <1>2 DEF AllPwm, NeverForward, IsPwm
<1>5. OneWay(q)
  BY <1>1, <1>2, <1>3 DEF OneWay
<1>6. LowersFirst(q)
  <2>1. \A k \in {2, 3} : 1 \in 1 .. k - 1 /\ q[1] = SignalLow(q[k].wheel, "A")
    BY <1>1, <1>2
  <2>2. \A k \in {5, 6} : 4 \in 1 .. k - 1 /\ q[4] = SignalLow(q[k].wheel, "A")
    BY <1>1, <1>2
  <2>3. \A k \in {2, 3, 5, 6} : Other(q[k].opr) = "A"
    BY <1>2 DEF Other
  <2> QED
    BY <1>1, <1>3, <2>1, <2>2, <2>3 DEF LowersFirst, LowersBefore
<1>7. \A wheel \in Wheel : Lowers(q, wheel)
  BY <1>1 DEF Lowers, Wheel
<1> QED
  BY <1>1, <1>4, <1>5, <1>6, <1>7 DEF q, GoodCommand

LEMMA ForwardRoutine ==
  ASSUME NEW left \in Duty, NEW right \in Duty
  PROVE  GoodCommand(BothForward(left, right))
<1> DEFINE q == BothForward(left, right)
<1>1. /\ Len(q) = 6
      /\ q[1] = SignalLow("left", "B") /\ q[2] = SetDuty("left", "A", left)
      /\ q[3] = SetDutyType("left", "A")
      /\ q[4] = SignalLow("right", "B") /\ q[5] = SetDuty("right", "A", right)
      /\ q[6] = SetDutyType("right", "A")
  BY ForwardCalls
<1> HIDE DEF q
<1>2. /\ \A k \in {1, 4} : q[k].do = "low"
      /\ \A k \in {2, 5} : q[k].do = "duty"
      /\ \A k \in {3, 6} : q[k].do = "type"
      /\ \A k \in {2, 3} : q[k].wheel = "left" /\ q[k].opr = "A"
      /\ \A k \in {5, 6} : q[k].wheel = "right" /\ q[k].opr = "A"
  BY <1>1, CallFields
<1>3. \A k \in 1 .. 6 : TurnsOn(q[k]) => k \in {2, 3, 5, 6}
  BY <1>2 DEF TurnsOn
<1>4. AllPwm(q)
  BY <1>1, <1>2 DEF AllPwm, IsPwm
<1>5. OneWay(q)
  BY <1>1, <1>2, <1>3 DEF OneWay
<1>6. LowersFirst(q)
  <2>1. \A k \in {2, 3} : 1 \in 1 .. k - 1 /\ q[1] = SignalLow(q[k].wheel, "B")
    BY <1>1, <1>2
  <2>2. \A k \in {5, 6} : 4 \in 1 .. k - 1 /\ q[4] = SignalLow(q[k].wheel, "B")
    BY <1>1, <1>2
  <2>3. \A k \in {2, 3, 5, 6} : Other(q[k].opr) = "B"
    BY <1>2 DEF Other
  <2> QED
    BY <1>1, <1>3, <2>1, <2>2, <2>3 DEF LowersFirst, LowersBefore
<1> QED
  BY <1>1, <1>4, <1>5, <1>6 DEF q, GoodCommand

LEMMA CommandRoutine ==
  ASSUME NEW state, NEW x_axis \in -128 .. 127, NEW y_axis \in -128 .. 127
  PROVE  LET q == MotorControl(state, x_axis, y_axis) IN
           /\ GoodCommand(q)
           /\ state = AUTOBRAKE =>
                NeverForward(q) /\ \A wheel \in Wheel : Lowers(q, wheel)
<1>1. ASSUME NEW n \in -128 .. 127
      PROVE  Abs(n) \in Duty /\ Percent(Abs(n)) \in Duty
  BY DutyIsInterval DEF Abs, Percent
<1>2. LET q == BrakingControl(y_axis) IN
        /\ GoodCommand(q) /\ NeverForward(q)
        /\ \A wheel \in Wheel : Lowers(q, wheel)
  BY <1>1, StopRoutine, BackwardRoutine DEF BrakingControl
<1>3. GoodCommand(FreeControl(x_axis, y_axis))
  BY <1>1, <1>2, ForwardRoutine DEF FreeControl
<1> QED
  BY <1>2, <1>3 DEF MotorControl

-----------------------------------------------------------------------------

(***************************************************************************)
(* One library call.                                                       *)
(***************************************************************************)

\* What the call on a generator leaves of the registers.
Effect(step) ==
  /\ \A wheel \in Wheel, opr \in Opr :
       wheel # step.wheel \/ opr # step.opr => pwm'[wheel][opr] = pwm[wheel][opr]
  /\ step.do = "low" => pwm'[step.wheel][step.opr].mode = "low"
  /\ step.do # "low" =>
       /\ step.do = "type" => pwm'[step.wheel][step.opr].mode = "duty"
       /\ step.do = "duty" => pwm'[step.wheel][step.opr].duty = step.duty
  /\ step.do # "type" /\ pwm[step.wheel][step.opr].mode = "low"
       => pwm'[step.wheel][step.opr].mode = "low"
  /\ step.do = "duty" =>
       pwm'[step.wheel][step.opr].mode = pwm[step.wheel][step.opr].mode
  /\ step.do # "duty" =>
       pwm'[step.wheel][step.opr].duty = pwm[step.wheel][step.opr].duty

LEMMA CallEffect ==
  ASSUME NEW step \in PwmStep, pwm \in Registers, pwm' = Written(pwm, step)
  PROVE  Effect(step)
<1>1. step.wheel \in Wheel /\ step.opr \in Opr
      /\ step.do \in {"low", "duty", "type"}
  BY DEF PwmStep
<1>2. \A wheel \in Wheel : /\ pwm[wheel] \in [Opr -> Generator]
                           /\ \A opr \in Opr : pwm[wheel][opr] \in Generator
  BY DEF Registers
<1> DEFINE g == pwm[step.wheel][step.opr]
<1>3. g \in [mode : {"low", "duty"}, duty : Duty]
  BY <1>1, <1>2 DEF Generator
<1>4. PICK h : /\ pwm' = [pwm EXCEPT ![step.wheel] =
                                 [pwm[step.wheel] EXCEPT ![step.opr] = h]]
               /\ h = IF step.do = "low" THEN [g EXCEPT !.mode = "low"]
                      ELSE IF step.do = "duty" THEN [g EXCEPT !.duty = step.duty]
                      ELSE [g EXCEPT !.mode = "duty"]
  BY <1>1 DEF Written
<1>5. /\ step.do = "low" => h.mode = "low" /\ h.duty = g.duty
      /\ step.do = "duty" => h.duty = step.duty /\ h.mode = g.mode
      /\ step.do = "type" => h.mode = "duty" /\ h.duty = g.duty
  BY <1>3, <1>4
<1>6. pwm'[step.wheel][step.opr] = h
  BY <1>1, <1>2, <1>4 DEF Registers
<1>7. \A wheel \in Wheel, opr \in Opr :
        wheel # step.wheel \/ opr # step.opr => pwm'[wheel][opr] = pwm[wheel][opr]
  BY <1>1, <1>2, <1>4 DEF Registers
<1> QED
  BY <1>1, <1>5, <1>6, <1>7 DEF Effect

\* The queues and the registers after a call of a task.
LEMMA CallOf ==
  ASSUME TypeOK, NEW task \in Task, Execute(task)
  PROVE  LET q == todo[task] IN
           /\ Len(q) \in Nat /\ Len(q) > 0 /\ Head(q) = q[1]
           /\ Len(todo'[task]) = Len(q) - 1
           /\ \A k \in 1 .. Len(q) - 1 : todo'[task][k] = q[k + 1]
           /\ \A other \in Task : other # task => todo'[other] = todo[other]
           /\ IsPwm(q[1]) => Effect(q[1])
           /\ ~IsPwm(q[1]) => pwm' = pwm
           /\ todo'[task] \in Seq(Step) /\ Head(todo'[task]) = todo'[task][1]
           /\ q[1] \in Step
           /\ current_state' = current_state /\ seen' = seen
<1>1. todo[task] \in Seq(Step) /\ todo[task] # <<>>
  BY DEF TypeOK, Execute
<1>2. todo' = [todo EXCEPT ![task] = Tail(todo[task])]
  BY DEF Execute
<1>3. todo'[task] = Tail(todo[task])
      /\ \A other \in Task : other # task => todo'[other] = todo[other]
  BY <1>2 DEF TypeOK
<1> DEFINE q == todo[task]
<1>4. /\ Len(q) \in Nat /\ Len(q) > 0 /\ Head(q) = q[1]
      /\ q[1] \in Step
      /\ Len(Tail(q)) = Len(q) - 1 /\ Tail(q) \in Seq(Step)
      /\ \A k \in 1 .. Len(q) - 1 : Tail(q)[k] = q[k + 1]
  <2> HIDE DEF q
  <2>1. q \in Seq(Step) /\ q # <<>>
    BY <1>1 DEF q
  <2> QED
    BY <2>1, HeadTailProperties
<1>5. IsPwm(q[1]) => q[1] \in PwmStep
  BY <1>4 DEF Step, BuzzerStep, DelayStep, PwmStep, IsPwm
<1>6. IsPwm(q[1]) => Effect(q[1])
  BY <1>4, <1>5, CallEffect DEF Execute, TypeOK
<1>7. ~IsPwm(q[1]) => pwm' = pwm
  BY <1>4 DEF Execute
<1>8. Head(todo'[task]) = todo'[task][1]
  OBVIOUS
<1> QED
  BY <1>3, <1>4, <1>6, <1>7, <1>8 DEF Execute

\* What holds of a routine holds of what is left of it.
LEMMA RestOfRoutine ==
  ASSUME NEW q, NEW r, Len(q) \in Nat, Len(q) > 0, Len(r) = Len(q) - 1,
         \A k \in 1 .. Len(q) - 1 : r[k] = q[k + 1]
  PROVE  /\ AllPwm(q) => AllPwm(r)
         /\ NoPwm(q) => NoPwm(r)
         /\ OneWay(q) => OneWay(r)
         /\ NeverForward(q) => NeverForward(r)
         /\ \A wheel : Lowers(q, wheel) /\ q[1] # SignalLow(wheel, "A")
                         => Lowers(r, wheel)
<1>0. \A k \in 1 .. Len(r) : k + 1 \in 1 .. Len(q) /\ r[k] = q[k + 1]
  OBVIOUS
<1>1. AllPwm(q) => AllPwm(r)
  BY <1>0 DEF AllPwm
<1>2. NoPwm(q) => NoPwm(r)
  BY <1>0 DEF NoPwm
<1>3. OneWay(q) => OneWay(r)
  BY <1>0 DEF OneWay
<1>4. NeverForward(q) => NeverForward(r)
  BY <1>0 DEF NeverForward
<1>5. ASSUME NEW wheel, Lowers(q, wheel), q[1] # SignalLow(wheel, "A")
      PROVE  Lowers(r, wheel)
  <2>1. PICK k \in 1 .. Len(q) : q[k] = SignalLow(wheel, "A")
    BY <1>5 DEF Lowers
  <2>2. k - 1 \in 1 .. Len(r) /\ r[k - 1] = q[k]
    BY <1>5, <2>1
  <2> QED
    BY <2>1, <2>2 DEF Lowers
<1> QED
  BY <1>1, <1>2, <1>3, <1>4, <1>5

\* The same of a lowering that comes before a call.
LEMMA RestLowersBefore ==
  ASSUME NEW q, NEW r, Len(q) \in Nat, Len(q) > 0, Len(r) = Len(q) - 1,
         \A k \in 1 .. Len(q) - 1 : r[k] = q[k + 1],
         NEW k \in 1 .. Len(r), LowersBefore(q, k + 1)
  PROVE  \/ LowersBefore(r, k)
         \/ q[1] = SignalLow(r[k].wheel, Other(r[k].opr))
<1>1. PICK j \in 1 .. k : q[j] = SignalLow(q[k + 1].wheel, Other(q[k + 1].opr))
  BY DEF LowersBefore
<1>2. r[k] = q[k + 1]
  OBVIOUS
<1>3. CASE j = 1
  BY <1>1, <1>2, <1>3
<1>4. CASE j # 1
  <2>1. j - 1 \in 1 .. k - 1 /\ r[j - 1] = q[j]
    BY <1>4
  <2> QED
    BY <1>1, <1>2, <2>1 DEF LowersBefore
<1> QED
  BY <1>3, <1>4

\* What a call does to the drive of the wheels.
LEMMA DriveAfterCall ==
  ASSUME TypeOK, NEW step \in PwmStep, Effect(step)
  PROVE  /\ step.do = "low" \/ step.opr = "B" =>
              \A wheel \in Wheel : Forward(pwm', wheel) => Forward(pwm, wheel)
         /\ \A wheel \in Wheel :
              step = SignalLow(wheel, "A") => ~Forward(pwm', wheel)
         /\ /\ TurnsOn(step) => pwm[step.wheel][Other(step.opr)].mode = "low"
            /\ \A wheel \in Wheel : ~(Forward(pwm, wheel) /\ Backward(pwm, wheel))
            => \A wheel \in Wheel :
                 ~(Forward(pwm', wheel) /\ Backward(pwm', wheel))
<1> USE DEF Forward, Backward, Driven
<1>1. step.wheel \in Wheel /\ step.opr \in {"A", "B"}
      /\ step.do \in {"low", "duty", "type"}
  BY DEF PwmStep, Opr
<1>2. \A wheel \in Wheel, opr \in {"A", "B"} :
        wheel # step.wheel \/ opr # step.opr => pwm'[wheel][opr] = pwm[wheel][opr]
  BY DEF Effect, Opr
<1>3. step.do = "low" => pwm'[step.wheel][step.opr].mode = "low"
  BY DEF Effect
<1>4. step.do = "low" \/ step.opr = "B" =>
        \A wheel \in Wheel : Forward(pwm', wheel) => Forward(pwm, wheel)
  BY <1>1, <1>2, <1>3
<1>5. \A wheel \in Wheel :
        step = SignalLow(wheel, "A") => ~Forward(pwm', wheel)
  BY <1>1, <1>3 DEF SignalLow
<1>6. ASSUME TurnsOn(step) => pwm[step.wheel][Other(step.opr)].mode = "low",
             \A wheel \in Wheel : ~(Forward(pwm, wheel) /\ Backward(pwm, wheel)),
             NEW wheel \in Wheel,
             Forward(pwm', wheel), Backward(pwm', wheel)
      PROVE  FALSE
  <2>1. wheel = step.wheel
    BY <1>2, <1>6
  <2>2. TurnsOn(step)
    BY <1>1, <1>3, <1>6, <2>1 DEF TurnsOn
  <2>3. CASE step.opr = "A"
    BY <1>2, <1>6, <2>1, <2>2, <2>3 DEF Other
  <2>4. CASE step.opr = "B"
    BY <1>2, <1>6, <2>1, <2>2, <2>4 DEF Other
  <2> QED
    BY <1>1, <2>3, <2>4
<1> QED
  BY <1>4, <1>5, <1>6

-----------------------------------------------------------------------------

(***************************************************************************)
(* The invariant.                                                          *)
(***************************************************************************)

\* What the history variables leave open.
LEMMA Tracked ==
  ASSUME Track
  PROVE  /\ ~mixed' => ~mixed /\ ~(Writing("uart")' /\ Writing("bt")')
         /\ ~touched' => BrakeBegins \/ (~touched /\ ~BtWrites)
         /\ current_state' = AUTOBRAKE /\ ~stale' =>
              BtRepairs \/ (~stale /\ ~(BtWrites /\ seen # AUTOBRAKE))
         /\ completed' => current_state' = AUTOBRAKE /\ (completed \/ BrakeEnds)
<1>1. mixed' = (mixed \/ (Writing("uart")' /\ Writing("bt")'))
  BY Zenon DEF Track
<1>2. touched' = (~BrakeBegins /\ (touched \/ BtWrites))
  BY Zenon DEF Track
<1>3. stale' = (/\ current_state' = AUTOBRAKE
                /\ ~BtRepairs
                /\ stale \/ (BtWrites /\ seen # AUTOBRAKE))
  BY Zenon DEF Track
<1>4. completed' = (current_state' = AUTOBRAKE /\ (completed \/ BrakeEnds))
  BY Zenon DEF Track
<1>5. ~mixed' => ~mixed /\ ~(Writing("uart")' /\ Writing("bt")')
  BY <1>1, Zenon
<1>6. ~touched' => BrakeBegins \/ (~touched /\ ~BtWrites)
  BY <1>2, Zenon
<1>7. current_state' = AUTOBRAKE /\ ~stale' =>
        BtRepairs \/ (~stale /\ ~(BtWrites /\ seen # AUTOBRAKE))
  BY <1>3, Zenon
<1>8. completed' => current_state' = AUTOBRAKE /\ (completed \/ BrakeEnds)
  BY <1>4, Zenon
<1> QED
  BY <1>5, <1>6, <1>7, <1>8, Zenon

LEMMA Starts ==
  ASSUME HistInit
  PROVE  /\ Queues /\ Apart /\ Repairing /\ CutOff /\ BrakeInOrder
         /\ NotDrivenBothWays
<1>1. todo["uart"] = <<>> /\ todo["bt"] = <<>> /\ todo["alarms"] = <<>>
      /\ current_state = 0 /\ seen = 0
  BY DEF HistInit, Init, Task, NORMAL
<1>2. Len(<<>>) = 0
  OBVIOUS
<1>3. Queues /\ Apart /\ Repairing /\ CutOff
  BY <1>1, <1>2 DEF Queues, Left, AllPwm, OneWay, NoPwm, Apart, Writing, Guarded,
     Repairing, AUTOBRAKE, CutOff
<1>4. BrakeInOrder
  <2>1. ~completed
    BY DEF HistInit
  <2> QED
    BY <1>1, <1>2, <2>1 DEF BrakeInOrder, Left
<1>5. \A wheel \in Wheel : ~Forward(pwm, wheel)
  BY DEF HistInit, Init, InitialRegisters, Forward, Driven, Wheel, Opr
<1> QED
  BY <1>3, <1>4, <1>5 DEF NotDrivenBothWays

\* Steps that leave motors and routines alone.
LEMMA OtherStep ==
  ASSUME IInv, Track, pwm' = pwm, todo'["uart"] = todo["uart"],
         todo'["bt"] = todo["bt"], NoPwm(todo'["alarms"]),
         current_state' = current_state, seen' = seen
  PROVE  (/\ Queues /\ Apart /\ Repairing /\ CutOff /\ BrakeInOrder
          /\ NotDrivenBothWays)'
<1>1. ~BrakeBegins /\ ~BrakeEnds /\ ~BtWrites /\ ~BtRepairs
  BY DEF BrakeBegins, BrakeEnds, BtWrites, BtRepairs
<1>2. /\ ~mixed' => ~mixed
      /\ ~touched' => ~touched
      /\ current_state' = AUTOBRAKE /\ ~stale' => ~stale
      /\ completed' => completed
  BY <1>1, Tracked, Zenon
<1>3. Queues => Queues'
  BY DEF Queues, Left
<1>4. Apart => Apart'
  BY <1>2, Tracked DEF Apart, Writing, Guarded
<1>5. Repairing => Repairing'
  BY DEF Repairing
<1>6. CutOff => CutOff'
  BY <1>2 DEF CutOff, Left
<1>7. BrakeInOrder => BrakeInOrder'
  BY <1>2 DEF BrakeInOrder, Undisturbed, Left
<1>8. NotDrivenBothWays => NotDrivenBothWays'
  BY <1>2 DEF NotDrivenBothWays
<1> QED
  BY <1>3, <1>4, <1>5, <1>6, <1>7, <1>8 DEF IInv

Parts ==
  /\ Queues /\ Apart /\ Repairing /\ CutOff /\ BrakeInOrder
  /\ NotDrivenBothWays

\* A byte, which may start the brake.
LEMMA ByteStep ==
  ASSUME IInv, Track, NEW byte \in Byte, UartByte(byte)
  PROVE  Parts'
<1>t. TypeOK /\ Queues /\ Apart /\ Repairing /\ CutOff /\ BrakeInOrder
      /\ NotDrivenBothWays
  BY DEF IInv, HistTypeOK
<1> DEFINE begins == BrakesOn(Decoded(byte))
<1>1. /\ todo["uart"] = <<>> /\ Left = 0
      /\ pwm' = pwm /\ seen' = seen /\ current_state' = Decoded(byte)
      /\ todo' = IF begins THEN [todo EXCEPT !["uart"] = EmergencyBrake] ELSE todo
      /\ begins => current_state # AUTOBRAKE /\ current_state' = AUTOBRAKE
      /\ ~begins /\ current_state' = AUTOBRAKE => current_state = AUTOBRAKE
  BY DEF UartByte, Idle, BrakesOn, Left
<1>2. /\ todo'["bt"] = todo["bt"] /\ todo'["alarms"] = todo["alarms"]
      /\ begins => todo'["uart"] = EmergencyBrake
      /\ ~begins => todo'["uart"] = todo["uart"]
  BY <1>1, <1>t DEF TypeOK, Task
<1> HIDE DEF begins
<1>3. ~BtWrites /\ ~BrakeEnds /\ ~BtRepairs
  BY <1>1, <1>2 DEF BtWrites, BrakeEnds, BtRepairs
<1>4. /\ ~mixed' => ~mixed
      /\ ~touched' => BrakeBegins \/ ~touched
      /\ current_state' = AUTOBRAKE /\ ~stale' => ~stale
      /\ completed' => current_state' = AUTOBRAKE /\ completed
  BY <1>3, Tracked, Zenon
<1>5. CASE begins
  <2>1. /\ Left' = 18 /\ todo'["uart"] = EmergencyBrake
        /\ current_state' = AUTOBRAKE /\ ~completed'
    BY <1>1, <1>2, <1>4, <1>5, <1>t, BrakeTable DEF Left, BrakeInOrder
  <2>2. Queues'
    BY <2>1, <1>2, <1>t DEF Queues, Left
  <2>3. Head(EmergencyBrake) = EmergencyBrake[1]
    OBVIOUS
  <2>4. ~Writing("uart")'
    BY <2>1, <2>3, BrakeTable DEF Writing
  <2>5. Guarded("uart")'
    BY <2>1, BrakeRoutine DEF Guarded, LowersFirst
  <2>6. Apart'
    BY <2>4, <2>5, <1>1, <1>2, <1>4, <1>t DEF Apart, Guarded
  <2>7. Repairing'
    BY <1>1, <1>2, <1>t DEF Repairing
  <2>8. CutOff' /\ BrakeInOrder'
    BY <2>1 DEF CutOff, BrakeInOrder, Undisturbed
  <2>9. NotDrivenBothWays'
    BY <1>1, <1>4, <1>t DEF NotDrivenBothWays
  <2> QED
    BY <2>2, <2>6, <2>7, <2>8, <2>9 DEF Parts
<1>6. CASE ~begins
  <2>1. ~BrakeBegins /\ Left' = Left /\ Left = 0 /\ todo' = todo
    BY <1>1, <1>2, <1>6 DEF BrakeBegins, Left
  <2>2. Queues'
    BY <2>1, <1>t DEF Queues, Left
  <2>3. Apart'
    BY <2>1, <1>1, <1>4, <1>t DEF Apart, Writing, Guarded
  <2>4. Repairing'
    BY <2>1, <1>1, <1>t DEF Repairing
  <2>5. CutOff'
    BY <2>1, <1>1, <1>4, <1>6, <1>t DEF CutOff
  <2>6. BrakeInOrder'
    BY <2>1, <1>1, <1>4, <1>t DEF BrakeInOrder, Undisturbed
  <2>7. NotDrivenBothWays'
    BY <1>1, <1>4, <1>t DEF NotDrivenBothWays
  <2> QED
    BY <2>2, <2>3, <2>4, <2>5, <2>6, <2>7 DEF Parts
<1> QED
  BY <1>5, <1>6

\* A joystick packet, whose command is decided on the state of this moment.
LEMMA CommandStep ==
  ASSUME IInv, Track, NEW axes \in Command, BtCommand(axes[1], axes[2])
  PROVE  Parts'
<1>t. TypeOK /\ Queues /\ Apart /\ Repairing /\ CutOff /\ BrakeInOrder
      /\ NotDrivenBothWays
  BY DEF IInv, HistTypeOK
<1> DEFINE q == MotorControl(current_state, axes[1], axes[2])
<1>1. /\ todo["bt"] = <<>> /\ pwm' = pwm /\ seen' = current_state
      /\ current_state' = current_state
      /\ todo' = [todo EXCEPT !["bt"] = q]
  BY DEF BtCommand, Idle
<1>2. axes[1] \in -128 .. 127 /\ axes[2] \in -128 .. 127
  BY CarControlAssumption
<1>3. /\ GoodCommand(q) /\ q \in Seq(Step)
      /\ current_state = AUTOBRAKE =>
           NeverForward(q) /\ \A wheel \in Wheel : Lowers(q, wheel)
  BY <1>2, CommandRoutine, MotorControlType
<1>4. /\ todo'["uart"] = todo["uart"] /\ todo'["alarms"] = todo["alarms"]
      /\ todo'["bt"] = q /\ Left' = Left
  BY <1>1, <1>t DEF TypeOK, Task, Left
<1> HIDE DEF q
<1>5. ~BtWrites /\ ~BrakeEnds /\ ~BrakeBegins /\ ~BtRepairs
  BY <1>1, <1>4 DEF BtWrites, BrakeEnds, BrakeBegins, BtRepairs
<1>6. /\ ~mixed' => ~mixed
      /\ ~touched' => ~touched
      /\ current_state' = AUTOBRAKE /\ ~stale' => ~stale
      /\ completed' => completed
  BY <1>5, Tracked, Zenon
<1>7. Queues'
  BY <1>1, <1>3, <1>4, <1>t DEF Queues, Left, GoodCommand
<1>8. Apart'
  <2> SUFFICES ASSUME ~mixed'
               PROVE  /\ ~(Writing("uart") /\ Writing("bt"))'
                      /\ Guarded("uart")' /\ Guarded("bt")'
    BY DEF Apart
  <2>1. ~(Writing("uart") /\ Writing("bt"))'
    BY Tracked
  <2>2. Guarded("uart")'
    BY <1>1, <1>4, <1>6, <1>t DEF Apart, Guarded
  <2>3. Guarded("bt")'
    BY <1>3, <1>4 DEF Guarded, GoodCommand, LowersFirst
  <2> QED
    BY <2>1, <2>2, <2>3
<1>9. Repairing'
  BY <1>1, <1>3, <1>4 DEF Repairing
<1>10. CutOff'
  BY <1>1, <1>4, <1>6, <1>t DEF CutOff
<1>11. BrakeInOrder'
  BY <1>1, <1>4, <1>6, <1>t DEF BrakeInOrder, Undisturbed
<1>12. NotDrivenBothWays'
  BY <1>1, <1>6, <1>t DEF NotDrivenBothWays
<1> QED
  BY <1>7, <1>8, <1>9, <1>10, <1>11, <1>12 DEF Parts

\* The next call of a joystick command.
LEMMA CommandCall ==
  ASSUME IInv, Track, Execute("bt")
  PROVE  Parts'
<1>t. TypeOK /\ Queues /\ Apart /\ Repairing /\ CutOff /\ BrakeInOrder
      /\ NotDrivenBothWays
  BY DEF IInv, HistTypeOK
<1> DEFINE q == todo["bt"]
           r == todo'["bt"]
           call == q[1]
<1>1. /\ Len(q) \in Nat /\ Len(q) > 0 /\ Head(q) = call
      /\ Len(r) = Len(q) - 1 /\ \A k \in 1 .. Len(q) - 1 : r[k] = q[k + 1]
      /\ todo'["uart"] = todo["uart"] /\ todo'["alarms"] = todo["alarms"]
      /\ IsPwm(call) => Effect(call)
      /\ r \in Seq(Step) /\ Head(r) = r[1] /\ call \in Step
      /\ current_state' = current_state /\ seen' = seen
  BY <1>t, CallOf DEF Task
<1>2. AllPwm(q) /\ OneWay(q) /\ IsPwm(call)
  BY <1>1, <1>t DEF Queues, AllPwm
<1>3. Effect(call) /\ call \in PwmStep /\ Left' = Left
  BY <1>1, <1>2 DEF Step, BuzzerStep, DelayStep, PwmStep, IsPwm, Left
<1>4. Writing("bt")
  BY <1>1, <1>2 DEF Writing
<1>5. BtWrites /\ ~BrakeBegins /\ ~BrakeEnds
  BY <1>1 DEF BtWrites, BrakeBegins, BrakeEnds
<1>6. /\ ~mixed' => ~mixed
      /\ touched'
      /\ current_state' = AUTOBRAKE /\ ~stale' =>
           BtRepairs \/ (~stale /\ seen = AUTOBRAKE)
      /\ completed' => completed
  BY <1>5, Tracked, Zenon
<1>r. BtRepairs => seen = AUTOBRAKE /\ r = <<>>
  BY DEF BtRepairs
<1> HIDE DEF q, r, call
<1>7. /\ AllPwm(r) /\ OneWay(r)
      /\ NeverForward(q) => NeverForward(r)
      /\ \A wheel : Lowers(q, wheel) /\ call # SignalLow(wheel, "A")
                      => Lowers(r, wheel)
  <2>1. call = q[1]
    BY DEF call
  <2> QED
    BY <1>1, <1>2, <2>1, RestOfRoutine
<1>8. Queues'
  BY <1>1, <1>7, <1>t DEF Queues, Left, r
<1>9. seen = AUTOBRAKE => call.do = "low" \/ call.opr = "B"
  BY <1>1, <1>2, <1>t DEF Repairing, NeverForward, q, call
<1>10. seen = AUTOBRAKE =>
         /\ \A wheel \in Wheel : Forward(pwm', wheel) => Forward(pwm, wheel)
         /\ \A wheel \in Wheel :
              Forward(pwm', wheel) => Lowers(r, wheel)
  <2> SUFFICES ASSUME seen = AUTOBRAKE
               PROVE  /\ \A wheel \in Wheel :
                           Forward(pwm', wheel) => Forward(pwm, wheel)
                      /\ \A wheel \in Wheel :
                           Forward(pwm', wheel) => Lowers(r, wheel)
    OBVIOUS
  <2>1. \A wheel \in Wheel : Forward(pwm', wheel) => Forward(pwm, wheel)
    BY <1>3, <1>9, <1>t, DriveAfterCall
  <2>2. ASSUME NEW wheel \in Wheel, Forward(pwm', wheel)
        PROVE  Lowers(r, wheel)
    <3>1. call # SignalLow(wheel, "A")
      BY <2>2, <1>3, <1>t, DriveAfterCall
    <3>2. Lowers(q, wheel)
      BY <2>1, <2>2, <1>4, <1>t DEF Repairing, q, Writing
    <3> QED
      BY <3>1, <3>2, <1>7
  <2> QED
    BY <2>1, <2>2
<1>11. Repairing'
  <2>1. seen = AUTOBRAKE => NeverForward(q)
    BY <1>t DEF Repairing, q
  <2> QED
    BY <2>1, <1>1, <1>7, <1>10 DEF Repairing, r
<1>12. CutOff'
  <2> SUFFICES ASSUME current_state' = AUTOBRAKE, ~stale'
               PROVE  /\ Left' <= 16 => ~Forward(pwm', "left")
                      /\ Left' <= 14 => ~Forward(pwm', "right")
    BY DEF CutOff
  <2>1. CASE BtRepairs
    <3>1. \A wheel \in Wheel : ~Lowers(r, wheel)
      BY <1>r, <2>1 DEF Lowers
    <3> QED
      BY <3>1, <2>1, <1>r, <1>10 DEF Wheel
  <2>2. CASE ~stale /\ seen = AUTOBRAKE
    BY <2>2, <1>1, <1>3, <1>10, <1>t DEF CutOff, Wheel
  <2> QED
    BY <2>1, <2>2, <1>6
<1>13. BrakeInOrder'
  BY <1>1, <1>3, <1>6, <1>t DEF BrakeInOrder
<1>14. ~mixed' => todo["uart"] = <<>> \/ ~IsPwm(Head(todo["uart"]))
  BY <1>4, <1>6, <1>t DEF Apart, Writing
<1>15. ASSUME ~mixed' PROVE Guarded("uart")'
  <2>1. Guarded("uart")
    BY <1>15, <1>6, <1>t DEF Apart
  <2>2. \A k \in 1 .. Left : TurnsOn(todo["uart"][k]) => LowersBefore(todo["uart"], k)
    BY <2>1, <1>14, <1>15 DEF Guarded, Left
  <2> QED
    BY <2>2, <1>1 DEF Guarded, Left
<1>16. ASSUME ~mixed' PROVE Guarded("bt")'
  <2>1. Guarded("bt")
    BY <1>16, <1>6, <1>t DEF Apart
  <2> SUFFICES ASSUME NEW k \in 1 .. Len(r), TurnsOn(r[k])
               PROVE  \/ LowersBefore(r, k)
                      \/ /\ IsPwm(Head(r))
                         /\ pwm'[r[k].wheel][Other(r[k].opr)].mode = "low"
    BY DEF Guarded, r
  <2>2. IsPwm(Head(r)) /\ r[k] \in PwmStep /\ r[k] = q[k + 1]
        /\ k + 1 \in 1 .. Len(q)
    BY <1>1, <1>7 DEF AllPwm, Step, BuzzerStep, DelayStep, PwmStep, IsPwm
  <2>3. r[k].wheel \in Wheel /\ r[k].opr \in {"A", "B"}
        /\ Other(r[k].opr) \in Opr /\ Other(r[k].opr) # r[k].opr
    BY <2>2 DEF PwmStep, Other, Opr
  <2>4. CASE LowersBefore(q, k + 1)
    <3>1. LowersBefore(r, k) \/ call = SignalLow(r[k].wheel, Other(r[k].opr))
      BY <2>4, <1>1, RestLowersBefore DEF call
    <3>2. call = SignalLow(r[k].wheel, Other(r[k].opr))
            => pwm'[r[k].wheel][Other(r[k].opr)].mode = "low"
      <4>1. call.do = "low" => pwm'[call.wheel][call.opr].mode = "low"
        BY <1>3, Zenon DEF Effect
      <4>2. \A wheel, opr : /\ SignalLow(wheel, opr).do = "low"
                            /\ SignalLow(wheel, opr).wheel = wheel
                            /\ SignalLow(wheel, opr).opr = opr
        BY CallFields
      <4> QED
        BY <4>1, <4>2
    <3> QED
      BY <3>1, <3>2, <2>2
  <2>5. CASE pwm[r[k].wheel][Other(r[k].opr)].mode = "low"
    <3>1. CASE call.wheel = r[k].wheel /\ call.opr = Other(r[k].opr)
      <4>1. ~TurnsOn(call)
        BY <3>1, <2>2, <2>3, <1>1, <1>2 DEF OneWay, call
      <4> QED
        BY <4>1, <3>1, <2>2, <2>5, <1>3 DEF TurnsOn, Effect
    <3>2. CASE ~(call.wheel = r[k].wheel /\ call.opr = Other(r[k].opr))
      BY <3>2, <2>2, <2>3, <2>5, <1>3 DEF Effect
    <3> QED
      BY <3>1, <3>2
  <2>6. LowersBefore(q, k + 1) \/ pwm[r[k].wheel][Other(r[k].opr)].mode = "low"
    BY <2>1, <2>2 DEF Guarded, q
  <2> QED
    BY <2>4, <2>5, <2>6
<1>17. Apart'
  BY <1>15, <1>16, Tracked DEF Apart
<1>18. NotDrivenBothWays'
  <2> SUFFICES ASSUME ~mixed'
               PROVE  \A wheel \in Wheel :
                        ~(Forward(pwm', wheel) /\ Backward(pwm', wheel))
    BY DEF NotDrivenBothWays
  <2>1. Guarded("bt")
        /\ \A wheel \in Wheel : ~(Forward(pwm, wheel) /\ Backward(pwm, wheel))
    BY <1>6, <1>t DEF Apart, NotDrivenBothWays
  <2>2. ~LowersBefore(q, 1)
    BY DEF LowersBefore
  <2>3. TurnsOn(call) => pwm[call.wheel][Other(call.opr)].mode = "low"
    BY <2>1, <2>2, <1>1 DEF Guarded, q, call
  <2> QED
    BY <2>1, <2>3, <1>3, <1>t, DriveAfterCall
<1> QED
  BY <1>8, <1>11, <1>12, <1>13, <1>17, <1>18 DEF Parts

\* The brake's writes, field by field.
LEMMA BrakeWrites ==
  ASSUME NEW p \in 1 .. 18, NEW call, call = EmergencyBrake[p], IsPwm(call)
  PROVE  /\ call.do = "low" \/ call.opr = "B"
         /\ call.do = "duty" => call.duty = BrakeDuty
         /\ call.do = "low" /\ call.opr = "B" =>
              /\ call.wheel = "left" => p \in {3, 14}
              /\ call.wheel = "right" => p \in {5, 16}
         /\ call.do = "type" =>
              /\ call.wheel = "left" => p = 8
              /\ call.wheel = "right" => p = 11
<1> DEFINE e == EmergencyBrake
<1>1. /\ \A k \in {2, 6, 13} : e[k] = SignalLow("left", "A")
      /\ \A k \in {3, 14} : e[k] = SignalLow("left", "B")
      /\ \A k \in {4, 9, 15} : e[k] = SignalLow("right", "A")
      /\ \A k \in {5, 16} : e[k] = SignalLow("right", "B")
      /\ e[7] = SetDuty("left", "B", BrakeDuty)
      /\ e[8] = SetDutyType("left", "B")
      /\ e[10] = SetDuty("right", "B", BrakeDuty)
      /\ e[11] = SetDutyType("right", "B")
  BY BrakeTable
<1>2. p \notin {1, 12, 17, 18} /\ call = e[p]
  BY BrakeRoutine
<1> HIDE DEF e
<1>3. /\ \A k \in {2, 3, 4, 5, 6, 9, 13, 14, 15, 16} : e[k].do = "low"
      /\ \A k \in {7, 10} : e[k].do = "duty" /\ e[k].duty = BrakeDuty
      /\ \A k \in {8, 11} : e[k].do = "type"
      /\ \A k \in {3, 5, 7, 8, 10, 11, 14, 16} : e[k].opr = "B"
      /\ \A k \in {2, 4, 6, 9, 13, 15} : e[k].opr = "A"
      /\ \A k \in {3, 14, 8} : e[k].wheel = "left"
      /\ \A k \in {5, 16, 11} : e[k].wheel = "right"
  BY <1>1, CallFields
<1> QED
  BY <1>2, <1>3

\* What a call of the brake leaves of the registers of a wheel.
LEMMA BrakeEffect ==
  ASSUME NEW p \in 1 .. 18, NEW call, call = EmergencyBrake[p],
         IsPwm(call) => Effect(call) /\ call \in PwmStep,
         ~IsPwm(call) => pwm' = pwm, NEW wheel \in Wheel
  PROVE  /\ pwm[wheel]["A"].mode = "low" => pwm'[wheel]["A"].mode = "low"
         /\ pwm[wheel]["B"].duty = BrakeDuty => pwm'[wheel]["B"].duty = BrakeDuty
         /\ p \notin (IF wheel = "left" THEN {3, 14} ELSE {5, 16})
              /\ pwm[wheel]["B"].mode = "duty" => pwm'[wheel]["B"].mode = "duty"
         /\ p # (IF wheel = "left" THEN 8 ELSE 11)
              /\ pwm[wheel]["B"].mode = "low" => pwm'[wheel]["B"].mode = "low"
         /\ \A opr \in Opr : call = SignalLow(wheel, opr)
                             => pwm'[wheel][opr].mode = "low"
         /\ call = SetDuty(wheel, "B", BrakeDuty)
              => pwm'[wheel]["B"].duty = BrakeDuty
         /\ call = SetDutyType(wheel, "B") => pwm'[wheel]["B"].mode = "duty"
<1>1. CASE ~IsPwm(call)
  <2>1. /\ \A opr : call # SignalLow(wheel, opr)
        /\ call # SetDuty(wheel, "B", BrakeDuty)
        /\ call # SetDutyType(wheel, "B")
    BY <1>1, CallFields DEF IsPwm
  <2> QED
    BY <1>1, <2>1
<1>2. CASE IsPwm(call)
  <2>1. /\ call.wheel \in Wheel /\ call.opr \in Opr
        /\ call.do \in {"low", "duty", "type"}
    BY <1>2 DEF PwmStep
  <2>2. /\ call.do = "low" \/ call.opr = "B"
        /\ call.do = "duty" => call.duty = BrakeDuty
        /\ call.do = "low" /\ call.opr = "B" =>
             /\ call.wheel = "left" => p \in {3, 14}
             /\ call.wheel = "right" => p \in {5, 16}
        /\ call.do = "type" =>
             /\ call.wheel = "left" => p = 8
             /\ call.wheel = "right" => p = 11
    BY <1>2, BrakeWrites
  <2>3. \A opr \in Opr : wheel # call.wheel \/ opr # call.opr
                           => pwm'[wheel][opr] = pwm[wheel][opr]
    BY <1>2, Zenon DEF Effect
  <2>4. LET old == pwm[call.wheel][call.opr]
            new == pwm'[call.wheel][call.opr] IN
          /\ call.do = "low" => new.mode = "low"
          /\ call.do = "type" => new.mode = "duty"
          /\ call.do = "duty" => new.duty = call.duty /\ new.mode = old.mode
          /\ call.do # "duty" => new.duty = old.duty
    BY <1>2 DEF Effect
  <2>5. /\ \A opr : call = SignalLow(wheel, opr) =>
                     call.do = "low" /\ call.wheel = wheel /\ call.opr = opr
        /\ call = SetDuty(wheel, "B", BrakeDuty) =>
             /\ call.do = "duty" /\ call.wheel = wheel /\ call.opr = "B"
             /\ call.duty = BrakeDuty
        /\ call = SetDutyType(wheel, "B") =>
             call.do = "type" /\ call.wheel = wheel /\ call.opr = "B"
    BY CallFields
  <2>6. /\ \A opr \in Opr : call = SignalLow(wheel, opr)
                             => pwm'[wheel][opr].mode = "low"
        /\ call = SetDuty(wheel, "B", BrakeDuty)
             => pwm'[wheel]["B"].duty = BrakeDuty
        /\ call = SetDutyType(wheel, "B") => pwm'[wheel]["B"].mode = "duty"
    BY <2>4, <2>5
  <2>7. CASE call.wheel = wheel /\ call.opr = "A"
    <3>1. call.do = "low" /\ pwm'[wheel]["B"] = pwm[wheel]["B"]
      BY <2>2, <2>3, <2>7 DEF Opr
    <3> QED
      BY <2>4, <2>6, <2>7, <3>1
  <2>8. CASE call.wheel = wheel /\ call.opr = "B"
    <3>1. pwm'[wheel]["A"] = pwm[wheel]["A"]
      BY <2>3, <2>8 DEF Opr
    <3> QED
      BY <2>1, <2>2, <2>4, <2>6, <2>8, <3>1 DEF Wheel
  <2>9. CASE call.wheel # wheel
    <3>1. \A opr \in {"A", "B"} : pwm'[wheel][opr] = pwm[wheel][opr]
      BY <2>3, <2>9 DEF Opr
    <3> QED
      BY <2>6, <3>1
  <2> QED
    BY <2>1, <2>7, <2>8, <2>9 DEF Opr
<1> QED
  BY <1>1, <1>2

\* A brake nobody touches goes on undisturbed.
LEMMA BrakeGoesOn ==
  ASSUME NEW call, Left \in 1 .. 18, Left' = Left - 1,
         call = EmergencyBrake[19 - Left],
         IsPwm(call) => Effect(call) /\ call \in PwmStep,
         ~IsPwm(call) => pwm' = pwm, Undisturbed
  PROVE  Undisturbed'
<1> DEFINE p == 19 - Left
<1>1. p \in 1 .. 18 /\ call = EmergencyBrake[p]
  OBVIOUS
<1>2. /\ p = 2 => call = SignalLow("left", "A")
      /\ p = 4 => call = SignalLow("right", "A")
      /\ p = 7 => call = SetDuty("left", "B", BrakeDuty)
      /\ p = 10 => call = SetDuty("right", "B", BrakeDuty)
      /\ p = 8 => call = SetDutyType("left", "B")
      /\ p = 11 => call = SetDutyType("right", "B")
      /\ p = 14 => call = SignalLow("left", "B")
      /\ p = 16 => call = SignalLow("right", "B")
  BY <1>1, BrakeTable
<1> HIDE DEF p
<1>3. \A wheel \in Wheel :
        /\ pwm[wheel]["A"].mode = "low" => pwm'[wheel]["A"].mode = "low"
        /\ pwm[wheel]["B"].duty = BrakeDuty => pwm'[wheel]["B"].duty = BrakeDuty
        /\ p \notin (IF wheel = "left" THEN {3, 14} ELSE {5, 16})
             /\ pwm[wheel]["B"].mode = "duty" => pwm'[wheel]["B"].mode = "duty"
        /\ p # (IF wheel = "left" THEN 8 ELSE 11)
             /\ pwm[wheel]["B"].mode = "low" => pwm'[wheel]["B"].mode = "low"
        /\ \A opr \in Opr : call = SignalLow(wheel, opr)
                            => pwm'[wheel][opr].mode = "low"
        /\ call = SetDuty(wheel, "B", BrakeDuty)
             => pwm'[wheel]["B"].duty = BrakeDuty
        /\ call = SetDutyType(wheel, "B") => pwm'[wheel]["B"].mode = "duty"
  BY <1>1, BrakeEffect
<1>4. "left" \in Wheel /\ "right" \in Wheel /\ "A" \in Opr /\ "B" \in Opr
      /\ "left" # "right"
  BY DEF Wheel, Opr
<1>5. p = 19 - Left /\ Left \in 1 .. 18 /\ Left' = Left - 1
  BY DEF p
<1>6. /\ Left' <= 16 => pwm'["left"]["A"].mode = "low"
      /\ Left' <= 14 => pwm'["right"]["A"].mode = "low"
  <2>1. /\ Left <= 16 => pwm["left"]["A"].mode = "low"
        /\ Left <= 14 => pwm["right"]["A"].mode = "low"
    BY DEF Undisturbed
  <2> QED
    BY <1>2, <1>3, <1>4, <1>5, <2>1
<1>7. /\ Left' <= 11 => pwm'["left"]["B"].duty = BrakeDuty
      /\ Left' <= 8 => pwm'["right"]["B"].duty = BrakeDuty
  <2>1. /\ Left <= 11 => pwm["left"]["B"].duty = BrakeDuty
        /\ Left <= 8 => pwm["right"]["B"].duty = BrakeDuty
    BY DEF Undisturbed
  <2> QED
    BY <1>2, <1>3, <1>4, <1>5, <2>1
<1>8. /\ Left' \in 5 .. 10 => pwm'["left"]["B"].mode = "duty"
      /\ Left' \in 3 .. 7 => pwm'["right"]["B"].mode = "duty"
  <2>1. /\ Left \in 5 .. 10 => pwm["left"]["B"].mode = "duty"
        /\ Left \in 3 .. 7 => pwm["right"]["B"].mode = "duty"
    BY DEF Undisturbed
  <2>3. Left' \in 5 .. 10 => pwm'["left"]["B"].mode = "duty"
    <3>1. Left' \in 5 .. 10 => p = 8 \/ (p \notin {3, 14} /\ Left \in 5 .. 10)
      BY <1>5
    <3> QED
      BY <1>2, <1>3, <1>4, <2>1, <3>1
  <2>4. Left' \in 3 .. 7 => pwm'["right"]["B"].mode = "duty"
    <3>1. Left' \in 3 .. 7 => p = 11 \/ (p \notin {5, 16} /\ Left \in 3 .. 7)
      BY <1>5
    <3> QED
      BY <1>2, <1>3, <1>4, <2>1, <3>1
  <2> QED
    BY <2>3, <2>4
<1>9. /\ Left' <= 4 => pwm'["left"]["B"].mode = "low"
      /\ Left' <= 2 => pwm'["right"]["B"].mode = "low"
  <2>1. /\ Left <= 4 => pwm["left"]["B"].mode = "low"
        /\ Left <= 2 => pwm["right"]["B"].mode = "low"
    BY DEF Undisturbed
  <2>2. /\ Left' <= 4 => p = 14 \/ (p # 8 /\ Left <= 4)
        /\ Left' <= 2 => p = 16 \/ (p # 11 /\ Left <= 2)
    BY <1>5
  <2> QED
    BY <1>2, <1>3, <1>4, <2>1, <2>2
<1> QED
  BY <1>6, <1>7, <1>8, <1>9 DEF Undisturbed

LEMMA Countdown ==
  ASSUME NEW n \in Nat, n > 0, n <= 18
  PROVE  n \in 1 .. 18
  OBVIOUS

\* The next call of the brake.
LEMMA BrakeCall ==
  ASSUME IInv, Track, Execute("uart")
  PROVE  Parts'
<1>t. TypeOK /\ Queues /\ Apart /\ Repairing /\ CutOff /\ BrakeInOrder
      /\ NotDrivenBothWays
  BY DEF IInv, HistTypeOK
<1> DEFINE q == todo["uart"]
           r == todo'["uart"]
           call == q[1]
<1>1. /\ Len(q) \in Nat /\ Len(q) > 0 /\ Head(q) = call
      /\ Len(r) = Len(q) - 1 /\ \A k \in 1 .. Len(q) - 1 : r[k] = q[k + 1]
      /\ todo'["bt"] = todo["bt"] /\ todo'["alarms"] = todo["alarms"]
      /\ IsPwm(call) => Effect(call)
      /\ ~IsPwm(call) => pwm' = pwm
      /\ r \in Seq(Step) /\ Head(r) = r[1] /\ call \in Step
      /\ current_state' = current_state /\ seen' = seen
  BY <1>t, CallOf DEF Task
<1>0. /\ Len(q) <= 18 /\ Left = Len(q) /\ Left' = Len(r)
      /\ \A k \in 1 .. Len(q) : q[k] = EmergencyBrake[18 - Len(q) + k]
      /\ Left > 0 => current_state = AUTOBRAKE
  BY <1>t DEF Queues, Left
<1>c. call = q[1]
  OBVIOUS
<1>w. Writing("uart") <=> q # <<>> /\ IsPwm(Head(q))
  BY DEF Writing
<1>b. /\ (todo["uart"] = <<>> <=> q = <<>>) /\ (todo'["uart"] = <<>> <=> r = <<>>)
      /\ q # <<>>
  BY <1>1
<1> HIDE DEF q, r, call
<1>q. /\ Len(q) \in Nat /\ Len(q) > 0 /\ Len(q) <= 18
      /\ Len(r) = Len(q) - 1
      /\ \A k \in 1 .. Len(q) : q[k] = EmergencyBrake[18 - Len(q) + k]
      /\ \A k \in 1 .. Len(q) - 1 : r[k] = q[k + 1]
  BY <1>0, <1>1
<1>p. \E n \in 1 .. 18 :
        /\ Len(q) = n /\ Len(r) = n - 1 /\ q[1] = EmergencyBrake[19 - n]
        /\ \A k \in 1 .. n - 1 : r[k] = EmergencyBrake[19 - n + k]
  <2>1. Len(q) \in 1 .. 18
    BY <1>q, Countdown
  <2> SUFFICES ASSUME NEW n \in 1 .. 18, Len(q) = n
               PROVE  /\ Len(r) = n - 1 /\ q[1] = EmergencyBrake[19 - n]
                      /\ \A k \in 1 .. n - 1 : r[k] = EmergencyBrake[19 - n + k]
    BY <2>1
  <2>2. 18 - n + 1 = 19 - n /\ 1 \in 1 .. n
    OBVIOUS
  <2>3. ASSUME NEW k \in 1 .. n - 1 PROVE r[k] = EmergencyBrake[19 - n + k]
    <3>1. k + 1 \in 1 .. n /\ 18 - n + (k + 1) = 19 - n + k
      OBVIOUS
    <3>2. r[k] = q[k + 1] /\ q[k + 1] = EmergencyBrake[18 - n + (k + 1)]
      BY <1>q, <3>1
    <3> QED
      BY <3>1, <3>2
  <2> QED
    BY <1>q, <2>2, <2>3
<1>2. PICK n \in 1 .. 18 :
        /\ Len(q) = n /\ Len(r) = n - 1 /\ call = EmergencyBrake[19 - n]
        /\ \A k \in 1 .. n - 1 : r[k] = EmergencyBrake[19 - n + k]
  BY <1>c, <1>p
<1>n. /\ Left = n /\ Left' = n - 1 /\ 19 - n \in 1 .. 18
      /\ current_state = AUTOBRAKE /\ current_state' = AUTOBRAKE
  BY <1>0, <1>1, <1>2
<1>3. IsPwm(call) => Effect(call) /\ call \in PwmStep
  BY <1>1 DEF Step, BuzzerStep, DelayStep, PwmStep, IsPwm
<1>e. \A wheel \in Wheel, opr \in Opr :
        call = SignalLow(wheel, opr) => pwm'[wheel][opr].mode = "low"
  <2>1. PICK p \in 1 .. 18 : call = EmergencyBrake[p]
    BY <1>2, <1>n
  <2>2. \A wheel \in Wheel :
          \A opr \in Opr : call = SignalLow(wheel, opr)
                           => pwm'[wheel][opr].mode = "low"
    <3>1. ~IsPwm(call) => pwm' = pwm
      BY <1>1
    <3> QED
      BY <1>3, <2>1, <3>1, BrakeEffect
  <2> QED
    BY <2>2
<1>4. IsPwm(call) => Writing("uart")
  BY <1>1, <1>b, <1>w
<1>5. ~BtWrites /\ ~BrakeBegins /\ ~BtRepairs /\ (BrakeEnds => Left' = 0)
  <2>1. r = <<>> => Left' = 0
    BY <1>0
  <2> QED
    BY <1>1, <1>b, <2>1 DEF BtWrites, BrakeBegins, BtRepairs, BrakeEnds
<1>6. /\ ~mixed' => ~mixed
      /\ ~touched' => ~touched
      /\ current_state' = AUTOBRAKE /\ ~stale' => ~stale
      /\ completed' => completed \/ BrakeEnds
  BY <1>5, Tracked, Zenon
<1>7. Queues'
  <2>1. \A k \in 1 .. n - 1 : r[k] = EmergencyBrake[18 - (n - 1) + k]
    BY <1>2
  <2>2. n - 1 <= 18
    OBVIOUS
  <2> QED
    BY <2>1, <2>2, <1>1, <1>n, <1>t DEF Queues, r
<1>8. IsPwm(call) => call.do = "low" \/ call.opr = "B"
  BY <1>2, <1>n, BrakeWrites
<1>10. \A wheel \in Wheel : Forward(pwm', wheel) => Forward(pwm, wheel)
  <2>1. CASE IsPwm(call)
    BY <2>1, <1>3, <1>8, <1>t, DriveAfterCall
  <2>2. CASE ~IsPwm(call)
    BY <2>2, <1>1
  <2> QED
    BY <2>1, <2>2
<1>11. Repairing'
  BY <1>1, <1>10, <1>t DEF Repairing
<1>12. CutOff'
  <2> SUFFICES ASSUME current_state' = AUTOBRAKE, ~stale'
               PROVE  /\ Left' <= 16 => ~Forward(pwm', "left")
                      /\ Left' <= 14 => ~Forward(pwm', "right")
    BY DEF CutOff
  <2>1. /\ n <= 16 => ~Forward(pwm, "left")
        /\ n <= 14 => ~Forward(pwm, "right")
    BY <1>1, <1>6, <1>n, <1>t DEF CutOff
  <2>2. /\ n = 17 => call = SignalLow("left", "A")
        /\ n = 15 => call = SignalLow("right", "A")
    BY <1>2, BrakeTable
  <2>3. \A wheel \in Wheel :
          call = SignalLow(wheel, "A") => ~Forward(pwm', wheel)
    <3>1. \A wheel : call = SignalLow(wheel, "A") => IsPwm(call)
      BY CallFields DEF IsPwm
    <3> QED
      BY <3>1, <1>3, <1>t, DriveAfterCall
  <2> QED
    BY <2>1, <2>2, <2>3, <1>n, <1>10 DEF Wheel
<1>13. BrakeInOrder'
  <2>1. ~completed
    BY <1>n, <1>t DEF BrakeInOrder
  <2>2. completed' => current_state' = AUTOBRAKE /\ Left' = 0
    BY <2>1, <1>n, <1>5, <1>6
  <2>3. ~touched' => Undisturbed'
    <3>1. ~touched' => Undisturbed
      BY <1>n, <1>6, <1>t DEF BrakeInOrder
    <3> QED
      BY <3>1, <1>1, <1>2, <1>3, <1>n, BrakeGoesOn
  <2> QED
    BY <2>2, <2>3 DEF BrakeInOrder
<1>14. ASSUME ~mixed' PROVE Guarded("uart")'
  <2>1. Guarded("uart")
    BY <1>14, <1>6, <1>t DEF Apart
  <2> SUFFICES ASSUME NEW k \in 1 .. Len(r), TurnsOn(r[k])
               PROVE  \/ LowersBefore(r, k)
                      \/ /\ IsPwm(Head(r))
                         /\ pwm'[r[k].wheel][Other(r[k].opr)].mode = "low"
    BY DEF Guarded, r
  <2>2. /\ k \in 1 .. n - 1 /\ r[k] = EmergencyBrake[19 - n + k]
        /\ 19 - n + k \in 1 .. 18
    BY <1>2
  <2>3. 19 - n + k \in {7, 8, 10, 11}
    BY <2>2, BrakeRoutine
  <2>4. Head(r) = EmergencyBrake[19 - n + 1] /\ 19 - n + 1 \in 2 .. 11
    <3>1. 1 \in 1 .. n - 1 /\ 19 - n + 1 \in 2 .. 11
      BY <2>2, <2>3
    <3>2. r[1] = EmergencyBrake[19 - n + 1]
      BY <1>2, <3>1
    <3> QED
      BY <1>1, <3>1, <3>2
  <2>5. IsPwm(Head(r))
    <3>1. \A i \in 2 .. 11 : IsPwm(EmergencyBrake[i])
      BY BrakeRoutine
    <3> QED
      BY <2>4, <3>1
  <2>6. /\ r[k].opr = "B" /\ r[k].wheel \in Wheel /\ Other(r[k].opr) = "A"
    <3>1. /\ EmergencyBrake[7] = SetDuty("left", "B", BrakeDuty)
          /\ EmergencyBrake[8] = SetDutyType("left", "B")
          /\ EmergencyBrake[10] = SetDuty("right", "B", BrakeDuty)
          /\ EmergencyBrake[11] = SetDutyType("right", "B")
      BY BrakeTable
    <3>2. \A i \in {7, 8, 10, 11} : /\ EmergencyBrake[i].opr = "B"
                                     /\ EmergencyBrake[i].wheel \in Wheel
      BY <3>1, CallFields DEF Wheel
    <3> QED
      BY <2>2, <2>3, <3>2 DEF Other
  <2>7. r[k] = q[k + 1] /\ k + 1 \in 1 .. Len(q)
    BY <1>1
  <2>8. CASE LowersBefore(q, k + 1)
    <3>1. LowersBefore(r, k) \/ call = SignalLow(r[k].wheel, Other(r[k].opr))
      BY <2>8, <1>1, RestLowersBefore DEF call
    <3>2. call = SignalLow(r[k].wheel, "A") => pwm'[r[k].wheel]["A"].mode = "low"
      <4>1. "A" \in Opr
        BY DEF Opr
      <4> QED
        BY <4>1, <1>e, <2>6
    <3> QED
      BY <3>1, <3>2, <2>5, <2>6
  <2>9. CASE pwm[r[k].wheel]["A"].mode = "low"
    <3>1. pwm'[r[k].wheel]["A"].mode = "low"
      BY <1>1, <1>2, <1>3, <1>n, <2>6, <2>9, BrakeEffect
    <3> QED
      BY <3>1, <2>5, <2>6
  <2>10. LowersBefore(q, k + 1) \/ pwm[r[k].wheel][Other(r[k].opr)].mode = "low"
    BY <2>1, <2>7 DEF Guarded, q
  <2> QED
    BY <2>6, <2>8, <2>9, <2>10
<1>15. ASSUME ~mixed' PROVE Guarded("bt")'
  <2>1. Guarded("bt") /\ ~(Writing("uart") /\ Writing("bt"))
    BY <1>15, <1>6, <1>t DEF Apart
  <2>2. CASE IsPwm(call)
    <3>1. ~Writing("bt")
      BY <2>1, <2>2, <1>4
    <3>2. todo["bt"] \in Seq(Step) /\ AllPwm(todo["bt"])
      BY <1>t DEF TypeOK, Task, Queues
    <3>3. todo["bt"] = <<>>
      <4> SUFFICES ASSUME todo["bt"] # <<>> PROVE FALSE
        OBVIOUS
      <4>1. 1 \in 1 .. Len(todo["bt"]) /\ Head(todo["bt"]) = todo["bt"][1]
        BY <3>2
      <4> QED
        BY <3>1, <3>2, <4>1 DEF AllPwm, Writing
    <3> QED
      BY <1>1, <3>3 DEF Guarded
  <2>3. CASE ~IsPwm(call)
    BY <2>1, <2>3, <1>1 DEF Guarded
  <2> QED
    BY <2>2, <2>3
<1>16. Apart'
  BY <1>14, <1>15, Tracked DEF Apart
<1>17. NotDrivenBothWays'
  <2> SUFFICES ASSUME ~mixed'
               PROVE  \A wheel \in Wheel :
                        ~(Forward(pwm', wheel) /\ Backward(pwm', wheel))
    BY DEF NotDrivenBothWays
  <2>1. /\ Guarded("uart")
        /\ \A wheel \in Wheel : ~(Forward(pwm, wheel) /\ Backward(pwm, wheel))
    BY <1>6, <1>t DEF Apart, NotDrivenBothWays
  <2>2. ~LowersBefore(q, 1)
    BY DEF LowersBefore
  <2>3. TurnsOn(call) => pwm[call.wheel][Other(call.opr)].mode = "low"
    BY <2>1, <2>2, <1>1 DEF Guarded, q, call
  <2>4. CASE IsPwm(call)
    BY <2>1, <2>3, <2>4, <1>3, <1>t, DriveAfterCall
  <2>5. CASE ~IsPwm(call)
    BY <2>1, <2>5, <1>1
  <2> QED
    BY <2>4, <2>5
<1> QED
  BY <1>7, <1>11, <1>12, <1>13, <1>16, <1>17 DEF Parts

\* The buzzer's task.
LEMMA AlarmsStep ==
  ASSUME IInv, Track, AlarmsPoll \/ Execute("alarms")
  PROVE  Parts'
<1>t. TypeOK /\ Queues
  BY DEF IInv, HistTypeOK
<1>1. CASE AlarmsPoll
  <2>1. \A level, ms : NoPwm(<<SetBuzzer(level), DelayMs(ms)>>)
    BY DEF NoPwm, IsPwm, SetBuzzer, DelayMs
  <2>2. \E level, ms : todo' = [todo EXCEPT !["alarms"] =
                                             <<SetBuzzer(level), DelayMs(ms)>>]
    <3>1. \/ todo' = [todo EXCEPT !["alarms"] = <<SetBuzzer(0), DelayMs(5)>>]
          \/ todo' = [todo EXCEPT !["alarms"] =
                                  <<SetBuzzer(buzzer_status'), DelayMs(80)>>]
      BY <1>1 DEF AlarmsPoll
    <3> QED
      BY <3>1
  <2>r. PICK routine : todo' = [todo EXCEPT !["alarms"] = routine] /\ NoPwm(routine)
    BY <2>1, <2>2
  <2>3. /\ todo'["alarms"] = routine /\ todo'["uart"] = todo["uart"]
        /\ todo'["bt"] = todo["bt"]
    BY <2>r, <1>t DEF TypeOK, Task
  <2>4. current_state' = current_state /\ pwm' = pwm /\ seen' = seen
    BY <1>1 DEF AlarmsPoll
  <2> QED
    BY <2>r, <2>3, <2>4, OtherStep DEF Parts
<1>2. CASE Execute("alarms")
  <2> DEFINE q == todo["alarms"]
             r == todo'["alarms"]
             call == q[1]
  <2>1. /\ Len(q) \in Nat /\ Len(q) > 0
        /\ Len(r) = Len(q) - 1 /\ \A k \in 1 .. Len(q) - 1 : r[k] = q[k + 1]
        /\ todo'["bt"] = todo["bt"] /\ todo'["uart"] = todo["uart"]
        /\ ~IsPwm(call) => pwm' = pwm
        /\ current_state' = current_state /\ seen' = seen
    BY <1>2, <1>t, CallOf DEF Task
  <2>2. NoPwm(q)
    BY <1>t DEF Queues
  <2> HIDE DEF q, r
  <2>3. NoPwm(r) /\ ~IsPwm(call)
    BY <2>1, <2>2, RestOfRoutine DEF NoPwm
  <2> QED
    BY <2>1, <2>3, OtherStep DEF Parts, r
<1> QED
  BY <1>1, <1>2

\* The invariant holds of every behaviour of the three tasks.
LEMMA Invariant == HistSpec => []IInv
<1>1. HistInit => IInv
  <2>1. HistInit => HistTypeOK
    BY InitialTypes
  <2> QED
    BY <2>1, Starts DEF IInv
<1>2. IInv /\ [HistNext]_histVars => IInv'
  <2> SUFFICES ASSUME IInv, [HistNext]_histVars PROVE IInv'
    OBVIOUS
  <2>1. HistTypeOK'
    BY TypesAgain DEF IInv
  <2>2. ASSUME HistNext PROVE Parts'
    <3>0. Next /\ Track
      BY <2>2 DEF HistNext
    <3>1. ASSUME NEW byte \in Byte, UartByte(byte) PROVE Parts'
      BY <3>0, <3>1, ByteStep
    <3>2. ASSUME NEW axes \in Command, BtCommand(axes[1], axes[2]) PROVE Parts'
      BY <3>0, <3>2, CommandStep
    <3>3. CASE AlarmsPoll \/ Execute("alarms")
      BY <3>0, <3>3, AlarmsStep
    <3>4. CASE Execute("uart")
      BY <3>0, <3>4, BrakeCall
    <3>5. CASE Execute("bt")
      BY <3>0, <3>5, CommandCall
    <3> QED
      BY <3>0, <3>1, <3>2, <3>3, <3>4, <3>5 DEF Next, Task
  <2>3. CASE UNCHANGED histVars
    <3>1. UNCHANGED <<current_state, pwm, todo, seen, mixed, touched, stale,
                      completed>>
      BY <2>3 DEF histVars, vars, history
    <3>2. Queues /\ Apart => (Queues /\ Apart)'
      BY <3>1 DEF Queues, Apart, Guarded, Writing, Left
    <3>3. Repairing /\ CutOff => (Repairing /\ CutOff)'
      BY <3>1 DEF Repairing, CutOff, Left
    <3>4. BrakeInOrder => BrakeInOrder'
      BY <3>1 DEF BrakeInOrder, Undisturbed, Left
    <3>5. NotDrivenBothWays => NotDrivenBothWays'
      BY <3>1 DEF NotDrivenBothWays
    <3> QED
      BY <2>1, <3>2, <3>3, <3>4, <3>5 DEF IInv
  <2> QED
    BY <2>1, <2>2, <2>3 DEF IInv, Parts
<1> QED
  BY <1>1, <1>2, PTL DEF HistSpec

-----------------------------------------------------------------------------

(***************************************************************************)
(* What the invariant says of the brake.                                   *)
(***************************************************************************)

\* In AUTOBRAKE, after the first stop of the brake, nothing but a command
\* decided before it drives the car forward (emergency_brake of
\* mcpwm_brushed_dc_control.c against the task of bt_handler.c), whatever the
\* joystick sends.
THEOREM OnlyStaleCommandsDriveForward == HistSpec => []ForwardOnlyByStaleCommand
<1>1. IInv => ForwardOnlyByStaleCommand
  <2>1. Len(EmergencyBrake) = 18
    BY BrakeTable
  <2>2. ASSUME IInv, current_state = AUTOBRAKE, Stopped, ~stale
        PROVE  \A wheel \in Wheel : ~Forward(pwm, wheel)
    <3>1. Left <= 13
      BY <2>1, <2>2 DEF Stopped, Left
    <3>2. Left \in Nat
      BY <2>2 DEF IInv, HistTypeOK, TypeOK, Task, Left
    <3> QED
      BY <2>2, <3>1, <3>2 DEF IInv, CutOff, Wheel
  <2> QED
    BY <2>2 DEF ForwardOnlyByStaleCommand
<1> QED
  BY <1>1, Invariant, PTL

\* A brake no joystick command writes into pushes both wheels backward with
\* BrakeDuty and then holds them (lines 84 to 103).
THEOREM UndisturbedBrakeBrakes == HistSpec => []BrakesAsDesigned
<1>1. IInv => BrakesAsDesigned
  <2> SUFFICES ASSUME IInv, ~touched, NEW wheel \in Wheel
               PROVE  /\ InDelay(PulseMs) => /\ ~Forward(pwm, wheel)
                                             /\ Backward(pwm, wheel)
                                             /\ pwm[wheel]["B"].duty = BrakeDuty
                      /\ InDelay(HoldMs) => /\ ~Forward(pwm, wheel)
                                            /\ ~Backward(pwm, wheel)
    BY DEF BrakesAsDesigned
  <2>1. /\ Left <= 18 /\ Left \in Nat /\ todo["uart"] \in Seq(Step)
        /\ \A k \in 1 .. Left : todo["uart"][k] = EmergencyBrake[18 - Left + k]
    BY DEF IInv, HistTypeOK, TypeOK, Task, Queues, Left
  <2>2. todo["uart"] # <<>> =>
          /\ Left > 0 /\ Undisturbed
          /\ Left \in 1 .. 18
          /\ Head(todo["uart"]) = EmergencyBrake[19 - Left]
    <3> SUFFICES ASSUME todo["uart"] # <<>>
                 PROVE  /\ Left > 0 /\ Undisturbed /\ Left \in 1 .. 18
                        /\ Head(todo["uart"]) = EmergencyBrake[19 - Left]
      OBVIOUS
    <3>1. Left > 0 /\ Head(todo["uart"]) = todo["uart"][1]
      BY <2>1 DEF Left
    <3>2. 1 \in 1 .. Left /\ 18 - Left + 1 = 19 - Left
      BY <2>1, <3>1
    <3>3. Left \in 1 .. 18
      BY <2>1, <3>1, Countdown
    <3> QED
      BY <2>1, <3>1, <3>2, <3>3 DEF IInv, BrakeInOrder
  <2>3. BrakeDuty > 0
    BY DEF BrakeDuty, Percent
  <2>4. InDelay(PulseMs) => Left = 7 /\ Undisturbed
    <3>1. \A p \in 1 .. 18 : EmergencyBrake[p] = DelayMs(PulseMs) => p = 12
      BY BrakeTable DEF DelayMs, PulseMs, HoldMs
    <3>2. \A n \in 1 .. 18 : EmergencyBrake[19 - n] = DelayMs(PulseMs) => n = 7
      <4>1. \A n \in 1 .. 18 : 19 - n \in 1 .. 18 /\ (19 - n = 12 => n = 7)
        OBVIOUS
      <4> QED
        BY <3>1, <4>1
    <3> QED
      BY <2>2, <3>2 DEF InDelay
  <2>5. InDelay(HoldMs) => Left = 2 /\ Undisturbed
    <3>1. \A p \in 1 .. 18 : EmergencyBrake[p] = DelayMs(HoldMs) => p = 17
      BY BrakeTable DEF DelayMs, PulseMs, HoldMs
    <3>2. \A n \in 1 .. 18 : EmergencyBrake[19 - n] = DelayMs(HoldMs) => n = 2
      <4>1. \A n \in 1 .. 18 : 19 - n \in 1 .. 18 /\ (19 - n = 17 => n = 2)
        OBVIOUS
      <4> QED
        BY <3>1, <4>1
    <3> QED
      BY <2>2, <3>2 DEF InDelay
  <2> QED
    BY <2>3, <2>4, <2>5 DEF Undisturbed, Forward, Backward, Driven, Wheel
<1> QED
  BY <1>1, Invariant, PTL

\* Routines that run one after the other never drive both inputs of a bridge:
\* each turns a generator on after it has lowered the other.
THEOREM OneRoutineOneWay == HistSpec => []NotDrivenBothWays
<1>1. IInv => NotDrivenBothWays
  BY DEF IInv
<1> QED
  BY <1>1, Invariant, PTL

\* After the brake of this AUTOBRAKE the car goes backward only because the
\* joystick says so (uart_handler.c lines 85 to 91 start no other pulse).
THEOREM NoSecondPulse == HistSpec => []OnePulsePerAutobrake
<1>1. IInv => OnePulsePerAutobrake
  <2> SUFFICES ASSUME IInv, completed, ~touched, NEW wheel \in Wheel,
                      Backward(pwm, wheel)
               PROVE  FALSE
    BY DEF OnePulsePerAutobrake
  <2>1. Left = 0 /\ Undisturbed
    BY DEF IInv, BrakeInOrder
  <2> QED
    BY <2>1 DEF Undisturbed, Backward, Driven, Wheel
<1> QED
  BY <1>1, Invariant, PTL
=============================================================================
