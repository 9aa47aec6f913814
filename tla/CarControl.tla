----------------------------- MODULE CarControl -----------------------------
(***************************************************************************)
(* The ESP32's tasks that share the state of the car, the motor driver and *)
(* the buzzer:                                                             *)
(*   uart    get_ECU_serial_parameters_TASK (uart_handler.c), which reads  *)
(*           the state sent by the Raspberry Pi and runs emergency_brake;  *)
(*   bt      the Bluetooth callback (bt_handler.c), which turns every      *)
(*           joystick packet into mcpwm_motor_control;                     *)
(*   alarms  alarms_task (main.c), which polls the state and beeps.        *)
(* The chip has two cores and no variable or register is protected, so a   *)
(* task that has decided what to do does it one write at a time: todo[t]   *)
(* is what task t still has to execute of the routine it is in.            *)
(***************************************************************************)
EXTENDS Mcpwm

CONSTANTS
  Byte,      \* first bytes of a read from the serial port
  Command    \* <<x_axis, y_axis>> decoded from a joystick packet

ASSUME CarControlAssumption ==
  /\ Byte \subseteq 0 .. 255
  /\ Command \subseteq (-128 .. 127) \X (-128 .. 127)

VARIABLES
  current_state,  \* uint8_t shared by the three tasks
  pwm,            \* the registers of the PWM unit
  buzzer,         \* the level of BUZZER_GPIO
  buzzer_status,  \* alarms_task's static: the last level of the beep
  todo,           \* what each task still has to execute
  seen            \* the state the last joystick command was decided on

vars == <<current_state, pwm, buzzer, buzzer_status, todo, seen>>

Task == {"uart", "bt", "alarms"}
State == 0 .. 255

NORMAL       == 0
PRECOLLISION == 1

TypeOK ==
  /\ current_state \in State
  /\ pwm \in Registers
  /\ buzzer \in {0, 1}
  /\ buzzer_status \in {0, 1}
  /\ todo \in [Task -> Seq(Step)]
  /\ seen \in State

Idle(task) == todo[task] = <<>>

-----------------------------------------------------------------------------

Init ==
  /\ current_state = NORMAL
  /\ pwm = InitialRegisters
  /\ buzzer = 0
  /\ buzzer_status = 0
  /\ todo = [task \in Task |-> <<>>]
  /\ seen = NORMAL

\* Faulty: the brake is applied with every message that asks for it.
BrakesAgain(state) == state = AUTOBRAKE

\* uart_handler.c lines 85-91: only a change of the state applies the brake.
BrakesOn(state) == current_state # state /\ state = AUTOBRAKE

\* data[0]-48 in a uint8_t.
Decoded(byte) == (byte - 48) % 256

UartByte(byte) ==
  /\ Idle("uart")
  /\ current_state' = Decoded(byte)
  /\ todo' = IF BrakesOn(Decoded(byte))
             THEN [todo EXCEPT !["uart"] = EmergencyBrake]
             ELSE todo
  /\ UNCHANGED <<pwm, buzzer, buzzer_status, seen>>

\* ESP_SPP_DATA_IND_EVT: the state is read once, the writes it decides follow.
BtCommand(x_axis, y_axis) ==
  /\ Idle("bt")
  /\ seen' = current_state
  /\ todo' = [todo EXCEPT !["bt"] = MotorControl(current_state, x_axis, y_axis)]
  /\ UNCHANGED <<current_state, pwm, buzzer, buzzer_status>>

\* Faulty: the buzzer is not turned off in the normal state.
AlarmsPollSilent ==
  /\ Idle("alarms")
  /\ current_state = PRECOLLISION
  /\ buzzer_status' = 1 - buzzer_status
  /\ todo' = [todo EXCEPT !["alarms"] =
                          <<SetBuzzer(buzzer_status'), DelayMs(80)>>]
  /\ UNCHANGED <<current_state, pwm, buzzer, seen>>

\* switch (current_state): the states without a case spin.
AlarmsPoll ==
  /\ Idle("alarms")
  /\ \/ /\ current_state = NORMAL
        /\ todo' = [todo EXCEPT !["alarms"] = <<SetBuzzer(0), DelayMs(5)>>]
        /\ UNCHANGED buzzer_status
     \/ /\ current_state = PRECOLLISION
        /\ buzzer_status' = 1 - buzzer_status
        /\ todo' = [todo EXCEPT !["alarms"] =
                                <<SetBuzzer(buzzer_status'), DelayMs(80)>>]
  /\ UNCHANGED <<current_state, pwm, buzzer, seen>>

\* One library call of a routine.
Execute(task) ==
  /\ todo[task] # <<>>
  /\ todo' = [todo EXCEPT ![task] = Tail(@)]
  /\ LET step == Head(todo[task]) IN
       /\ pwm' = IF IsPwm(step) THEN Written(pwm, step) ELSE pwm
       /\ buzzer' = IF step.do = "buzzer" THEN step.level ELSE buzzer
  /\ UNCHANGED <<current_state, buzzer_status, seen>>

Next ==
  \/ \E byte \in Byte : UartByte(byte)
  \/ \E axes \in Command : BtCommand(axes[1], axes[2])
  \/ AlarmsPoll
  \/ \E task \in Task : Execute(task)

\* The tasks have the same priority and the scheduler slices time between
\* them, so none is stopped in the middle of a routine.  Nothing is assumed of
\* the serial line and of the joystick.
Fairness ==
  /\ \A task \in Task : WF_vars(Execute(task))
  /\ WF_vars(AlarmsPoll)

Spec == Init /\ [][Next]_vars
FairSpec == Spec /\ Fairness

-----------------------------------------------------------------------------

NoneForward == \A wheel \in Wheel : ~Forward(pwm, wheel)

JoystickGoesOn == []<><<\E axes \in Command : BtCommand(axes[1], axes[2])>>_vars

\* Every emergency brake takes both wheels off forward drive at once at some
\* instant, however its writes interleave with those of one joystick command
\* (emergency_brake stops the wheels one after the other, twice).
EveryBrakeCutsOff ==
  todo["uart"] = EmergencyBrake ~> NoneForward

\* A car that stays in AUTOBRAKE is in the end not driven forward, provided
\* joystick packets keep coming: the only thing that undoes a stale command is
\* the next one (mcpwm_motor_control).
AutobrakeStaysCutOff ==
  <>[](current_state = AUTOBRAKE) /\ JoystickGoesOn => <>[]NoneForward

\* A car that stays in the normal state falls silent, and one that stays in the
\* warning state beeps, although emergency_brake drives the same pin as
\* alarms_task.
BuzzerFollowsState ==
  /\ <>[](current_state = NORMAL) => <>[](buzzer = 0)
  /\ <>[](current_state = PRECOLLISION) => []<>(buzzer = 1) /\ []<>(buzzer = 0)
=============================================================================
