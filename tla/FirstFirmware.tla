--------------------------- MODULE FirstFirmware ---------------------------
(***************************************************************************)
(* The first car: sensor_ultrassonico.py on the Raspberry Pi shows its     *)
(* decision on two lines, and the tasks of src/CarControlESP32 read them   *)
(* one after the other:                                                    *)
(*   ADAS_listener_TASK       lines to current_status (adas_perception.c)  *)
(*   buzzer_TASK              current_status to the buzzer                 *)
(*   joystick_bluetooth_TASK  packets to the axes (uart.c)                 *)
(*   motor_control_TASK       axes and status to the motors (control.c)    *)
(* main.c has the motor task commented out, and nothing calls the test     *)
(* each_full_power; the model chooses at the start which of them runs.     *)
(***************************************************************************)
EXTENDS LedcMotor, Decimal

CONSTANTS
  Packet,    \* what uart_read_bytes may return: packets and pieces of packets
  Garbage    \* bytes that malloc may leave in the buffer

Byte == 0 .. 255

\* What is received is never empty: uart.c goes on only when len > 0.
ASSUME FirstFirmwareAssumption ==
  Garbage \subseteq Byte /\ Packet \subseteq Seq(Byte) \ {<<>>}

Decision == {"AUTOBRAKE", "COLLISION", "NORMAL"}   \* what the script prints
Line == {"GPIO_AUTOBRAKE", "GPIO_COLLISION"}

VARIABLES
  pi,              \* where the script is
  decided, before, \* its last decision, and the one whose lines it replaces
  line,            \* the levels
  listener,        \* the line that ADAS_listener_TASK reads next
  since,           \* the decisions in force since it read the other one
  current_status,
  buzzer, buzzer_status,
  beeping,         \* buzzer_TASK waits before it turns buzzer_status
  data, packet,    \* the buffer of the joystick task, the piece that it decodes
  joystick,        \* the axis it decodes next
  heard,           \* it has decoded a packet before
  x_axis, y_axis,
  motor,           \* the motor task: none, each_full_power, or where it is
  branch,          \* the branch of set_all_duty that it is at
  calls,           \* what it has left to execute
  unit             \* the PWM unit

piVars == <<pi, decided, before, line>>
listenerVars == <<listener, since, current_status>>
buzzerVars == <<buzzer, buzzer_status, beeping>>
joystickVars == <<data, packet, joystick, heard, x_axis, y_axis>>
motorVars == <<motor, branch, calls, unit>>
vars == <<piVars, listenerVars, buzzerVars, joystickVars, motorVars>>

BufferLen == 7    \* as much of BUF_SIZE as is ever read
INT_SUBSTRING_OFFSET == -200
X_AXIS_START_POS == 1
Y_AXIS_START_POS == 4
Int8 == -128 .. 127

TypeOK ==
  /\ pi \in {"ended", "sleeps"} \cup Line
  /\ {decided, before} \subseteq Decision
  /\ line \in [Line -> BOOLEAN]
  /\ listener \in Line /\ since \subseteq Decision
  /\ current_status \in 0 .. 2
  /\ buzzer \in {0, 1} /\ buzzer_status \in {0, 1} /\ beeping \in BOOLEAN
  /\ data \in [1 .. BufferLen -> Byte] /\ packet \in Packet \cup {<<>>}
  /\ joystick \in {"none", "x", "y"} /\ heard \in BOOLEAN
  /\ {x_axis, y_axis} \subseteq Int8
  /\ motor \in {"none", "each_full_power", "poll", "test_y", "test_x",
                "branch_x", "branch_y", "walk"}
  /\ branch \in 1 .. Len(Branches)
  /\ calls \in Seq(Call) /\ unit \in Unit

Init ==
  /\ pi = "ended" /\ decided = "NORMAL" /\ before = "NORMAL"
  /\ line = [l \in Line |-> FALSE]
  /\ listener = "GPIO_AUTOBRAKE" /\ since = {} /\ current_status = 0
  /\ buzzer = 0 /\ buzzer_status = 0 /\ beeping = FALSE
  /\ \E byte \in Garbage : data = [i \in 1 .. BufferLen |-> byte]
  /\ packet = <<>> /\ joystick = "none" /\ heard = FALSE
  /\ x_axis = 0 /\ y_axis = 0
  /\ motor \in {"none", "each_full_power", "poll"}
  /\ branch = 1
  /\ calls = IF motor = "poll" THEN StopPwm ELSE <<>>
  /\ unit = InitMotor

-----------------------------------------------------------------------------
(* sensor_ultrassonico.py *)

\* Faulty: each decision has a line of its own.
LevelOneHot(decision, l) ==
  decision = (IF l = "GPIO_AUTOBRAKE" THEN "AUTOBRAKE" ELSE "COLLISION")

\* The collision line stays up while the car is to brake.
Level(decision, l) ==
  decision \in (IF l = "GPIO_AUTOBRAKE" THEN {"AUTOBRAKE"}
                ELSE {"AUTOBRAKE", "COLLISION"})

\* The decisions that the lines may show: both, while they are written, and any
\* when the script has ended and the lines float.
InForce ==
  CASE pi = "ended"  -> Decision
    [] pi = "sleeps" -> {decided}
    [] OTHER         -> {before, decided}

Noticed == since' = IF listener = "GPIO_COLLISION" THEN since \cup InForce' ELSE {}

\* GPIO.setup makes the lines outputs, low.
StartScript ==
  /\ pi = "ended"
  /\ pi' = "sleeps" /\ decided' = "NORMAL" /\ before' = "NORMAL"
  /\ line' = [l \in Line |-> FALSE]
  /\ Noticed
  /\ UNCHANGED <<listener, current_status, buzzerVars, joystickVars, motorVars>>

\* Lines 56-67: the distance is measured and compared.
Decide(decision) ==
  /\ pi = "sleeps"
  /\ pi' = "GPIO_AUTOBRAKE" /\ decided' = decision /\ before' = decided
  /\ Noticed
  /\ UNCHANGED <<line, listener, current_status>>
  /\ UNCHANGED <<buzzerVars, joystickVars, motorVars>>

WriteLine ==
  /\ pi \in Line
  /\ line' = [line EXCEPT ![pi] = Level(decided, pi)]
  /\ \/ pi = "GPIO_AUTOBRAKE" /\ pi' = "GPIO_COLLISION" /\ UNCHANGED before
     \/ pi = "GPIO_COLLISION" /\ pi' = "sleeps" /\ before' = decided
  /\ UNCHANGED decided
  /\ UNCHANGED <<listenerVars, buzzerVars, joystickVars, motorVars>>

\* Ctrl-C: GPIO.cleanup makes the lines inputs; their last levels are forgotten.
EndScript ==
  /\ pi # "ended"
  /\ pi' = "ended" /\ decided' = "NORMAL" /\ before' = "NORMAL"
  /\ line' = [l \in Line |-> FALSE]
  /\ Noticed
  /\ UNCHANGED <<listener, current_status>>
  /\ UNCHANGED <<buzzerVars, joystickVars, motorVars>>

-----------------------------------------------------------------------------
(* adas_perception.c *)

\* gpio_get_level of a line that may float.
GetLevel(l) == IF pi = "ended" THEN BOOLEAN ELSE {line[l]}

ReadAutobrake ==
  /\ listener = "GPIO_AUTOBRAKE"
  /\ \/ /\ TRUE \in GetLevel("GPIO_AUTOBRAKE")
        /\ current_status' = 2 /\ UNCHANGED <<listener, since>>
     \/ /\ FALSE \in GetLevel("GPIO_AUTOBRAKE")
        /\ listener' = "GPIO_COLLISION" /\ since' = InForce
        /\ UNCHANGED current_status
  /\ UNCHANGED <<piVars, buzzerVars, joystickVars, motorVars>>

ReadCollision ==
  /\ listener = "GPIO_COLLISION"
  /\ \E level \in GetLevel("GPIO_COLLISION") :
       current_status' = IF level THEN 1 ELSE 0
  /\ listener' = "GPIO_AUTOBRAKE" /\ since' = {}
  /\ UNCHANGED <<piVars, buzzerVars, joystickVars, motorVars>>

\* Faulty: nothing turns the buzzer off.
BuzzerStaysOn ==
  /\ ~beeping
  /\ \/ current_status = 0 /\ UNCHANGED buzzerVars
     \/ current_status = 1 /\ buzzer' = 1 - buzzer_status
          /\ beeping' = TRUE /\ UNCHANGED buzzer_status
     \/ current_status = 2 /\ buzzer' = 1 /\ UNCHANGED <<buzzer_status, beeping>>
  /\ UNCHANGED <<piVars, listenerVars, joystickVars, motorVars>>

\* buzzer_TASK, lines 56-67.
Buzzer ==
  /\ ~beeping
  /\ \/ current_status = 0 /\ buzzer' = 0 /\ UNCHANGED <<buzzer_status, beeping>>
     \/ current_status = 1 /\ buzzer' = 1 - buzzer_status
          /\ beeping' = TRUE /\ UNCHANGED buzzer_status
     \/ current_status = 2 /\ buzzer' = 1 /\ UNCHANGED <<buzzer_status, beeping>>
  /\ UNCHANGED <<piVars, listenerVars, joystickVars, motorVars>>

\* Line 64, after the delay of line 63.
EndOfBeep ==
  /\ beeping
  /\ beeping' = FALSE /\ buzzer_status' = 1 - buzzer_status
  /\ UNCHANGED <<buzzer, piVars, listenerVars, joystickVars, motorVars>>

-----------------------------------------------------------------------------
(* uart.c *)

ToInt8(n) == ((n + 128) % 256) - 128

Blank == {32} \cup 9 .. 13   \* isspace
Plus == 43
Minus == 45

\* How many of the first characters are of the set.
Leading(text, set) ==
  CHOOSE n \in 0 .. Len(text) :
    /\ \A i \in 1 .. n : text[i] \in set
    /\ n < Len(text) => text[n + 1] \notin set
LeadingNumber(text) == Number(SubSeq(text, 1, Leading(text, Digit)))
Signed(text) ==
  LET rest == SubSeq(text, 2, Len(text)) IN
  CASE text # <<>> /\ Head(text) = Plus  -> LeadingNumber(rest)
    [] text # <<>> /\ Head(text) = Minus -> -LeadingNumber(rest)
    [] OTHER                             -> LeadingNumber(text)
Atoi(text) == Signed(SubSeq(text, Leading(text, Blank) + 1, Len(text)))

\* Faulty: the value does not have the width of the axis.
SubstrToIntWide(bytes, position) ==
  Atoi(SubSeq(bytes, position + 1, position + 3)) + INT_SUBSTRING_OFFSET

\* Faulty: the end position is taken for one past the end.
SubstrToIntShort(bytes, position) ==
  ToInt8(Atoi(SubSeq(bytes, position + 1, position + 2)) + INT_SUBSTRING_OFFSET)

\* Three characters from the position, which counts from 0.
SubstrToInt(bytes, position) ==
  ToInt8(Atoi(SubSeq(bytes, position + 1, position + 3)) + INT_SUBSTRING_OFFSET)

\* uart_read_bytes overwrites as much of the buffer as it has read.
Receive(bytes) ==
  /\ joystick = "none"
  /\ packet' = bytes
  /\ data' = [i \in 1 .. BufferLen |->
                IF i <= Len(bytes) THEN bytes[i] ELSE data[i]]
  /\ joystick' = "x"
  /\ UNCHANGED <<heard, x_axis, y_axis>>
  /\ UNCHANGED <<piVars, listenerVars, buzzerVars, motorVars>>

DecodeX ==
  /\ joystick = "x"
  /\ x_axis' = SubstrToInt(data, X_AXIS_START_POS)
  /\ joystick' = "y"
  /\ UNCHANGED <<data, packet, heard, y_axis>>
  /\ UNCHANGED <<piVars, listenerVars, buzzerVars, motorVars>>

DecodeY ==
  /\ joystick = "y"
  /\ y_axis' = SubstrToInt(data, Y_AXIS_START_POS)
  /\ joystick' = "none" /\ heard' = TRUE /\ packet' = <<>>
  /\ UNCHANGED <<data, x_axis>>
  /\ UNCHANGED <<piVars, listenerVars, buzzerVars, motorVars>>

-----------------------------------------------------------------------------
(* control.c *)

\* The switch of motor_control_TASK, and of set_all_duty line 178: y first.
Poll ==
  /\ motor = "poll" /\ calls = <<>>
  /\ \/ /\ current_status = 2
        /\ calls' = StopPwm /\ UNCHANGED motor
     \/ /\ current_status \in {0, 1}
        /\ motor' = "test_y" /\ UNCHANGED calls
  /\ UNCHANGED <<branch, unit>>

Test(axis, next) ==
  /\ IF Centred(axis) THEN motor' = "poll" /\ calls' = StopPwm
                      ELSE motor' = next /\ UNCHANGED calls
  /\ branch' = 1 /\ UNCHANGED unit

TestY == motor = "test_y" /\ Test(y_axis, "test_x")
TestX == motor = "test_x" /\ Test(x_axis, "branch_x")

\* The else of a condition that is false; the last branch has none.
NextBranch ==
  IF branch < Len(Branches) THEN motor' = "branch_x" /\ branch' = branch + 1
                            ELSE motor' = "poll" /\ branch' = 1

\* Lines 190, 203, 216 and 229 read the axes anew, y only if x has its sign.
BranchX ==
  /\ motor = "branch_x"
  /\ IF HasSign(x_axis, Branches[branch][1])
     THEN motor' = "branch_y" /\ UNCHANGED branch
     ELSE NextBranch
  /\ UNCHANGED <<calls, unit>>

BranchY ==
  /\ motor = "branch_y"
  /\ IF HasSign(y_axis, Branches[branch][2])
     THEN motor' = "walk" /\ calls' = BranchPwm /\ UNCHANGED branch
     ELSE NextBranch /\ UNCHANGED calls
  /\ UNCHANGED unit

\* set_all_duty returns.
Walked ==
  /\ motor = "walk" /\ calls = <<>>
  /\ motor' = "poll" /\ branch' = 1
  /\ UNCHANGED <<calls, unit>>

\* Once more around the loop of each_full_power.
Again ==
  /\ motor = "each_full_power" /\ calls = <<>>
  /\ calls' = EachFullPower
  /\ UNCHANGED <<motor, branch, unit>>

\* One channel.
Execute ==
  /\ calls # <<>>
  /\ calls' = Tail(calls)
  /\ unit' = Executed(unit, Head(calls))
  /\ UNCHANGED <<motor, branch>>

Script ==
  StartScript \/ (\E decision \in Decision : Decide(decision)) \/ WriteLine
    \/ EndScript
Listener == ReadAutobrake \/ ReadCollision
BuzzerTask == Buzzer \/ EndOfBeep
Joystick == (\E bytes \in Packet : Receive(bytes)) \/ DecodeX \/ DecodeY
Motor ==
  /\ Poll \/ TestY \/ TestX \/ BranchX \/ BranchY \/ Walked \/ Again \/ Execute
  /\ UNCHANGED <<piVars, listenerVars, buzzerVars, joystickVars>>

\* each_full_power runs without the other tasks.
Next ==
  \/ motor # "each_full_power" /\ (Script \/ Listener \/ BuzzerTask \/ Joystick)
  \/ Motor

\* The two tasks run, and the script does what it has decided to.
Fairness == WF_vars(WriteLine) /\ WF_vars(Listener) /\ WF_vars(BuzzerTask)

Spec == Init /\ [][Next]_vars
FairSpec == Spec /\ Fairness

-----------------------------------------------------------------------------

\* However the script's two writes and the listener's two reads interleave, the
\* status becomes 2 or 0 only for a decision in force since the reading began;
\* only a warning can be read that was never decided, between the other two
\* (sensor_ultrassonico.py 58-69 against adas_perception.c 30-41).
InForceWhileRead == since \cup InForce
StatusWasDecided ==
  [][current_status' # current_status =>
       \/ current_status' = 2 /\ "AUTOBRAKE" \in InForceWhileRead
       \/ current_status' = 0 /\ "NORMAL" \in InForceWhileRead
       \/ current_status' = 1 /\ \/ "COLLISION" \in InForceWhileRead
                                 \/ {"AUTOBRAKE", "NORMAL"} \subseteq InForceWhileRead
    ]_vars

\* From the decision to the ear: a road that stays near sounds for good, a far
\* one falls silent, the one in between beeps, whatever was half read or half
\* beeped when it came (adas_perception.c 29-71).
Lasts(decision) == <>[](motor # "each_full_power" /\ pi # "ended" /\ decided = decision)
BuzzerFollowsDecision ==
  /\ Lasts("AUTOBRAKE") => <>[](buzzer = 1)
  /\ Lasts("NORMAL") => <>[](buzzer = 0)
  /\ Lasts("COLLISION") => []<>(buzzer = 1) /\ []<>(buzzer = 0)

\* A whole packet sets both axes to what it says, whatever an earlier piece has
\* left in the buffer, which is never cleared; and a piece too short to reach
\* the digits of y leaves y as it was (uart.c 33-86).
Meant(bytes, i) ==
  100 * bytes[i] + 10 * bytes[i + 1] + bytes[i + 2] - 111 * 48 - 200
IsPacket(bytes) ==
  /\ Len(bytes) >= BufferLen
  /\ \A i \in 2 .. BufferLen : bytes[i] \in Digit
  /\ {Meant(bytes, 2), Meant(bytes, 5)} \subseteq Int8
AxesAreOfTheirPacket ==
  [][joystick = "y" /\ joystick' = "none" =>
       /\ IsPacket(packet) =>
            x_axis = Meant(packet, 2) /\ y_axis' = Meant(packet, 5)
       /\ heard /\ Len(packet) <= Y_AXIS_START_POS => y_axis' = y_axis
    ]_vars
=============================================================================
