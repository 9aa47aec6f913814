----------------------------- MODULE AdasSystem -----------------------------
(***************************************************************************)
(* The whole car: the vote of the Raspberry Pi (Voting.tla), the serial    *)
(* line as MessageLink.tla describes it, and on the ESP32 the task that    *)
(* reads it and brakes, the Bluetooth callback, and the motors.  The       *)
(* register writes of a routine, which CarControl.tla interleaves one by   *)
(* one, are one step here, apart from the moment at which the callback     *)
(* reads the state.  Both computers may stop and start again.              *)
(***************************************************************************)
EXTENDS Integers, Sequences

CONSTANTS
  EVENTS_ARRAY_SIZE,
  COUNT_AUTOBRAKE_FALSE_ALARM,
  COUNT_PRECOLLISION_FALSE_ALARM,
  COUNT_NORMAL_FALSE_ALARM,
  BrakeMessages,
  Junk

ASSUME AdasSystemAssumption ==
  /\ EVENTS_ARRAY_SIZE \in Nat
  /\ {COUNT_AUTOBRAKE_FALSE_ALARM, COUNT_PRECOLLISION_FALSE_ALARM,
      COUNT_NORMAL_FALSE_ALARM} \subseteq 0 .. EVENTS_ARRAY_SIZE - 2
  /\ BrakeMessages \in Nat \ {0}
  /\ Junk \subseteq 0 .. 255

VARIABLES
  last_states, i, decision, ser,         \* the vote
  pi,                                    \* the median thread: running, stopped
  sent, unread, reader, current_state, backlog,   \* the line and its reader
  brake,     \* where emergency_brake is: none, pulse, hold
  pending,   \* what the callback is about to make the motors do
  motors,    \* still, forward, backward
  phone,     \* the connection of the joystick
  streak,    \* the zone of the last sample, and how often in a row
             \* since the ESP32 was started
  lately,    \* the states of the last messages
  reads      \* reads since the ESP32 was started, counted up to 2

voteVars == <<last_states, i, decision, ser>>
linkVars == <<sent, unread, reader, current_state, backlog>>
carVars == <<brake, pending, motors, phone>>
history == <<streak, lately, reads>>
vars == <<voteVars, pi, linkVars, carVars, history>>

V == INSTANCE Voting WITH current_state <- decision
Link == INSTANCE MessageLink

AUTOBRAKE == 2
Command == {"ahead", "back", "centre"}
Motion == {"still", "forward", "backward"}
Nothing == "nothing"

\* The state a zone asks for, and the marks the vote tolerates before it.
StateOf(zone) == CASE zone = "near" -> 2 [] zone = "mid" -> 1 [] OTHER -> 0
Tolerance(zone) ==
  CASE zone = "near" -> COUNT_AUTOBRAKE_FALSE_ALARM
    [] zone = "mid"  -> COUNT_PRECOLLISION_FALSE_ALARM
    [] OTHER         -> COUNT_NORMAL_FALSE_ALARM

\* Enough samples of a zone for the vote to have decided, and enough messages
\* for the ESP32 to have caught up.
ReactionTime(zone) == Tolerance(zone) + 1 + BrakeMessages

TypeOK ==
  /\ V!TypeOK
  /\ pi \in {"running", "stopped"}
  /\ sent \in 0 .. 2 /\ unread \in {-1} \cup 0 .. 2 \cup Junk
  /\ reader \in {"off", "reading", "braking"}
  /\ current_state \in 0 .. 2 \cup Junk /\ backlog \in 0 .. BrakeMessages
  /\ brake \in {"none", "pulse", "hold"}
  /\ reader = "braking" <=> brake # "none"
  /\ pending \in Motion \cup {Nothing} /\ motors \in Motion
  /\ phone \in {"connected", "gone"}
  /\ streak \in [zone : V!Zone, samples : Nat]
  /\ streak.samples <= ReactionTime(streak.zone)
  /\ lately \in [1 .. BrakeMessages -> 0 .. 2]
  /\ reads \in 0 .. 2

Init ==
  /\ V!Init /\ pi = "running"
  /\ Link!Init
  /\ brake = "none" /\ pending = Nothing /\ motors = "still" /\ phone = "gone"
  /\ streak = [zone |-> "far", samples |-> 0]
  /\ lately = [k \in 1 .. BrakeMessages |-> 0] /\ reads = 0

-----------------------------------------------------------------------------
(* The Raspberry Pi. *)

\* One iteration of the median thread: a vote, and its message.
Sample(zone) ==
  /\ pi = "running"
  /\ V!Vote(zone)
  /\ Link!Write(decision')
  /\ streak' =
       [zone |-> zone,
        samples |-> IF reader = "off" THEN 0
                    ELSE IF zone # streak.zone THEN 1
                    ELSE IF streak.samples < ReactionTime(zone)
                         THEN streak.samples + 1
                    ELSE ReactionTime(zone)]
  /\ lately' = [k \in 1 .. BrakeMessages |->
                  IF k = BrakeMessages THEN decision' ELSE lately[k + 1]]
  /\ UNCHANGED <<pi, carVars, reads>>

\* The median thread ends, or the Raspberry Pi loses power.
PiStops ==
  /\ pi = "running"
  /\ pi' = "stopped"
  /\ UNCHANGED <<voteVars, linkVars, carVars, history>>

\* main.py is started anew, with an array of normal marks.
PiStarts ==
  /\ pi = "stopped"
  /\ pi' = "running"
  /\ last_states' = [k \in V!Slot |-> 0] /\ i' = 0 /\ decision' = 0
  /\ ser' = V!NoMessage
  /\ streak' = [zone |-> "far", samples |-> 0]
  /\ UNCHANGED <<linkVars, carVars, lately, reads>>

-----------------------------------------------------------------------------
(* The ESP32. *)

\* get_ECU_serial_parameters_TASK, and the first half of emergency_brake.
Read ==
  /\ Link!Read
  /\ IF reader' = "braking" THEN brake' = "pulse" /\ motors' = "backward"
                            ELSE UNCHANGED <<brake, motors>>
  /\ reads' = IF reads < 2 THEN reads + 1 ELSE reads
  /\ UNCHANGED <<voteVars, pi, pending, phone, streak, lately>>

\* Faulty: the brake is over with its pulse.
PulseEndsBrake ==
  /\ brake = "pulse"
  /\ brake' = "none" /\ motors' = "still"
  /\ UNCHANGED <<voteVars, pi, linkVars, pending, phone, history>>

PulseEnds ==
  /\ brake = "pulse"
  /\ brake' = "hold" /\ motors' = "still"
  /\ UNCHANGED <<voteVars, pi, linkVars, pending, phone, history>>

BrakeEnds ==
  /\ brake = "hold" /\ Link!BrakeDone
  /\ brake' = "none"
  /\ UNCHANGED <<voteVars, pi, pending, motors, phone, history>>

\* mcpwm_motor_control: only backward is left to the joystick in AUTOBRAKE.
MotorControl(state, command) ==
  CASE command = "back" -> "backward"
    [] command = "ahead" /\ state # AUTOBRAKE -> "forward"
    [] OTHER -> "still"

\* The callback has the packet and reads the state.
JoystickDecides(command) ==
  /\ phone = "connected" /\ pending = Nothing
  /\ pending' = MotorControl(current_state, command)
  /\ UNCHANGED <<voteVars, pi, linkVars, brake, motors, phone, history>>

JoystickActs ==
  /\ pending # Nothing
  /\ motors' = pending /\ pending' = Nothing
  /\ UNCHANGED <<voteVars, pi, linkVars, brake, phone, history>>

\* The callbacks run one after the other.
Connect ==
  /\ reader # "off" /\ phone = "gone" /\ pending = Nothing
  /\ phone' = "connected"
  /\ UNCHANGED <<voteVars, pi, linkVars, brake, pending, motors, history>>

\* Nothing stops the motors.
Close ==
  /\ phone = "connected" /\ pending = Nothing
  /\ phone' = "gone"
  /\ UNCHANGED <<voteVars, pi, linkVars, brake, pending, motors, history>>

Boot ==
  /\ Link!Boot
  /\ UNCHANGED <<voteVars, pi, carVars, history>>

Reset ==
  /\ Link!Reset
  /\ brake' = "none" /\ pending' = Nothing /\ motors' = "still" /\ phone' = "gone"
  /\ streak' = [streak EXCEPT !.samples = 0] /\ reads' = 0
  /\ UNCHANGED <<voteVars, pi, lately>>

AnySample == \E zone \in V!Zone : Sample(zone)

Next ==
  \/ AnySample \/ PiStops \/ PiStarts
  \/ Read \/ PulseEnds \/ BrakeEnds \/ Boot \/ Reset
  \/ (\E command \in Command : JoystickDecides(command)) \/ JoystickActs
  \/ Connect \/ Close

\* The median thread, the reading task and a callback that has begun run.  That
\* a computer starts again, or that the joystick is used, is not assumed.
Fairness ==
  /\ WF_vars(AnySample) /\ WF_vars(Read)
  /\ WF_vars(PulseEnds) /\ WF_vars(BrakeEnds) /\ WF_vars(JoystickActs)

Spec == Init /\ [][Next]_vars
FairSpec == Spec /\ Fairness

-----------------------------------------------------------------------------

Quiet == reader # "off" /\ unread = -1

\* End to end, in samples: a road that has been near, in between or far for as
\* many samples as the tolerance of its vote and the backlog of a brake add up
\* to is the one the ESP32 acts on: it brakes, warns, or has released the car,
\* whatever road, brake, start or reset came before (main.py 268-323,
\* uart_handler.c 70-99).  And when the Raspberry Pi falls silent the ESP32 keeps
\* its state for ever, for there is no timeout: it need not be the last one sent,
\* but it is one of those sent in the last second.
ReactsInTime ==
  Quiet =>
    /\ streak.samples = ReactionTime(streak.zone)
         => current_state = StateOf(streak.zone)
    /\ reads = 2 => \E k \in DOMAIN lately : current_state = lately[k]

Lasts(zone) == pi = "running" /\ reader # "off" /\ streak.zone = zone

\* A road that stays as it is ends up in the state of the ESP32, if both
\* computers stay on.
RoadIsObeyed ==
  /\ <>[]Lasts("near") => <>[](current_state = AUTOBRAKE)
  /\ <>[]Lasts("mid") => <>[](current_state = 1)
  /\ <>[]Lasts("far") => <>[](current_state = 0)

\* An obstacle that comes before a car that is not in AUTOBRAKE, and that lasts,
\* also stops a car that drives on because the last packet was a command and the
\* connection has closed: the callback does not stop it, the brake does
\* (bt_handler.c 59-62).  Nothing else does: while the road is free, or when the
\* last command came after the brake, the motors keep it.
StopsWithoutAPhone ==
  [](phone = "gone" /\ current_state # AUTOBRAKE
       => ([](phone = "gone" /\ Lasts("near")) => <>[](motors = "still")))
=============================================================================
