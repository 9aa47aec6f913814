---------------------------- MODULE MessageLink ----------------------------
(***************************************************************************)
(* What the serial line from the Raspberry Pi to the ESP32 promises,       *)
(* message by message: UartLink.tla, with its bytes and its silences,      *)
(* implements it.  The task acts on the oldest message it has not read,    *)
(* and drops the others; only the first thing it reads after it has been   *)
(* started may be a byte of the middle of a message.                       *)
(***************************************************************************)
EXTENDS Integers

CONSTANTS
  BrakeMessages,  \* messages that one read may find after emergency_brake
  Junk            \* states that a byte in the middle of a message decodes to

VARIABLES
  sent,           \* the state in the last message
  unread,         \* what the next read will return
  reader,         \* the ESP32: off, reading, braking
  current_state,
  backlog         \* of the messages since the brake, those not read

vars == <<sent, unread, reader, current_state, backlog>>

StateId == {0, 1, 2}
AUTOBRAKE == 2
Nothing == -1

Init ==
  /\ sent = 0 /\ unread = Nothing
  /\ reader = "off" /\ current_state = 0 /\ backlog = 0

\* The message is one of the backlog of a brake.
PilesUp == reader = "braking" \/ unread # Nothing

\* What waits is read before the next message comes, unless a brake has let it
\* wait: then the silence that ends the read may have yet to come.
Write(state) ==
  /\ reader = "reading" /\ unread # Nothing => backlog >= 1
  /\ PilesUp => backlog < BrakeMessages
  /\ sent' = state
  /\ unread' = IF reader # "off" /\ unread = Nothing THEN state ELSE unread
  /\ backlog' = IF PilesUp THEN backlog + 1 ELSE 0
  /\ UNCHANGED <<reader, current_state>>

\* Faulty: the change is looked for the other way round.
BrakesOnLeaving == unread # AUTOBRAKE /\ current_state = AUTOBRAKE

\* The state read is acted upon, and a change to AUTOBRAKE brakes.
BrakesOn == unread = AUTOBRAKE /\ current_state # AUTOBRAKE

\* Faulty: the state is stored only when it brakes.
ReadBrakesOnly ==
  /\ reader = "reading" /\ unread # Nothing
  /\ current_state' = IF BrakesOn THEN unread ELSE current_state
  /\ unread' = Nothing
  /\ reader' = IF BrakesOn THEN "braking" ELSE "reading"
  /\ backlog' = 0
  /\ UNCHANGED sent

Read ==
  /\ reader = "reading" /\ unread # Nothing
  /\ current_state' = unread
  /\ unread' = Nothing
  /\ reader' = IF BrakesOn THEN "braking" ELSE "reading"
  /\ backlog' = 0
  /\ UNCHANGED sent

BrakeDone ==
  /\ reader = "braking"
  /\ reader' = "reading"
  /\ UNCHANGED <<sent, unread, current_state, backlog>>

\* A message may be under way.
Boot ==
  /\ reader = "off"
  /\ reader' = "reading"
  /\ unread' \in {Nothing, sent} \cup Junk
  /\ UNCHANGED <<sent, current_state, backlog>>

Reset ==
  /\ reader # "off"
  /\ reader' = "off"
  /\ unread' = Nothing
  /\ current_state' = 0
  /\ backlog' = 0
  /\ UNCHANGED sent

Next ==
  (\E state \in StateId : Write(state)) \/ Read \/ BrakeDone \/ Boot \/ Reset

Spec == Init /\ [][Next]_vars
=============================================================================
