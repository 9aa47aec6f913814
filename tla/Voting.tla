------------------------------- MODULE Voting -------------------------------
(***************************************************************************)
(* The decision of ECU_RASP/main.py: get_median_distances_thread turns     *)
(* every distance into a zone, votes over the array last_states and sends  *)
(* the state of the car to the ESP32.  One action is one branch of the     *)
(* thread's if/elif/else (lines 268-306) together with what every          *)
(* iteration does after it: the write to the serial port and the advance   *)
(* of the index.  The distances themselves are in Ecu.tla; here a zone is  *)
(* an input.                                                               *)
(***************************************************************************)
EXTENDS Integers, FiniteSets

CONSTANTS
  EVENTS_ARRAY_SIZE,
  COUNT_AUTOBRAKE_FALSE_ALARM,
  COUNT_PRECOLLISION_FALSE_ALARM,
  COUNT_NORMAL_FALSE_ALARM

ASSUME VotingAssumption ==
  /\ EVENTS_ARRAY_SIZE \in Nat \ {0}
  /\ COUNT_AUTOBRAKE_FALSE_ALARM \in Nat
  /\ COUNT_PRECOLLISION_FALSE_ALARM \in Nat
  /\ COUNT_NORMAL_FALSE_ALARM \in Nat

VARIABLES
  last_states,    \* the ring of marks
  i,              \* the slot the next mark goes to
  current_state,  \* the state of the car, sent to the ESP32
  ser             \* the last message written to the serial port

vars == <<last_states, i, current_state, ser>>

NORMAL_STATE_ID       == 0
PRECOLLISION_STATE_ID == 1
AUTOBRAKE_STATE_ID    == 2

StateId == {NORMAL_STATE_ID, PRECOLLISION_STATE_ID, AUTOBRAKE_STATE_ID}

\* less_distance < AUTOBRAKE_DIST, < COLLISION_DIST, and beyond both
Zone == {"near", "mid", "far"}

Slot == 0 .. EVENTS_ARRAY_SIZE - 1

Message == [state : StateId, index : Slot]
NoMessage == [state |-> NORMAL_STATE_ID, index |-> -1]

TypeOK ==
  /\ last_states \in [Slot -> StateId]
  /\ i \in Slot
  /\ current_state \in StateId
  /\ ser \in Message \cup {NoMessage}

-----------------------------------------------------------------------------

\* list.count
count(id) == Cardinality({k \in Slot : last_states[k] = id})

Alarms == count(PRECOLLISION_STATE_ID) + count(AUTOBRAKE_STATE_ID)

\* Faulty: the last slot of the ring is never written.
NextSlotEarly == IF i >= EVENTS_ARRAY_SIZE - 2 THEN 0 ELSE i + 1

NextSlot == IF i >= EVENTS_ARRAY_SIZE - 1 THEN 0 ELSE i + 1

\* What every branch ends in: the mark is stored, the message carries the
\* state just decided and the slot just written, the index advances.
Record(mark) ==
  /\ last_states' = [last_states EXCEPT ![i] = mark]
  /\ ser' = [state |-> current_state', index |-> i]
  /\ i' = NextSlot

Init ==
  /\ last_states = [k \in Slot |-> NORMAL_STATE_ID]
  /\ i = 0
  /\ current_state = NORMAL_STATE_ID
  /\ ser = NoMessage

\* Faulty: the tolerance is off by one.
AutobrakeEager ==
  /\ Alarms >= COUNT_AUTOBRAKE_FALSE_ALARM
  /\ current_state' = AUTOBRAKE_STATE_ID
  /\ Record(AUTOBRAKE_STATE_ID)

Autobrake ==
  /\ Alarms > COUNT_AUTOBRAKE_FALSE_ALARM
  /\ current_state' = AUTOBRAKE_STATE_ID
  /\ Record(AUTOBRAKE_STATE_ID)

\* Faulty: a near obstacle that does not brake yet is not remembered.
AlmostAutobrakeForgets ==
  /\ Alarms <= COUNT_AUTOBRAKE_FALSE_ALARM
  /\ UNCHANGED current_state
  /\ Record(last_states[i])

AlmostAutobrake ==
  /\ Alarms <= COUNT_AUTOBRAKE_FALSE_ALARM
  /\ UNCHANGED current_state
  /\ Record(PRECOLLISION_STATE_ID)

Collision ==
  /\ count(PRECOLLISION_STATE_ID) > COUNT_PRECOLLISION_FALSE_ALARM
  /\ current_state' = PRECOLLISION_STATE_ID
  /\ Record(PRECOLLISION_STATE_ID)

AlmostCollision ==
  /\ count(PRECOLLISION_STATE_ID) <= COUNT_PRECOLLISION_FALSE_ALARM
  /\ UNCHANGED current_state
  /\ Record(PRECOLLISION_STATE_ID)

Normal ==
  /\ count(NORMAL_STATE_ID) > COUNT_NORMAL_FALSE_ALARM
  /\ current_state' = NORMAL_STATE_ID
  /\ Record(NORMAL_STATE_ID)

AlmostNormal ==
  /\ count(NORMAL_STATE_ID) <= COUNT_NORMAL_FALSE_ALARM
  /\ UNCHANGED current_state
  /\ Record(NORMAL_STATE_ID)

Near == Autobrake \/ AlmostAutobrake
Mid  == Collision \/ AlmostCollision
Far  == Normal \/ AlmostNormal

Vote(zone) ==
  \/ zone = "near" /\ Near
  \/ zone = "mid"  /\ Mid
  \/ zone = "far"  /\ Far

Next == \E zone \in Zone : Vote(zone)

Spec == Init /\ [][Next]_vars

-----------------------------------------------------------------------------

\* The slot of the k-th oldest mark: the ring read from i onwards.
SlotOfAge(k) ==
  IF i + k - 1 < EVENTS_ARRAY_SIZE THEN i + k - 1
                                   ELSE i + k - 1 - EVENTS_ARRAY_SIZE

\* The array as a window, the oldest mark first.
Window == [k \in 1 .. EVENTS_ARRAY_SIZE |-> last_states[SlotOfAge(k)]]

Sliding == INSTANCE SlidingVote WITH
  WindowSize     <- EVENTS_ARRAY_SIZE,
  AlarmLimit     <- COUNT_AUTOBRAKE_FALSE_ALARM,
  CollisionLimit <- COUNT_PRECOLLISION_FALSE_ALARM,
  NormalLimit    <- COUNT_NORMAL_FALSE_ALARM,
  window         <- Window,
  decision       <- current_state

\* The array with its wrapping index is a sliding window: what is decided is
\* decided over the last EVENTS_ARRAY_SIZE marks and no others, whatever slot
\* the index is at (main.py lines 268-306 and 323).
IsSlidingVote == Sliding!Spec
=============================================================================
