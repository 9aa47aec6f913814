---------------------------- MODULE SlidingVote ----------------------------
(***************************************************************************)
(* What the Raspberry Pi's vote promises, without the ring it is kept in:  *)
(* the state of the car is decided over the last WindowSize marks, oldest  *)
(* first, and every measurement pushes one mark and forgets the oldest.    *)
(* Voting.tla (the array last_states and its index i) implements this.     *)
(***************************************************************************)
EXTENDS Integers, FiniteSets

CONSTANTS
  WindowSize,      \* number of marks the vote remembers
  AlarmLimit,      \* alarms tolerated before the brake
  CollisionLimit,  \* pre-collision marks tolerated before the warning
  NormalLimit      \* normal marks tolerated before the release

VARIABLES
  window,    \* the last WindowSize marks, window[WindowSize] the newest
  decision   \* the state of the car

vars == <<window, decision>>

NORMAL       == 0
PRECOLLISION == 1
AUTOBRAKE    == 2

Age == 1 .. WindowSize

Marks(id) == Cardinality({k \in Age : window[k] = id})

Push(mark) ==
  window' = [k \in Age |-> IF k = WindowSize THEN mark ELSE window[k + 1]]

Init ==
  /\ window = [k \in Age |-> NORMAL]
  /\ decision = NORMAL

-----------------------------------------------------------------------------

\* An obstacle closer than the braking distance, with enough alarms behind it.
Brake ==
  /\ Marks(PRECOLLISION) + Marks(AUTOBRAKE) > AlarmLimit
  /\ decision' = AUTOBRAKE
  /\ Push(AUTOBRAKE)

\* An obstacle closer than the warning distance, with enough warnings behind it.
Warn ==
  /\ Marks(PRECOLLISION) > CollisionLimit
  /\ decision' = PRECOLLISION
  /\ Push(PRECOLLISION)

\* A free road, with enough free road behind it.
Release ==
  /\ Marks(NORMAL) > NormalLimit
  /\ decision' = NORMAL
  /\ Push(NORMAL)

\* Without enough marks behind it a measurement is remembered and decides
\* nothing.
Remember ==
  /\ UNCHANGED decision
  /\ \/ /\ Marks(PRECOLLISION) + Marks(AUTOBRAKE) <= AlarmLimit
        /\ Push(PRECOLLISION)
     \/ /\ Marks(PRECOLLISION) <= CollisionLimit
        /\ Push(PRECOLLISION)
     \/ /\ Marks(NORMAL) <= NormalLimit
        /\ Push(NORMAL)

Next == Brake \/ Warn \/ Release \/ Remember

Spec == Init /\ [][Next]_vars
=============================================================================
