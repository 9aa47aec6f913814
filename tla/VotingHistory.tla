--------------------------- MODULE VotingHistory ---------------------------
(***************************************************************************)
(* Voting.tla with history variables: the zones actually measured, which   *)
(* the code forgets as soon as it has turned them into marks.  They let    *)
(* the properties relate a decision to the road rather than to the array.  *)
(***************************************************************************)
EXTENDS Voting

ASSUME WindowIsLongEnough ==
  /\ COUNT_AUTOBRAKE_FALSE_ALARM + 2 <= EVENTS_ARRAY_SIZE
  /\ COUNT_PRECOLLISION_FALSE_ALARM + 2 <= EVENTS_ARRAY_SIZE
  /\ COUNT_NORMAL_FALSE_ALARM + 2 <= EVENTS_ARRAY_SIZE

VARIABLES
  recent,   \* the zones of the last EVENTS_ARRAY_SIZE samples, newest last
  calm      \* far samples since the last decision to brake, up to CalmBound

histVars == <<last_states, i, current_state, ser, recent, calm>>

Age == 1 .. EVENTS_ARRAY_SIZE

\* calm stops counting here: the property that reads it asks for no more.
CalmBound == COUNT_NORMAL_FALSE_ALARM + 1

\* The array is initialised with NORMAL_STATE_ID: as if the road had been free.
HistInit ==
  /\ Init
  /\ recent = [k \in Age |-> "far"]
  /\ calm = CalmBound

Observe(zone) ==
  /\ recent' = [k \in Age |->
                  IF k = EVENTS_ARRAY_SIZE THEN zone ELSE recent[k + 1]]
  /\ calm' = CASE zone = "near" /\ current_state' = AUTOBRAKE_STATE_ID -> 0
               [] zone = "far" /\ calm < CalmBound -> calm + 1
               [] OTHER -> calm

HistNext == \E zone \in Zone : Vote(zone) /\ Observe(zone)

HistSpec == HistInit /\ [][HistNext]_histVars

HistTypeOK ==
  /\ TypeOK
  /\ recent \in [Age -> Zone]
  /\ calm \in 0 .. CalmBound

-----------------------------------------------------------------------------

\* The last n samples were all in one of the zones of Z.
Run(n, Z) == \A k \in Age : k > EVENTS_ARRAY_SIZE - n => recent[k] \in Z

Seen(Z) == Cardinality({k \in Age : recent[k] \in Z})

\* However the array was filled before, an obstacle that stays is acted upon
\* after a bounded number of samples: two more than the tolerated false
\* alarms, the last one in the zone that decides (main.py lines 268-306).
BrakesInTime ==
  /\ Run(COUNT_AUTOBRAKE_FALSE_ALARM + 2, {"near", "mid"})
  /\ Run(1, {"near"})
  => current_state = AUTOBRAKE_STATE_ID

WarnsInTime ==
  Run(COUNT_PRECOLLISION_FALSE_ALARM + 2, {"mid"})
    => current_state = PRECOLLISION_STATE_ID

ReleasesInTime ==
  Run(COUNT_NORMAL_FALSE_ALARM + 2, {"far"})
    => current_state = NORMAL_STATE_ID

\* The vote reacts in time: the state of the car cannot lag behind a road that
\* has been the same for longer than the tolerance.
DecidesInTime == BrakesInTime /\ WarnsInTime /\ ReleasesInTime

\* What the zone of a sample leaves in the array: the branch of the vote it
\* went through.
MarksOf(zone) ==
  CASE zone = "near" -> {PRECOLLISION_STATE_ID, AUTOBRAKE_STATE_ID}
    [] zone = "mid"  -> {PRECOLLISION_STATE_ID}
    [] zone = "far"  -> {NORMAL_STATE_ID}

\* The array remembers the road: slot by slot, each mark is one that the
\* sample of that age can have left.
RemembersTheRoad == \A k \in Age : Window[k] \in MarksOf(recent[k])

\* A change of state never comes from a few outliers: more samples than the
\* tolerated false alarms, among those the array remembers, must speak for it
\* (main.py lines 271, 285 and 298).
ChangesTo(id) == current_state # id /\ current_state' = id

EvidenceForChange ==
  [][/\ ChangesTo(AUTOBRAKE_STATE_ID)
          => Seen({"near", "mid"}) > COUNT_AUTOBRAKE_FALSE_ALARM
     /\ ChangesTo(PRECOLLISION_STATE_ID)
          => Seen({"near", "mid"}) > COUNT_PRECOLLISION_FALSE_ALARM
     /\ ChangesTo(NORMAL_STATE_ID)
          => Seen({"far"}) > COUNT_NORMAL_FALSE_ALARM]_histVars

\* main.py line 57 calls COUNT_NORMAL_FALSE_ALARM the number of false alarms
\* tolerated before the state goes back to Normal: after a decision to brake,
\* that many far samples leave the brake on.
ToleratesFalseNormals ==
  [][/\ current_state = AUTOBRAKE_STATE_ID
     /\ current_state' = NORMAL_STATE_ID
     => calm' > COUNT_NORMAL_FALSE_ALARM]_histVars
=============================================================================
