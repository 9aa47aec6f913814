-------------------------- MODULE AdasSystemProofs --------------------------
(***************************************************************************)
(* Theorems about AdasSystem.tla, for every array, every tolerance and     *)
(* every backlog of a brake.                                               *)
(***************************************************************************)
EXTENDS AdasSystem, FiniteSetTheorems, TLAPS

\* Samples of a zone in a row after which the vote has decided.
Deciding(zone) == Tolerance(zone) + 2

\* The marks that a zone leaves in the ring.
MarksOf(zone) == CASE zone = "near" -> {1, 2} [] zone = "mid" -> {1} [] OTHER -> {0}

\* The slot of the k-th latest mark: the ring read backwards from its index.
SlotBack(k) == IF k <= i THEN i - k ELSE i - k + EVENTS_ARRAY_SIZE

\* The marks of a streak are those of its zone, and one longer than the
\* tolerance has been decided upon.
StreakMarks ==
  /\ \A k \in 1 .. EVENTS_ARRAY_SIZE :
       k <= streak.samples => last_states[SlotBack(k)] \in MarksOf(streak.zone)
  /\ streak.samples >= Deciding(streak.zone) => decision = StateOf(streak.zone)

\* What the line holds of a streak: the message that waits is a decision of it
\* if the streak is longer than the backlog that the message is the first of.
LineFollows ==
  /\ reader = "off" => streak.samples = 0 /\ unread = -1
  /\ reader = "braking" =>
       /\ current_state = AUTOBRAKE
       /\ unread # -1 => backlog >= 1
  /\ unread = -1 => backlog = 0
  /\ unread # -1 =>
       /\ backlog = 0 /\ streak.samples >= Deciding(streak.zone)
            => unread = StateOf(streak.zone)
       /\ backlog >= 1 /\ streak.samples + 1 >= Deciding(streak.zone) + backlog
            => unread = StateOf(streak.zone)

\* The message that waits is one of the last, and after a brake the first of
\* its backlog.
WaitingIsRecent ==
  /\ reader = "off" => reads = 0
  /\ reads >= 1 /\ unread # -1 =>
       /\ \E k \in 1 .. BrakeMessages : unread = lately[k]
       /\ backlog >= 1 => unread = lately[BrakeMessages - backlog + 1]

IInv == TypeOK /\ StreakMarks /\ LineFollows /\ WaitingIsRecent /\ ReactsInTime

\* The parameters as numbers.
LEMMA Parameters ==
  /\ EVENTS_ARRAY_SIZE \in Nat /\ EVENTS_ARRAY_SIZE >= 2
  /\ BrakeMessages \in Nat /\ BrakeMessages >= 1
  /\ \A byte \in Junk : byte \in Nat
  BY AdasSystemAssumption

\* The numbers of a zone.
LEMMA ZoneParameters ==
  ASSUME NEW zone \in V!Zone
  PROVE  /\ Tolerance(zone) \in Nat /\ Tolerance(zone) + 2 <= EVENTS_ARRAY_SIZE
         /\ ReactionTime(zone) \in Nat /\ Deciding(zone) \in Nat
         /\ ReactionTime(zone) = Tolerance(zone) + 1 + BrakeMessages
         /\ Deciding(zone) = Tolerance(zone) + 2
         /\ Deciding(zone) <= ReactionTime(zone) /\ Deciding(zone) >= 2
         /\ StateOf(zone) \in 0 .. 2
<1>1. Tolerance(zone) \in Nat /\ Tolerance(zone) + 2 <= EVENTS_ARRAY_SIZE
  BY AdasSystemAssumption DEF Tolerance, V!Zone
<1>2. StateOf(zone) \in 0 .. 2
  BY DEF StateOf
<1> QED
  BY <1>1, <1>2, Parameters DEF ReactionTime, Deciding

-----------------------------------------------------------------------------

(***************************************************************************)
(* The vote.                                                               *)
(***************************************************************************)

\* Every branch stores one mark, one of its zone, and keeps
\* the variables of the vote in their types.
LEMMA VoteRecords ==
  ASSUME V!TypeOK, NEW zone \in V!Zone, V!Vote(zone)
  PROVE  /\ V!TypeOK'
         /\ decision' \in 0 .. 2
         /\ \E mark \in 0 .. 2 : V!Record(mark) /\ mark \in MarksOf(zone)
<1> USE DEF V!NORMAL_STATE_ID, V!PRECOLLISION_STATE_ID, V!AUTOBRAKE_STATE_ID
<1>1. decision' \in 0 .. 2
  BY DEF V!TypeOK, V!StateId, V!Vote, V!Near, V!Mid, V!Far, V!Autobrake,
     V!AlmostAutobrake, V!Collision, V!AlmostCollision, V!Normal, V!AlmostNormal
<1>2. \E mark \in 0 .. 2 : V!Record(mark) /\ mark \in MarksOf(zone)
  BY DEF MarksOf, V!Zone, V!Vote, V!Near, V!Mid, V!Far, V!Autobrake, V!AlmostAutobrake,
     V!Collision, V!AlmostCollision, V!Normal, V!AlmostNormal
<1>3. PICK mark \in 0 .. 2 : V!Record(mark)
  BY <1>2
<1>4. i \in 0 .. EVENTS_ARRAY_SIZE - 1
  BY DEF V!TypeOK, V!Slot
<1>5. i' \in 0 .. EVENTS_ARRAY_SIZE - 1
  BY <1>3, <1>4, Parameters DEF V!Record, V!NextSlot
<1>6. last_states' \in [V!Slot -> V!StateId]
  BY <1>3 DEF V!Record, V!TypeOK, V!StateId
<1>7. ser' \in V!Message
  BY <1>1, <1>3, <1>4 DEF V!Record, V!Message, V!StateId, V!Slot
<1>8. V!TypeOK'
  BY <1>1, <1>5, <1>6, <1>7 DEF V!TypeOK, V!StateId, V!Slot
<1> QED
  BY <1>1, <1>2, <1>8

\* A stored mark is the latest, and the others are one step older.
LEMMA MarksAge ==
  ASSUME V!TypeOK, NEW mark, V!Record(mark),
         NEW k \in 1 .. EVENTS_ARRAY_SIZE
  PROVE  last_states'[SlotBack(k)'] =
           IF k = 1 THEN mark ELSE last_states[SlotBack(k - 1)]
<1> USE Parameters
<1>1. i \in 0 .. EVENTS_ARRAY_SIZE - 1 /\ last_states \in [V!Slot -> V!StateId]
  BY DEF V!TypeOK, V!Slot
<1>2. i' = IF i >= EVENTS_ARRAY_SIZE - 1 THEN 0 ELSE i + 1
  BY DEF V!Record, V!NextSlot
<1>3. last_states' = [last_states EXCEPT ![i] = mark]
  BY DEF V!Record
<1>4. CASE k = 1
  <2>1. SlotBack(k)' = i
    BY <1>1, <1>2, <1>4 DEF SlotBack
  <2> QED
    BY <1>1, <1>3, <1>4, <2>1 DEF V!Slot
<1>5. CASE k # 1
  <2>1. SlotBack(k)' = SlotBack(k - 1) /\ SlotBack(k - 1) # i
        /\ SlotBack(k - 1) \in 0 .. EVENTS_ARRAY_SIZE - 1
    BY <1>1, <1>2, <1>5 DEF SlotBack
  <2> QED
    BY <1>1, <1>3, <1>5, <2>1 DEF V!Slot
<1> QED
  BY <1>4, <1>5

\* The latest n slots of the ring are n of them.
LEMMA LatestAreMany ==
  ASSUME V!TypeOK, NEW n \in 0 .. EVENTS_ARRAY_SIZE,
         NEW T \in SUBSET V!Slot,
         \A k \in 1 .. n : SlotBack(k) \in T
  PROVE  IsFiniteSet(T) /\ Cardinality(T) \in Nat /\ n <= Cardinality(T)
<1> USE Parameters
<1>1. i \in 0 .. EVENTS_ARRAY_SIZE - 1
  BY DEF V!TypeOK, V!Slot
<1>2. IsFiniteSet(T)
  <2>1. IsFiniteSet(V!Slot)
    BY FS_Interval DEF V!Slot
  <2> QED
    BY <2>1, FS_Subset
<1> DEFINE f == [k \in 1 .. n |-> SlotBack(k)]
<1>3. f \in Injection(1 .. n, T)
  <2>1. f \in [1 .. n -> T]
    OBVIOUS
  <2>2. \A k, m \in 1 .. n : SlotBack(k) = SlotBack(m) => k = m
    BY <1>1 DEF SlotBack
  <2> QED
    BY <2>1, <2>2 DEF Injection, IsInjective
<1>4. Cardinality(1 .. n) <= Cardinality(T)
  <2> HIDE DEF f
  <2> QED
    BY <1>2, <1>3, FS_Injection
<1>5. Cardinality(1 .. n) = n
  BY FS_Interval
<1> QED
  BY <1>2, <1>4, <1>5, FS_CardinalityType

\* A slot holds one mark: the two counts of the first branch add up to the
\* number of alarms in the ring.
LEMMA AlarmsAdd ==
  ASSUME V!TypeOK
  PROVE  V!Alarms = Cardinality({k \in V!Slot : last_states[k] \in {1, 2}})
<1> DEFINE S == {k \in V!Slot : last_states[k] = 1}
           T == {k \in V!Slot : last_states[k] = 2}
<1>1. IsFiniteSet(S) /\ IsFiniteSet(T)
  <2>1. IsFiniteSet(V!Slot)
    BY FS_Interval, Parameters DEF V!Slot
  <2> QED
    BY <2>1, FS_Subset
<1>2. Cardinality(S \cap T) = 0
  <2>1. S \cap T = {}
    OBVIOUS
  <2> QED
    BY <2>1, FS_EmptySet
<1>3. S \cup T = {k \in V!Slot : last_states[k] \in {1, 2}}
  OBVIOUS
<1>4. V!Alarms = Cardinality(S) + Cardinality(T)
  BY DEF V!Alarms, V!count, V!PRECOLLISION_STATE_ID, V!AUTOBRAKE_STATE_ID,
     V!Cardinality, Cardinality
<1>5. Cardinality(S) \in Nat /\ Cardinality(T) \in Nat
  BY <1>1, FS_CardinalityType
<1>6. Cardinality(S \cup T)
        = Cardinality(S) + Cardinality(T) - Cardinality(S \cap T)
  BY <1>1, FS_Union
<1>7. V!Alarms = Cardinality(S \cup T)
  <2> HIDE DEF S, T
  <2> QED
    BY <1>2, <1>4, <1>5, <1>6
<1> QED
  BY <1>3, <1>7

\* A streak longer than the tolerance has so many marks of its zone.
LEMMA StreakCounts ==
  ASSUME V!TypeOK, StreakMarks, streak.zone \in V!Zone, streak.samples \in Nat,
         streak.samples + 1 >= Deciding(streak.zone)
  PROVE  LET T == {k \in V!Slot : last_states[k] \in MarksOf(streak.zone)} IN
         Cardinality(T) \in Nat /\ Tolerance(streak.zone) < Cardinality(T)
<1> DEFINE t == Tolerance(streak.zone)
           n == t + 1
           T == {k \in V!Slot : last_states[k] \in MarksOf(streak.zone)}
<1>0. t \in Nat /\ t + 2 <= EVENTS_ARRAY_SIZE /\ n <= streak.samples
  BY ZoneParameters
<1> HIDE DEF t
<1>1. n \in 0 .. EVENTS_ARRAY_SIZE
  BY <1>0, Parameters
<1>2. \A k \in 1 .. n : SlotBack(k) \in T
  <2> TAKE k \in 1 .. n
  <2>1. k \in 1 .. EVENTS_ARRAY_SIZE /\ k <= streak.samples
    BY <1>0, Parameters
  <2>2. last_states[SlotBack(k)] \in MarksOf(streak.zone)
    BY <2>1 DEF StreakMarks
  <2>3. SlotBack(k) \in V!Slot
    BY <2>1, Parameters DEF SlotBack, V!Slot, V!TypeOK
  <2> QED
    BY <2>2, <2>3
<1>3. Cardinality(T) \in Nat /\ n <= Cardinality(T)
  <2> HIDE DEF n
  <2>1. T \in SUBSET V!Slot
    OBVIOUS
  <2> HIDE DEF T
  <2> QED
    BY <1>1, <1>2, <2>1, LatestAreMany
<1>4. t < Cardinality(T)
  <2> HIDE DEF T
  <2> QED
    BY <1>0, <1>3
<1> QED
  BY <1>3, <1>4 DEF t

\* After more samples of a zone than its tolerance, the next one decides.
LEMMA StreakDecides ==
  ASSUME V!TypeOK, StreakMarks, streak.zone \in V!Zone, streak.samples \in Nat,
         streak.samples + 1 >= Deciding(streak.zone), V!Vote(streak.zone)
  PROVE  decision' = StateOf(streak.zone)
<1> DEFINE c(marks) == Cardinality({k \in V!Slot : last_states[k] \in marks})
<1>1. /\ c(MarksOf(streak.zone)) \in Nat
      /\ Tolerance(streak.zone) < c(MarksOf(streak.zone))
  BY StreakCounts
<1>2. CASE streak.zone = "near"
  <2>1. V!Alarms = c({1, 2})
    BY AlarmsAdd
  <2> HIDE DEF c
  <2>2. ~ V!AlmostAutobrake
    BY <1>1, <1>2, <2>1, AdasSystemAssumption
    DEF MarksOf, Tolerance, V!AlmostAutobrake
  <2> QED
    BY <1>2, <2>2 DEF V!Vote, V!Near, V!Autobrake, V!AUTOBRAKE_STATE_ID, StateOf
<1>3. CASE streak.zone = "mid"
  <2>1. V!count(V!PRECOLLISION_STATE_ID) = c({1})
    BY DEF V!count, V!PRECOLLISION_STATE_ID, V!Cardinality, Cardinality
  <2> HIDE DEF c
  <2>2. ~ V!AlmostCollision
    BY <1>1, <1>3, <2>1, AdasSystemAssumption
    DEF MarksOf, Tolerance, V!AlmostCollision
  <2> QED
    BY <1>3, <2>2
    DEF V!Vote, V!Mid, V!Collision, V!PRECOLLISION_STATE_ID, StateOf
<1>4. CASE streak.zone = "far"
  <2>1. V!count(V!NORMAL_STATE_ID) = c({0})
    BY DEF V!count, V!NORMAL_STATE_ID, V!Cardinality, Cardinality
  <2> HIDE DEF c
  <2>2. ~ V!AlmostNormal
    BY <1>1, <1>4, <2>1, AdasSystemAssumption
    DEF MarksOf, Tolerance, V!AlmostNormal
  <2> QED
    BY <1>4, <2>2 DEF V!Vote, V!Far, V!Normal, V!NORMAL_STATE_ID, StateOf
<1> QED
  BY <1>2, <1>3, <1>4 DEF V!Zone

-----------------------------------------------------------------------------

(***************************************************************************)
(* The invariant.                                                          *)
(***************************************************************************)

LEMMA Starts == Init => IInv
<1> SUFFICES ASSUME Init PROVE IInv
  OBVIOUS
<1> USE Parameters DEF Init, V!Init, Link!Init, V!NORMAL_STATE_ID,
        Link!Nothing
<1>1. V!TypeOK
  BY DEF V!TypeOK, V!StateId, V!Slot
<1>s. "far" \in V!Zone
  BY DEF V!Zone
<1>2. TypeOK
  BY <1>1, <1>s, ZoneParameters DEF TypeOK, Motion
<1>3. StreakMarks /\ LineFollows /\ WaitingIsRecent /\ ReactsInTime
  BY <1>s, ZoneParameters
  DEF StreakMarks, LineFollows, WaitingIsRecent, ReactsInTime, Quiet
<1> QED
  BY <1>2, <1>3 DEF IInv

\* A sample, its vote and its message.
LEMMA SampleStep ==
  ASSUME IInv, NEW zone \in V!Zone, Sample(zone)
  PROVE  IInv'
<1> USE Parameters
<1>t. TypeOK /\ V!TypeOK /\ StreakMarks /\ LineFollows /\ WaitingIsRecent
  BY DEF IInv, TypeOK
<1>s. streak.zone \in V!Zone /\ streak.samples \in Nat
      /\ streak.samples <= ReactionTime(streak.zone)
  BY <1>t DEF TypeOK
<1>z. /\ ReactionTime(zone) \in Nat /\ Deciding(zone) \in Nat
      /\ Deciding(zone) <= ReactionTime(zone) /\ Deciding(zone) >= 2
  BY ZoneParameters
<1>1. V!TypeOK' /\ decision' \in 0 .. 2
  BY <1>t, VoteRecords DEF Sample
<1>2. PICK mark \in 0 .. 2 :
        V!Record(mark) /\ mark \in MarksOf(zone)
  BY <1>t, VoteRecords DEF Sample
<1>3. /\ streak'.zone = zone /\ streak'.samples \in 0 .. ReactionTime(zone)
      /\ streak' \in [zone : V!Zone, samples : Nat]
      /\ reader = "off" => streak'.samples = 0
      /\ \/ streak'.samples <= 1
         \/ streak.zone = zone /\ streak'.samples <= streak.samples + 1
  BY <1>s, <1>z DEF Sample
<1>4. /\ reader' = reader /\ current_state' = current_state /\ pi' = pi
      /\ brake' = brake /\ pending' = pending /\ motors' = motors
      /\ phone' = phone /\ reads' = reads
  BY DEF Sample, Link!Write, carVars
<1>5. /\ sent' = decision'
      /\ unread' = IF reader # "off" /\ unread = -1 THEN decision' ELSE unread
      /\ backlog' = IF reader = "braking" \/ unread # -1 THEN backlog + 1 ELSE 0
      /\ reader = "braking" \/ unread # -1 => backlog < BrakeMessages
      /\ reader = "reading" /\ unread # -1 => backlog >= 1
  BY DEF Sample, Link!Write, Link!PilesUp, Link!Nothing
<1>6. /\ lately' \in [1 .. BrakeMessages -> 0 .. 2]
      /\ lately'[BrakeMessages] = decision'
      /\ \A k \in 1 .. BrakeMessages - 1 : lately'[k] = lately[k + 1]
  BY <1>1, <1>t DEF Sample, TypeOK
<1>7. TypeOK'
  <2>1. streak'.samples <= ReactionTime(streak'.zone)
    BY <1>3, <1>z
  <2> QED
    BY <1>1, <1>3, <1>4, <1>5, <1>6, <1>t, <2>1 DEF TypeOK, ReactionTime, Tolerance
<1>8. streak'.samples >= Deciding(zone) => decision' = StateOf(zone)
  <2> SUFFICES ASSUME streak'.samples >= Deciding(zone)
               PROVE  decision' = StateOf(zone)
    OBVIOUS
  <2>1. streak.zone = zone /\ streak.samples + 1 >= Deciding(zone)
    BY <1>3, <1>s, <1>z
  <2> QED
    BY <2>1, <1>s, <1>t, StreakDecides DEF Sample
<1>9. StreakMarks'
  <2>1. ASSUME NEW k \in 1 .. EVENTS_ARRAY_SIZE, k <= streak'.samples
        PROVE  last_states'[SlotBack(k)'] \in MarksOf(zone)
    <3>1. CASE k = 1
      BY <3>1, <1>2, <1>t, MarksAge
    <3>2. CASE k # 1
      <4>1. k - 1 \in 1 .. EVENTS_ARRAY_SIZE /\ k - 1 <= streak.samples
            /\ streak.zone = zone
        BY <2>1, <3>2, <1>3, <1>s
      <4>2. last_states[SlotBack(k - 1)] \in MarksOf(zone)
        BY <4>1, <1>t DEF StreakMarks
      <4> QED
        BY <3>2, <4>2, <1>2, <1>t, MarksAge
    <3> QED
      BY <3>1, <3>2
  <2> QED
    BY <2>1, <1>3, <1>8 DEF StreakMarks, Deciding, Tolerance, StateOf, MarksOf
<1>b. /\ reader \in {"off", "reading", "braking"} /\ backlog \in 0 .. BrakeMessages
      /\ reads \in 0 .. 2
  BY <1>t DEF TypeOK
<1>10. LineFollows'
  <2>1. CASE reader = "off"
    BY <2>1, <1>3, <1>4, <1>5, <1>t DEF LineFollows
  <2>2. CASE reader # "off" /\ unread = -1
    <3>1. unread' = decision' /\ decision' # -1
          /\ backlog' \in {0, 1} /\ (reader = "braking" => backlog' = 1)
      BY <2>2, <1>1, <1>5, <1>t DEF LineFollows
    <3>2. streak'.samples >= Deciding(zone) => unread' = StateOf(zone)
      BY <3>1, <1>8
    <3>3. streak'.samples + 1 >= Deciding(zone) + backlog' /\ backlog' >= 1
            => streak'.samples >= Deciding(zone)
      BY <3>1, <1>3, <1>z
    <3>4. reader = "braking" => current_state' = AUTOBRAKE /\ backlog' >= 1
      BY <3>1, <1>4, <1>t DEF LineFollows
    <3> QED
      BY <2>2, <3>1, <3>2, <3>3, <3>4, <1>3, <1>4
      DEF LineFollows, Deciding, Tolerance, StateOf
  <2>3. CASE reader # "off" /\ unread # -1
    <3>1. unread' = unread /\ backlog >= 1 /\ backlog' = backlog + 1
      BY <2>3, <1>5, <1>b, <1>t DEF LineFollows
    <3>2. streak'.samples + 1 >= Deciding(zone) + backlog'
            => /\ streak.zone = zone
               /\ streak.samples + 1 >= Deciding(zone) + backlog
      BY <3>1, <1>3, <1>s, <1>z, <1>b
    <3>3. streak'.samples + 1 >= Deciding(zone) + backlog' => unread' = StateOf(zone)
      BY <2>3, <3>1, <3>2, <1>t DEF LineFollows
    <3>4. reader = "braking" => current_state' = AUTOBRAKE
      BY <1>4, <1>t DEF LineFollows
    <3> QED
      BY <2>3, <3>1, <3>3, <3>4, <1>3, <1>4, <1>b
      DEF LineFollows, Deciding, Tolerance, StateOf
  <2> QED
    BY <2>1, <2>2, <2>3
<1>11. WaitingIsRecent'
  <2>1. CASE reads = 0
    BY <2>1, <1>4 DEF WaitingIsRecent
  <2>2. CASE reads # 0 /\ unread = -1
    <3>1. reader # "off"
      BY <2>2, <1>t DEF WaitingIsRecent
    <3>2. unread' = lately'[BrakeMessages] /\ backlog' \in {0, 1}
      BY <2>2, <3>1, <1>5, <1>6, <1>t DEF LineFollows
    <3>3. /\ BrakeMessages \in 1 .. BrakeMessages
          /\ backlog' >= 1 => BrakeMessages - backlog' + 1 = BrakeMessages
      <4>1. CASE backlog' = 0
        BY <4>1
      <4>2. CASE backlog' = 1
        BY <4>2
      <4> QED
        BY <3>2, <4>1, <4>2
    <3> QED
      BY <3>1, <3>2, <3>3, <1>4 DEF WaitingIsRecent
  <2>3. CASE reads # 0 /\ unread # -1
    <3>1. reader # "off" /\ reads >= 1
      BY <2>3, <1>b, <1>t DEF WaitingIsRecent
    <3>2. backlog \in 1 .. BrakeMessages - 1
      BY <2>3, <3>1, <1>5, <1>b, <1>t DEF LineFollows
    <3>3. unread = lately[BrakeMessages - backlog + 1]
      BY <2>3, <3>1, <3>2, <1>t DEF WaitingIsRecent
    <3>4. /\ BrakeMessages - backlog \in 1 .. BrakeMessages - 1
          /\ BrakeMessages - backlog' + 1 = BrakeMessages - backlog
          /\ unread' = unread
      BY <2>3, <3>2, <1>5
    <3>5. unread' = lately'[BrakeMessages - backlog]
      BY <3>3, <3>4, <1>6
    <3>6. BrakeMessages - backlog \in 1 .. BrakeMessages
      BY <3>4
    <3> QED
      BY <3>1, <3>4, <3>5, <3>6, <1>4 DEF WaitingIsRecent
  <2> QED
    BY <2>1, <2>2, <2>3
<1>12. ReactsInTime'
  BY <1>1, <1>4, <1>5 DEF ReactsInTime, Quiet
<1> QED
  BY <1>7, <1>9, <1>10, <1>11, <1>12 DEF IInv

\* A read acts on the message that waits.
LEMMA ReadStep ==
  ASSUME IInv, Read
  PROVE  IInv'
<1> USE Parameters
<1>t. TypeOK /\ V!TypeOK /\ StreakMarks /\ LineFollows /\ WaitingIsRecent
  BY DEF IInv, TypeOK
<1>1. /\ reader = "reading" /\ unread # -1
      /\ current_state' = unread /\ unread' = -1 /\ backlog' = 0
      /\ reader' \in {"reading", "braking"} /\ sent' = sent
      /\ reader' = "braking" => unread = AUTOBRAKE
  BY DEF Read, Link!Read, Link!BrakesOn, Link!Nothing, Link!AUTOBRAKE, AUTOBRAKE
<1>2. /\ reader' = "braking" => brake' = "pulse" /\ motors' = "backward"
      /\ reader' # "braking" => brake' = brake /\ motors' = motors
  BY DEF Read
<1>3. /\ last_states' = last_states /\ i' = i /\ decision' = decision
      /\ ser' = ser /\ pi' = pi /\ pending' = pending /\ phone' = phone
      /\ streak' = streak /\ lately' = lately
  BY DEF Read, voteVars
<1>4. reads' = IF reads < 2 THEN reads + 1 ELSE reads
  BY DEF Read
<1>5. V!TypeOK'
  BY <1>3, <1>t DEF V!TypeOK
<1>6. TypeOK'
  BY <1>1, <1>2, <1>3, <1>4, <1>5, <1>t DEF TypeOK, Motion
<1>7. StreakMarks'
  BY <1>3, <1>t DEF StreakMarks, SlotBack
<1>8. LineFollows'
  BY <1>1, <1>3, <1>t DEF LineFollows
<1>9. WaitingIsRecent'
  BY <1>1, <1>t DEF WaitingIsRecent
<1>10. ReactsInTime'
  <2>1. streak'.samples = ReactionTime(streak'.zone)
          => current_state' = StateOf(streak'.zone)
    <3>1. backlog \in 0 .. BrakeMessages /\ streak.zone \in V!Zone
      BY <1>t DEF TypeOK
    <3>2. /\ ReactionTime(streak.zone) >= Deciding(streak.zone)
          /\ ReactionTime(streak.zone) + 1 >= Deciding(streak.zone) + backlog
      BY <3>1, ZoneParameters
    <3> QED
      BY <1>1, <1>3, <1>t, <3>1, <3>2 DEF LineFollows
  <2>2. reads' = 2 => \E k \in DOMAIN lately' : current_state' = lately'[k]
    <3>1. DOMAIN lately' = 1 .. BrakeMessages /\ reads \in 0 .. 2
      BY <1>3, <1>t DEF TypeOK
    <3> QED
      BY <3>1, <1>1, <1>3, <1>4, <1>t DEF WaitingIsRecent
  <2> QED
    BY <2>1, <2>2 DEF ReactsInTime, ReactionTime, Tolerance, StateOf
<1> QED
  BY <1>6, <1>7, <1>8, <1>9, <1>10 DEF IInv

\* The brake ends, and what was sent meanwhile may wait.
LEMMA BrakeEndsStep ==
  ASSUME IInv, BrakeEnds
  PROVE  IInv'
<1> USE Parameters
<1>t. TypeOK /\ V!TypeOK /\ StreakMarks /\ LineFollows /\ WaitingIsRecent
      /\ ReactsInTime
  BY DEF IInv, TypeOK
<1>1. /\ reader = "braking" /\ reader' = "reading" /\ brake' = "none"
      /\ sent' = sent /\ unread' = unread /\ backlog' = backlog
      /\ current_state' = current_state
  BY DEF BrakeEnds, Link!BrakeDone
<1>3. /\ last_states' = last_states /\ i' = i /\ decision' = decision
      /\ ser' = ser /\ pi' = pi /\ pending' = pending /\ phone' = phone
      /\ streak' = streak /\ lately' = lately /\ reads' = reads
      /\ motors' = motors
  BY DEF BrakeEnds, voteVars, history
<1>5. V!TypeOK'
  BY <1>3, <1>t DEF V!TypeOK
<1>6. TypeOK'
  BY <1>1, <1>3, <1>5, <1>t DEF TypeOK
<1>7. StreakMarks'
  BY <1>3, <1>t DEF StreakMarks, SlotBack
<1>8. LineFollows'
  BY <1>1, <1>3, <1>t DEF LineFollows, Deciding, Tolerance, StateOf
<1>9. WaitingIsRecent'
  BY <1>1, <1>3, <1>t DEF WaitingIsRecent
<1>10. ReactsInTime'
  BY <1>1, <1>3, <1>t DEF ReactsInTime, Quiet
<1> QED
  BY <1>6, <1>7, <1>8, <1>9, <1>10 DEF IInv

\* The ESP32 starts, and a message may be under way.
LEMMA BootStep ==
  ASSUME IInv, Boot
  PROVE  IInv'
<1> USE Parameters
<1>t. TypeOK /\ V!TypeOK /\ StreakMarks /\ LineFollows /\ WaitingIsRecent
  BY DEF IInv, TypeOK
<1>1. /\ reader = "off" /\ reader' = "reading"
      /\ sent' = sent /\ backlog' = backlog /\ current_state' = current_state
      /\ unread' \in {-1, sent} \cup Junk
  BY DEF Boot, Link!Boot, Link!Nothing
<1>3. /\ last_states' = last_states /\ i' = i /\ decision' = decision
      /\ ser' = ser /\ pi' = pi /\ pending' = pending /\ phone' = phone
      /\ streak' = streak /\ lately' = lately /\ reads' = reads
      /\ motors' = motors /\ brake' = brake
  BY DEF Boot, voteVars, carVars, history
<1>4. /\ streak.samples = 0 /\ reads = 0 /\ backlog = 0
      /\ ReactionTime(streak.zone) >= 2 /\ Deciding(streak.zone) >= 2
  <2>1. streak.zone \in V!Zone
    BY <1>t DEF TypeOK
  <2> QED
    BY <2>1, <1>1, <1>t, ZoneParameters DEF LineFollows, WaitingIsRecent
<1>5. V!TypeOK'
  BY <1>3, <1>t DEF V!TypeOK
<1>6. TypeOK'
  BY <1>1, <1>3, <1>5, <1>t DEF TypeOK
<1>7. StreakMarks'
  BY <1>3, <1>t DEF StreakMarks, SlotBack
<1>8. LineFollows' /\ WaitingIsRecent'
  <2>1. ~(streak.samples >= Deciding(streak.zone))
    BY <1>4, ZoneParameters, <1>t DEF TypeOK
  <2> QED
    BY <2>1, <1>1, <1>3, <1>4
    DEF LineFollows, WaitingIsRecent, Deciding, Tolerance
<1>10. ReactsInTime'
  BY <1>1, <1>3, <1>4 DEF ReactsInTime, Quiet, ReactionTime, Tolerance
<1> QED
  BY <1>6, <1>7, <1>8, <1>10 DEF IInv

\* Whatever a computer was doing when it stopped.
LEMMA RestartStep ==
  ASSUME IInv, Reset \/ PiStops \/ PiStarts
  PROVE  IInv'
<1> USE Parameters
<1>t. TypeOK /\ V!TypeOK /\ StreakMarks /\ LineFollows /\ WaitingIsRecent
      /\ ReactsInTime
  BY DEF IInv, TypeOK
<1>1. CASE Reset
  <2>1. /\ reader' = "off" /\ unread' = -1 /\ current_state' = 0
        /\ backlog' = 0 /\ sent' = sent
        /\ brake' = "none" /\ pending' = Nothing /\ motors' = "still"
        /\ phone' = "gone" /\ reads' = 0
        /\ streak' = [streak EXCEPT !.samples = 0]
    BY <1>1 DEF Reset, Link!Reset, Link!Nothing
  <2>2. /\ last_states' = last_states /\ i' = i /\ decision' = decision
        /\ ser' = ser /\ pi' = pi /\ lately' = lately
    BY <1>1 DEF Reset, voteVars
  <2>3. PICK zone \in V!Zone : streak' = [zone |-> zone, samples |-> 0]
    BY <2>1, <1>t DEF TypeOK
  <2>4. V!TypeOK'
    BY <2>2, <1>t DEF V!TypeOK
  <2>5. TypeOK'
    <3>1. streak' \in [zone : V!Zone, samples : Nat]
      BY <2>3
    <3>2. streak'.samples <= ReactionTime(streak'.zone)
      BY <2>3, ZoneParameters
    <3> QED
      BY <2>1, <2>2, <2>4, <3>1, <3>2, <1>t
      DEF TypeOK, Motion, ReactionTime, Tolerance
  <2>6. StreakMarks'
    BY <2>3, ZoneParameters DEF StreakMarks, Deciding, Tolerance
  <2>7. LineFollows' /\ WaitingIsRecent' /\ ReactsInTime'
    BY <2>1, <2>3 DEF LineFollows, WaitingIsRecent, ReactsInTime, Quiet
  <2> QED
    BY <2>5, <2>6, <2>7 DEF IInv
<1>2. CASE PiStops
  <2>1. /\ last_states' = last_states /\ i' = i /\ decision' = decision
        /\ ser' = ser /\ pi' = "stopped" /\ UNCHANGED linkVars
        /\ UNCHANGED carVars /\ UNCHANGED history
    BY <1>2 DEF PiStops, voteVars
  <2>2. V!TypeOK'
    BY <2>1, <1>t DEF V!TypeOK
  <2>3. TypeOK'
    BY <2>1, <2>2, <1>t DEF TypeOK, linkVars, carVars, history
  <2>4. StreakMarks'
    BY <2>1, <1>t DEF StreakMarks, SlotBack, history
  <2>5. LineFollows' /\ WaitingIsRecent' /\ ReactsInTime'
    BY <2>1, <1>t DEF LineFollows, WaitingIsRecent, ReactsInTime, Quiet,
       linkVars, history
  <2> QED
    BY <2>3, <2>4, <2>5 DEF IInv
<1>3. CASE PiStarts
  <2>1. /\ last_states' = [k \in V!Slot |-> 0] /\ i' = 0 /\ decision' = 0
        /\ ser' = V!NoMessage /\ pi' = "running"
        /\ streak' = [zone |-> "far", samples |-> 0]
        /\ lately' = lately /\ reads' = reads
        /\ UNCHANGED linkVars /\ UNCHANGED carVars
    BY <1>3 DEF PiStarts
  <2>2. V!TypeOK'
    BY <2>1 DEF V!TypeOK, V!StateId, V!NORMAL_STATE_ID, V!Slot
  <2>3. PICK zone \in V!Zone : streak' = [zone |-> zone, samples |-> 0]
    BY <2>1 DEF V!Zone
  <2>4. TypeOK'
    <3>1. streak' \in [zone : V!Zone, samples : Nat]
      BY <2>3
    <3>2. streak'.samples <= ReactionTime(streak'.zone)
      BY <2>3, ZoneParameters
    <3> QED
      BY <3>1, <3>2, <2>1, <2>2, <1>t
      DEF TypeOK, linkVars, carVars, ReactionTime, Tolerance
  <2>5. StreakMarks'
    BY <2>3, ZoneParameters DEF StreakMarks, Deciding, Tolerance
  <2>6. LineFollows' /\ WaitingIsRecent' /\ ReactsInTime'
    <3>1. ReactionTime(zone) # 0 /\ Deciding(zone) >= 2
          /\ ReactionTime(zone) \in Nat /\ Deciding(zone) \in Nat
      BY ZoneParameters
    <3>2. backlog \in Nat /\ backlog' = backlog
      BY <2>1, <1>t DEF TypeOK, linkVars
    <3> QED
      BY <2>1, <2>3, <3>1, <3>2, <1>t
      DEF LineFollows, WaitingIsRecent, ReactsInTime, Quiet, linkVars
  <2> QED
    BY <2>4, <2>5, <2>6 DEF IInv
<1> QED
  BY <1>1, <1>2, <1>3

\* The motors and the joystick have no say in the state of the car.
LEMMA CarStep ==
  ASSUME IInv,
         \/ PulseEnds \/ JoystickActs \/ Connect \/ Close
         \/ \E command \in Command : JoystickDecides(command)
         \/ UNCHANGED vars
  PROVE  IInv'
<1> USE Parameters
<1>t. TypeOK /\ V!TypeOK /\ StreakMarks /\ LineFollows /\ WaitingIsRecent
      /\ ReactsInTime
  BY DEF IInv, TypeOK
<1>1. /\ UNCHANGED voteVars /\ pi' = pi /\ UNCHANGED linkVars
      /\ UNCHANGED history
  BY DEF PulseEnds, JoystickActs, Connect, Close, JoystickDecides, vars
<1>2. /\ brake' \in {"none", "pulse", "hold"}
      /\ brake' = "none" <=> brake = "none"
      /\ pending' \in Motion \cup {Nothing} /\ motors' \in Motion
      /\ phone' \in {"connected", "gone"}
  <2>1. /\ brake \in {"none", "pulse", "hold"}
        /\ pending \in Motion \cup {Nothing} /\ motors \in Motion
        /\ phone \in {"connected", "gone"}
    BY <1>t DEF TypeOK
  <2>2. CASE PulseEnds
    BY <2>1, <2>2 DEF PulseEnds, Motion
  <2>3. CASE JoystickActs
    BY <2>1, <2>3 DEF JoystickActs
  <2>4. CASE Connect \/ Close
    BY <2>1, <2>4 DEF Connect, Close
  <2>5. CASE \E command \in Command : JoystickDecides(command)
    <3>1. PICK command \in Command : JoystickDecides(command)
      BY <2>5
    <3>2. MotorControl(current_state, command) \in Motion
      BY DEF MotorControl, Motion
    <3> QED
      BY <2>1, <3>1, <3>2 DEF JoystickDecides
  <2>6. CASE UNCHANGED vars
    BY <2>1, <2>6 DEF vars, carVars
  <2> QED
    BY <2>2, <2>3, <2>4, <2>5, <2>6
<1>3. V!TypeOK'
  BY <1>1, <1>t DEF V!TypeOK, voteVars
<1>4. TypeOK'
  BY <1>1, <1>2, <1>3, <1>t DEF TypeOK, linkVars, history
<1>5. StreakMarks'
  BY <1>1, <1>t DEF StreakMarks, SlotBack, voteVars, history
<1>6. LineFollows' /\ WaitingIsRecent' /\ ReactsInTime'
  BY <1>1, <1>t DEF LineFollows, WaitingIsRecent, ReactsInTime, Quiet,
     linkVars, history
<1> QED
  BY <1>4, <1>5, <1>6 DEF IInv

LEMMA Inductive == IInv /\ [Next]_vars => IInv'
<1> SUFFICES ASSUME IInv, [Next]_vars PROVE IInv'
  OBVIOUS
<1>1. CASE AnySample
  BY <1>1, SampleStep DEF AnySample
<1> QED
  BY <1>1, ReadStep, BrakeEndsStep, BootStep, RestartStep, CarStep DEF Next

\* Every variable of the whole car keeps its type, for every array, tolerance
\* and backlog: in particular the messages of a brake never exceed it.
THEOREM AdasSystemTypeCorrect == Spec => []TypeOK
<1>1. IInv => TypeOK
  BY DEF IInv
<1> QED
  BY <1>1, Starts, Inductive, PTL DEF Spec

\* The vote, the line and the brake together react to each of the three zones
\* within the samples that its tolerance and the backlog add up to, whatever
\* starts and resets lie between.
THEOREM AdasSystemReacts == Spec => []ReactsInTime
<1>1. IInv => ReactsInTime
  BY DEF IInv
<1> QED
  BY <1>1, Starts, Inductive, PTL DEF Spec
=============================================================================
