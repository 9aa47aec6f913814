---------------------------- MODULE VotingProofs ----------------------------
(***************************************************************************)
(* Theorems about Voting.tla and VotingHistory.tla, for every array size   *)
(* and every tolerance.                                                    *)
(***************************************************************************)
EXTENDS VotingHistory, FiniteSetTheorems, TLAPS

\* The index stays in the ring.
LEMMA NextSlotType ==
  ASSUME i \in Slot
  PROVE  NextSlot \in Slot
  BY VotingAssumption DEF Slot, NextSlot

\* A branch that stores a mark of StateId and sends the state it leaves
\* keeps every variable in its type.
LEMMA RecordType ==
  ASSUME TypeOK, NEW mark \in StateId, current_state' \in StateId, Record(mark)
  PROVE  TypeOK'
<1>1. last_states' \in [Slot -> StateId]
  BY DEF TypeOK, Record
<1>2. i' \in Slot
  BY NextSlotType DEF TypeOK, Record
<1>3. ser' \in Message
  BY DEF TypeOK, Record, Message
<1> QED
  BY <1>1, <1>2, <1>3 DEF TypeOK

\* Every branch of the vote keeps the types.
LEMMA StepType ==
  ASSUME TypeOK, [Next]_vars
  PROVE  TypeOK'
<1> USE DEF StateId
<1>1. CASE Autobrake
  BY <1>1, RecordType DEF Autobrake
<1>2. CASE AlmostAutobrake
  BY <1>2, RecordType DEF AlmostAutobrake, TypeOK
<1>3. CASE Collision
  BY <1>3, RecordType DEF Collision
<1>4. CASE AlmostCollision
  BY <1>4, RecordType DEF AlmostCollision, TypeOK
<1>5. CASE Normal
  BY <1>5, RecordType DEF Normal
<1>6. CASE AlmostNormal
  BY <1>6, RecordType DEF AlmostNormal, TypeOK
<1>7. CASE UNCHANGED vars
  BY <1>7 DEF vars, TypeOK
<1> QED
  BY <1>1, <1>2, <1>3, <1>4, <1>5, <1>6, <1>7
  DEF Next, Vote, Near, Mid, Far

\* The index never leaves the array.
LEMMA SpecTypeCorrect == Spec => []TypeOK
<1>1. Init => TypeOK
  BY VotingAssumption DEF Init, TypeOK, Slot, StateId, NORMAL_STATE_ID
<1> QED
  BY <1>1, StepType, PTL DEF Spec

\* Type correctness of the vote and of its history, for every array size and
\* every tolerance.
THEOREM VotingTypeCorrect == HistSpec => []HistTypeOK
<1> USE VotingAssumption
<1>1. HistInit => HistTypeOK
  <2> SUFFICES ASSUME HistInit PROVE HistTypeOK
    OBVIOUS
  <2>1. TypeOK
    BY DEF HistInit, Init, TypeOK, Slot, StateId, NORMAL_STATE_ID
  <2> QED
    BY <2>1 DEF HistInit, HistTypeOK, CalmBound, Zone
<1>2. HistTypeOK /\ [HistNext]_histVars => HistTypeOK'
  <2> SUFFICES ASSUME HistTypeOK, [HistNext]_histVars PROVE HistTypeOK'
    OBVIOUS
  <2>1. CASE HistNext
    <3>1. PICK zone \in Zone : Vote(zone) /\ Observe(zone)
      BY <2>1 DEF HistNext
    <3>2. TypeOK'
      BY <3>1, StepType DEF Next, HistTypeOK
    <3>3. recent' \in [Age -> Zone]
      BY <3>1 DEF Observe, HistTypeOK, Age
    <3>4. calm' \in 0 .. CalmBound
      BY <3>1 DEF Observe, HistTypeOK, CalmBound
    <3> QED
      BY <3>2, <3>3, <3>4 DEF HistTypeOK, CalmBound
  <2>2. CASE UNCHANGED histVars
    BY <2>2 DEF histVars, HistTypeOK, TypeOK, CalmBound
  <2> QED
    BY <2>1, <2>2
<1> QED
  BY <1>1, <1>2, PTL DEF HistSpec

-----------------------------------------------------------------------------

(***************************************************************************)
(* The ring read from its index is a window.                               *)
(***************************************************************************)

\* Reading the ring from i visits every slot exactly once.
LEMMA SlotOfAgeBijection ==
  ASSUME i \in Slot
  PROVE  /\ \A k \in Age : SlotOfAge(k) \in Slot
         /\ \A k, m \in Age : SlotOfAge(k) = SlotOfAge(m) => k = m
         /\ \A s \in Slot : \E k \in Age : SlotOfAge(k) = s
<1> USE VotingAssumption DEF Slot, Age, SlotOfAge
<1>1. \A k \in Age : SlotOfAge(k) \in Slot
  OBVIOUS
<1>2. \A k, m \in Age : SlotOfAge(k) = SlotOfAge(m) => k = m
  OBVIOUS
<1>3. ASSUME NEW s \in Slot
      PROVE  \E k \in Age : SlotOfAge(k) = s
  <2>1. CASE s >= i
    <3>1. s - i + 1 \in Age /\ SlotOfAge(s - i + 1) = s
      BY <2>1
    <3> QED
      BY <3>1
  <2>2. CASE s < i
    <3>1. s - i + 1 + EVENTS_ARRAY_SIZE \in Age
      BY <2>2
    <3>2. SlotOfAge(s - i + 1 + EVENTS_ARRAY_SIZE) = s
      BY <2>2
    <3> QED
      BY <3>1, <3>2
  <2> QED
    BY <2>1, <2>2
<1> QED
  BY <1>1, <1>2, <1>3

LEMMA WindowType ==
  ASSUME TypeOK
  PROVE  Window \in [Age -> StateId]
  BY SlotOfAgeBijection DEF TypeOK, Window, Age

\* Counting the marks of the ring and of the window gives the same number.
LEMMA CountIsMarks ==
  ASSUME TypeOK, NEW id
  PROVE  /\ count(id) = Cardinality({k \in Age : Window[k] = id})
         /\ count(id) \in Nat
<1> DEFINE S == {k \in Age : Window[k] = id}
           T == {s \in Slot : last_states[s] = id}
           f == [k \in S |-> SlotOfAge(k)]
<1>1. IsFiniteSet(S)
  <2>1. IsFiniteSet(Age)
    BY FS_Interval, VotingAssumption DEF Age
  <2> QED
    BY <2>1, FS_Subset
<1>2. f \in Bijection(S, T)
  <2>1. \A k \in Age : Window[k] = last_states[SlotOfAge(k)]
    BY DEF Window, Age
  <2>2. f \in [S -> T]
    BY <2>1, SlotOfAgeBijection DEF TypeOK
  <2>3. \A k, m \in S : f[k] = f[m] => k = m
    BY SlotOfAgeBijection DEF TypeOK
  <2>4. \A s \in T : \E k \in S : f[k] = s
    BY <2>1, SlotOfAgeBijection DEF TypeOK
  <2>5. f \in Injection(S, T)
    BY <2>2, <2>3 DEF Injection, IsInjective
  <2>6. f \in Surjection(S, T)
    BY <2>2, <2>4 DEF Surjection
  <2> QED
    BY <2>5, <2>6 DEF Bijection
<1>3. ExistsBijection(S, T)
  BY <1>2 DEF ExistsBijection
<1>4. Cardinality(T) = Cardinality(S)
  BY <1>1, <1>3, FS_Bijection
<1>5. Cardinality(S) \in Nat
  BY <1>1, FS_CardinalityType
<1> QED
  BY <1>4, <1>5 DEF count

\* Storing a mark in the ring pushes it into the window.
LEMMA RecordPushes ==
  ASSUME TypeOK, NEW mark \in StateId, Record(mark)
  PROVE  Window' = [k \in Age |-> IF k = EVENTS_ARRAY_SIZE
                                  THEN mark ELSE Window[k + 1]]
<1> USE VotingAssumption
<1>1. i' = IF i >= EVENTS_ARRAY_SIZE - 1 THEN 0 ELSE i + 1
  BY DEF Record, NextSlot
<1>2. i \in Slot /\ i \in 0 .. EVENTS_ARRAY_SIZE - 1
  BY DEF TypeOK, Slot
<1>3. Window' = [k \in Age |-> last_states'[SlotOfAge(k)']]
  BY DEF Window, Age
<1>4. ASSUME NEW k \in Age, k = EVENTS_ARRAY_SIZE
      PROVE  last_states'[SlotOfAge(k)'] = mark
  <2>1. SlotOfAge(k)' = i
    BY <1>1, <1>2, <1>4 DEF SlotOfAge, Age
  <2> QED
    BY <2>1, <1>2 DEF Record, TypeOK
<1>5. ASSUME NEW k \in Age, k # EVENTS_ARRAY_SIZE
      PROVE  last_states'[SlotOfAge(k)'] = Window[k + 1]
  <2>1. k + 1 \in Age /\ SlotOfAge(1) = i /\ 1 \in Age
    BY <1>2, <1>5 DEF Age, SlotOfAge
  <2>2. SlotOfAge(k)' = SlotOfAge(k + 1)
    BY <1>1, <1>2, <1>5 DEF SlotOfAge, Age
  <2>3. SlotOfAge(k + 1) # i /\ SlotOfAge(k + 1) \in Slot
    BY <1>2, <1>5, <2>1 DEF SlotOfAge, Age, Slot
  <2>4. Window[k + 1] = last_states[SlotOfAge(k + 1)]
    BY <2>1 DEF Window, Age
  <2> QED
    BY <2>2, <2>3, <2>4 DEF Record, TypeOK
<1> QED
  BY <1>3, <1>4, <1>5

-----------------------------------------------------------------------------

\* The vote over the ring implements the vote over the sliding window: every
\* branch of the thread is a step of SlidingVote.
THEOREM VotingRefinesSlidingVote == Spec => IsSlidingVote
<1> USE VotingAssumption DEF Age
<1>1. Init => Sliding!Init
  BY SlotOfAgeBijection DEF Init, Sliding!Init, Sliding!Age, Window, Slot,
     Sliding!NORMAL, NORMAL_STATE_ID
<1>2. TypeOK /\ [Next]_vars => [Sliding!Next]_Sliding!vars
  <2> SUFFICES ASSUME TypeOK, [Next]_vars
               PROVE  [Sliding!Next]_Sliding!vars
    OBVIOUS
  <2>1. \A id : Sliding!Marks(id) = count(id) /\ count(id) \in Nat
    BY CountIsMarks DEF Sliding!Marks, Sliding!Age, Sliding!Cardinality, Cardinality
  <2>2. \A mark \in StateId : Record(mark) => Sliding!Push(mark)
    BY RecordPushes DEF Sliding!Push, Sliding!Age
  <2> USE DEF StateId, NORMAL_STATE_ID, PRECOLLISION_STATE_ID,
              AUTOBRAKE_STATE_ID, Sliding!NORMAL, Sliding!PRECOLLISION,
              Sliding!AUTOBRAKE, Alarms
  <2>3. CASE Autobrake
    BY <2>1, <2>2, <2>3 DEF Autobrake, Sliding!Brake, Sliding!Next
  <2>4. CASE AlmostAutobrake
    BY <2>1, <2>2, <2>4 DEF AlmostAutobrake, Sliding!Remember, Sliding!Next
  <2>5. CASE Collision
    BY <2>1, <2>2, <2>5 DEF Collision, Sliding!Warn, Sliding!Next
  <2>6. CASE AlmostCollision
    BY <2>1, <2>2, <2>6 DEF AlmostCollision, Sliding!Remember, Sliding!Next
  <2>7. CASE Normal
    BY <2>1, <2>2, <2>7 DEF Normal, Sliding!Release, Sliding!Next
  <2>8. CASE AlmostNormal
    BY <2>1, <2>2, <2>8 DEF AlmostNormal, Sliding!Remember, Sliding!Next
  <2>9. CASE UNCHANGED vars
    BY <2>9 DEF vars, Sliding!vars, Window, SlotOfAge
  <2> QED
    BY <2>3, <2>4, <2>5, <2>6, <2>7, <2>8, <2>9
    DEF Next, Vote, Near, Mid, Far
<1> QED
  BY <1>1, <1>2, SpecTypeCorrect, PTL DEF Spec, IsSlidingVote, Sliding!Spec

-----------------------------------------------------------------------------

(***************************************************************************)
(* The vote and the road.                                                  *)
(***************************************************************************)

\* The ages whose mark is one of those of M.
MarkedWith(M) == {k \in Age : Window[k] \in M}

LEMMA AgesAreFinite ==
  ASSUME NEW S \in SUBSET Age
  PROVE  IsFiniteSet(S) /\ Cardinality(S) \in Nat
<1>1. IsFiniteSet(Age)
  BY FS_Interval, VotingAssumption DEF Age
<1> QED
  BY <1>1, FS_Subset, FS_CardinalityType

\* What the branches test, as numbers of ages.
LEMMA CountsAsAges ==
  ASSUME TypeOK
  PROVE  /\ \A id : count(id) = Cardinality(MarkedWith({id}))
         /\ Alarms = Cardinality(
                       MarkedWith({PRECOLLISION_STATE_ID, AUTOBRAKE_STATE_ID}))
<1> DEFINE P == MarkedWith({PRECOLLISION_STATE_ID})
           A == MarkedWith({AUTOBRAKE_STATE_ID})
<1>1. ASSUME NEW id
      PROVE  count(id) = Cardinality(MarkedWith({id}))
  <2>1. MarkedWith({id}) = {k \in Age : Window[k] = id}
    BY DEF MarkedWith
  <2> QED
    BY <2>1, CountIsMarks
<1>2. MarkedWith({PRECOLLISION_STATE_ID, AUTOBRAKE_STATE_ID}) = P \cup A
  BY DEF MarkedWith
<1>3. P \cap A = {}
  BY DEF MarkedWith, PRECOLLISION_STATE_ID, AUTOBRAKE_STATE_ID
<1>4. P \in SUBSET Age /\ A \in SUBSET Age
  BY DEF MarkedWith
<1>5. /\ IsFiniteSet(P) /\ IsFiniteSet(A)
      /\ Cardinality(P) \in Nat /\ Cardinality(A) \in Nat
  BY <1>4, AgesAreFinite
<1>6. Cardinality(P \cup A)
        = Cardinality(P) + Cardinality(A) - Cardinality(P \cap A)
  BY <1>5, FS_Union
<1>7. Cardinality(P \cap A) = 0
  BY <1>3, FS_EmptySet
<1>8. Alarms = Cardinality(P) + Cardinality(A)
  BY <1>1 DEF Alarms
<1>9. Cardinality(P \cup A) = Cardinality(P) + Cardinality(A)
  BY <1>5, <1>6, <1>7
<1>10. Alarms = Cardinality(P \cup A)
  BY <1>8, <1>9
<1> QED
  BY <1>1, <1>2, <1>10

\* n ages in a row at the end of the window are n ages.
LEMMA LastAges ==
  ASSUME NEW n \in Nat, n <= EVENTS_ARRAY_SIZE,
         NEW S \in SUBSET Age, \A k \in Age : k > EVENTS_ARRAY_SIZE - n => k \in S
  PROVE  Cardinality(S) >= n
<1> DEFINE L == EVENTS_ARRAY_SIZE - n + 1 .. EVENTS_ARRAY_SIZE
<1> USE VotingAssumption
<1>1. L \subseteq S
  BY DEF Age
<1>2. IsFiniteSet(S) /\ Cardinality(S) \in Nat
  BY AgesAreFinite
<1>3. Cardinality(L) <= Cardinality(S)
  BY <1>1, <1>2, FS_Subset
<1>4. Cardinality(L) = n
  <2>1. EVENTS_ARRAY_SIZE - n + 1 \in Int /\ EVENTS_ARRAY_SIZE \in Int
    OBVIOUS
  <2>2. Cardinality(L) = IF EVENTS_ARRAY_SIZE - n + 1 > EVENTS_ARRAY_SIZE THEN 0
        ELSE EVENTS_ARRAY_SIZE - (EVENTS_ARRAY_SIZE - n + 1) + 1
    BY <2>1, FS_Interval
  <2> QED
    BY <2>2
<1> QED
  BY <1>2, <1>3, <1>4

\* The part of the state the decisions are taken from.
RoadInv ==
  /\ TypeOK
  /\ recent \in [Age -> Zone]
  /\ RemembersTheRoad

\* The last n samples in zones of Z left n marks of M, whatever else is in the
\* array.
LEMMA RunLeavesMarks ==
  ASSUME RoadInv, NEW n \in Nat, n <= EVENTS_ARRAY_SIZE,
         NEW Z \in SUBSET Zone, NEW M,
         \A zone \in Z : MarksOf(zone) \subseteq M, Run(n, Z)
  PROVE  Cardinality(MarkedWith(M)) >= n
<1>1. \A k \in Age : k > EVENTS_ARRAY_SIZE - n => k \in MarkedWith(M)
  BY DEF RoadInv, RemembersTheRoad, Run, MarkedWith
<1>2. MarkedWith(M) \in SUBSET Age
  BY DEF MarkedWith
<1> QED
  BY <1>1, <1>2, LastAges

\* No more marks of M than samples in the zones that leave them.
LEMMA MarksHaveSamples ==
  ASSUME RoadInv, NEW Z \in SUBSET Zone, NEW M,
         \A zone \in Zone : MarksOf(zone) \cap M # {} => zone \in Z
  PROVE  /\ Cardinality(MarkedWith(M)) <= Seen(Z)
         /\ Seen(Z) \in Nat /\ Cardinality(MarkedWith(M)) \in Nat
<1> DEFINE S == {k \in Age : recent[k] \in Z}
<1>1. MarkedWith(M) \subseteq S
  BY DEF RoadInv, RemembersTheRoad, MarkedWith
<1>2. S \in SUBSET Age /\ MarkedWith(M) \in SUBSET Age
  BY DEF MarkedWith
<1>3. IsFiniteSet(S) /\ Cardinality(S) \in Nat
  BY <1>2, AgesAreFinite
<1>4. Cardinality(MarkedWith(M)) \in Nat
  BY <1>2, AgesAreFinite
<1>5. Cardinality(MarkedWith(M)) <= Cardinality(S)
  BY <1>1, <1>3, FS_Subset
<1> QED
  BY <1>3, <1>4, <1>5 DEF Seen

\* A sample pushes its zone next to the mark it leaves.
LEMMA RoadStep ==
  ASSUME RoadInv, NEW zone \in Zone, Vote(zone), Observe(zone), TypeOK'
  PROVE  RoadInv'
<1> USE VotingAssumption
<1>1. PICK mark \in MarksOf(zone) : Record(mark) /\ mark \in StateId
  <2>1. CASE zone = "near"
    BY <2>1 DEF Vote, Near, Autobrake, AlmostAutobrake, MarksOf, StateId
  <2>2. CASE zone = "mid"
    BY <2>2 DEF Vote, Mid, Collision, AlmostCollision, MarksOf, StateId
  <2>3. CASE zone = "far"
    BY <2>3 DEF Vote, Far, Normal, AlmostNormal, MarksOf, StateId
  <2> QED
    BY <2>1, <2>2, <2>3 DEF Zone
<1>2. Window' = [k \in Age |-> IF k = EVENTS_ARRAY_SIZE
                               THEN mark ELSE Window[k + 1]]
  BY <1>1, RecordPushes DEF RoadInv
<1>3. recent' = [k \in Age |-> IF k = EVENTS_ARRAY_SIZE
                               THEN zone ELSE recent[k + 1]]
  BY DEF Observe
<1>4. \A k \in Age : k # EVENTS_ARRAY_SIZE => k + 1 \in Age
  BY DEF Age
<1>5. recent' \in [Age -> Zone]
  BY <1>3, <1>4 DEF RoadInv
<1>6. \A k \in Age : Window[k] \in MarksOf(recent[k])
  BY DEF RoadInv, RemembersTheRoad
<1>7. \A k \in Age : Window'[k] \in MarksOf(recent'[k])
  BY <1>1, <1>2, <1>3, <1>4, <1>6
<1> QED
  BY <1>5, <1>7 DEF RoadInv, RemembersTheRoad, MarksOf

\* How long a run of samples leaves how many marks, before the sample that
\* decides: the run less its last sample.
LEMMA RunBefore ==
  ASSUME RoadInv, NEW zone \in Zone, Observe(zone),
         NEW n \in Nat, n + 2 <= EVENTS_ARRAY_SIZE,
         NEW Z \in SUBSET Zone, Run(n + 2, Z)'
  PROVE  Run(n + 1, Z) /\ zone \in Z
<1> USE VotingAssumption
<1>1. recent' = [k \in Age |-> IF k = EVENTS_ARRAY_SIZE
                               THEN zone ELSE recent[k + 1]]
  BY DEF Observe
<1>2. \A k \in Age : k > EVENTS_ARRAY_SIZE - (n + 2) => recent'[k] \in Z
  BY DEF Run, Age
<1>3. ASSUME NEW k \in Age, k > EVENTS_ARRAY_SIZE - (n + 1)
      PROVE  recent[k] \in Z
  <2>1. k - 1 \in Age /\ k - 1 > EVENTS_ARRAY_SIZE - (n + 2)
        /\ k - 1 # EVENTS_ARRAY_SIZE /\ (k - 1) + 1 = k
    BY <1>3 DEF Age
  <2>2. recent'[k - 1] = recent[k]
    BY <1>1, <2>1
  <2> QED
    BY <1>2, <2>1, <2>2
<1>4. EVENTS_ARRAY_SIZE \in Age
      /\ EVENTS_ARRAY_SIZE > EVENTS_ARRAY_SIZE - (n + 2)
  BY DEF Age
<1>5. recent'[EVENTS_ARRAY_SIZE] = zone
  BY <1>1, <1>4
<1> QED
  BY <1>2, <1>3, <1>4, <1>5 DEF Run

\* A step of the vote, seen from the road: the marks the branches count bound
\* what they may decide.
LEMMA StepDecidesInTime ==
  ASSUME RoadInv, NEW zone \in Zone, Vote(zone), Observe(zone)
  PROVE  DecidesInTime'
<1> USE VotingAssumption, WindowIsLongEnough
<1> DEFINE Alarm == {PRECOLLISION_STATE_ID, AUTOBRAKE_STATE_ID}
<1>0. \A z \in {"near", "mid"} : MarksOf(z) \subseteq Alarm
  BY DEF MarksOf
<1>t. TypeOK
  BY DEF RoadInv
<1>1. BrakesInTime'
  <2> SUFFICES ASSUME Run(COUNT_AUTOBRAKE_FALSE_ALARM + 2, {"near", "mid"})',
                      Run(1, {"near"})'
               PROVE  current_state' = AUTOBRAKE_STATE_ID
    BY DEF BrakesInTime
  <2>1. Run(COUNT_AUTOBRAKE_FALSE_ALARM + 1, {"near", "mid"})
    BY RunBefore DEF Zone
  <2>2. zone = "near"
    <3>1. EVENTS_ARRAY_SIZE \in Age /\ EVENTS_ARRAY_SIZE > EVENTS_ARRAY_SIZE - 1
      BY DEF Age
    <3>2. recent'[EVENTS_ARRAY_SIZE] = "near"
      BY <3>1 DEF Run, Age
    <3> QED
      BY <3>1, <3>2 DEF Observe
  <2>3. Cardinality(MarkedWith(Alarm)) >= COUNT_AUTOBRAKE_FALSE_ALARM + 1
    BY <1>0, <2>1, RunLeavesMarks DEF Zone
  <2>4. Alarms >= COUNT_AUTOBRAKE_FALSE_ALARM + 1 /\ Alarms \in Nat
    <3>1. Alarms >= COUNT_AUTOBRAKE_FALSE_ALARM + 1
      BY <1>t, <2>3, CountsAsAges
    <3>2. count(PRECOLLISION_STATE_ID) \in Nat /\ count(AUTOBRAKE_STATE_ID) \in Nat
      BY <1>t, CountIsMarks
    <3> QED
      BY <3>1, <3>2 DEF Alarms
  <2>5. ~ AlmostAutobrake
    BY <2>4 DEF AlmostAutobrake
  <2> QED
    BY <2>2, <2>5 DEF Vote, Near, Autobrake
<1>2. WarnsInTime'
  <2> SUFFICES ASSUME Run(COUNT_PRECOLLISION_FALSE_ALARM + 2, {"mid"})'
               PROVE  current_state' = PRECOLLISION_STATE_ID
    BY DEF WarnsInTime
  <2>1. Run(COUNT_PRECOLLISION_FALSE_ALARM + 1, {"mid"}) /\ zone = "mid"
    BY RunBefore DEF Zone
  <2>2. Cardinality(MarkedWith({PRECOLLISION_STATE_ID}))
          >= COUNT_PRECOLLISION_FALSE_ALARM + 1
    BY <2>1, RunLeavesMarks DEF Zone, MarksOf
  <2>3. count(PRECOLLISION_STATE_ID) >= COUNT_PRECOLLISION_FALSE_ALARM + 1
        /\ count(PRECOLLISION_STATE_ID) \in Nat
    BY <1>t, <2>2, CountsAsAges, CountIsMarks
  <2>4. ~ AlmostCollision
    BY <2>3 DEF AlmostCollision
  <2> QED
    BY <2>1, <2>4 DEF Vote, Mid, Collision
<1>3. ReleasesInTime'
  <2> SUFFICES ASSUME Run(COUNT_NORMAL_FALSE_ALARM + 2, {"far"})'
               PROVE  current_state' = NORMAL_STATE_ID
    BY DEF ReleasesInTime
  <2>1. Run(COUNT_NORMAL_FALSE_ALARM + 1, {"far"}) /\ zone = "far"
    BY RunBefore DEF Zone
  <2>2. Cardinality(MarkedWith({NORMAL_STATE_ID}))
          >= COUNT_NORMAL_FALSE_ALARM + 1
    BY <2>1, RunLeavesMarks DEF Zone, MarksOf
  <2>3. count(NORMAL_STATE_ID) >= COUNT_NORMAL_FALSE_ALARM + 1
        /\ count(NORMAL_STATE_ID) \in Nat
    BY <1>t, <2>2, CountsAsAges, CountIsMarks
  <2>4. ~ AlmostNormal
    BY <2>3 DEF AlmostNormal
  <2> QED
    BY <2>1, <2>4 DEF Vote, Far, Normal
<1> QED
  BY <1>1, <1>2, <1>3 DEF DecidesInTime

\* A change of state has its evidence on the road.
LEMMA StepHasEvidence ==
  ASSUME RoadInv, NEW zone \in Zone, Vote(zone)
  PROVE  /\ ChangesTo(AUTOBRAKE_STATE_ID)
              => Seen({"near", "mid"}) > COUNT_AUTOBRAKE_FALSE_ALARM
         /\ ChangesTo(PRECOLLISION_STATE_ID)
              => Seen({"near", "mid"}) > COUNT_PRECOLLISION_FALSE_ALARM
         /\ ChangesTo(NORMAL_STATE_ID)
              => Seen({"far"}) > COUNT_NORMAL_FALSE_ALARM
<1> USE VotingAssumption
<1> DEFINE Alarm == {PRECOLLISION_STATE_ID, AUTOBRAKE_STATE_ID}
<1>t. TypeOK
  BY DEF RoadInv
<1>m. \A z \in Zone :
        /\ MarksOf(z) \cap Alarm # {} => z \in {"near", "mid"}
        /\ MarksOf(z) \cap {PRECOLLISION_STATE_ID} # {} => z \in {"near", "mid"}
        /\ MarksOf(z) \cap {NORMAL_STATE_ID} # {} => z \in {"far"}
  BY DEF MarksOf, Zone, NORMAL_STATE_ID, PRECOLLISION_STATE_ID,
         AUTOBRAKE_STATE_ID
<1>1. Alarms <= Seen({"near", "mid"})
      /\ Seen({"near", "mid"}) \in Nat /\ Alarms \in Nat
  <2>1. {"near", "mid"} \in SUBSET Zone
    BY DEF Zone
  <2>2. Cardinality(MarkedWith(Alarm)) <= Seen({"near", "mid"})
        /\ Seen({"near", "mid"}) \in Nat
        /\ Cardinality(MarkedWith(Alarm)) \in Nat
    BY <1>m, <2>1, MarksHaveSamples
  <2> QED
    BY <1>t, <2>2, CountsAsAges
<1>2. count(PRECOLLISION_STATE_ID) <= Seen({"near", "mid"})
      /\ count(PRECOLLISION_STATE_ID) \in Nat /\ Seen({"near", "mid"}) \in Nat
  <2>1. {"near", "mid"} \in SUBSET Zone
    BY DEF Zone
  <2>2. Cardinality(MarkedWith({PRECOLLISION_STATE_ID})) <= Seen({"near", "mid"})
        /\ Seen({"near", "mid"}) \in Nat
        /\ Cardinality(MarkedWith({PRECOLLISION_STATE_ID})) \in Nat
    BY <1>m, <2>1, MarksHaveSamples
  <2> QED
    BY <1>t, <2>2, CountsAsAges
<1>3. count(NORMAL_STATE_ID) <= Seen({"far"})
      /\ count(NORMAL_STATE_ID) \in Nat /\ Seen({"far"}) \in Nat
  <2>1. {"far"} \in SUBSET Zone
    BY DEF Zone
  <2>2. Cardinality(MarkedWith({NORMAL_STATE_ID})) <= Seen({"far"})
        /\ Seen({"far"}) \in Nat
        /\ Cardinality(MarkedWith({NORMAL_STATE_ID})) \in Nat
    BY <1>m, <2>1, MarksHaveSamples
  <2> QED
    BY <1>t, <2>2, CountsAsAges
<1>4. ChangesTo(AUTOBRAKE_STATE_ID) => Alarms > COUNT_AUTOBRAKE_FALSE_ALARM
  BY DEF ChangesTo, Vote, Near, Mid, Far, Autobrake, AlmostAutobrake, Collision,
     AlmostCollision, Normal, AlmostNormal, NORMAL_STATE_ID,
     PRECOLLISION_STATE_ID, AUTOBRAKE_STATE_ID
<1>5. ChangesTo(PRECOLLISION_STATE_ID)
        => count(PRECOLLISION_STATE_ID) > COUNT_PRECOLLISION_FALSE_ALARM
  BY DEF ChangesTo, Vote, Near, Mid, Far, Autobrake, AlmostAutobrake, Collision,
     AlmostCollision, Normal, AlmostNormal, NORMAL_STATE_ID,
     PRECOLLISION_STATE_ID, AUTOBRAKE_STATE_ID
<1>6. ChangesTo(NORMAL_STATE_ID)
        => count(NORMAL_STATE_ID) > COUNT_NORMAL_FALSE_ALARM
  BY DEF ChangesTo, Vote, Near, Mid, Far, Autobrake, AlmostAutobrake, Collision,
     AlmostCollision, Normal, AlmostNormal, NORMAL_STATE_ID,
     PRECOLLISION_STATE_ID, AUTOBRAKE_STATE_ID
<1> QED
  BY <1>1, <1>2, <1>3, <1>4, <1>5, <1>6

-----------------------------------------------------------------------------

\* The array and its history, as long as the vote runs.
LEMMA HistSpecInvariant == HistSpec => [](RoadInv /\ DecidesInTime)
<1>1. HistInit => RoadInv /\ DecidesInTime
  <2> SUFFICES ASSUME HistInit PROVE RoadInv /\ DecidesInTime
    OBVIOUS
  <2> USE VotingAssumption
  <2>1. TypeOK
    BY DEF HistInit, Init, TypeOK, Slot, StateId, NORMAL_STATE_ID
  <2>2. recent \in [Age -> Zone] /\ \A k \in Age : recent[k] = "far"
    BY DEF HistInit, Zone
  <2>3. \A k \in Age : Window[k] = NORMAL_STATE_ID
    BY <2>1, SlotOfAgeBijection DEF HistInit, Init, TypeOK, Window, Age
  <2>4. RemembersTheRoad
    BY <2>2, <2>3 DEF RemembersTheRoad, MarksOf
  <2>5. EVENTS_ARRAY_SIZE \in Age
    BY DEF Age
  <2>6. \A n \in Nat \ {0} : EVENTS_ARRAY_SIZE > EVENTS_ARRAY_SIZE - n
    OBVIOUS
  <2>7. \A n \in Nat \ {0} : \A Z : Run(n, Z) => "far" \in Z
    BY <2>2, <2>5, <2>6 DEF Run
  <2>8. current_state = NORMAL_STATE_ID
    BY DEF HistInit, Init
  <2>9. ~ Run(1, {"near"}) /\ ~ Run(COUNT_PRECOLLISION_FALSE_ALARM + 2, {"mid"})
    BY <2>7
  <2> QED
    BY <2>1, <2>2, <2>4, <2>8, <2>9
    DEF RoadInv, DecidesInTime, BrakesInTime, WarnsInTime, ReleasesInTime
<1>2. RoadInv /\ DecidesInTime /\ [HistNext]_histVars
        => RoadInv' /\ DecidesInTime'
  <2> SUFFICES ASSUME RoadInv, DecidesInTime, [HistNext]_histVars
               PROVE  RoadInv' /\ DecidesInTime'
    OBVIOUS
  <2>1. CASE HistNext
    <3>1. PICK zone \in Zone : Vote(zone) /\ Observe(zone)
      BY <2>1 DEF HistNext
    <3>2. TypeOK'
      BY <3>1, StepType DEF Next, RoadInv
    <3> QED
      BY <3>1, <3>2, RoadStep, StepDecidesInTime
  <2>2. CASE UNCHANGED histVars
    BY <2>2 DEF histVars, RoadInv, TypeOK, RemembersTheRoad, Window, SlotOfAge,
       DecidesInTime, BrakesInTime, WarnsInTime, ReleasesInTime, Run
  <2> QED
    BY <2>1, <2>2
<1> QED
  BY <1>1, <1>2, PTL DEF HistSpec

\* Whatever the size of the array and the tolerances that fit in it, a road
\* that stays the same is decided upon in time.
THEOREM VotingDecidesInTime == HistSpec => []DecidesInTime
  BY HistSpecInvariant, PTL

\* Whatever the size of the array and the tolerances, no change of state
\* without more samples behind it than the tolerated false alarms.
THEOREM VotingNeedsEvidence == HistSpec => EvidenceForChange
<1> DEFINE Evidence ==
      /\ ChangesTo(AUTOBRAKE_STATE_ID)
           => Seen({"near", "mid"}) > COUNT_AUTOBRAKE_FALSE_ALARM
      /\ ChangesTo(PRECOLLISION_STATE_ID)
           => Seen({"near", "mid"}) > COUNT_PRECOLLISION_FALSE_ALARM
      /\ ChangesTo(NORMAL_STATE_ID)
           => Seen({"far"}) > COUNT_NORMAL_FALSE_ALARM
<1>1. RoadInv /\ [HistNext]_histVars => [Evidence]_histVars
  BY StepHasEvidence DEF HistNext
<1> QED
  BY <1>1, HistSpecInvariant, PTL DEF HistSpec, EvidenceForChange

\* Mark by mark, the array is the road as the branches have recorded it
\* (main.py 268-306), in whichever slot the index put them.
THEOREM VotingRemembersTheRoad == HistSpec => []RemembersTheRoad
  BY HistSpecInvariant, PTL DEF RoadInv
=============================================================================
