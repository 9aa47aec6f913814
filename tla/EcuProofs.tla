------------------------------ MODULE EcuProofs ------------------------------
(***************************************************************************)
(* Theorems about Ecu.tla, for all distances, speeds and numbers of        *)
(* samples.                                                                *)
(***************************************************************************)
EXTENDS Ecu, FiniteSetTheorems, WellFoundedInduction, TLAPS

\* How many elements of a list are at most d.
AtMost(list, d) == {j \in DOMAIN list : list[j] <= d}
Below(list, d) == {j \in DOMAIN list : list[j] < d}

\* A set of naturals that is not empty has a least element.
LEMMA LeastNat ==
  ASSUME NEW S \in SUBSET Nat, S # {}
  PROVE  \E d \in S : \A e \in S : d <= e
<1>1. IsWellFoundedOn(OpToRel(<, Nat), Nat)
  BY NatLessThanWellFounded
<1>2. PICK d \in S : \A e \in S : ~(<<e, d>> \in OpToRel(<, Nat))
  BY <1>1, WFMin
<1>3. ASSUME NEW e \in S, e < d
      PROVE  FALSE
  <2>1. <<e, d>> \in Nat \X Nat
    OBVIOUS
  <2>2. <<e, d>> \in {ss \in Nat \X Nat : ss[1] < ss[2]}
    BY <1>3, <2>1
  <2> QED
    BY <1>2, <2>2 DEF OpToRel
<1> QED
  BY <1>3

\* The sets that Smallest counts are finite.
LEMMA CountType ==
  ASSUME NEW list \in Seq(Nat), NEW d \in Nat
  PROVE  /\ IsFiniteSet(AtMost(list, d)) /\ IsFiniteSet(Below(list, d))
         /\ Cardinality(AtMost(list, d)) \in 0 .. Len(list)
         /\ Cardinality(Below(list, d)) \in 0 .. Len(list)
<1>1. /\ IsFiniteSet(DOMAIN list) /\ Cardinality(DOMAIN list) = Len(list)
      /\ Len(list) \in Nat
  <2>1. DOMAIN list = 1 .. Len(list) /\ Len(list) \in Nat
    OBVIOUS
  <2>2. /\ IsFiniteSet(1 .. Len(list))
        /\ Cardinality(1 .. Len(list)) =
             IF 1 > Len(list) THEN 0 ELSE Len(list) - 1 + 1
    BY <2>1, FS_Interval
  <2> QED
    BY <2>1, <2>2
<1>2. AtMost(list, d) \subseteq DOMAIN list /\ Below(list, d) \subseteq DOMAIN list
  BY DEF AtMost, Below
<1>3. /\ IsFiniteSet(AtMost(list, d)) /\ IsFiniteSet(Below(list, d))
      /\ Cardinality(AtMost(list, d)) <= Len(list)
      /\ Cardinality(Below(list, d)) <= Len(list)
  BY <1>1, <1>2, FS_Subset
<1>4. Cardinality(AtMost(list, d)) \in Nat /\ Cardinality(Below(list, d)) \in Nat
  BY <1>3, FS_CardinalityType
<1> QED
  BY <1>1, <1>3, <1>4

\* Some number is at least every element of a list.
LEMMA UpperBound ==
  ASSUME NEW list \in Seq(Nat), Len(list) > 0
  PROVE  \E d \in Nat : Cardinality(AtMost(list, d)) = Len(list)
<1> DEFINE P == DOMAIN list
           Rest(j) == Len(list) - Cardinality(AtMost(list, list[j]))
<1>1. /\ P = 1 .. Len(list) /\ Len(list) \in Nat
      /\ IsFiniteSet(P) /\ Cardinality(P) = Len(list)
  <2>1. P = 1 .. Len(list) /\ Len(list) \in Nat
    OBVIOUS
  <2> QED
    BY <2>1, FS_Interval
<1>2. \A j \in P : list[j] \in Nat
  OBVIOUS
<1>3. \A j \in P : Rest(j) \in Nat
  <2> TAKE j \in P
  <2>1. Cardinality(AtMost(list, list[j])) \in 0 .. Len(list)
    BY <1>2, CountType
  <2> QED
    BY <2>1, <1>1
<1>4. PICK j \in P : \A i \in P : Rest(j) <= Rest(i)
  <2> DEFINE S == {Rest(i) : i \in P}
  <2>1. S \in SUBSET Nat /\ S # {}
    <3>1. 1 \in P
      BY <1>1
    <3> HIDE DEF P, Rest
    <3> QED
      BY <3>1, <1>3
  <2>2. PICK d \in S : \A e \in S : d <= e
    BY <2>1, LeastNat
  <2> QED
    BY <2>2
<1>5. \A i \in P : list[i] <= list[j]
  <2> SUFFICES ASSUME NEW i \in P, list[j] < list[i]
               PROVE  FALSE
    BY <1>2
  <2>1. AtMost(list, list[j]) \subseteq AtMost(list, list[i])
    BY <1>2 DEF AtMost
  <2>2. i \in AtMost(list, list[i]) /\ i \notin AtMost(list, list[j])
    BY <1>2 DEF AtMost
  <2>3. /\ IsFiniteSet(AtMost(list, list[i]))
        /\ Cardinality(AtMost(list, list[i])) \in 0 .. Len(list)
        /\ Cardinality(AtMost(list, list[j])) \in 0 .. Len(list)
    BY <1>2, CountType
  <2>4. /\ Cardinality(AtMost(list, list[j])) <= Cardinality(AtMost(list, list[i]))
        /\ Cardinality(AtMost(list, list[j])) # Cardinality(AtMost(list, list[i]))
    BY <2>1, <2>2, <2>3, FS_Subset
  <2>5. Rest(j) <= Rest(i)
    BY <1>4
  <2> QED
    BY <2>3, <2>4, <2>5, <1>1
<1>6. AtMost(list, list[j]) = P
  BY <1>5 DEF AtMost
<1> QED
  BY <1>1, <1>2, <1>6

\* A list of n elements has a k-th smallest one, for every k up to n.
LEMMA SmallestType ==
  ASSUME NEW list \in Seq(Nat), NEW k \in 1 .. Len(list)
  PROVE  Smallest(list, k) \in Nat
<1> DEFINE P == DOMAIN list
           S == {d \in Nat : Cardinality(AtMost(list, d)) >= k}
<1>1. S \in SUBSET Nat /\ S # {}
  <2>1. Len(list) \in Nat /\ Len(list) > 0 /\ k <= Len(list)
    OBVIOUS
  <2>2. PICK d \in Nat : Cardinality(AtMost(list, d)) = Len(list)
    BY <2>1, UpperBound
  <2> QED
    BY <2>1, <2>2
<1>2. PICK d \in S : \A e \in S : d <= e
  BY <1>1, LeastNat
<1>3. \A j \in P : list[j] \in Nat
  OBVIOUS
<1>4. d \in Nat /\ Cardinality(AtMost(list, d)) >= k
  BY <1>2
<1>5. Cardinality(Below(list, d)) < k
  <2>1. CASE d = 0
    <3>1. Below(list, d) = {}
      BY <2>1, <1>3 DEF Below
    <3> QED
      BY <3>1, FS_EmptySet
  <2>2. CASE d > 0
    <3>1. d - 1 \in Nat /\ ~(d <= d - 1)
      BY <2>2, <1>4
    <3>2. ~(Cardinality(AtMost(list, d - 1)) >= k)
      BY <3>1, <1>2
    <3>3. Below(list, d) = AtMost(list, d - 1)
      BY <1>3, <1>4 DEF Below, AtMost
    <3>4. Cardinality(AtMost(list, d - 1)) \in 0 .. Len(list)
      BY <3>1, CountType, Zenon
    <3>5. Cardinality(AtMost(list, d - 1)) \in Nat
      BY <3>4
    <3> QED
      BY <3>2, <3>3, <3>5
  <2> QED
    BY <2>1, <2>2, <1>4
<1>6. d \in {list[j] : j \in P}
  <2> SUFFICES ASSUME \A j \in P : list[j] # d
               PROVE  FALSE
    OBVIOUS
  <2>1. Below(list, d) = AtMost(list, d)
    BY <1>3, <1>4 DEF Below, AtMost
  <2>2. Cardinality(Below(list, d)) \in Nat
    BY <1>4, CountType
  <2> QED
    BY <2>1, <2>2, <1>4, <1>5
<1>7. \E e \in {list[j] : j \in P} :
        /\ Cardinality({j \in P : list[j] < e}) < k
        /\ Cardinality({j \in P : list[j] <= e}) >= k
  BY <1>4, <1>5, <1>6 DEF Below, AtMost
<1>8. Smallest(list, k) \in {list[j] : j \in P}
  BY <1>7 DEF Smallest
<1> QED
  BY <1>3, <1>8

\* The median of a list of distances is a number.
LEMMA MedianType ==
  ASSUME NEW list \in Seq(Nat), Len(list) > 0
  PROVE  Median2(list) \in Nat
<1> DEFINE n == Len(list)
<1>1. n \in Nat /\ n > 0
  OBVIOUS
<1>2. CASE n % 2 = 1
  <2>1. (n + 1) \div 2 \in 1 .. n
    BY <1>1, <1>2
  <2>2. Smallest(list, (n + 1) \div 2) \in Nat
    BY <2>1, SmallestType
  <2>3. Median2(list) = 2 * Smallest(list, (n + 1) \div 2)
    BY <1>2 DEF Median2
  <2> HIDE DEF n
  <2> QED
    BY <2>2, <2>3
<1>3. CASE n % 2 # 1
  <2>1. n \div 2 \in 1 .. n /\ n \div 2 + 1 \in 1 .. n
    BY <1>1, <1>3
  <2>2. /\ Smallest(list, n \div 2) \in Nat
        /\ Smallest(list, n \div 2 + 1) \in Nat
    BY <2>1, SmallestType
  <2>3. Median2(list) = Smallest(list, n \div 2) + Smallest(list, n \div 2 + 1)
    BY <1>3 DEF Median2
  <2> HIDE DEF n
  <2> QED
    BY <2>2, <2>3
<1> QED
  BY <1>2, <1>3

-----------------------------------------------------------------------------
(* Who holds the locks, and what the lists hold. *)

\* What the locks promise: a list that the median thread reads or a sensor
\* appends to is locked by it.
Locked ==
  \A s \in Sensor :
    /\ lock[s] = "sensor" <=> sensor_pc[s] = "append"
    /\ lock[s] = "median" <=> median_pc \in {<<"median", s>>, <<"clear", s>>}

\* No median is decided upon before a stage has set the limits, and an
\* exception ends the thread before it has decided anything.
DecidedWithLimits ==
  /\ zone # "none" => limits # Unbound
  /\ ~ median_alive => limits = Unbound

IInv == TypeOK /\ Locked /\ EverySampleCounts /\ DecidedWithLimits

LEMMA InitIInv == Init => IInv
<1> SUFFICES ASSUME Init PROVE IInv
  OBVIOUS
<1>1. TypeOK
  BY DEF Init, TypeOK, MedianPc, Sensor
<1>2. Locked
  BY DEF Init, Locked
<1>3. EverySampleCounts
  BY DEF Init, EverySampleCounts
<1>4. DecidedWithLimits
  BY DEF Init, DecidedWithLimits
<1> QED
  BY <1>1, <1>2, <1>3, <1>4 DEF IInv

\* A stage is one of three, and its limits are not those of a thread that has
\* set none.
LEMMA Stages ==
  /\ DOMAIN Stage = 1 .. 3
  /\ Len(Stage) = 3
  /\ \A n \in 1 .. 3 : /\ Stage[n].limit \in Nat
                       /\ Limits(n) = [autobrake |-> 16, collision |-> 25]
                       /\ Limits(n) # Unbound
  BY DEF Stage, Limits, Unbound

LEMMA ListOfNumbers ==
  ASSUME NEW list \in Seq(Distance)
  PROVE  list \in Seq(Nat)
<1>1. Len(list) \in Nat /\ list \in [1 .. Len(list) -> Distance]
  OBVIOUS
<1>2. list \in [1 .. Len(list) -> Nat]
  BY <1>1, EcuAssumption
<1> QED
  BY <1>1, <1>2

\* Every step keeps the types.
LEMMA StepType ==
  ASSUME TypeOK, [Next]_vars
  PROVE  TypeOK'
<1> USE EcuAssumption DEF TypeOK, Sensor
<1>1. ASSUME NEW s \in Sensor, SensorAcquire(s)
      PROVE  TypeOK'
  BY <1>1 DEF SensorAcquire, speedVars
<1>2. ASSUME NEW s \in Sensor, SensorAppend(s)
      PROVE  TypeOK'
  <2>1. PICK distance \in Distance :
          /\ distances' = [distances EXCEPT ![s] = Append(@, distance)]
          /\ since' = [since EXCEPT ![s] = Append(@, distance)]
    BY <1>2 DEF SensorAppend
  <2>2. distances' \in [Sensor -> Seq(Distance)]
    BY <2>1
  <2>3. since' \in [Sensor -> Seq(Distance)]
    BY <2>1
  <2> QED
    BY <1>2, <2>2, <2>3 DEF SensorAppend, speedVars
<1>3. ASSUME NEW s \in Sensor, MedianAcquire(s)
      PROVE  TypeOK'
  BY <1>3 DEF MedianAcquire, MedianPc, speedVars
<1>4. ASSUME NEW s \in Sensor, TakeMedian(s)
      PROVE  TypeOK'
  <2>1. distances[s] \in Seq(Nat)
    <3>1. distances[s] \in Seq(Distance)
      OBVIOUS
    <3> QED
      BY <3>1, ListOfNumbers
  <2>2. Len(distances[s]) > 0 => Median2(distances[s]) \in Nat
    BY <2>1, MedianType
  <2>3. median' \in [Sensor -> Nat]
    BY <1>4, <2>2 DEF TakeMedian, SENSOR_PROBLEM
  <2>4. median_pc' \in MedianPc
    BY <1>4 DEF TakeMedian, MedianPc
  <2> QED
    BY <1>4, <2>3, <2>4 DEF TakeMedian, speedVars
<1>5. ASSUME NEW s \in Sensor, Clear(s)
      PROVE  TypeOK'
  <2>1. distances' \in [Sensor -> Seq(Distance)] /\ since' \in [Sensor -> Seq(Distance)]
    <3>1. <<>> \in Seq(Distance)
      OBVIOUS
    <3> QED
      BY <1>5, <3>1 DEF Clear
  <2>2. median_pc' \in MedianPc
    BY <1>5, Stages DEF Clear, MedianPc
  <2> QED
    BY <1>5, <2>1, <2>2 DEF Clear, speedVars
<1>6. ASSUME NEW n \in DOMAIN Stage, TestStage(n)
      PROVE  TypeOK'
  <2>1. median_pc' \in MedianPc
    BY <1>6, Stages DEF TestStage, NextStage, MedianPc
  <2>2. limits' \in {Unbound} \cup {Limits(m) : m \in DOMAIN Stage}
    BY <1>6 DEF TestStage
  <2> QED
    BY <1>6, <2>1, <2>2 DEF TestStage, speedVars
<1>7. CASE Decide
  <2>1. CASE limits = Unbound
    BY <1>7, <2>1 DEF Decide, speedVars
  <2>2. CASE limits # Unbound
    <3>1. /\ median_pc' = <<"acquire", 0>> /\ median' = [s \in Sensor |-> 0]
          /\ median_alive' = median_alive
          /\ UNCHANGED <<distances, lock, sensor_pc, speedVars, limits, since>>
      BY <1>7, <2>2, Zenon DEF Decide
    <3>2. zone' \in {"near", "mid", "far"}
      BY <1>7, <2>2 DEF Decide
    <3>3. median_pc' \in MedianPc /\ median' \in [Sensor -> Nat]
      BY <3>1 DEF MedianPc
    <3> QED
      BY <3>1, <3>2, <3>3 DEF speedVars
  <2> QED
    BY <2>1, <2>2
<1>8. CASE ReadSpeed
  BY <1>8 DEF ReadSpeed
<1>9. CASE UNCHANGED vars
  BY <1>9 DEF vars
<1> QED
  BY <1>1, <1>2, <1>3, <1>4, <1>5, <1>6, <1>7, <1>8, <1>9
  DEF Next, SensorNext, MedianNext

\* Every step keeps the locks.
LEMMA StepLocked ==
  ASSUME TypeOK, Locked, [Next]_vars
  PROVE  Locked'
<1> USE DEF TypeOK, Sensor, Locked
<1>1. ASSUME NEW s \in Sensor, SensorAcquire(s)
      PROVE  Locked'
  BY <1>1 DEF SensorAcquire
<1>2. ASSUME NEW s \in Sensor, SensorAppend(s)
      PROVE  Locked'
  BY <1>2 DEF SensorAppend
<1>3. ASSUME NEW s \in Sensor, MedianAcquire(s)
      PROVE  Locked'
  BY <1>3 DEF MedianAcquire
<1>4. ASSUME NEW s \in Sensor, TakeMedian(s)
      PROVE  Locked'
  BY <1>4 DEF TakeMedian
<1>5. ASSUME NEW s \in Sensor, Clear(s)
      PROVE  Locked'
  BY <1>5 DEF Clear
<1>6. ASSUME NEW n \in DOMAIN Stage, TestStage(n)
      PROVE  Locked'
  <2>1. median_pc = <<"stage", n>>
    BY <1>6 DEF TestStage
  <2>2. median_pc' \in {<<"stage", n + 1>>, <<"decide", 0>>}
    BY <1>6 DEF TestStage, NextStage
  <2>3. UNCHANGED <<lock, sensor_pc>>
    BY <1>6 DEF TestStage
  <2> QED
    BY <2>1, <2>2, <2>3
<1>7. CASE Decide
  <2>1. /\ median_pc = <<"decide", 0>>
        /\ median_pc' \in {median_pc, <<"acquire", 0>>}
        /\ UNCHANGED <<lock, sensor_pc>>
    BY <1>7, Zenon DEF Decide
  <2> QED
    BY <2>1
<1>8. CASE ReadSpeed
  BY <1>8 DEF ReadSpeed
<1>9. CASE UNCHANGED vars
  BY <1>9 DEF vars
<1> QED
  BY <1>1, <1>2, <1>3, <1>4, <1>5, <1>6, <1>7, <1>8, <1>9
  DEF Next, SensorNext, MedianNext

\* Every step keeps the lists equal to what has been appended.
LEMMA StepCounts ==
  ASSUME TypeOK, Locked, EverySampleCounts, [Next]_vars
  PROVE  EverySampleCounts'
<1> USE DEF TypeOK, Sensor, EverySampleCounts
<1>1. ASSUME NEW s \in Sensor, SensorAcquire(s)
      PROVE  EverySampleCounts'
  BY <1>1 DEF SensorAcquire
<1>2. ASSUME NEW s \in Sensor, SensorAppend(s)
      PROVE  EverySampleCounts'
  <2>1. median_pc # <<"clear", s>>
    BY <1>2 DEF SensorAppend, Locked
  <2>2. /\ distances'[s] = since'[s]
        /\ \A t \in Sensor \ {s} :
             distances'[t] = distances[t] /\ since'[t] = since[t]
    BY <1>2 DEF SensorAppend
  <2>3. UNCHANGED <<median_pc, median>>
    BY <1>2 DEF SensorAppend
  <2> QED
    BY <2>1, <2>2, <2>3
<1>3. ASSUME NEW s \in Sensor, MedianAcquire(s)
      PROVE  EverySampleCounts'
  BY <1>3 DEF MedianAcquire
<1>4. ASSUME NEW s \in Sensor, TakeMedian(s)
      PROVE  EverySampleCounts'
  <2>1. distances[s] \in Seq(Distance) /\ distances[s] = since[s]
    OBVIOUS
  <2>2. Len(distances[s]) > 0 <=> since[s] # <<>>
    BY <2>1
  <2>3. median'[s] = IF since[s] = <<>> THEN SENSOR_PROBLEM ELSE Median2(since[s])
    BY <1>4, <2>1, <2>2 DEF TakeMedian
  <2>4. /\ median_pc' = <<"clear", s>>
        /\ UNCHANGED <<distances, since>>
    BY <1>4 DEF TakeMedian
  <2> QED
    BY <2>1, <2>3, <2>4
<1>5. ASSUME NEW s \in Sensor, Clear(s)
      PROVE  EverySampleCounts'
  BY <1>5 DEF Clear
<1>6. ASSUME NEW n \in DOMAIN Stage, TestStage(n)
      PROVE  EverySampleCounts'
  <2>1. median_pc' \in {<<"stage", n + 1>>, <<"decide", 0>>}
    BY <1>6 DEF TestStage, NextStage
  <2>2. UNCHANGED <<distances, since, median>>
    BY <1>6 DEF TestStage
  <2> QED
    BY <2>1, <2>2
<1>7. CASE Decide
  <2>1. /\ median_pc = <<"decide", 0>>
        /\ median_pc' \in {median_pc, <<"acquire", 0>>}
        /\ UNCHANGED <<distances, since>>
    BY <1>7, Zenon DEF Decide
  <2> QED
    BY <2>1
<1>8. CASE ReadSpeed
  BY <1>8 DEF ReadSpeed
<1>9. CASE UNCHANGED vars
  BY <1>9 DEF vars
<1> QED
  BY <1>1, <1>2, <1>3, <1>4, <1>5, <1>6, <1>7, <1>8, <1>9
  DEF Next, SensorNext, MedianNext

\* Limits, once set, stay set.
LEMMA StepLimits ==
  ASSUME TypeOK, DecidedWithLimits, [Next]_vars
  PROVE  DecidedWithLimits'
<1> USE DEF DecidedWithLimits
<1>1. ASSUME NEW s \in Sensor,
             SensorNext(s) \/ MedianAcquire(s) \/ TakeMedian(s) \/ Clear(s)
      PROVE  DecidedWithLimits'
  <2>1. UNCHANGED <<median_alive, limits, zone>>
    BY <1>1, Zenon DEF SensorNext, SensorAcquire, SensorAppend, MedianAcquire, TakeMedian, Clear
  <2> QED
    BY <2>1
<1>2. ASSUME NEW n \in DOMAIN Stage, TestStage(n)
      PROVE  DecidedWithLimits'
  <2>1. median_alive /\ UNCHANGED <<median_alive, zone>>
    BY <1>2 DEF TestStage
  <2>2. limits' = Limits(n) \/ limits' = limits
    BY <1>2 DEF TestStage
  <2> QED
    BY <2>1, <2>2, Stages
<1>3. CASE Decide
  BY <1>3 DEF Decide
<1>4. CASE ReadSpeed
  BY <1>4 DEF ReadSpeed
<1>5. CASE UNCHANGED vars
  BY <1>5 DEF vars
<1> QED
  BY <1>1, <1>2, <1>3, <1>4, <1>5 DEF Next, MedianNext

LEMMA SpecIInv == Spec => []IInv
<1>1. IInv /\ [Next]_vars => IInv'
  BY StepType, StepLocked, StepCounts, StepLimits DEF IInv
<1> QED
  BY InitIInv, <1>1, PTL DEF Spec

\* Type correctness of the threads: the median of any list a sensor can fill
\* is a number, and a stage is one of three.
THEOREM EcuTypeCorrect == Spec => []TypeOK
<1>1. IInv => TypeOK
  BY DEF IInv
<1> QED
  BY <1>1, SpecIInv, PTL

\* No distance is lost between the median and the clear, whatever is measured
\* and however often (lines 221-245).
THEOREM EcuCountsEverySample == Spec => []EverySampleCounts
<1>1. IInv => EverySampleCounts
  BY DEF IInv
<1> QED
  BY <1>1, SpecIInv, PTL

\* An uncovered speed ends the median thread in its first iteration or never,
\* for all speeds (lines 255-268).
THEOREM EcuDiesAtOnceOrNever == Spec => []DiesAtOnceOrNever
<1>1. IInv => DiesAtOnceOrNever
  BY DEF IInv, DecidedWithLimits, DiesAtOnceOrNever
<1> QED
  BY <1>1, SpecIInv, PTL

\* A near median of either sensor makes the zone near, for all distances and
\* speeds (lines 247-268).
THEOREM EitherSensorIsEnough == Spec => EitherSensorBrakes
<1>1. ASSUME TypeOK, Decide, median_alive',
             \E s \in Sensor : median[s] < 2 * Stage[1].autobrake
      PROVE  zone' = "near"
  <2>1. limits # Unbound
    BY <1>1 DEF Decide
  <2>2. limits.autobrake = 16
    BY <1>1, <2>1, Stages DEF TypeOK
  <2>3. median[0] \in Nat /\ median[1] \in Nat
    BY <1>1 DEF TypeOK, Sensor
  <2>4. median[0] < 32 \/ median[1] < 32
    BY <1>1 DEF Sensor, Stage
  <2>5. Nearer < 2 * limits.autobrake
    BY <2>2, <2>3, <2>4 DEF Nearer
  <2>6. ~(Nearer >= 2 * limits.autobrake)
    BY <2>2, <2>3, <2>5 DEF Nearer
  <2>7. zone' = CASE Nearer < 2 * limits.autobrake -> "near"
                  [] Nearer >= 2 * limits.autobrake
                       /\ Nearer < 2 * limits.collision -> "mid"
                  [] OTHER -> "far"
    BY <1>1, <2>1, Zenon DEF Decide
  <2> QED
    BY <2>5, <2>6, <2>7
<1> QED
  BY <1>1, EcuTypeCorrect, PTL DEF EitherSensorBrakes
=============================================================================
