--------------------------------- MODULE Ecu ---------------------------------
(***************************************************************************)
(* The threads of ECU_RASP/main.py and what they share: two sensor threads *)
(* append distances to their lists under a lock, the median thread empties *)
(* the lists under the same locks and turns the medians into a zone, and   *)
(* the speed thread sets the speed the limits depend on.  The vote that    *)
(* follows the zone is in Voting.tla, the timing of a distance in          *)
(* Ultrasonic.tla.  A thread that raises an exception is gone.             *)
(* Distances are in centimetres; medians are doubled, so that the mean of  *)
(* two distances stays an integer.                                         *)
(***************************************************************************)
EXTENDS Integers, Sequences, FiniteSets

CONSTANTS
  Distance,    \* distances a sensor may measure
  Speed,       \* speeds a line from the ESP32 may say
  MaxSamples   \* samples a sensor takes between two medians

ASSUME EcuAssumption ==
  /\ Distance \subseteq Nat
  /\ Speed \subseteq Nat
  /\ MaxSamples \in Nat \ {0}

Sensor == {0, 1}

VARIABLES
  distances,      \* sensor0_distances, sensor1_distances
  lock,           \* lock_0, lock_1: who holds it
  sensor_pc,      \* where each sensor thread is
  median_pc,      \* where the median thread is, and at which sensor
  median,         \* sensor0_median, sensor1_median, doubled
  current_speed,
  speed_alive,    \* the speed thread has raised no exception
  median_alive,   \* nor has the median thread
  limits,         \* AUTOBRAKE_DIST and COLLISION_DIST, unbound at first
  zone,           \* the branch the last iteration took
  since           \* all the distances appended since the last median of each

speedVars == <<current_speed, speed_alive>>
vars == <<distances, lock, sensor_pc, median_pc, median,
          current_speed, speed_alive, median_alive, limits, zone, since>>

SENSOR_PROBLEM == 246   \* 123.44, doubled and cut
Unbound == [autobrake |-> 0, collision |-> 0]

\* AUTOBRAKE_DIST_STAGE_n, COLLISION_DIST_STATE_n and LESS_THAN_VALUE_STAGE_n.
Stage == <<[limit |-> 5,  autobrake |-> 16, collision |-> 25],
           [limit |-> 25, autobrake |-> 16, collision |-> 25],
           [limit |-> 80, autobrake |-> 16, collision |-> 25]>>

MedianPc ==
  {"acquire", "median", "clear"} \X Sensor
    \cup {"stage"} \X DOMAIN Stage \cup {<<"decide", 0>>}

Limits(n) ==
  [autobrake |-> Stage[n].autobrake, collision |-> Stage[n].collision]

TypeOK ==
  /\ distances \in [Sensor -> Seq(Distance)]
  /\ lock \in [Sensor -> {"free", "sensor", "median"}]
  /\ sensor_pc \in [Sensor -> {"measure", "append"}]
  /\ median_pc \in MedianPc
  /\ median \in [Sensor -> Nat]
  /\ current_speed \in Speed \cup {0}
  /\ {speed_alive, median_alive} \subseteq BOOLEAN
  /\ limits \in {Unbound} \cup {Limits(n) : n \in DOMAIN Stage}
  /\ zone \in {"none", "near", "mid", "far"}
  /\ since \in [Sensor -> Seq(Distance)]

-----------------------------------------------------------------------------

Init ==
  /\ distances = [s \in Sensor |-> <<>>]
  /\ lock = [s \in Sensor |-> "free"]
  /\ sensor_pc = [s \in Sensor |-> "measure"]
  /\ median_pc = <<"acquire", 0>>
  /\ median = [s \in Sensor |-> 0]
  /\ current_speed = 0
  /\ speed_alive = TRUE /\ median_alive = TRUE
  /\ limits = Unbound
  /\ zone = "none"
  /\ since = [s \in Sensor |-> <<>>]

\* Faulty: the list is appended to without the lock.
SensorPasses(s) ==
  /\ sensor_pc[s] = "measure" /\ Len(since[s]) < MaxSamples
  /\ sensor_pc' = [sensor_pc EXCEPT ![s] = "append"]
  /\ UNCHANGED <<lock, distances, median_pc, median, speedVars, median_alive,
                 limits, zone, since>>

\* A sample is taken, see Ultrasonic.tla, and then the lock.
SensorAcquire(s) ==
  /\ sensor_pc[s] = "measure" /\ Len(since[s]) < MaxSamples
  /\ lock[s] = "free"
  /\ lock' = [lock EXCEPT ![s] = "sensor"]
  /\ sensor_pc' = [sensor_pc EXCEPT ![s] = "append"]
  /\ UNCHANGED <<distances, median_pc, median, speedVars, median_alive, limits,
                 zone, since>>

\* Lines 172-173 and 177-178, with the distance measured before.
SensorAppend(s) ==
  /\ sensor_pc[s] = "append"
  /\ \E distance \in Distance :
       /\ distances' = [distances EXCEPT ![s] = Append(@, distance)]
       /\ since' = [since EXCEPT ![s] = Append(@, distance)]
  /\ lock' = [lock EXCEPT ![s] = "free"]
  /\ sensor_pc' = [sensor_pc EXCEPT ![s] = "measure"]
  /\ UNCHANGED <<median_pc, median, speedVars, median_alive, limits, zone>>

-----------------------------------------------------------------------------

\* The k-th smallest element of a list.
Smallest(list, k) ==
  LET Position == DOMAIN list IN
  CHOOSE d \in {list[j] : j \in Position} :
    /\ Cardinality({j \in Position : list[j] < d}) < k
    /\ Cardinality({j \in Position : list[j] <= d}) >= k

\* statistics.median, doubled.
Median2(list) ==
  LET n == Len(list) IN
  IF n % 2 = 1 THEN 2 * Smallest(list, (n + 1) \div 2)
               ELSE Smallest(list, n \div 2) + Smallest(list, n \div 2 + 1)

MedianAcquire(s) ==
  /\ median_alive /\ median_pc = <<"acquire", s>>
  /\ lock[s] = "free"
  /\ lock' = [lock EXCEPT ![s] = "median"]
  /\ median_pc' = <<"median", s>>
  /\ UNCHANGED <<distances, sensor_pc, median, speedVars, median_alive, limits,
                 zone, since>>

\* Lines 223-231 and 236-244, up to the clear.
TakeMedian(s) ==
  /\ median_alive /\ median_pc = <<"median", s>>
  /\ median' = [median EXCEPT ![s] = IF Len(distances[s]) > 0
                                     THEN Median2(distances[s])
                                     ELSE SENSOR_PROBLEM]
  /\ median_pc' = <<"clear", s>>
  /\ UNCHANGED <<distances, lock, sensor_pc, speedVars, median_alive, limits,
                 zone, since>>

\* Faulty: the lock of an empty list is not released.
ClearKeepsLock(s) ==
  /\ median_alive /\ median_pc = <<"clear", s>>
  /\ distances' = [distances EXCEPT ![s] = <<>>]
  /\ lock' = IF Len(distances[s]) > 0 THEN [lock EXCEPT ![s] = "free"] ELSE lock
  /\ since' = [since EXCEPT ![s] = <<>>]
  /\ median_pc' = IF s = 0 THEN <<"acquire", 1>> ELSE <<"stage", 1>>
  /\ UNCHANGED <<sensor_pc, median, speedVars, median_alive, limits, zone>>

\* The clear of a list that is not empty, and the release.
Clear(s) ==
  /\ median_alive /\ median_pc = <<"clear", s>>
  /\ distances' = [distances EXCEPT ![s] = <<>>]
  /\ lock' = [lock EXCEPT ![s] = "free"]
  /\ since' = [since EXCEPT ![s] = <<>>]
  /\ median_pc' = IF s = 0 THEN <<"acquire", 1>> ELSE <<"stage", 1>>
  /\ UNCHANGED <<sensor_pc, median, speedVars, median_alive, limits, zone>>

NextStage(n) ==
  IF n < Len(Stage) THEN <<"stage", n + 1>> ELSE <<"decide", 0>>

\* Faulty: the limits are those of this iteration alone.
TestStageAnew(n) ==
  /\ median_alive /\ median_pc = <<"stage", n>>
  /\ \/ /\ current_speed < Stage[n].limit
        /\ limits' = Limits(n)
        /\ median_pc' = <<"decide", 0>>
     \/ /\ current_speed >= Stage[n].limit
        /\ limits' = Unbound
        /\ median_pc' = NextStage(n)
  /\ UNCHANGED <<distances, lock, sensor_pc, median, speedVars, median_alive,
                 zone, since>>

\* Lines 255-263: every test reads the speed anew, and a speed beyond the last
\* stage leaves the limits as they are.
TestStage(n) ==
  /\ median_alive /\ median_pc = <<"stage", n>>
  /\ \/ /\ current_speed < Stage[n].limit
        /\ limits' = Limits(n)
        /\ median_pc' = <<"decide", 0>>
     \/ /\ current_speed >= Stage[n].limit
        /\ median_pc' = NextStage(n)
        /\ UNCHANGED limits
  /\ UNCHANGED <<distances, lock, sensor_pc, median, speedVars, median_alive,
                 zone, since>>

\* Faulty: the farther of the two sensors decides.
Farther == IF median[0] > median[1] THEN median[0] ELSE median[1]

\* less_distance, doubled.
Nearer == IF median[0] < median[1] THEN median[0] ELSE median[1]

\* Lines 265-306: the limits are local to the thread, so reading them before a
\* stage has set them raises UnboundLocalError and ends the thread.  The
\* medians are not read again and forgotten.
Decide ==
  /\ median_alive /\ median_pc = <<"decide", 0>>
  /\ IF limits = Unbound
     THEN /\ median_alive' = FALSE
          /\ UNCHANGED <<median_pc, median, zone>>
     ELSE /\ zone' = CASE Nearer < 2 * limits.autobrake -> "near"
                       [] Nearer >= 2 * limits.autobrake
                            /\ Nearer < 2 * limits.collision -> "mid"
                       [] OTHER -> "far"
          /\ median_pc' = <<"acquire", 0>>
          /\ median' = [s \in Sensor |-> 0]
          /\ UNCHANGED median_alive
  /\ UNCHANGED <<distances, lock, sensor_pc, speedVars, limits, since>>

\* Lines 91-96: a line that is no number raises ValueError.
ReadSpeed ==
  /\ speed_alive
  /\ \/ current_speed' \in Speed /\ UNCHANGED speed_alive
     \/ speed_alive' = FALSE /\ UNCHANGED current_speed
  /\ UNCHANGED <<distances, lock, sensor_pc, median_pc, median, median_alive,
                 limits, zone, since>>

SensorNext(s) == SensorAcquire(s) \/ SensorAppend(s)
MedianNext ==
  \/ \E s \in Sensor : MedianAcquire(s) \/ TakeMedian(s) \/ Clear(s)
  \/ \E n \in DOMAIN Stage : TestStage(n)
  \/ Decide

Next == (\E s \in Sensor : SensorNext(s)) \/ MedianNext \/ ReadSpeed

\* The interpreter gives every thread its turn.  A sensor's lock is free while
\* it measures, and it measures MaxSamples times at most between two medians.
Fairness ==
  /\ \A s \in Sensor : WF_vars(SensorNext(s))
  /\ WF_vars(MedianNext)

Spec == Init /\ [][Next]_vars
FairSpec == Spec /\ Fairness

-----------------------------------------------------------------------------

\* Every distance counts in exactly one median: the list is what has been
\* appended since the last one, and the median a thread is about to clear the
\* list for is the median of all of it (lines 221-245 hold the lock from the
\* one to the other).
EverySampleCounts ==
  \A s \in Sensor :
    /\ distances[s] = since[s]
    /\ median_pc = <<"clear", s>>
         => median[s] = IF since[s] = <<>> THEN SENSOR_PROBLEM
                                           ELSE Median2(since[s])

\* An obstacle one sensor sees is decided upon whatever the other sensor sees,
\* and whether it works at all: a near median of either sensor makes the zone
\* near, at any speed.
EitherSensorBrakes ==
  [][Decide /\ median_alive'
       /\ (\E s \in Sensor : median[s] < 2 * Stage[1].autobrake)
     => zone' = "near"]_vars

\* A speed no stage covers ends the thread in its first iteration or never.
DiesAtOnceOrNever == ~ median_alive => zone = "none"

\* The median thread decides again and again unless it has raised an
\* exception: no lock is kept by anybody.
KeepsDeciding == []<>(median_pc[1] = "decide")
=============================================================================
