----------------------------- MODULE Ultrasonic -----------------------------
(***************************************************************************)
(* One sensor_thread of ECU_RASP/main.py and the HC-SR04 it reads: the     *)
(* sensor answers a trigger by holding its echo line high for as long as   *)
(* the sound was on its way, and the thread times the line by polling it.  *)
(* Time passes in ticks, between two polls at most Jitter of them (Python  *)
(* gives the interpreter to one thread at a time).  Times are relative to  *)
(* SampleStartTime.                                                        *)
(***************************************************************************)
EXTENDS Integers

CONSTANTS
  LEAVE_SAMPLE_INTERVAL,  \* ticks after which a sample is given up
  Jitter,                 \* ticks an iteration of a polling loop may take
  RiseDelay,              \* ticks from a trigger to the rise of the echo
  EchoLength              \* ticks an echo may last

ASSUME UltrasonicAssumption ==
  /\ LEAVE_SAMPLE_INTERVAL \in Nat \ {0}
  /\ Jitter \in Nat \ {0}
  /\ RiseDelay \in Nat \ {0}
  /\ EchoLength \subseteq Nat \ {0}

VARIABLES
  pc,         \* where the thread is: trigger, rise (line 141), fall (line 151)
  since,      \* time.time() - SampleStartTime
  StartTime,
  StopTime,
  rise,       \* ticks until the echo rises, 0 once it has
  fall,       \* ticks until the echo falls, 0 when the sensor is at rest
  length,     \* how long the current echo lasts in all
  whose,      \* the sample whose trigger the echo on the line answers
  appended    \* the last distance appended, in ticks, and what it was of

sampleVars ==
  <<pc, since, StartTime, StopTime, rise, fall, length, whose, appended>>

LastTick == LEAVE_SAMPLE_INTERVAL + Jitter
Time == 0 .. LastTick

\* "none" when the sensor has not answered the last trigger, "given up" when
\* the sample it answered has been given up before the echo was over.
Answered == {"own", "earlier", "given up", "none"}

NoSample == [ticks |-> -1, whose |-> "none", ended |-> FALSE, length |-> 0]

SampleTypeOK ==
  /\ pc \in {"trigger", "rise", "fall"}
  /\ {since, StartTime, StopTime} \subseteq Time
  /\ rise \in 0 .. RiseDelay
  /\ fall \in Nat
  /\ length \in EchoLength \cup {0}
  /\ whose \in Answered
  /\ \/ appended = NoSample
     \/ appended \in [ticks : -LastTick .. LastTick, whose : Answered,
                      ended : BOOLEAN, length : EchoLength \cup {0}]

-----------------------------------------------------------------------------

\* GPIO.input(GPIO_ECHO)
Echo == IF rise = 0 /\ fall > 0 THEN 1 ELSE 0

Decrease(counter, n) == IF counter > n THEN counter - n ELSE 0

TimePasses(n) ==
  /\ since' = IF since + n > LastTick THEN LastTick ELSE since + n
  /\ rise' = Decrease(rise, n)
  /\ fall' = Decrease(fall, n)
  /\ UNCHANGED length

SampleInit ==
  /\ pc = "trigger"
  /\ since = 0 /\ StartTime = 0 /\ StopTime = 0
  /\ rise = 0 /\ fall = 0 /\ length = 0 /\ whose = "none"
  /\ appended = NoSample

\* The sensor: a trigger is answered by an echo, not answered (no sensor, a
\* broken wire), or ignored because the last echo is not over.
Answer ==
  \/ /\ fall = 0
     /\ length' \in EchoLength
     /\ rise' = RiseDelay
     /\ fall' = RiseDelay + length'
     /\ whose' = "own"
  \/ /\ fall = 0
     /\ whose' = "none"
     /\ UNCHANGED <<rise, fall, length>>
  \/ /\ fall > 0
     /\ whose' = IF whose = "own" THEN "earlier" ELSE whose
     /\ UNCHANGED <<rise, fall, length>>

\* Lines 128-140.
Trigger ==
  /\ pc = "trigger"
  /\ pc' = "rise"
  /\ since' = 0
  /\ StartTime' = 0
  /\ Answer
  /\ UNCHANGED <<StopTime, appended>>

\* Faulty: the wait for the rise is not limited.
AwaitsRiseForever == Echo = 0

\* The conditions of the two polling loops.
AwaitsRise == Echo = 0 /\ since < LEAVE_SAMPLE_INTERVAL

\* Faulty: the loop goes on after the echo.
AwaitsFallPastEcho == since < LEAVE_SAMPLE_INTERVAL

AwaitsFall == Echo = 1 /\ since < LEAVE_SAMPLE_INTERVAL

\* Lines 141-142: the clock is read somewhere in the iteration.
WaitRise ==
  /\ pc = "rise" /\ AwaitsRise
  /\ \E n \in 1 .. Jitter : TimePasses(n) /\ StartTime' \in since .. since'
  /\ UNCHANGED <<pc, StopTime, whose, appended>>

\* "continue", whatever the echo is doing.  The loop before has ended and the
\* clock is read again: LEAVE_SAMPLE_INTERVAL may pass in between.
GiveUp ==
  /\ since' > LEAVE_SAMPLE_INTERVAL
  /\ pc' = "trigger"
  /\ whose' = IF fall' > 0 THEN "given up" ELSE whose
  /\ UNCHANGED <<StartTime, StopTime, appended>>

\* Lines 141-150.
LeaveRise ==
  /\ pc = "rise" /\ ~AwaitsRise
  /\ \E n \in 0 .. Jitter : TimePasses(n)
  /\ \/ GiveUp
     \/ /\ since' <= LEAVE_SAMPLE_INTERVAL
        /\ pc' = "fall"
        /\ StopTime' = since'
        /\ UNCHANGED <<StartTime, whose, appended>>

\* Faulty: the clock is not read in the loop.
WaitFallStale ==
  /\ pc = "fall" /\ AwaitsFall
  /\ \E n \in 1 .. Jitter : TimePasses(n)
  /\ UNCHANGED <<pc, StartTime, StopTime, whose, appended>>

\* Lines 151-152.
WaitFall ==
  /\ pc = "fall" /\ AwaitsFall
  /\ \E n \in 1 .. Jitter : TimePasses(n) /\ StopTime' \in since .. since'
  /\ UNCHANGED <<pc, StartTime, whose, appended>>

\* Lines 151-178.
LeaveFall ==
  /\ pc = "fall" /\ ~AwaitsFall
  /\ \E n \in 0 .. Jitter : TimePasses(n)
  /\ \/ GiveUp
     \/ /\ since' <= LEAVE_SAMPLE_INTERVAL
        /\ pc' = "trigger"
        /\ appended' = [ticks |-> StopTime - StartTime, whose |-> whose,
                        ended |-> fall' = 0, length |-> length]
        /\ UNCHANGED <<StartTime, StopTime, whose>>

SampleNext == Trigger \/ WaitRise \/ LeaveRise \/ WaitFall \/ LeaveFall

\* The thread runs.
SampleSpec == SampleInit /\ [][SampleNext]_sampleVars /\ WF_sampleVars(SampleNext)

-----------------------------------------------------------------------------

\* The distance of an echo that answers the sample's own trigger and that is
\* over is the length of that echo, give or take an iteration at both ends.
MeasuresItsEcho ==
  appended.whose = "own" /\ appended.ended
    => /\ appended.ticks <= appended.length + 2 * Jitter
       /\ appended.length <= appended.ticks + 2 * Jitter

\* The echo of an obstacle in range is never given up: one that is over two
\* iterations before the limit at the latest, counted from the trigger as
\* lines 141 and 151 do, and that lasts long enough for a poll to fall into it.
InRange ==
  /\ whose = "own"
  /\ Jitter <= length
  /\ RiseDelay + length + 2 * Jitter <= LEAVE_SAMPLE_INTERVAL

InRangeIsNotGivenUp == [][GiveUp => ~InRange]_sampleVars

\* The thread never hangs on a sensor, answering or not.
KeepsSampling == []<>(pc = "trigger")

\* main.py lines 144 and 154 say that a sample is given up and the next one
\* begun ("Desiste da amostra e parte pra outra"): an echo that has been given
\* up is not measured by a later sample.
GivenUpEchoesAreNotMeasured ==
  appended.ended /\ appended.ticks > 0 => appended.whose # "given up"
=============================================================================
