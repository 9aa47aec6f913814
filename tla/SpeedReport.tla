----------------------------- MODULE SpeedReport -----------------------------
(***************************************************************************)
(* From the pulses of the right wheel to current_speed: get_rms_task of    *)
(* EncoderCounter.tla sends a line "%d.%04d\n" (send_speed_to_ECU), and    *)
(* get_speed_via_serial_thread of main.py reads lines and converts them.   *)
(* The Raspberry Pi may be started, and the ESP32 reset, in the middle of  *)
(* a line; a line that is no number raises ValueError, which ends the      *)
(* thread.  Speeds are in ten thousandths of a centimetre per second.      *)
(***************************************************************************)
EXTENDS EncoderCounter, Decimal

CONSTANTS
  PULSES_PER_REVOLUTION,
  WHEEL_CIRCUMFERENCE     \* in ten thousandths of a centimetre

ASSUME SpeedReportAssumption ==
  PULSES_PER_REVOLUTION \in Nat \ {0} /\ WHEEL_CIRCUMFERENCE \in Nat

VARIABLES
  wire,           \* the bytes of the line that have not arrived
  reader,         \* the speed thread: off, reading, dead
  buffer,         \* the bytes of the line that readline waits for the end of
  current_speed,
  said,           \* the speed in the line sent last
  intact          \* the bytes in buffer begin the line that was sent

lineVars == <<wire, reader, buffer, current_speed, said, intact>>
vars == <<counterVars, lineVars>>

Newline == 10
Point == 46
Byte == Digit \cup {Point, Newline}

TypeOK ==
  /\ CounterTypeOK
  /\ wire \in Seq(Byte) /\ buffer \in Seq(Byte \ {Newline})
  /\ reader \in {"off", "reading", "dead"}
  /\ current_speed \in Nat /\ said \in Nat
  /\ intact \in BOOLEAN

Init ==
  /\ CounterInit
  /\ wire = <<>> /\ reader = "off" /\ buffer = <<>> /\ current_speed = 0
  /\ said = 0 /\ intact = FALSE

-----------------------------------------------------------------------------
(* What is sent and what it is taken for. *)

\* Lines 84-94, to the digit that the rounding of a float may cost: only the
\* right wheel counts.
Speed(count) == (count * WHEEL_CIRCUMFERENCE) \div PULSES_PER_REVOLUTION

\* Faulty: "%d.%d\n", without the padding that line 61 reminds of.
LineUnpadded(speed) ==
  Decimal(speed \div FourPlaces) \o <<Point>> \o Decimal(speed % FourPlaces)
    \o <<Newline>>

\* Lines 56-62 of uart_handler.c: "%d.%04d\n".
Line(speed) ==
  Decimal(speed \div FourPlaces) \o <<Point>> \o Padded(speed % FourPlaces)
    \o <<Newline>>

\* float(line): digits with one point at most, and four places after it.
Points(bytes) == {i \in DOMAIN bytes : bytes[i] = Point}
IsNumber(bytes) ==
  /\ \E i \in DOMAIN bytes : bytes[i] # Point
  /\ \A i, j \in Points(bytes) : i = j
Float(bytes) ==
  IF Points(bytes) = {} THEN FourPlaces * Number(bytes)
  ELSE LET p == CHOOSE i \in Points(bytes) : TRUE
           place(i) == IF p + i <= Len(bytes) THEN bytes[p + i] ELSE Character(0)
       IN  FourPlaces * Number(SubSeq(bytes, 1, p - 1))
             + Number(<<place(1), place(2), place(3), place(4)>>)

-----------------------------------------------------------------------------

\* The wheels turn.
Turn == (\E w \in Wheel : PulseLoad(w)) /\ UNCHANGED lineVars

\* The interrupt handler's other step, and the task's steps but one.
Stored == PulseStore /\ UNCHANGED lineVars
Count ==
  /\ StartTask \/ ReadCounters \/ ResetLeft \/ ResetRight \/ Delay
  /\ UNCHANGED lineVars

\* send_speed_to_ECU.  The line before has arrived: reports are a second apart.
Send ==
  /\ SendSpeed
  /\ wire = <<>>
  /\ wire' = Line(Speed(counted))
  /\ said' = Speed(counted)
  /\ UNCHANGED <<reader, buffer, current_speed, intact>>

\* ser.readline and float: at the newline the line is converted, or raises.
Arrive ==
  /\ wire # <<>>
  /\ wire' = Tail(wire)
  /\ \/ /\ reader = "reading" /\ Head(wire) # Newline
        /\ buffer' = Append(buffer, Head(wire))
        /\ UNCHANGED <<reader, current_speed, intact>>
     \/ /\ reader = "reading" /\ Head(wire) = Newline
        /\ buffer' = <<>>
        /\ intact' = TRUE
        /\ IF IsNumber(buffer)
           THEN current_speed' = Float(buffer) /\ UNCHANGED reader
           ELSE reader' = "dead" /\ UNCHANGED current_speed
     \/ /\ reader # "reading"
        /\ UNCHANGED <<reader, buffer, current_speed, intact>>
  /\ UNCHANGED <<counterVars, said>>

\* main.py opens the port, between two lines or in the middle of one.
StartReader ==
  /\ reader = "off"
  /\ reader' = "reading"
  /\ intact' = (wire = <<>> \/ wire = Line(said))
  /\ UNCHANGED <<counterVars, wire, buffer, current_speed, said>>

\* The ESP32 is reset: what it has not sent yet is lost, and the next line is
\* taken for the rest of the one under way.  One line is cut once (a bound).
Reset ==
  /\ intact \/ buffer = <<>>
  /\ CounterReset
  /\ wire' = <<>>
  /\ intact' = (intact /\ buffer = <<>>)
  /\ UNCHANGED <<reader, buffer, current_speed, said>>

Next == Turn \/ Stored \/ Count \/ Send \/ Arrive \/ StartReader \/ Reset

\* The task and the handler run and the line delivers.
Fairness ==
  WF_vars(Stored) /\ WF_vars(Count) /\ WF_vars(Send) /\ WF_vars(Arrive)

Spec == Init /\ [][Next]_vars
FairSpec == Spec /\ Fairness

-----------------------------------------------------------------------------

\* Whatever has been cut before, a line that came whole is taken for the speed
\* that was computed, to the last digit, and does not end the thread (lines
\* 56-62 against main.py 91-96): only a cut one may.  (A cut line that is a
\* number after all, "814" of "10.6814", is a speed no car has: main.py 262.)
WholeLinesAreExact ==
  [][Arrive /\ reader = "reading" /\ Head(wire) = Newline /\ intact
       => current_speed' = said /\ reader' = "reading"]_vars

\* A car that stands is in the end reported to stand, whatever increments the
\* resets of the counters have torn, if the thread still reads and the ESP32 is
\* not reset for ever (lines 83-106).
StandingIsReported ==
  /\ <>[][\A w \in Wheel : ~PulseLoad(w)]_vars
  /\ <>[](reader = "reading" /\ task # "off")
  => <>[](current_speed = 0)
=============================================================================
