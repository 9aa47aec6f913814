---------------------------- MODULE SensorProofs ----------------------------
(***************************************************************************)
(* Theorems about what the car measures: EncoderCounter.tla, for every     *)
(* number of pulses; SpeedReport.tla, which adds the line to it, for every *)
(* speed; and Ultrasonic.tla, for every limit, jitter and sensor.          *)
(*                                                                         *)
(* What Decimal.tla computes is proved by induction over the digits.  The  *)
(* provers cannot instantiate an induction rule that takes an operator, so *)
(* the rule is stated with the set of the numbers that are already known   *)
(* to be right (ByInduction).                                              *)
(***************************************************************************)
EXTENDS SpeedReport, Ultrasonic, WellFoundedInduction, SequenceTheorems, TLAPS

\* What the handler has loaded is still the count, unless the reset has fallen
\* into the increment: then it is the count that the reset wiped out.
LoadedIsCount == isr.loaded = cont["right"]
LoadedIsOld ==
  /\ task = "delay"
  /\ revived = 0 /\ arrived = early
  /\ isr.loaded = counted + early

AccountInv ==
  /\ CounterTypeOK
  /\ PulsesAreAccountedFor
  /\ isr # NoPulse /\ isr.wheel = "right" => LoadedIsCount \/ LoadedIsOld
  /\ BeforeReset => revived = 0

\* The counters are zero when the ESP32 starts.
LEMMA AccountInitially == CounterInit => AccountInv
  BY DEF CounterInit, AccountInv, CounterTypeOK, PulsesAreAccountedFor,
         BeforeReset, NoPulse, Wheel

\* The handler's store is the step that the reset can spoil.
LEMMA StoreKeepsAccount == AccountInv /\ PulseStore => AccountInv'
<1> SUFFICES ASSUME AccountInv, PulseStore PROVE AccountInv'
  OBVIOUS
<1>1. isr \in [wheel : Wheel, loaded : Nat] /\ isr # NoPulse
  BY DEF AccountInv, CounterTypeOK, PulseStore
<1>2. cont' = [cont EXCEPT ![isr.wheel] = isr.loaded + 1]
      /\ cont \in [Wheel -> Nat] /\ isr' = NoPulse
  BY DEF AccountInv, CounterTypeOK, PulseStore
<1>3. CASE isr.wheel = "left"
  <2>1. cont'["right"] = cont["right"] /\ cont' \in [Wheel -> Nat]
    BY <1>1, <1>2, <1>3 DEF Wheel
  <2>2. UNCHANGED <<task, counted, arrived, early, revived>>
    BY <1>3 DEF PulseStore
  <2> QED
    BY <1>2, <2>1, <2>2
    DEF AccountInv, CounterTypeOK, PulsesAreAccountedFor, BeforeReset, NoPulse
<1>4. CASE isr.wheel = "right"
  <2>1. cont'["right"] = isr.loaded + 1 /\ cont' \in [Wheel -> Nat]
    BY <1>1, <1>2, <1>4 DEF Wheel
  <2>2. /\ arrived' = arrived + 1
        /\ revived' = revived + isr.loaded - cont["right"]
        /\ UNCHANGED <<task, counted, early>>
    BY <1>4 DEF PulseStore
  <2>3. cont["right"] \in Nat /\ isr.loaded \in Nat
    BY <1>1, <1>2 DEF Wheel
  <2>4. /\ counted \in Nat /\ arrived \in Nat /\ early \in Nat /\ revived \in Nat
        /\ task \in {"off", "read", "send", "reset_left", "reset_right", "delay"}
    BY DEF AccountInv, CounterTypeOK
  <2>5. CASE LoadedIsCount
    <3>1. revived' = revived
      <4>1. isr.loaded = cont["right"]
        BY <2>5 DEF LoadedIsCount
      <4>2. revived' = revived + cont["right"] - cont["right"]
        BY <2>2, <4>1
      <4> QED
        BY <2>3, <2>4, <4>2
    <3>2. PulsesAreAccountedFor'
      BY <2>1, <2>2, <2>3, <2>4, <2>5, <3>1
      DEF AccountInv, PulsesAreAccountedFor, BeforeReset, LoadedIsCount
    <3> QED
      BY <1>2, <2>1, <2>2, <2>4, <3>1, <3>2
      DEF AccountInv, CounterTypeOK, BeforeReset, NoPulse
  <2>6. CASE LoadedIsOld
    <3>1. cont["right"] = 0
      BY <2>3, <2>4, <2>6
      DEF AccountInv, PulsesAreAccountedFor, BeforeReset, LoadedIsOld
    <3>2. revived' = counted + early
      BY <2>2, <2>3, <2>4, <2>6, <3>1 DEF LoadedIsOld
    <3>3. PulsesAreAccountedFor'
      BY <2>1, <2>2, <2>3, <2>4, <2>6, <3>2
      DEF PulsesAreAccountedFor, BeforeReset, LoadedIsOld
    <3> QED
      BY <1>2, <2>1, <2>2, <2>4, <2>6, <3>2, <3>3
      DEF AccountInv, CounterTypeOK, BeforeReset, NoPulse, LoadedIsOld
  <2> QED
    BY <1>1, <1>4, <2>5, <2>6 DEF AccountInv
<1> QED
  BY <1>1, <1>3, <1>4 DEF Wheel

LEMMA StepKeepsAccount == AccountInv /\ [CounterNext]_counterVars => AccountInv'
<1> SUFFICES ASSUME AccountInv, [CounterNext]_counterVars PROVE AccountInv'
  OBVIOUS
<1> USE DEF AccountInv, CounterTypeOK, PulsesAreAccountedFor, BeforeReset,
            LoadedIsCount, LoadedIsOld, NoPulse, Wheel
<1>1. CASE StartTask
  BY <1>1 DEF StartTask
<1>2. ASSUME NEW w \in Wheel, PulseLoad(w) PROVE AccountInv'
  BY <1>2 DEF PulseLoad
<1>3. CASE PulseStore
  BY <1>3, StoreKeepsAccount
<1>4. CASE ReadCounters
  BY <1>4 DEF ReadCounters
<1>5. CASE SendSpeed
  BY <1>5 DEF SendSpeed
<1>6. CASE ResetLeft
  BY <1>6 DEF ResetLeft
<1>7. CASE ResetRight
  BY <1>7 DEF ResetRight
<1>8. CASE Delay
  BY <1>8 DEF Delay
<1>9. CASE CounterReset
  BY <1>9 DEF CounterReset
<1>10. CASE UNCHANGED counterVars
  BY <1>10 DEF counterVars
<1> QED
  BY <1>1, <1>2, <1>3, <1>4, <1>5, <1>6, <1>7, <1>8, <1>9, <1>10
  DEF CounterNext

\* However the handler's loads and stores interleave with the task's reading
\* and resets, each report is of the pulses since the one before, but for those
\* the reset wipes out and those an increment torn by the reset brings back, all
\* or none (encoder_isr.c 26-34 against 83-104).
THEOREM ReportsAreAccountedFor == CounterSpec => []PulsesAreAccountedFor
<1>1. CounterSpec => []AccountInv
  BY AccountInitially, StepKeepsAccount, PTL DEF CounterSpec
<1>2. AccountInv => PulsesAreAccountedFor
  BY DEF AccountInv
<1> QED
  BY <1>1, <1>2, PTL

\* The line to the Raspberry Pi is not a part of the counters' account.
LEMMA SpeedReportsAccount == Spec => []AccountInv
<1>1. Init => CounterInit
  BY DEF Init
<1>2. [Next]_vars => [CounterNext]_counterVars
  BY DEF Next, vars, Turn, Stored, Count, Send, Arrive, StartReader, Reset,
    CounterNext
<1> QED
  BY <1>1, <1>2, AccountInitially, StepKeepsAccount, PTL DEF Spec

\* The line to the Raspberry Pi takes nothing from the counters and gives
\* nothing to them, whatever is cut or reset on it (encoder_isr.c 100,
\* uart_handler.c 50-68).
THEOREM SpeedReportsAreAccountedFor == Spec => []PulsesAreAccountedFor
<1>1. AccountInv => PulsesAreAccountedFor
  BY DEF AccountInv
<1> QED
  BY <1>1, SpeedReportsAccount, PTL

-----------------------------------------------------------------------------
(* Induction over the numbers. *)

\* A set of numbers that is not empty has a least one: what induction over the
\* digits of a number rests on.
LEMMA LeastNumber ==
  ASSUME NEW S \in SUBSET Nat, S # {}
  PROVE  \E m \in S : \A k \in S : ~(k < m)
<1> DEFINE Less == OpToRel(<, Nat)
<1>1. IsWellFoundedOn(Less, Nat)
  BY NatLessThanWellFounded
<1>2. \A x, y \in Nat : y < x => <<y, x>> \in Less
  BY DEF OpToRel
<1>3. \E m \in S : \A k \in S : ~(<<k, m>> \in Less)
  <2> HIDE DEF Less
  <2> QED
    BY <1>1, WFMin
<1> QED
  BY <1>2, <1>3

LEMMA ByInduction ==
  ASSUME NEW T, 0 \in T, \A n \in Nat : n \in T => n + 1 \in T
  PROVE  \A n \in Nat : n \in T
<1> DEFINE S == Nat \ T
<1>1. CASE S # {}
  <2>1. PICK m \in S : \A k \in S : ~(k < m)
    BY <1>1, LeastNumber
  <2>2. m - 1 \in Nat /\ m - 1 \notin S
    BY <2>1
  <2> QED
    BY <2>1, <2>2
<1> QED
  BY <1>1

-----------------------------------------------------------------------------
(* Number is the recursive function it is defined by. *)

\* What value is to be, on the first k prefixes of a text.
Values(value, digits, k) ==
  /\ DOMAIN value = 0 .. k /\ value[0] = 0
  /\ \A n \in 0 .. k - 1 : value[n + 1] = 10 * value[n] + (digits[n + 1] - 48)

LEMMA ValuesExist ==
  ASSUME NEW digits \in Seq(Int)
  PROVE  \E value \in [0 .. Len(digits) -> Int] : Values(value, digits, Len(digits))
<1> DEFINE T == {k \in Nat : k <= Len(digits) =>
                   \E value \in [0 .. k -> Int] : Values(value, digits, k)}
<1>1. 0 \in T
  <2>1. [n \in 0 .. 0 |-> 0] \in [0 .. 0 -> Int]
        /\ Values([n \in 0 .. 0 |-> 0], digits, 0)
    BY DEF Values
  <2> QED
    BY <2>1
<1>2. ASSUME NEW k \in Nat, k \in T
      PROVE  k + 1 \in T
  <2> SUFFICES ASSUME k + 1 <= Len(digits)
               PROVE  \E value \in [0 .. k + 1 -> Int] : Values(value, digits, k + 1)
    OBVIOUS
  <2>1. PICK value \in [0 .. k -> Int] : Values(value, digits, k)
    BY <1>2
  <2> DEFINE last == 10 * value[k] + (digits[k + 1] - 48)
             longer == [n \in 0 .. k + 1 |-> IF n = k + 1 THEN last ELSE value[n]]
  <2>2. digits[k + 1] \in Int /\ last \in Int
    BY <2>1
  <2>3. longer \in [0 .. k + 1 -> Int]
    BY <2>1, <2>2
  <2>4. longer[0] = 0
    BY <2>1 DEF Values
  <2>5. \A n \in 0 .. k : longer[n + 1] = 10 * longer[n] + (digits[n + 1] - 48)
    <3> TAKE n \in 0 .. k
    <3>1. CASE n = k
      BY <3>1
    <3>2. CASE n # k
      BY <2>1, <3>2 DEF Values
    <3> QED
      BY <3>1, <3>2
  <2> HIDE DEF longer, last
  <2>6. Values(longer, digits, k + 1)
    <3>1. (k + 1) - 1 = k /\ DOMAIN longer = 0 .. k + 1
      BY <2>3
    <3> QED
      BY <2>4, <2>5, <3>1 DEF Values
  <2> QED
    BY <2>3, <2>6
<1>3. \A k \in Nat : k \in T
  <2> HIDE DEF T
  <2> QED
    BY <1>1, <1>2, ByInduction
<1> QED
  BY <1>3

LEMMA NumberValue ==
  ASSUME NEW digits \in Seq(Int)
  PROVE  \E value \in [0 .. Len(digits) -> Int] :
           Values(value, digits, Len(digits)) /\ Number(digits) = value[Len(digits)]
<1> DEFINE Body(f) == [n \in 0 .. Len(digits) |->
                         IF n = 0 THEN 0 ELSE 10 * f[n - 1] + (digits[n] - 48)]
           chosen == CHOOSE f : f = Body(f)
<1>1. PICK value \in [0 .. Len(digits) -> Int] : Values(value, digits, Len(digits))
  BY ValuesExist
<1>2. value = Body(value)
  <2>1. ASSUME NEW n \in 0 .. Len(digits), n # 0
        PROVE  value[n] = 10 * value[n - 1] + (digits[n] - 48)
    <3>1. n - 1 \in 0 .. Len(digits) - 1 /\ (n - 1) + 1 = n
      BY <2>1
    <3> QED
      BY <1>1, <3>1 DEF Values
  <2> QED
    BY <1>1, <2>1 DEF Values
<1>3. chosen = Body(chosen)
  BY <1>2
<1>4. Number(digits) = chosen[Len(digits)]
  BY DEF Number
<1>5. Values(chosen, digits, Len(digits))
  <2> HIDE DEF chosen
  <2>1. DOMAIN chosen = 0 .. Len(digits)
    BY <1>3
  <2>2. ASSUME NEW n \in 0 .. Len(digits)
        PROVE  chosen[n] = IF n = 0 THEN 0 ELSE 10 * chosen[n - 1] + (digits[n] - 48)
    BY <1>3
  <2>3. ASSUME NEW n \in 0 .. Len(digits) - 1
        PROVE  chosen[n + 1] = 10 * chosen[n] + (digits[n + 1] - 48)
    <3>1. n + 1 \in 0 .. Len(digits) /\ n + 1 # 0 /\ (n + 1) - 1 = n
      OBVIOUS
    <3> QED
      BY <2>2, <3>1
  <2> QED
    BY <2>1, <2>2, <2>3 DEF Values
<1> DEFINE T == {k \in Nat : k <= Len(digits) => chosen[k] = value[k]}
<1>6. 0 \in T
  BY <1>1, <1>5 DEF Values
<1>7. ASSUME NEW k \in Nat, k \in T
      PROVE  k + 1 \in T
  <2> HIDE DEF chosen
  <2> QED
    BY <1>1, <1>5, <1>7 DEF Values
<1>8. \A k \in Nat : k \in T
  <2> HIDE DEF T
  <2> QED
    BY <1>6, <1>7, ByInduction
<1>9. chosen[Len(digits)] = value[Len(digits)]
  <2> HIDE DEF chosen
  <2> QED
    BY <1>8
<1> QED
  BY <1>1, <1>4, <1>9

LEMMA NumberOfNothing == Number(<<>>) = 0
  <1>1. <<>> \in Seq(Int) /\ Len(<<>>) = 0
    OBVIOUS
  <1> QED
    BY <1>1, NumberValue DEF Values

\* One more digit.
LEMMA NumberAppend ==
  ASSUME NEW digits \in Seq(Int), NEW digit \in Int
  PROVE  Number(Append(digits, digit)) = 10 * Number(digits) + (digit - 48)
<1> DEFINE longer == Append(digits, digit)
           k == Len(digits)
<1>1. longer \in Seq(Int) /\ Len(longer) = k + 1 /\ longer[k + 1] = digit
      /\ \A n \in 1 .. k : longer[n] = digits[n]
  OBVIOUS
<1>2. PICK value \in [0 .. k -> Int] :
        Values(value, digits, k) /\ Number(digits) = value[k]
  BY NumberValue
<1>3. PICK values \in [0 .. k + 1 -> Int] :
        Values(values, longer, k + 1) /\ Number(longer) = values[k + 1]
  <2> HIDE DEF longer
  <2> QED
    BY <1>1, NumberValue
<1> DEFINE T == {n \in Nat : n <= k => values[n] = value[n]}
<1> HIDE DEF longer
<1>4. 0 \in T
  BY <1>2, <1>3 DEF Values
<1>5. ASSUME NEW n \in Nat, n \in T
      PROVE  n + 1 \in T
  <2> SUFFICES ASSUME n + 1 <= k
               PROVE  values[n + 1] = value[n + 1]
    OBVIOUS
  <2>1. n \in 0 .. k - 1 /\ n \in 0 .. (k + 1) - 1 /\ n + 1 \in 1 .. k
        /\ values[n] = value[n]
    BY <1>5
  <2> QED
    BY <1>1, <1>2, <1>3, <2>1 DEF Values
<1>6. \A n \in Nat : n \in T
  <2> HIDE DEF T
  <2> QED
    BY <1>4, <1>5, ByInduction
<1>7. values[k] = value[k] /\ values[k + 1] = 10 * values[k] + (longer[k + 1] - 48)
  <2>1. k \in Nat /\ k \in 0 .. (k + 1) - 1
    OBVIOUS
  <2> QED
    BY <1>3, <1>6, <2>1 DEF Values
<1> QED
  BY <1>1, <1>2, <1>3, <1>7 DEF longer

\* A text of digits is a number.
LEMMA NumberIsNat ==
  ASSUME NEW digits \in Seq(Digit)
  PROVE  Number(digits) \in Nat
<1>1. digits \in Seq(Int)
  BY DEF Digit
<1>2. PICK value \in [0 .. Len(digits) -> Int] :
        Values(value, digits, Len(digits)) /\ Number(digits) = value[Len(digits)]
  BY <1>1, NumberValue
<1> DEFINE T == {n \in Nat : n <= Len(digits) => value[n] \in Nat}
<1>3. 0 \in T
  BY <1>2 DEF Values
<1>4. ASSUME NEW n \in Nat, n \in T
      PROVE  n + 1 \in T
  <2> SUFFICES ASSUME n + 1 <= Len(digits)
               PROVE  value[n + 1] \in Nat
    OBVIOUS
  <2>1. n \in 0 .. Len(digits) - 1 /\ n + 1 \in 1 .. Len(digits)
        /\ value[n] \in Nat
    BY <1>4
  <2>2. digits[n + 1] - 48 \in Nat
    BY <2>1 DEF Digit
  <2>3. value[n + 1] = 10 * value[n] + (digits[n + 1] - 48)
    BY <1>2, <2>1 DEF Values
  <2> QED
    BY <2>1, <2>2, <2>3
<1>5. \A n \in Nat : n \in T
  <2> HIDE DEF T
  <2> QED
    BY <1>3, <1>4, ByInduction
<1> QED
  BY <1>2, <1>5

-----------------------------------------------------------------------------
(* Decimal is the text of its number. *)

LEMMA OneDigit ==
  ASSUME NEW n \in 0 .. 9
  PROVE  Character(n) \in Digit /\ Number(<<Character(n)>>) = n
<1>1. Character(n) \in Digit /\ Character(n) \in Int /\ Character(n) - 48 = n
  BY DEF Character, Digit
<1>2. Number(Append(<<>>, Character(n))) = 10 * Number(<<>>) + (Character(n) - 48)
  <2>1. <<>> \in Seq(Int)
    OBVIOUS
  <2> QED
    BY <1>1, <2>1, NumberAppend
<1>3. Append(<<>>, Character(n)) = <<Character(n)>>
  OBVIOUS
<1> QED
  BY <1>1, <1>2, <1>3, NumberOfNothing

\* The last digit and what is before it.
LEMMA Divided ==
  ASSUME NEW n \in Nat, n >= 10
  PROVE  n \div 10 \in 0 .. n - 1 /\ n % 10 \in 0 .. 9
         /\ 10 * (n \div 10) + (n % 10) = n
  OBVIOUS

Texts(text, k) ==
  \A n \in 0 .. k : text[n] = IF n < 10 THEN <<Character(n)>>
                              ELSE Append(text[n \div 10], Character(n % 10))

LEMMA TextsExist ==
  ASSUME NEW number \in Nat
  PROVE  \E text : DOMAIN text = 0 .. number /\ text = [n \in 0 .. number |-> text[n]]
                   /\ Texts(text, number)
<1> DEFINE T == {k \in Nat : \E text : /\ text = [n \in 0 .. k |-> text[n]]
                                       /\ Texts(text, k)}
<1>1. 0 \in T
  <2> DEFINE text == [n \in 0 .. 0 |-> <<Character(0)>>]
  <2>1. text = [n \in 0 .. 0 |-> text[n]] /\ Texts(text, 0)
    BY DEF Texts
  <2> QED
    BY <2>1
<1>2. ASSUME NEW k \in Nat, k \in T
      PROVE  k + 1 \in T
  <2>1. PICK text : text = [n \in 0 .. k |-> text[n]] /\ Texts(text, k)
    BY <1>2
  <2> DEFINE last == IF k + 1 < 10 THEN <<Character(k + 1)>>
                     ELSE Append(text[(k + 1) \div 10], Character((k + 1) % 10))
             longer == [n \in 0 .. k + 1 |-> IF n = k + 1 THEN last ELSE text[n]]
  <2>2. longer = [n \in 0 .. k + 1 |-> longer[n]]
    OBVIOUS
  <2>3. ASSUME NEW n \in 0 .. k + 1
        PROVE  longer[n] = IF n < 10 THEN <<Character(n)>>
                           ELSE Append(longer[n \div 10], Character(n % 10))
    <3>1. n >= 10 => n \div 10 \in 0 .. k /\ longer[n \div 10] = text[n \div 10]
      BY Divided
    <3>2. CASE n = k + 1
      BY <3>1, <3>2
    <3>3. CASE n # k + 1
      <4>1. n \in 0 .. k /\ longer[n] = text[n]
        BY <3>3
      <4> HIDE DEF longer, last
      <4> QED
        BY <2>1, <3>1, <4>1 DEF Texts
    <3> QED
      BY <3>2, <3>3
  <2>4. Texts(longer, k + 1)
    <3> HIDE DEF longer
    <3> QED
      BY <2>3 DEF Texts
  <2> QED
    BY <2>2, <2>4
<1>3. \A k \in Nat : k \in T
  <2> HIDE DEF T
  <2> QED
    BY <1>1, <1>2, ByInduction
<1> QED
  BY <1>3

\* Every number is read as it is written, whatever its length.
LEMMA DecimalNumber ==
  ASSUME NEW number \in Nat
  PROVE  /\ Decimal(number) \in Seq(Digit) /\ Decimal(number) # <<>>
         /\ Number(Decimal(number)) = number
<1> DEFINE Body(f) == [n \in 0 .. number |->
                         IF n < 10 THEN <<Character(n)>>
                         ELSE Append(f[n \div 10], Character(n % 10))]
           text == CHOOSE f : f = Body(f)
           Right(n) == text[n] \in Seq(Digit) /\ text[n] # <<>> /\ Number(text[n]) = n
           T == {k \in Nat : \A n \in 0 .. k : n <= number => Right(n)}
<1>1. \E f : f = Body(f)
  <2>1. PICK f : f = [n \in 0 .. number |-> f[n]] /\ Texts(f, number)
    BY TextsExist
  <2>2. f = Body(f)
    BY <2>1 DEF Texts
  <2> QED
    BY <2>2
<1>2. text = Body(text)
  BY <1>1
<1>3. Decimal(number) = text[number]
  BY DEF Decimal
<1>4. ASSUME NEW n \in 0 .. number
      PROVE  text[n] = IF n < 10 THEN <<Character(n)>>
                       ELSE Append(text[n \div 10], Character(n % 10))
  <2> HIDE DEF text
  <2> QED
    BY <1>2
<1> HIDE DEF text
<1>5. ASSUME NEW n \in 0 .. number, n >= 10 => Right(n \div 10)
      PROVE  Right(n)
  <2>1. CASE n < 10
    <3>1. n \in 0 .. 9 /\ text[n] = <<Character(n)>>
      <4>1. n \in 0 .. 9
        BY <2>1
      <4>2. text[n] = <<Character(n)>>
        BY <1>4, <2>1, Zenon
      <4> QED
        BY <4>1, <4>2
    <3>2. <<Character(n)>> \in Seq(Digit) /\ <<Character(n)>> # <<>>
      BY <3>1, OneDigit
    <3> QED
      BY <3>1, <3>2, OneDigit
  <2>2. CASE n >= 10
    <3>1. n \div 10 \in Nat /\ n % 10 \in 0 .. 9 /\ 10 * (n \div 10) + (n % 10) = n
      BY <2>2, Divided
    <3>2. Character(n % 10) \in Digit /\ Character(n % 10) - 48 = n % 10
      BY <3>1 DEF Character, Digit
    <3>3. text[n] = Append(text[n \div 10], Character(n % 10))
      <4>1. ~(n < 10)
        BY <2>2
      <4> QED
        BY <1>4, <4>1, Zenon
    <3>4. text[n \div 10] \in Seq(Digit) /\ Number(text[n \div 10]) = n \div 10
      BY <1>5, <2>2
    <3>5. text[n] \in Seq(Digit) /\ text[n] # <<>>
      BY <3>2, <3>3, <3>4
    <3>6. Number(text[n]) = 10 * Number(text[n \div 10]) + (Character(n % 10) - 48)
      <4>1. text[n \div 10] \in Seq(Int) /\ Character(n % 10) \in Int
        BY <3>2, <3>4 DEF Digit
      <4> QED
        BY <3>3, <4>1, NumberAppend
    <3> QED
      BY <3>1, <3>2, <3>4, <3>5, <3>6
  <2> QED
    BY <2>1, <2>2
<1>6. 0 \in T
  BY <1>5
<1>7. ASSUME NEW k \in Nat, k \in T
      PROVE  k + 1 \in T
  <2> SUFFICES ASSUME NEW n \in 0 .. k + 1, n <= number
               PROVE  Right(n)
    OBVIOUS
  <2>1. CASE n # k + 1
    BY <1>7, <2>1
  <2>2. CASE n = k + 1
    <3>1. n >= 10 => n \div 10 \in 0 .. k /\ n \div 10 <= number
      BY <2>2, Divided
    <3> QED
      BY <1>5, <1>7, <3>1
  <2> QED
    BY <2>1, <2>2
<1>8. \A k \in Nat : k \in T
  <2> HIDE DEF T
  <2> QED
    BY <1>6, <1>7, ByInduction
<1>9. Right(number)
  BY <1>8
<1> QED
  BY <1>3, <1>9

LEMMA NumberOfFour ==
  ASSUME NEW a \in Int, NEW b \in Int, NEW c \in Int, NEW d \in Int
  PROVE  Number(<<a, b, c, d>>)
           = 1000 * (a - 48) + 100 * (b - 48) + 10 * (c - 48) + (d - 48)
<1> DEFINE digits == <<a, b, c, d>>
<1>1. /\ digits \in Seq(Int) /\ Len(digits) = 4
      /\ digits[0 + 1] = a /\ digits[1 + 1] = b /\ digits[2 + 1] = c /\ digits[3 + 1] = d
  OBVIOUS
<1> HIDE DEF digits
<1>2. PICK value \in [0 .. 4 -> Int] :
        Values(value, digits, 4) /\ Number(digits) = value[4]
  BY <1>1, NumberValue
<1>3. \A n \in 0 .. 3 : value[n + 1] = 10 * value[n] + (digits[n + 1] - 48)
  BY <1>2 DEF Values
<1>4. /\ value[0] = 0
      /\ value[0 + 1] = 10 * value[0] + (digits[0 + 1] - 48)
      /\ value[1 + 1] = 10 * value[1] + (digits[1 + 1] - 48)
      /\ value[2 + 1] = 10 * value[2] + (digits[2 + 1] - 48)
      /\ value[3 + 1] = 10 * value[3] + (digits[3 + 1] - 48)
  BY <1>2, <1>3 DEF Values
<1>5. value[1] = a - 48 /\ value[2] = 10 * (a - 48) + (b - 48)
  BY <1>1, <1>4
<1>6. value[3] = 100 * (a - 48) + 10 * (b - 48) + (c - 48)
  BY <1>1, <1>4, <1>5
<1>7. value[4] = 1000 * (a - 48) + 100 * (b - 48) + 10 * (c - 48) + (d - 48)
  BY <1>1, <1>4, <1>6
<1> QED
  BY <1>2, <1>7 DEF digits

LEMMA PaddedNumber ==
  ASSUME NEW number \in 0 .. FourPlaces - 1
  PROVE  Padded(number) \in Seq(Digit) /\ Len(Padded(number)) = 4
         /\ Number(Padded(number)) = number
<1> DEFINE a == number \div 1000
           b == (number \div 100) % 10
           c == (number \div 10) % 10
           d == number % 10
<1>1. b \in 0 .. 9 /\ c \in 0 .. 9 /\ d \in 0 .. 9 /\ a \in Int
  <2>1. b \in 0 .. 9
    OBVIOUS
  <2>2. c \in 0 .. 9
    OBVIOUS
  <2>3. d \in 0 .. 9 /\ a \in Int
    OBVIOUS
  <2> QED
    BY <2>1, <2>2, <2>3
<1>2. 1000 * a + 100 * b + 10 * c + d = number /\ a \in 0 .. 9
  <2>1. number = 10 * (number \div 10) + d
    OBVIOUS
  <2>2. number \div 10 = 10 * (number \div 100) + c
    OBVIOUS
  <2>3. number \div 100 = 10 * a + b
    OBVIOUS
  <2>4. 1000 * a + 100 * b + 10 * c + d = number
    BY <2>1, <2>2, <2>3
  <2>5. number \div 10 \in 0 .. 999 /\ number \div 100 \in Int
    BY DEF FourPlaces
  <2>6. number \div 100 \in 0 .. 99
    <3> HIDE DEF a, b, c, d
    <3> QED
      BY <1>1, <2>2, <2>5
  <2>7. a \in 0 .. 9
    <3> HIDE DEF a, b, c, d
    <3> QED
      BY <1>1, <2>3, <2>6
  <2> QED
    BY <2>4, <2>7
<1>3. Padded(number) = <<48 + a, 48 + b, 48 + c, 48 + d>>
  BY DEF Padded, Character
<1> HIDE DEF a, b, c, d
<1>4. Number(<<48 + a, 48 + b, 48 + c, 48 + d>>) = 1000 * a + 100 * b + 10 * c + d
  <2>1. 48 + a \in Int /\ 48 + b \in Int /\ 48 + c \in Int /\ 48 + d \in Int
    BY <1>1
  <2> QED
    BY <1>1, <2>1, NumberOfFour
<1> QED
  BY <1>1, <1>2, <1>3, <1>4 DEF Digit

-----------------------------------------------------------------------------
(* The line is what was sent, and is taken for what it says. *)

\* The line without its newline.
Text(speed) == Decimal(speed \div FourPlaces) \o <<Point>> \o Padded(speed % FourPlaces)

LEMMA SpeedParts ==
  ASSUME NEW speed \in Nat
  PROVE  /\ speed \div FourPlaces \in Nat /\ speed % FourPlaces \in 0 .. FourPlaces - 1
         /\ FourPlaces * (speed \div FourPlaces) + (speed % FourPlaces) = speed
         /\ FourPlaces \in Nat
  BY DEF FourPlaces

\* Where its parts are.
LEMMA TextParts ==
  ASSUME NEW speed \in Nat
  PROVE  LET whole == Decimal(speed \div FourPlaces)
             frac == Padded(speed % FourPlaces)
         IN  /\ whole \in Seq(Digit) /\ Len(whole) > 0
             /\ frac \in Seq(Digit) /\ Len(frac) = 4
             /\ FourPlaces * Number(whole) + Number(frac) = speed
<1>1. PICK n \in Nat : n = speed \div FourPlaces
  BY SpeedParts
<1>2. PICK r \in 0 .. FourPlaces - 1 : r = speed % FourPlaces
  BY SpeedParts
<1>3. /\ Decimal(n) \in Seq(Digit) /\ Decimal(n) # <<>> /\ Number(Decimal(n)) = n
  BY DecimalNumber
<1>4. Len(Decimal(n)) > 0
  BY <1>3, EmptySeq
<1>5. Padded(r) \in Seq(Digit) /\ Len(Padded(r)) = 4 /\ Number(Padded(r)) = r
  BY PaddedNumber
<1>6. FourPlaces * n + r = speed
  BY <1>1, <1>2, SpeedParts
<1> QED
  BY <1>1, <1>2, <1>3, <1>4, <1>5, <1>6

\* Digits, a point and four digits are the number they mean.
LEMMA Converted ==
  ASSUME NEW whole \in Seq(Digit), NEW frac \in Seq(Digit),
         Len(whole) > 0, Len(frac) = 4
  PROVE  LET bytes == whole \o <<Point>> \o frac IN
         IsNumber(bytes) /\ Float(bytes) = FourPlaces * Number(whole) + Number(frac)
<1> DEFINE head == whole \o <<Point>>
           bytes == head \o frac
           p == Len(whole) + 1
<1>1. whole \in Seq(Int) /\ frac \in Seq(Int) /\ <<Point>> \in Seq(Int)
      /\ Len(<<Point>>) = 1 /\ <<Point>>[1] = Point /\ Len(whole) \in Nat
  BY DEF Digit, Point
<1>2. /\ head \in Seq(Int) /\ Len(head) = p /\ p \in Nat /\ p - 1 = Len(whole)
      /\ \A i \in 1 .. p - 1 : head[i] = whole[i]
      /\ head[p] = Point
  <2>1. /\ head \in Seq(Int) /\ Len(head) = Len(whole) + Len(<<Point>>)
        /\ \A i \in 1 .. Len(whole) + Len(<<Point>>) :
             head[i] = IF i <= Len(whole) THEN whole[i] ELSE <<Point>>[i - Len(whole)]
    BY <1>1, ConcatProperties
  <2>2. p - Len(whole) = 1 /\ ~(p <= Len(whole)) /\ p \in 1 .. Len(whole) + 1
    BY <1>1
  <2> HIDE DEF head
  <2> QED
    BY <1>1, <2>1, <2>2
<1>3. /\ bytes \in Seq(Int) /\ Len(bytes) = p + 4 /\ DOMAIN bytes = 1 .. p + 4
      /\ \A i \in 1 .. p : bytes[i] = head[i]
      /\ \A i \in 1 .. 4 : bytes[p + i] = frac[i]
  <2>1. /\ bytes \in Seq(Int) /\ Len(bytes) = Len(head) + Len(frac)
        /\ \A i \in 1 .. Len(head) + Len(frac) :
             bytes[i] = IF i <= Len(head) THEN head[i] ELSE frac[i - Len(head)]
    <3>1. head \in Seq(Int) /\ frac \in Seq(Int)
      BY <1>1, <1>2
    <3> HIDE DEF head
    <3> QED
      BY <3>1, ConcatProperties, Zenon
  <2>2. \A i \in 1 .. 4 : ~(p + i <= p) /\ (p + i) - p = i /\ p + i \in 1 .. p + 4
    BY <1>2
  <2>3. p \in Nat /\ Len(head) = p
    BY <1>2
  <2> HIDE DEF head, bytes, p
  <2>4. bytes \in Seq(Int) /\ Len(bytes) = p + 4 /\ DOMAIN bytes = 1 .. p + 4
    BY <2>1, <2>3
  <2>5. \A i \in 1 .. p : bytes[i] = head[i]
    BY <2>1, <2>3
  <2>6. ASSUME NEW i \in 1 .. 4
        PROVE  bytes[p + i] = frac[i]
    BY <2>1, <2>2, <2>3
  <2> QED
    BY <2>4, <2>5, <2>6
<1> HIDE DEF head, bytes, p
<1>4. ASSUME NEW i \in 1 .. p + 4, i # p
      PROVE  bytes[i] # Point
  <2>1. CASE i < p
    <3>1. i \in 1 .. p - 1 /\ i \in 1 .. p
      BY <1>2, <2>1
    <3>2. bytes[i] = whole[i] /\ whole[i] \in Digit
      BY <1>2, <1>3, <3>1, ElementOfSeq
    <3> QED
      BY <3>2 DEF Digit, Point
  <2>2. CASE i > p
    <3>1. i - p \in 1 .. 4 /\ p + (i - p) = i
      BY <1>2, <2>2
    <3>2. bytes[i] = frac[i - p] /\ frac[i - p] \in Digit
      BY <1>3, <3>1, ElementOfSeq
    <3> QED
      BY <3>2 DEF Digit, Point
  <2> QED
    BY <1>2, <1>4, <2>1, <2>2
<1>5. bytes[p] = Point /\ p \in 1 .. p + 4 /\ p > 1
  <2>1. p > 1
    BY <1>1 DEF p
  <2>2. p \in 1 .. p /\ p \in 1 .. p + 4
    BY <1>2, <2>1
  <2> QED
    BY <1>2, <1>3, <2>1, <2>2
<1>6. Points(bytes) = {p}
  BY <1>3, <1>4, <1>5 DEF Points
<1>7. IsNumber(bytes)
  <2>1. 1 \in DOMAIN bytes /\ bytes[1] # Point
    BY <1>2, <1>3, <1>4, <1>5
  <2> QED
    BY <1>6, <2>1 DEF IsNumber
<1>8. SubSeq(bytes, 1, p - 1) = whole
  <2>1. /\ SubSeq(bytes, 1, p - 1) \in Seq(Int) /\ Len(SubSeq(bytes, 1, p - 1)) = p - 1
        /\ \A i \in 1 .. p - 1 : SubSeq(bytes, 1, p - 1)[i] = bytes[i]
    <3>1. \A i \in 1 .. p - 1 : bytes[i] \in Int /\ 1 + i - 1 = i
      BY <1>2, <1>3
    <3>2. p - 1 \in Int /\ 1 <= p - 1 /\ (p - 1) - 1 + 1 = p - 1
      BY <1>2, <1>5
    <3> QED
      BY <3>1, <3>2, SubSeqProperties
  <2>2. \A i \in 1 .. p - 1 : bytes[i] = whole[i]
    BY <1>2, <1>3
  <2> QED
    BY <1>1, <1>2, <2>1, <2>2, SeqEqual
<1>9. <<bytes[p + 1], bytes[p + 2], bytes[p + 3], bytes[p + 4]>> = frac
  <2>1. frac = <<frac[1], frac[2], frac[3], frac[4]>>
    BY <1>1
  <2> QED
    BY <1>3, <2>1
<1>10. p + 1 <= Len(bytes) /\ p + 2 <= Len(bytes) /\ p + 3 <= Len(bytes)
      /\ p + 4 <= Len(bytes)
  BY <1>2, <1>3
<1>11. Float(bytes) = FourPlaces * Number(whole) + Number(frac)
  <2>1. (CHOOSE i \in Points(bytes) : TRUE) = p /\ Points(bytes) # {}
    BY <1>6
  <2>2. Float(bytes) = FourPlaces * Number(SubSeq(bytes, 1, p - 1))
          + Number(<<bytes[p + 1], bytes[p + 2], bytes[p + 3], bytes[p + 4]>>)
    <3> DEFINE place(i) == IF p + i <= Len(bytes) THEN bytes[p + i] ELSE Character(0)
    <3>1. Float(bytes) = FourPlaces * Number(SubSeq(bytes, 1, p - 1))
            + Number(<<place(1), place(2), place(3), place(4)>>)
      BY <2>1, Zenon DEF Float
    <3>2. place(1) = bytes[p + 1] /\ place(2) = bytes[p + 2]
          /\ place(3) = bytes[p + 3] /\ place(4) = bytes[p + 4]
      BY <1>10
    <3> QED
      BY <3>1, <3>2, Zenon
  <2> QED
    BY <1>8, <1>9, <2>2
<1> QED
  BY <1>7, <1>11 DEF bytes, head

\* What float makes of the line: the speed.
LEMMA TextMeansSpeed ==
  ASSUME NEW speed \in Nat
  PROVE  IsNumber(Text(speed)) /\ Float(Text(speed)) = speed
<1> DEFINE whole == Decimal(speed \div FourPlaces)
           frac == Padded(speed % FourPlaces)
<1>1. /\ whole \in Seq(Digit) /\ Len(whole) > 0
      /\ frac \in Seq(Digit) /\ Len(frac) = 4
      /\ FourPlaces * Number(whole) + Number(frac) = speed
  BY TextParts
<1>2. Text(speed) = whole \o <<Point>> \o frac
  BY DEF Text
<1> HIDE DEF whole, frac
<1> QED
  BY <1>1, <1>2, Converted

\* The newline is the last byte of a line and no other.
LEMMA LineText ==
  ASSUME NEW speed \in Nat
  PROVE  /\ Text(speed) \in Seq(Byte \ {Newline})
         /\ Line(speed) = Text(speed) \o <<Newline>>
         /\ Line(speed) \in Seq(Byte)
<1> DEFINE whole == Decimal(speed \div FourPlaces)
           frac == Padded(speed % FourPlaces)
           text == whole \o <<Point>> \o frac
<1>1. whole \in Seq(Digit) /\ frac \in Seq(Digit)
  BY TextParts
<1>2. Text(speed) = text /\ Line(speed) = text \o <<Newline>>
  BY DEF Text, Line
<1> HIDE DEF whole, frac
<1>3. Digit \subseteq Byte \ {Newline} /\ Point \in Byte \ {Newline}
      /\ Newline \in Byte
  BY DEF Digit, Point, Newline, Byte
<1>4. whole \in Seq(Byte \ {Newline}) /\ frac \in Seq(Byte \ {Newline})
      /\ <<Point>> \in Seq(Byte \ {Newline}) /\ <<Newline>> \in Seq(Byte)
  BY <1>1, <1>3, SeqMonotonic
<1>5. whole \o <<Point>> \in Seq(Byte \ {Newline})
  BY <1>4, ConcatProperties
<1>6. text \in Seq(Byte \ {Newline})
  BY <1>4, <1>5, ConcatProperties
<1>7. text \o <<Newline>> \in Seq(Byte)
  <2>1. text \in Seq(Byte)
    BY <1>6, SeqMonotonic
  <2> HIDE DEF text
  <2> QED
    BY <1>4, <2>1, ConcatProperties
<1> QED
  BY <1>2, <1>6, <1>7

LEMMA NewlineEndsLine ==
  ASSUME NEW speed \in Nat
  PROVE  /\ Len(Line(speed)) \in Nat /\ Len(Line(speed)) > 0
         /\ \A i \in 1 .. Len(Line(speed)) :
              Line(speed)[i] = Newline <=> i = Len(Line(speed))
<1> DEFINE text == Text(speed)
           end == <<Newline>>
<1>1. /\ text \in Seq(Byte \ {Newline}) /\ text \in Seq(Byte) /\ end \in Seq(Byte)
      /\ Len(end) = 1 /\ end[1] = Newline /\ Line(speed) = text \o end
  <2>1. text \in Seq(Byte \ {Newline}) /\ Line(speed) = text \o end
    BY LineText
  <2>2. Byte \ {Newline} \subseteq Byte /\ Newline \in Byte
    BY DEF Byte
  <2>3. text \in Seq(Byte)
    BY <2>1, <2>2, SeqMonotonic
  <2> QED
    BY <2>1, <2>2, <2>3
<1> HIDE DEF text, end
<1>2. /\ Len(text \o end) = Len(text) + Len(end)
      /\ \A i \in 1 .. Len(text) + Len(end) :
           (text \o end)[i] = IF i <= Len(text) THEN text[i] ELSE end[i - Len(text)]
  BY <1>1, ConcatProperties
<1>3. Len(text) \in Nat /\ \A i \in 1 .. Len(text) : text[i] # Newline
  BY <1>1, ElementOfSeq
<1>4. ASSUME NEW i \in 1 .. Len(text) + 1
      PROVE  Line(speed)[i] = Newline <=> i = Len(text) + 1
  <2>1. CASE i <= Len(text)
    BY <1>1, <1>2, <1>3, <2>1
  <2>2. CASE i = Len(text) + 1
    <3>1. ~(i <= Len(text)) /\ i - Len(text) = 1
      BY <1>3, <2>2
    <3> QED
      BY <1>1, <1>2, <2>2, <3>1
  <2> QED
    BY <1>3, <2>1, <2>2
<1> QED
  BY <1>1, <1>2, <1>3, <1>4

LEMMA LineIsNoFront ==
  ASSUME NEW speed \in Nat, NEW front \in Seq(Byte \ {Newline})
  PROVE  front # Line(speed)
<1>1. Line(speed)[Len(Line(speed))] = Newline
      /\ Len(Line(speed)) \in 1 .. Len(Line(speed))
  <2>1. Len(Line(speed)) \in 1 .. Len(Line(speed))
    BY NewlineEndsLine
  <2> QED
    BY <2>1, NewlineEndsLine
<1>2. \A i \in 1 .. Len(front) : front[i] # Newline
  BY ElementOfSeq
<1> QED
  BY <1>1, <1>2

\* What a line that has come whole leaves of it.
LEMMA WholeLine ==
  ASSUME NEW speed \in Nat, NEW front \in Seq(Byte \ {Newline}),
         NEW rest \in Seq(Byte), rest # <<>>, Head(rest) = Newline,
         front \o rest = Line(speed)
  PROVE  front = Text(speed) /\ Tail(rest) = <<>>
<1>1. /\ front \in Seq(Byte) /\ Text(speed) \in Seq(Byte) /\ <<Newline>> \in Seq(Byte)
      /\ Len(<<Newline>>) = 1 /\ <<Newline>>[1] = Newline
  <2>1. Byte \ {Newline} \subseteq Byte /\ Newline \in Byte
    BY DEF Byte
  <2>2. Text(speed) \in Seq(Byte \ {Newline})
    BY LineText
  <2>3. front \in Seq(Byte) /\ Text(speed) \in Seq(Byte)
    BY <2>1, <2>2, SeqMonotonic
  <2> QED
    BY <2>1, <2>3
<1>2. /\ Len(Line(speed)) = Len(front) + Len(rest)
      /\ \A i \in 1 .. Len(front) + Len(rest) :
           Line(speed)[i] = IF i <= Len(front) THEN front[i] ELSE rest[i - Len(front)]
  BY <1>1, ConcatProperties
<1>3. /\ Len(Line(speed)) = Len(Text(speed)) + 1
      /\ \A i \in 1 .. Len(Text(speed)) + 1 :
           Line(speed)[i] = IF i <= Len(Text(speed)) THEN Text(speed)[i]
                            ELSE <<Newline>>[i - Len(Text(speed))]
  <2> DEFINE text == Text(speed)
             end == <<Newline>>
  <2>1. text \in Seq(Byte) /\ end \in Seq(Byte) /\ Len(end) = 1
        /\ Line(speed) = text \o end
    BY <1>1, LineText
  <2> HIDE DEF text, end
  <2>2. /\ Len(text \o end) = Len(text) + Len(end)
        /\ \A i \in 1 .. Len(text) + Len(end) :
             (text \o end)[i] = IF i <= Len(text) THEN text[i] ELSE end[i - Len(text)]
    BY <2>1, ConcatProperties
  <2> QED
    BY <2>1, <2>2 DEF text, end
<1>4. /\ Len(front) \in Nat /\ Len(Text(speed)) \in Nat
      /\ Len(rest) \in Nat /\ Len(rest) >= 1 /\ rest[1] = Newline
  BY <1>1
<1>5. Len(front) = Len(Text(speed)) /\ Len(rest) = 1
  <2>1. Line(speed)[Len(front) + 1] = Newline
    <3>1. Len(front) + 1 \in 1 .. Len(front) + Len(rest)
          /\ ~(Len(front) + 1 <= Len(front)) /\ (Len(front) + 1) - Len(front) = 1
      BY <1>4
    <3> QED
      BY <1>2, <1>4, <3>1
  <2>2. ASSUME Len(front) < Len(Text(speed))
        PROVE  FALSE
    <3>1. Len(front) + 1 \in 1 .. Len(Text(speed))
          /\ Len(front) + 1 \in 1 .. Len(Text(speed)) + 1
      BY <1>4, <2>2
    <3>2. Line(speed)[Len(front) + 1] = Text(speed)[Len(front) + 1]
      BY <1>3, <3>1
    <3>3. Text(speed)[Len(front) + 1] \in Byte \ {Newline}
      BY <3>1, LineText, ElementOfSeq
    <3> QED
      BY <2>1, <3>2, <3>3
  <2> QED
    BY <1>2, <1>3, <1>4, <2>2
<1>6. front = Text(speed)
  <2>1. ASSUME NEW i \in 1 .. Len(front)
        PROVE  front[i] = Text(speed)[i]
    <3>1. i \in 1 .. Len(front) + Len(rest) /\ i \in 1 .. Len(Text(speed)) + 1
          /\ i <= Len(front) /\ i <= Len(Text(speed))
      BY <1>4, <1>5
    <3> QED
      BY <1>2, <1>3, <3>1
  <2> QED
    BY <1>1, <1>5, <2>1, SeqEqual
<1>7. Tail(rest) = <<>>
  <2>1. Tail(rest) \in Seq(Byte) /\ Len(Tail(rest)) = 0
    BY <1>4, <1>5
  <2> QED
    BY <2>1, EmptySeq
<1> QED
  BY <1>6, <1>7

-----------------------------------------------------------------------------
(* What the speed thread holds. *)

\* Of the line on the wire only the last byte is a newline.
NewlineEndsWire ==
  \A i \in 1 .. Len(wire) : wire[i] = Newline => i = Len(wire)

\* What has come of a line that was not cut, and what has not, are that line.
NothingMissing ==
  reader = "reading" /\ intact =>
    \/ buffer = <<>> /\ wire = <<>>
    \/ buffer \o wire = Line(said)

LineInv ==
  /\ TypeOK
  /\ NewlineEndsWire
  /\ reader # "reading" => buffer = <<>>
  /\ NothingMissing

LEMMA LineInitially == Init => LineInv
<1> SUFFICES ASSUME Init
             PROVE  LineInv
  OBVIOUS
<1>1. CounterTypeOK
  BY AccountInitially DEF Init, AccountInv
<1>2. wire = <<>> /\ buffer = <<>> /\ reader = "off" /\ intact = FALSE
      /\ current_speed = 0 /\ said = 0
  BY DEF Init
<1>3. TypeOK
  <2>1. wire \in Seq(Byte) /\ buffer \in Seq(Byte \ {Newline})
    BY <1>2, EmptySeq
  <2> QED
    BY <1>1, <1>2, <2>1, Zenon DEF TypeOK
<1> QED
  BY <1>2, <1>3 DEF LineInv, NewlineEndsWire, NothingMissing

LEMMA SpeedIsNat ==
  ASSUME NEW n \in Nat
  PROVE  Speed(n) \in Nat
<1>1. n * WHEEL_CIRCUMFERENCE \in Nat
  BY SpeedReportAssumption
<1> QED
  BY <1>1, SpeedReportAssumption DEF Speed

\* A new line, after one that has arrived.
LEMMA SendKeepsLine ==
  ASSUME LineInv, CounterTypeOK', Send
  PROVE  LineInv'
<1> DEFINE speed == Speed(counted)
<1>1. speed \in Nat
  BY SpeedIsNat DEF LineInv, TypeOK, CounterTypeOK
<1>2. /\ wire = <<>> /\ wire' = Line(speed) /\ said' = speed
      /\ UNCHANGED <<reader, buffer, current_speed, intact>>
  BY DEF Send
<1> HIDE DEF speed
<1>3. Line(speed) \in Seq(Byte)
  BY <1>1, LineText
<1>4. TypeOK'
  BY <1>1, <1>2, <1>3 DEF LineInv, TypeOK
<1>5. NewlineEndsWire'
  BY <1>1, <1>2, NewlineEndsLine DEF NewlineEndsWire
<1>6. NothingMissing'
  <2> SUFFICES ASSUME reader = "reading", intact
               PROVE  buffer \o Line(speed) = Line(speed)
    BY <1>2 DEF NothingMissing
  <2>1. buffer = <<>>
    <3>1. CASE buffer \o wire = Line(said)
      <4>1. buffer \in Seq(Byte) /\ buffer \o <<>> = buffer
        <5>1. buffer \in Seq(Byte \ {Newline})
          BY DEF LineInv, TypeOK
        <5> QED
          BY <5>1, SeqMonotonic, ConcatEmptySeq
      <4>2. said \in Nat
        BY DEF LineInv, TypeOK
      <4> QED
        BY <1>2, <3>1, <4>1, <4>2, LineIsNoFront DEF LineInv, TypeOK
    <3> QED
      BY <3>1 DEF LineInv, NothingMissing
  <2> QED
    BY <1>3, <2>1, ConcatEmptySeq
<1> QED
  BY <1>2, <1>4, <1>5, <1>6 DEF LineInv

LEMMA WireArrives ==
  ASSUME wire \in Seq(Byte), wire # <<>>, NewlineEndsWire, wire' = Tail(wire)
  PROVE  wire' \in Seq(Byte) /\ NewlineEndsWire'
<1>1. /\ Tail(wire) \in Seq(Byte)
      /\ Len(Tail(wire)) = Len(wire) - 1 /\ Len(wire) \in Nat /\ Len(Tail(wire)) \in Nat
      /\ \A i \in 1 .. Len(Tail(wire)) : Tail(wire)[i] = wire[i + 1]
  BY HeadTailProperties, LenProperties
<1>2. ASSUME NEW i \in 1 .. Len(Tail(wire)), Tail(wire)[i] = Newline
      PROVE  i = Len(Tail(wire))
  <2>1. i + 1 \in 1 .. Len(wire) /\ wire[i + 1] = Newline
    BY <1>1, <1>2
  <2>2. i + 1 = Len(wire)
    BY <2>1 DEF NewlineEndsWire
  <2>3. Len(Tail(wire)) + 1 = Len(wire)
    BY <1>1
  <2> DEFINE k == Len(Tail(wire))
             m == Len(wire)
  <2>4. k \in Nat /\ m \in Nat /\ i \in 1 .. k /\ k + 1 = m /\ i + 1 = m
    BY <1>1, <2>2, <2>3
  <2> HIDE DEF k, m
  <2>5. i = k
    BY <2>4
  <2> QED
    BY <2>5 DEF k
<1> QED
  BY <1>1, <1>2 DEF NewlineEndsWire

\* A byte of a line, not the last one.
LEMMA ByteKeepsLine ==
  ASSUME LineInv, wire # <<>>, reader = "reading", Head(wire) # Newline,
         wire' = Tail(wire), buffer' = Append(buffer, Head(wire)),
         UNCHANGED <<counterVars, said, reader, current_speed, intact>>
  PROVE  LineInv'
<1>1. wire \in Seq(Byte) /\ buffer \in Seq(Byte \ {Newline}) /\ buffer \in Seq(Byte)
  <2>1. wire \in Seq(Byte) /\ buffer \in Seq(Byte \ {Newline})
    BY DEF LineInv, TypeOK
  <2> QED
    BY <2>1, SeqMonotonic
<1>2. /\ Head(wire) \in Byte /\ Tail(wire) \in Seq(Byte)
      /\ Len(Tail(wire)) = Len(wire) - 1 /\ Len(wire) \in Nat
      /\ \A i \in 1 .. Len(Tail(wire)) : Tail(wire)[i] = wire[i + 1]
  BY <1>1, HeadTailProperties, LenProperties
<1>3. buffer' \in Seq(Byte \ {Newline})
  BY <1>1, <1>2, AppendProperties
<1>4. TypeOK'
  BY <1>2, <1>3 DEF LineInv, TypeOK, CounterTypeOK, counterVars
<1>5. NewlineEndsWire'
  BY <1>1, WireArrives DEF LineInv
<1>6. NothingMissing'
  <2>1. buffer' \o wire' = buffer \o wire
    <3>1. buffer' = buffer \o <<Head(wire)>>
      BY <1>1, <1>2, AppendIsConcat
    <3>2. wire = <<Head(wire)>> \o Tail(wire)
      BY <1>1
    <3>3. (buffer \o <<Head(wire)>>) \o Tail(wire)
            = buffer \o (<<Head(wire)>> \o Tail(wire))
      <4>1. <<Head(wire)>> \in Seq(Byte)
        BY <1>2
      <4> QED
        BY <1>1, <1>2, <4>1, ConcatAssociative
    <3> QED
      BY <3>1, <3>2, <3>3
  <2> QED
    BY <2>1 DEF LineInv, NothingMissing
<1> QED
  BY <1>4, <1>5, <1>6 DEF LineInv

\* What a number in the buffer is converted to is a speed.
LEMMA FloatIsNat ==
  ASSUME NEW bytes \in Seq(Byte \ {Newline}), IsNumber(bytes)
  PROVE  Float(bytes) \in Nat
<1>1. Byte \ {Newline} = Digit \cup {Point} /\ Digit \subseteq Int /\ Point \notin Digit
  BY DEF Byte, Newline, Point, Digit
<1>2. Len(bytes) \in Nat /\ DOMAIN bytes = 1 .. Len(bytes)
      /\ \A i \in 1 .. Len(bytes) : bytes[i] \in Digit \cup {Point}
  BY <1>1, LenProperties, ElementOfSeq
<1>3. \A i, j \in Points(bytes) : i = j
  BY DEF IsNumber
<1>4. CASE Points(bytes) = {}
  <2>1. \A i \in 1 .. Len(bytes) : bytes[i] \in Digit
    BY <1>2, <1>4 DEF Points
  <2>2. bytes \in Seq(Digit)
    BY <1>2, <2>1, LenProperties, SeqDef
  <2>3. Number(bytes) \in Nat
    BY <2>2, NumberIsNat
  <2> QED
    BY <1>4, <2>3 DEF Float, FourPlaces
<1>5. CASE Points(bytes) # {}
  <2> DEFINE p == CHOOSE i \in Points(bytes) : TRUE
             place(i) == IF p + i <= Len(bytes) THEN bytes[p + i] ELSE Character(0)
             whole == SubSeq(bytes, 1, p - 1)
             frac == <<place(1), place(2), place(3), place(4)>>
  <2>1. p \in Points(bytes)
    BY <1>5
  <2>2. Float(bytes) = FourPlaces * Number(whole) + Number(frac)
    BY <1>5, Zenon DEF Float
  <2> HIDE DEF p
  <2>3. p \in 1 .. Len(bytes) /\ \A i \in 1 .. Len(bytes) : i # p => bytes[i] \in Digit
    BY <1>2, <1>3, <2>1 DEF Points
  <2>4. whole \in Seq(Digit)
    <3>1. \A i \in 1 .. p - 1 : bytes[i] \in Digit
      BY <1>2, <2>3
    <3> QED
      BY <1>2, <2>3, <3>1, SubSeqProperties
  <2>5. ASSUME NEW i \in 1 .. 4
        PROVE  place(i) \in Digit
    <3>1. p + i <= Len(bytes) => p + i \in 1 .. Len(bytes) /\ p + i # p
      BY <1>2, <2>3
    <3> QED
      BY <2>3, <3>1 DEF Character, Digit
  <2>6. frac \in Seq(Digit)
    <3>1. place(1) \in Digit /\ place(2) \in Digit /\ place(3) \in Digit /\ place(4) \in Digit
      BY <2>5
    <3> HIDE DEF place
    <3> QED
      BY <3>1
  <2>7. Number(whole) \in Nat /\ Number(frac) \in Nat
    <3> HIDE DEF whole, frac
    <3> QED
      BY <2>4, <2>6, NumberIsNat
  <2> QED
    BY <2>2, <2>7 DEF FourPlaces
<1> QED
  BY <1>4, <1>5

\* The last byte of a line: nothing of it is left on the wire.
LEMMA NewlineKeepsLine ==
  ASSUME LineInv, wire # <<>>, reader = "reading", Head(wire) = Newline,
         wire' = Tail(wire), buffer' = <<>>, intact' = TRUE,
         IF IsNumber(buffer)
         THEN current_speed' = Float(buffer) /\ UNCHANGED reader
         ELSE reader' = "dead" /\ UNCHANGED current_speed,
         UNCHANGED <<counterVars, said>>
  PROVE  LineInv'
<1>1. wire \in Seq(Byte) /\ buffer \in Seq(Byte \ {Newline})
  BY DEF LineInv, TypeOK
<1>2. wire[1] = Newline /\ 1 \in 1 .. Len(wire)
  BY <1>1
<1>3. Len(wire) = 1
  BY <1>2 DEF LineInv, NewlineEndsWire
<1>4. wire' = <<>>
  <2>1. Tail(wire) \in Seq(Byte) /\ Len(Tail(wire)) = 0
    BY <1>1, <1>3, HeadTailProperties
  <2> QED
    BY <2>1, EmptySeq
<1>5. current_speed' \in Nat /\ reader' \in {"off", "reading", "dead"}
  BY <1>1, FloatIsNat DEF LineInv, TypeOK
<1>6. TypeOK'
  <2>1. wire' \in Seq(Byte) /\ buffer' \in Seq(Byte \ {Newline})
    BY <1>4, EmptySeq
  <2> QED
    BY <1>5, <2>1 DEF LineInv, TypeOK, CounterTypeOK, counterVars
<1> QED
  BY <1>4, <1>6 DEF LineInv, NewlineEndsWire, NothingMissing

LEMMA ArriveKeepsLine ==
  ASSUME LineInv, Arrive
  PROVE  LineInv'
<1>1. wire # <<>> /\ wire' = Tail(wire) /\ UNCHANGED <<counterVars, said>>
  BY DEF Arrive
<1>2. CASE reader = "reading" /\ Head(wire) # Newline
  BY <1>1, <1>2, ByteKeepsLine DEF Arrive
<1>3. CASE reader = "reading" /\ Head(wire) = Newline
  BY <1>1, <1>3, NewlineKeepsLine DEF Arrive
<1>4. CASE reader # "reading"
  <2>1. UNCHANGED <<reader, buffer, current_speed, intact>>
    BY <1>4 DEF Arrive
  <2>2. wire' \in Seq(Byte) /\ NewlineEndsWire'
    BY <1>1, WireArrives DEF LineInv, TypeOK
  <2>3. TypeOK'
    BY <1>1, <2>1, <2>2 DEF LineInv, TypeOK, CounterTypeOK, counterVars
  <2> QED
    BY <1>4, <2>1, <2>2, <2>3 DEF LineInv, NothingMissing
<1> QED
  BY <1>2, <1>3, <1>4

LEMMA StartReaderKeepsLine ==
  ASSUME LineInv, StartReader
  PROVE  LineInv'
<1>1. /\ reader = "off" /\ reader' = "reading"
      /\ intact' = (wire = <<>> \/ wire = Line(said))
      /\ UNCHANGED <<counterVars, wire, buffer, current_speed, said>>
  BY DEF StartReader
<1>2. buffer = <<>> /\ wire \in Seq(Byte)
  BY <1>1 DEF LineInv, TypeOK
<1>3. TypeOK'
  BY <1>1 DEF LineInv, TypeOK, CounterTypeOK, counterVars
<1>4. NothingMissing'
  <2>1. buffer \o wire = wire
    BY <1>2, ConcatEmptySeq
  <2> QED
    BY <1>1, <1>2, <2>1 DEF NothingMissing
<1> QED
  BY <1>1, <1>3, <1>4 DEF LineInv, NewlineEndsWire

LEMMA ResetKeepsLine ==
  ASSUME LineInv, CounterTypeOK', Reset
  PROVE  LineInv'
<1>1. /\ wire' = <<>> /\ intact' = (intact /\ buffer = <<>>)
      /\ UNCHANGED <<reader, buffer, current_speed, said>>
  BY DEF Reset
<1>2. TypeOK'
  <2>1. wire' \in Seq(Byte)
    BY <1>1, EmptySeq
  <2> QED
    BY <1>1, <2>1 DEF LineInv, TypeOK
<1>3. NewlineEndsWire'
  <2>1. Len(wire') = 0
    BY <1>1
  <2> QED
    BY <2>1 DEF NewlineEndsWire
<1>4. NothingMissing'
  BY <1>1 DEF NothingMissing
<1> QED
  BY <1>1, <1>2, <1>3, <1>4 DEF LineInv

\* The counters' steps leave the line alone.
LEMMA CountKeepsLine ==
  ASSUME LineInv, CounterTypeOK', UNCHANGED lineVars
  PROVE  LineInv'
  BY DEF LineInv, TypeOK, NewlineEndsWire, NothingMissing, lineVars

LEMMA StepKeepsLine ==
  ASSUME LineInv, CounterTypeOK', [Next]_vars
  PROVE  LineInv'
<1>1. CASE Turn \/ Stored \/ Count \/ UNCHANGED vars
  BY <1>1, CountKeepsLine DEF Turn, Stored, Count, vars
<1> QED
  BY <1>1, SendKeepsLine, ArriveKeepsLine, StartReaderKeepsLine, ResetKeepsLine
  DEF Next

LEMMA LineInvariant == Spec => []LineInv
<1>1. Spec => []CounterTypeOK
  <2>1. AccountInv => CounterTypeOK
    BY DEF AccountInv
  <2> QED
    BY <2>1, SpeedReportsAccount, PTL
<1> QED
  BY <1>1, LineInitially, StepKeepsLine, PTL DEF Spec

\* Type correctness of the counters, the line and the thread that reads it,
\* lines that were cut included: whatever float is given it makes a speed of it
\* or raises (encoder_isr.c 26-107, uart_handler.c 50-68, main.py 86-97).
THEOREM SpeedReportTypeCorrect == Spec => []TypeOK
<1>1. LineInv => TypeOK
  BY DEF LineInv
<1> QED
  BY <1>1, LineInvariant, PTL

\* Every speed, of any number of digits, is read to the last digit from a line
\* that was not cut, and does not end the thread (uart_handler.c 56-62 against
\* main.py 91-96).
THEOREM WholeLinesGiveTheSpeed == Spec => WholeLinesAreExact
<1> DEFINE WholeLineRead ==
             Arrive /\ reader = "reading" /\ Head(wire) = Newline /\ intact
<1>1. ASSUME LineInv, WholeLineRead
      PROVE  current_speed' = said /\ reader' = "reading"
  <2>1. wire \in Seq(Byte) /\ wire # <<>> /\ buffer \in Seq(Byte \ {Newline})
        /\ said \in Nat /\ Head(wire) = Newline
    BY <1>1 DEF LineInv, TypeOK, Arrive
  <2>2. buffer \o wire = Line(said)
    BY <1>1, <2>1 DEF LineInv, NothingMissing
  <2>3. buffer = Text(said)
    BY <2>1, <2>2, WholeLine
  <2>4. IsNumber(buffer) /\ Float(buffer) = said
    BY <2>1, <2>3, TextMeansSpeed
  <2> QED
    BY <1>1, <2>4 DEF Arrive
<1>2. ASSUME LineInv, [Next]_vars
      PROVE  [WholeLineRead => current_speed' = said /\ reader' = "reading"]_vars
  BY <1>1, <1>2
<1> QED
  BY <1>2, LineInvariant, PTL DEF Spec, WholeLinesAreExact

-----------------------------------------------------------------------------

\* The echo has been seen to rise: StartTime is the rise, give or take an
\* iteration.
Risen == RiseDelay - Jitter <= StartTime /\ StartTime <= RiseDelay + Jitter

\* Line 141 answered: the echo has not risen, is being seen, or has been missed
\* because it fell into one iteration.
RiseSeen ==
  /\ since - Jitter <= StartTime /\ StartTime <= since
  /\ \/ since < RiseDelay
     \/ since < RiseDelay + length /\ Risen
     \/ length < Jitter /\ RiseDelay + length <= since

\* Line 151 answered: an echo seen, an echo missed, an echo that has not even
\* risen when the time is over.
FallSeen ==
  \/ /\ Risen /\ RiseDelay <= since
     /\ since <= RiseDelay + length + Jitter
     /\ since - Jitter <= StopTime /\ StopTime <= since
  \/ /\ length < Jitter /\ RiseDelay + length <= since
     /\ since = LEAVE_SAMPLE_INTERVAL /\ StopTime = LEAVE_SAMPLE_INTERVAL
     /\ LEAVE_SAMPLE_INTERVAL - Jitter <= StartTime /\ StartTime <= StopTime
  \/ /\ since < RiseDelay
     /\ since = LEAVE_SAMPLE_INTERVAL

\* In a sample whose trigger was answered the line follows the clock.
OwnEcho ==
  /\ rise = Decrease(RiseDelay, since)
  /\ fall = Decrease(RiseDelay + length, since)
  /\ length \in EchoLength

Timed ==
  /\ pc \in {"rise", "fall"} => since < LastTick
  /\ pc \in {"rise", "fall"} /\ whose = "own" => OwnEcho
  /\ pc = "rise" /\ whose = "own" => RiseSeen
  /\ pc = "fall" /\ whose = "own" => FallSeen

SampleInv == SampleTypeOK /\ Timed /\ MeasuresItsEcho

-----------------------------------------------------------------------------

LEMMA SampleInitially == SampleInit => SampleInv
  BY UltrasonicAssumption
  DEF SampleInit, SampleInv, SampleTypeOK, Timed, MeasuresItsEcho, NoSample, Time, LastTick,
      Answered

\* A poll never takes the clock to its end, and the line counts down with it.
LEMMA Polled ==
  ASSUME SampleTypeOK, Timed, pc \in {"rise", "fall"},
         NEW n \in 0 .. Jitter, TimePasses(n)
  PROVE  /\ since' \in Time
         /\ since' = since + n \/ since' = LastTick
         /\ since <= since' /\ since' <= since + n
         /\ since < LEAVE_SAMPLE_INTERVAL => since' = since + n /\ since' < LastTick
         /\ since' <= LEAVE_SAMPLE_INTERVAL => since' = since + n
         /\ rise' \in 0 .. RiseDelay /\ fall' \in Nat
         /\ whose = "own" /\ since' = since + n => OwnEcho'
         /\ UNCHANGED length
<1> USE UltrasonicAssumption DEF SampleTypeOK, Time, LastTick
<1>1. /\ since' \in Time /\ since <= since' /\ since' <= since + n
      /\ since' = since + n \/ since' = LastTick
      /\ since < LEAVE_SAMPLE_INTERVAL => since' = since + n /\ since' < LastTick
      /\ since' <= LEAVE_SAMPLE_INTERVAL => since' = since + n
  BY DEF TimePasses
<1>2. rise' \in 0 .. RiseDelay /\ fall' \in Nat /\ UNCHANGED length
  BY DEF TimePasses, Decrease
<1>3. ASSUME whose = "own", since' = since + n
      PROVE  OwnEcho'
  BY <1>2, <1>3 DEF Timed, OwnEcho, TimePasses, Decrease
<1> QED
  BY <1>1, <1>2, <1>3

\* What the line shows of an echo of the sample's own.
LEMMA OwnLine ==
  ASSUME SampleTypeOK, OwnEcho
  PROVE  /\ Echo = 1 <=> RiseDelay <= since /\ since < RiseDelay + length
         /\ Echo = 0 <=> since < RiseDelay \/ RiseDelay + length <= since
         /\ fall = 0 <=> RiseDelay + length <= since
  BY UltrasonicAssumption DEF SampleTypeOK, OwnEcho, Echo, Decrease, Time, LastTick

LEMMA NothingElapsed ==
  ASSUME NEW n \in Nat
  PROVE  Decrease(n, 0) = n
  BY DEF Decrease

LEMMA StepTrigger ==
  ASSUME SampleInv, Trigger
  PROVE  SampleInv'
<1> USE UltrasonicAssumption DEF SampleInv, SampleTypeOK, Time, LastTick, Trigger
<1>0. \/ /\ length' \in EchoLength /\ length' \in Nat
         /\ rise' = RiseDelay /\ fall' = RiseDelay + length' /\ whose' = "own"
      \/ /\ whose' \in {"none", "earlier", whose} /\ whose' # "own"
         /\ UNCHANGED <<rise, fall, length>>
  BY DEF Answer
<1>1. SampleTypeOK'
  <2>1. whose' \in Answered
    BY <1>0 DEF Answered
  <2>2. length' \in EchoLength \cup {0} /\ rise' \in 0 .. RiseDelay
    BY <1>0
  <2>3. fall' \in Nat
    BY <1>0
  <2> QED
    BY <2>1, <2>2, <2>3
<1>2. Timed'
  <2>1. ASSUME whose' = "own"
        PROVE  OwnEcho'
    <3>1. /\ length' \in EchoLength /\ length' \in Nat
          /\ rise' = RiseDelay /\ fall' = RiseDelay + length' /\ since' = 0
      BY <1>0, <2>1
    <3>2. Decrease(RiseDelay, 0) = RiseDelay
          /\ Decrease(RiseDelay + length', 0) = RiseDelay + length'
      BY <3>1, NothingElapsed
    <3> HIDE DEF SampleInv, SampleTypeOK, Trigger
    <3> QED
      BY <3>1, <3>2, Zenon DEF OwnEcho
  <2>2. RiseSeen'
    BY DEF RiseSeen
  <2> QED
    BY <2>1, <2>2 DEF Timed
<1>3. MeasuresItsEcho'
  BY DEF MeasuresItsEcho
<1> QED
  BY <1>1, <1>2, <1>3

LEMMA StepWaitRise ==
  ASSUME SampleInv, WaitRise
  PROVE  SampleInv'
<1> USE UltrasonicAssumption DEF SampleInv
<1>1. PICK n \in 1 .. Jitter : TimePasses(n) /\ StartTime' \in since .. since'
  BY DEF WaitRise
<1>2. /\ pc = "rise" /\ Echo = 0 /\ since < LEAVE_SAMPLE_INTERVAL
      /\ UNCHANGED <<pc, StopTime, whose, appended>>
  BY DEF WaitRise, AwaitsRise
<1>3. n \in 0 .. Jitter
  OBVIOUS
<1>4. /\ since' \in Time /\ since' = since + n /\ since' < LastTick
      /\ rise' \in 0 .. RiseDelay /\ fall' \in Nat
      /\ whose = "own" => OwnEcho'
      /\ UNCHANGED length
  BY <1>1, <1>2, <1>3, Polled
<1>5. SampleTypeOK'
  BY <1>1, <1>2, <1>4 DEF SampleTypeOK, Time, LastTick
<1>6. ASSUME whose = "own"
      PROVE  RiseSeen'
  <2>1. since < RiseDelay \/ RiseDelay + length <= since
    BY <1>2, <1>6, OwnLine DEF Timed
  <2>2. RiseSeen
    BY <1>2, <1>6 DEF Timed
  <2> QED
    BY <1>1, <1>4, <2>1, <2>2 DEF SampleTypeOK, Time, LastTick, RiseSeen, Risen
<1>7. Timed'
  BY <1>2, <1>4, <1>6 DEF Timed
<1>8. MeasuresItsEcho'
  BY <1>2 DEF MeasuresItsEcho
<1> QED
  BY <1>5, <1>7, <1>8

\* A sample given up is over, and what was appended stays.
LEMMA StepGiveUp ==
  ASSUME SampleInv, pc \in {"rise", "fall"}, NEW n \in 0 .. Jitter, TimePasses(n), GiveUp
  PROVE  SampleInv'
<1>1. /\ since' \in Time /\ rise' \in 0 .. RiseDelay /\ fall' \in Nat
      /\ UNCHANGED length
  BY Polled DEF SampleInv
<1>2. /\ pc' = "trigger" /\ UNCHANGED <<StartTime, StopTime, appended>>
      /\ whose' \in {"given up", whose}
  BY DEF GiveUp
<1>3. SampleTypeOK'
  BY <1>1, <1>2, Zenon DEF SampleInv, SampleTypeOK, Answered
<1>4. Timed'
  BY <1>2 DEF Timed
<1>5. MeasuresItsEcho'
  BY <1>2 DEF SampleInv, MeasuresItsEcho
<1> QED
  BY <1>3, <1>4, <1>5 DEF SampleInv

LEMMA StepLeaveRise ==
  ASSUME SampleInv, LeaveRise
  PROVE  SampleInv'
<1> USE UltrasonicAssumption DEF SampleInv
<1>1. PICK n \in 0 .. Jitter : TimePasses(n)
  BY DEF LeaveRise
<1>2. pc = "rise" /\ (Echo # 0 \/ since >= LEAVE_SAMPLE_INTERVAL)
  BY DEF LeaveRise, AwaitsRise, SampleTypeOK, Time, LastTick
<1>3. CASE GiveUp
  BY <1>1, <1>2, <1>3, StepGiveUp
<1>4. CASE ~GiveUp
  <2>1. /\ since' <= LEAVE_SAMPLE_INTERVAL
        /\ pc' = "fall" /\ StopTime' = since'
        /\ UNCHANGED <<StartTime, whose, appended>>
    BY <1>4 DEF LeaveRise
  <2>2. /\ since' \in Time /\ since' = since + n
        /\ rise' \in 0 .. RiseDelay /\ fall' \in Nat
        /\ whose = "own" => OwnEcho'
        /\ UNCHANGED length
    BY <1>1, <1>2, <2>1, Polled
  <2>3. SampleTypeOK'
    BY <2>1, <2>2 DEF SampleTypeOK, Time, LastTick
  <2>4. ASSUME whose = "own"
        PROVE  FallSeen'
    <3>1. Echo \in {0, 1}
      BY DEF Echo
    <3>2. /\ RiseDelay <= since /\ since < RiseDelay + length
          \/ since >= LEAVE_SAMPLE_INTERVAL
      BY <1>2, <2>4, <3>1, OwnLine DEF Timed
    <3>3. RiseSeen
      BY <1>2, <2>4 DEF Timed
    <3> QED
      BY <2>1, <2>2, <3>2, <3>3
      DEF SampleTypeOK, Time, LastTick, RiseSeen, FallSeen, Risen
  <2>5. Timed'
    BY <2>1, <2>2, <2>4 DEF Timed, LastTick, SampleTypeOK, Time
  <2>6. MeasuresItsEcho'
    BY <2>1 DEF MeasuresItsEcho
  <2> QED
    BY <2>3, <2>5, <2>6
<1> QED
  BY <1>3, <1>4

LEMMA StepWaitFall ==
  ASSUME SampleInv, WaitFall
  PROVE  SampleInv'
<1> USE UltrasonicAssumption DEF SampleInv
<1>1. PICK n \in 1 .. Jitter : TimePasses(n) /\ StopTime' \in since .. since'
  BY DEF WaitFall
<1>2. /\ pc = "fall" /\ Echo = 1 /\ since < LEAVE_SAMPLE_INTERVAL
      /\ UNCHANGED <<pc, StartTime, whose, appended>>
  BY DEF WaitFall, AwaitsFall
<1>3. n \in 0 .. Jitter
  OBVIOUS
<1>4. /\ since' \in Time /\ since' = since + n /\ since' < LastTick
      /\ rise' \in 0 .. RiseDelay /\ fall' \in Nat
      /\ whose = "own" => OwnEcho'
      /\ UNCHANGED length
  BY <1>1, <1>2, <1>3, Polled
<1>5. SampleTypeOK'
  BY <1>1, <1>2, <1>4 DEF SampleTypeOK, Time, LastTick
<1>6. ASSUME whose = "own"
      PROVE  FallSeen'
  <2>1. RiseDelay <= since /\ since < RiseDelay + length
    BY <1>2, <1>6, OwnLine DEF Timed
  <2>2. FallSeen /\ length \in Nat
    BY <1>2, <1>6 DEF Timed, OwnEcho
  <2> QED
    BY <1>1, <1>2, <1>4, <2>1, <2>2 DEF SampleTypeOK, Time, LastTick, FallSeen, Risen
<1>7. Timed'
  BY <1>2, <1>4, <1>6 DEF Timed
<1>8. MeasuresItsEcho'
  BY <1>2 DEF MeasuresItsEcho
<1> QED
  BY <1>5, <1>7, <1>8

LEMMA StepLeaveFall ==
  ASSUME SampleInv, LeaveFall
  PROVE  SampleInv'
<1> USE UltrasonicAssumption DEF SampleInv
<1>1. PICK n \in 0 .. Jitter : TimePasses(n)
  BY DEF LeaveFall
<1>2. pc = "fall" /\ (Echo # 1 \/ since >= LEAVE_SAMPLE_INTERVAL)
  BY DEF LeaveFall, AwaitsFall, SampleTypeOK, Time, LastTick
<1>3. CASE GiveUp
  BY <1>1, <1>2, <1>3, StepGiveUp
<1>4. CASE ~GiveUp
  <2>1. /\ since' <= LEAVE_SAMPLE_INTERVAL
        /\ pc' = "trigger"
        /\ appended' = [ticks |-> StopTime - StartTime, whose |-> whose,
                        ended |-> fall' = 0, length |-> length]
        /\ UNCHANGED <<StartTime, StopTime, whose>>
    BY <1>4 DEF LeaveFall
  <2>2. /\ since' \in Time /\ since' = since + n
        /\ rise' \in 0 .. RiseDelay /\ fall' \in Nat
        /\ whose = "own" => OwnEcho'
        /\ UNCHANGED length
    BY <1>1, <1>2, <2>1, Polled
  <2>3. SampleTypeOK'
    <3>1. StopTime - StartTime \in -LastTick .. LastTick
      BY DEF SampleTypeOK, Time, LastTick
    <3>2. appended' \in [ticks : -LastTick .. LastTick, whose : Answered,
                         ended : BOOLEAN, length : EchoLength \cup {0}]
      BY <2>1, <3>1 DEF SampleTypeOK
    <3> QED
      BY <2>1, <2>2, <3>2 DEF SampleTypeOK
  <2>4. Timed'
    BY <2>1 DEF Timed
  <2>5. MeasuresItsEcho'
    <3> SUFFICES ASSUME whose = "own", fall' = 0
                 PROVE  /\ StopTime - StartTime <= length + 2 * Jitter
                        /\ length <= StopTime - StartTime + 2 * Jitter
      BY <2>1 DEF MeasuresItsEcho
    <3>1. RiseDelay + length <= since'
      <4>1. SampleTypeOK' /\ OwnEcho'
        BY <2>2, <2>3
      <4> QED
        BY <2>2, <4>1 DEF SampleTypeOK, OwnEcho, Decrease, Time
    <3>2. Echo \in {0, 1} /\ length \in Nat
      BY DEF Echo, SampleTypeOK
    <3>3. \/ since < RiseDelay \/ RiseDelay + length <= since
          \/ since >= LEAVE_SAMPLE_INTERVAL
      BY <1>2, <3>2, OwnLine DEF Timed
    <3>4. FallSeen
      BY <1>2 DEF Timed
    <3> QED
      BY <2>1, <2>2, <3>1, <3>2, <3>3, <3>4
      DEF SampleTypeOK, Time, LastTick, FallSeen, Risen
  <2> QED
    BY <2>3, <2>4, <2>5
<1> QED
  BY <1>3, <1>4

LEMMA SampleInvariant == SampleSpec => []SampleInv
<1>1. ASSUME SampleInv, [SampleNext]_sampleVars
      PROVE  SampleInv'
  <2>1. CASE UNCHANGED sampleVars
    BY <1>1, <2>1
    DEF sampleVars, SampleInv, SampleTypeOK, Timed, OwnEcho, RiseSeen, FallSeen, Risen,
        MeasuresItsEcho
  <2> QED
    BY <1>1, <2>1, StepTrigger, StepWaitRise, StepLeaveRise, StepWaitFall,
       StepLeaveFall DEF SampleNext
<1> QED
  BY <1>1, SampleInitially, PTL DEF SampleSpec

\* Type correctness of a sensor thread: no poll takes the clock past the limit
\* by more than an iteration.
THEOREM UltrasonicTypeCorrect == SampleSpec => []SampleTypeOK
<1>1. SampleInv => SampleTypeOK
  BY DEF SampleInv
<1> QED
  BY <1>1, SampleInvariant, PTL

\* The distance appended is that of the echo, give or take an iteration at both
\* ends, whatever the sensor answers (lines 140-178).
THEOREM UltrasonicMeasuresItsEcho == SampleSpec => []MeasuresItsEcho
<1>1. SampleInv => MeasuresItsEcho
  BY DEF SampleInv
<1> QED
  BY <1>1, SampleInvariant, PTL

\* An obstacle in range is never given up (lines 141-157).
THEOREM UltrasonicKeepsItsEcho == SampleSpec => InRangeIsNotGivenUp
<1> USE UltrasonicAssumption
<1>1. ASSUME SampleInv, SampleNext, GiveUp
      PROVE  ~InRange
  <2> SUFFICES ASSUME InRange
               PROVE  FALSE
    OBVIOUS
  <2>1. pc' = "trigger" /\ since' > LEAVE_SAMPLE_INTERVAL
    BY <1>1 DEF GiveUp
  <2>2. /\ whose = "own" /\ Jitter <= length /\ length \in Nat
        /\ RiseDelay + length + 2 * Jitter <= LEAVE_SAMPLE_INTERVAL
    BY <1>1 DEF InRange, SampleInv, SampleTypeOK
  <2>3. SampleTypeOK /\ Timed
    BY <1>1 DEF SampleInv
  <2>4. CASE LeaveRise
    <3>1. PICK n \in 0 .. Jitter : TimePasses(n)
      BY <2>4 DEF LeaveRise
    <3>2. pc = "rise" /\ (Echo # 0 \/ since >= LEAVE_SAMPLE_INTERVAL)
      BY <2>4, <2>3 DEF LeaveRise, AwaitsRise, SampleTypeOK, Time, LastTick
    <3>3. RiseSeen /\ OwnEcho
      BY <2>2, <2>3, <3>2 DEF Timed
    <3>4. Echo \in {0, 1}
      BY DEF Echo
    <3>5. \/ RiseDelay <= since /\ since < RiseDelay + length
          \/ since >= LEAVE_SAMPLE_INTERVAL
      BY <2>3, <3>2, <3>3, <3>4, OwnLine
    <3>6. since' <= since + n
      BY <2>3, <3>1, <3>2, Polled
    <3>7. since \in Nat /\ since' \in Nat
      BY <2>3, <3>1, <3>2, Polled DEF SampleTypeOK, Time, LastTick
    <3> QED
      BY <2>1, <2>2, <3>3, <3>5, <3>6, <3>7 DEF RiseSeen
  <2>5. CASE LeaveFall
    <3>1. PICK n \in 0 .. Jitter : TimePasses(n)
      BY <2>5 DEF LeaveFall
    <3>2. pc = "fall"
      BY <2>5 DEF LeaveFall
    <3>3. FallSeen
      BY <2>2, <2>3, <3>2 DEF Timed
    <3>4. since' <= since + n
      BY <2>3, <3>1, <3>2, Polled
    <3>5. since \in Nat /\ since' \in Nat
      BY <2>3, <3>1, <3>2, Polled DEF SampleTypeOK, Time, LastTick
    <3> QED
      BY <2>1, <2>2, <3>3, <3>4, <3>5 DEF FallSeen
  <2>6. CASE Trigger \/ WaitRise \/ WaitFall
    BY <2>1, <2>6 DEF Trigger, WaitRise, WaitFall
  <2> QED
    BY <1>1, <2>4, <2>5, <2>6 DEF SampleNext
<1>2. ASSUME SampleInv, [SampleNext]_sampleVars
      PROVE  [GiveUp => ~InRange]_sampleVars
  BY <1>1, <1>2
<1> QED
  BY <1>2, SampleInvariant, PTL DEF SampleSpec, InRangeIsNotGivenUp
=============================================================================
