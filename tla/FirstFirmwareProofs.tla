------------------------ MODULE FirstFirmwareProofs ------------------------
(***************************************************************************)
(* The first car: what holds of the lines, the packets and the routines of *)
(* FirstFirmware, whatever arrives on the serial line and whatever malloc  *)
(* has left in the buffer.                                                 *)
(***************************************************************************)
EXTENDS FirstFirmware, SequenceTheorems, TLAPS

-----------------------------------------------------------------------------
(* uart.c: what atoi makes of three characters. *)

\* The number that a text of at most three digits means.
LEMMA ShortNumber ==
  ASSUME NEW digits \in Seq(Int), Len(digits) \in 0 .. 3
  PROVE  /\ Number(digits) \in Int
         /\ Len(digits) = 3 =>
              Number(digits) = 100 * (digits[1] - 48) + 10 * (digits[2] - 48)
                                 + (digits[3] - 48)
<1> DEFINE Body(f) == [n \in 0 .. Len(digits) |->
                         IF n = 0 THEN 0 ELSE 10 * f[n - 1] + (digits[n] - 48)]
           chosen == CHOOSE f : f = Body(f)
           one == digits[1] - 48
           two == 10 * one + (digits[2] - 48)
           value == [n \in 0 .. Len(digits) |->
                       IF n = 0 THEN 0
                       ELSE IF n = 1 THEN one
                       ELSE IF n = 2 THEN two
                       ELSE 10 * two + (digits[3] - 48)]
<1>1. \A i \in 1 .. Len(digits) : digits[i] \in Int
  BY ElementOfSeq
<1>2. value = Body(value)
  <2>1. ASSUME NEW n \in 0 .. Len(digits)
        PROVE  value[n] = IF n = 0 THEN 0 ELSE 10 * value[n - 1] + (digits[n] - 48)
    <3>1. n \in {0, 1, 2, 3} /\ (n # 0 => n - 1 \in 0 .. Len(digits))
      BY <1>1
    <3>2. CASE n = 0
      BY <3>2
    <3>3. CASE n = 1
      BY <1>1, <3>1, <3>3
    <3>4. CASE n = 2
      BY <1>1, <3>1, <3>4
    <3>5. CASE n = 3
      BY <1>1, <3>1, <3>5
    <3> QED
      BY <3>1, <3>2, <3>3, <3>4, <3>5
  <2> QED
    BY <2>1
<1>3. chosen = Body(chosen)
  <2> HIDE DEF value
  <2> QED
    BY <1>2
<1>4. Number(digits) = chosen[Len(digits)]
  BY DEF Number
<1> HIDE DEF chosen
<1>5. ASSUME NEW n \in 0 .. Len(digits)
      PROVE  chosen[n] = IF n = 0 THEN 0 ELSE 10 * chosen[n - 1] + (digits[n] - 48)
  BY <1>3
<1>6. chosen[0] = 0
  BY <1>1, <1>5
<1>7. Len(digits) >= 1 => chosen[1] = digits[1] - 48
  BY <1>1, <1>5, <1>6
<1>8. Len(digits) >= 2 => chosen[2] = 10 * chosen[1] + (digits[2] - 48)
  BY <1>1, <1>5
<1>9. Len(digits) = 3 => chosen[3] = 10 * chosen[2] + (digits[3] - 48)
  BY <1>1, <1>5
<1>10. /\ Len(digits) >= 1 => digits[1] \in Int
       /\ Len(digits) >= 2 => digits[2] \in Int
       /\ Len(digits) = 3 => digits[3] \in Int
  BY <1>1
<1>11. CASE Len(digits) = 3
  <2> DEFINE a == digits[1]
             b == digits[2]
             c == digits[3]
  <2>1. a \in Int /\ b \in Int /\ c \in Int
    BY <1>10, <1>11
  <2>2. /\ chosen[1] = a - 48 /\ chosen[2] = 10 * chosen[1] + (b - 48)
        /\ Number(digits) = 10 * chosen[2] + (c - 48)
    BY <1>4, <1>7, <1>8, <1>9, <1>11
  <2>3. Number(digits) = 100 * (a - 48) + 10 * (b - 48) + (c - 48)
    <3> HIDE DEF a, b, c
    <3> QED
      BY <2>1, <2>2
  <2>4. Number(digits) \in Int
    <3> HIDE DEF a, b, c
    <3> QED
      BY <2>1, <2>3
  <2> QED
    BY <2>3, <2>4
<1>12. CASE Len(digits) = 2
  <2> DEFINE a == digits[1]
             b == digits[2]
  <2>1. a \in Int /\ b \in Int
    BY <1>10, <1>12
  <2>2. Number(digits) = 10 * (a - 48) + (b - 48)
    BY <1>4, <1>7, <1>8, <1>12
  <2> HIDE DEF a, b
  <2> QED
    BY <1>12, <2>1, <2>2
<1>13. CASE Len(digits) = 1
  BY <1>4, <1>7, <1>10, <1>13
<1>14. CASE Len(digits) = 0
  BY <1>4, <1>6, <1>14
<1> QED
  BY <1>11, <1>12, <1>13, <1>14

\* There is a last of the first characters that are of a set.
LEMMA LeadingExists ==
  ASSUME NEW text \in Seq(Int), Len(text) \in 0 .. 3, NEW set
  PROVE  /\ Leading(text, set) \in 0 .. Len(text)
         /\ \A i \in 1 .. Leading(text, set) : text[i] \in set
         /\ Leading(text, set) < Len(text) => text[Leading(text, set) + 1] \notin set
<1> DEFINE Is(n) == /\ \A i \in 1 .. n : text[i] \in set
                    /\ n < Len(text) => text[n + 1] \notin set
<1>1. \E n \in 0 .. Len(text) : Is(n)
  <2>1. CASE Len(text) = 0 \/ text[1] \notin set
    <3>1. 0 \in 0 .. Len(text) /\ Is(0)
      BY <2>1
    <3> QED
      BY <3>1
  <2>2. CASE Len(text) # 0 /\ text[1] \in set /\ (Len(text) = 1 \/ text[2] \notin set)
    <3>1. 1 \in 0 .. Len(text) /\ Is(1)
      BY <2>2
    <3> QED
      BY <3>1
  <2>3. CASE /\ Len(text) > 1 /\ text[1] \in set /\ text[2] \in set
             /\ Len(text) = 2 \/ text[3] \notin set
    <3>1. 2 \in 0 .. Len(text) /\ Is(2)
      BY <2>3
    <3> QED
      BY <3>1
  <2>4. CASE Len(text) = 3 /\ text[1] \in set /\ text[2] \in set /\ text[3] \in set
    <3>1. 3 \in 0 .. Len(text) /\ Is(3)
      BY <2>4
    <3> QED
      BY <3>1
  <2> QED
    BY <2>1, <2>2, <2>3, <2>4
<1>2. Leading(text, set) = CHOOSE n \in 0 .. Len(text) : Is(n)
  BY DEF Leading
<1> QED
  BY <1>1, <1>2

\* A stretch of a text is a text.
LEMMA Stretch ==
  ASSUME NEW text \in Seq(Int), Len(text) \in 0 .. 3,
         NEW m \in 1 .. Len(text) + 1, NEW n \in m - 1 .. Len(text)
  PROVE  /\ SubSeq(text, m, n) \in Seq(Int)
         /\ Len(SubSeq(text, m, n)) = n - m + 1
         /\ Len(SubSeq(text, m, n)) \in 0 .. 3
         /\ \A i \in 1 .. n - m + 1 : SubSeq(text, m, n)[i] = text[m + i - 1]
<1>1. m \in Int /\ n \in Int /\ m >= 1 /\ n >= m - 1 /\ n <= 3
  <2> DEFINE k == Len(text)
  <2>1. k \in 0 .. 3 /\ m \in 1 .. k + 1 /\ n \in m - 1 .. k
    OBVIOUS
  <2> HIDE DEF k
  <2> QED
    BY <2>1
<1>2. \A i \in m .. n : text[i] \in Int
  BY ElementOfSeq
<1>3. /\ SubSeq(text, m, n) \in Seq(Int)
      /\ Len(SubSeq(text, m, n)) = IF m <= n THEN n - m + 1 ELSE 0
      /\ \A i \in 1 .. n - m + 1 : SubSeq(text, m, n)[i] = text[m + i - 1]
  BY <1>1, <1>2, SubSeqProperties
<1>4. (IF m <= n THEN n - m + 1 ELSE 0) = n - m + 1
  BY <1>1
<1>5. n - m + 1 \in 0 .. 3
  BY <1>1
<1> QED
  BY <1>3, <1>4, <1>5

\* Whatever the characters are, atoi returns a number.
LEMMA LeadingNumberIsInt ==
  ASSUME NEW text \in Seq(Int), Len(text) \in 0 .. 3
  PROVE  LeadingNumber(text) \in Int
<1> DEFINE n == Leading(text, Digit)
           digits == SubSeq(text, 1, n)
<1>1. n \in 0 .. Len(text) /\ 1 \in 1 .. Len(text) + 1
  BY LeadingExists
<1> HIDE DEF n
<1>2. digits \in Seq(Int) /\ Len(digits) \in 0 .. 3
  BY <1>1, Stretch
<1> HIDE DEF digits
<1>3. Number(digits) \in Int
  BY <1>2, ShortNumber
<1> QED
  BY <1>3 DEF LeadingNumber, digits, n

LEMMA SignedIsInt ==
  ASSUME NEW text \in Seq(Int), Len(text) \in 0 .. 3
  PROVE  Signed(text) \in Int
<1> DEFINE rest == SubSeq(text, 2, Len(text))
<1>1. LeadingNumber(text) \in Int
  BY LeadingNumberIsInt
<1>2. ASSUME text # <<>>
      PROVE  LeadingNumber(rest) \in Int
  <2>1. Len(text) # 0
    BY <1>2, EmptySeq
  <2>2. 2 \in 1 .. Len(text) + 1 /\ Len(text) \in 2 - 1 .. Len(text)
    BY <2>1
  <2>3. rest \in Seq(Int) /\ Len(rest) \in 0 .. 3
    BY <2>2, Stretch
  <2> HIDE DEF rest
  <2> QED
    BY <2>3, LeadingNumberIsInt
<1> DEFINE l == LeadingNumber(text)
           r == LeadingNumber(rest)
<1>3. Signed(text) \in {l, r, -r} /\ (text = <<>> => Signed(text) = l)
  BY DEF Signed
<1> HIDE DEF l, r
<1>4. l \in Int /\ (text # <<>> => r \in Int)
  BY <1>1, <1>2 DEF l, r
<1> QED
  BY <1>3, <1>4

LEMMA AtoiIsInt ==
  ASSUME NEW text \in Seq(Int), Len(text) \in 0 .. 3
  PROVE  Atoi(text) \in Int
<1> DEFINE n == Leading(text, Blank)
           rest == SubSeq(text, n + 1, Len(text))
<1>1. n \in 0 .. Len(text)
  BY LeadingExists
<1> HIDE DEF n
<1>2. n + 1 \in 1 .. Len(text) + 1 /\ Len(text) \in (n + 1) - 1 .. Len(text)
  BY <1>1
<1>3. rest \in Seq(Int) /\ Len(rest) \in 0 .. 3
  BY <1>2, Stretch
<1> HIDE DEF rest
<1>4. Signed(rest) \in Int
  BY <1>3, SignedIsInt
<1> QED
  BY <1>4 DEF Atoi, rest, n

\* Three digits are read to the end.
LEMMA AtoiOfDigits ==
  ASSUME NEW text \in Seq(Int), Len(text) = 3, \A i \in 1 .. 3 : text[i] \in Digit
  PROVE  Atoi(text) = 100 * (text[1] - 48) + 10 * (text[2] - 48) + (text[3] - 48)
<1>1. Len(text) \in 0 .. 3
  OBVIOUS
<1>2. SubSeq(text, 1, 3) = text
  <2> DEFINE all == SubSeq(text, 1, 3)
  <2>1. 1 \in 1 .. Len(text) + 1 /\ 3 \in 1 - 1 .. Len(text)
    OBVIOUS
  <2>2. /\ all \in Seq(Int) /\ Len(all) = 3 - 1 + 1
        /\ \A i \in 1 .. 3 - 1 + 1 : all[i] = text[1 + i - 1]
    BY <1>1, <2>1, Stretch
  <2> HIDE DEF all
  <2>3. Len(all) = Len(text) /\ \A i \in 1 .. Len(all) : all[i] = text[i]
    BY <2>2
  <2>4. all = text
    BY <2>2, <2>3, SeqEqual
  <2> QED
    BY <2>4 DEF all
<1>3. text[1] \notin Blank
  BY DEF Digit, Blank
<1>4. Leading(text, Blank) = 0
  <2> DEFINE n == Leading(text, Blank)
  <2>1. n \in 0 .. Len(text) /\ \A i \in 1 .. n : text[i] \in Blank
    BY <1>1, LeadingExists
  <2> HIDE DEF n
  <2>2. n = 0
    BY <1>3, <2>1
  <2> QED
    BY <2>2 DEF n
<1>5. Leading(text, Digit) = 3
  <2> DEFINE n == Leading(text, Digit)
  <2>1. n \in 0 .. Len(text) /\ (n < Len(text) => text[n + 1] \notin Digit)
    BY <1>1, LeadingExists
  <2> HIDE DEF n
  <2>2. n = 3
    <3>1. n \in 0 .. 3 /\ (n < 3 => n + 1 \in 1 .. 3)
      BY <2>1
    <3> QED
      BY <2>1, <3>1
  <2> QED
    BY <2>2 DEF n
<1>6. Signed(text) = LeadingNumber(text)
  <2>1. text # <<>> /\ Head(text) = text[1]
    <3>1. text # <<>>
      BY EmptySeq
    <3> QED
      BY <3>1, HeadTailProperties
  <2>2. text[1] # Plus /\ text[1] # Minus
    BY DEF Digit, Plus, Minus
  <2> QED
    BY <2>1, <2>2 DEF Signed
<1>7. Atoi(text) = Signed(text)
  <2>1. SubSeq(text, 0 + 1, Len(text)) = text
    BY <1>2
  <2> QED
    BY <1>4, <2>1 DEF Atoi
<1>8. LeadingNumber(text) = Number(text)
  BY <1>2, <1>5 DEF LeadingNumber
<1>9. Number(text) = 100 * (text[1] - 48) + 10 * (text[2] - 48) + (text[3] - 48)
  BY <1>1, ShortNumber
<1> QED
  BY <1>6, <1>7, <1>8, <1>9

\* The assignment to int8_t.
LEMMA Assigned ==
  ASSUME NEW n \in Int
  PROVE  ToInt8(n) \in Int8 /\ (n \in Int8 => ToInt8(n) = n)
  BY DEF ToInt8, Int8

\* The three characters of an axis.
LEMMA Characters ==
  ASSUME NEW bytes \in [1 .. BufferLen -> Byte], NEW position \in {1, 4}
  PROVE  LET text == SubSeq(bytes, position + 1, position + 3) IN
         /\ text \in Seq(Int) /\ Len(text) = 3
         /\ \A i \in 1 .. 3 : text[i] = bytes[position + i]
<1> DEFINE m == position + 1
           n == position + 3
           text == SubSeq(bytes, m, n)
<1>1. m \in Int /\ n \in Int /\ m <= n /\ n - m + 1 = 3
  OBVIOUS
<1>2. \A i \in m .. n : bytes[i] \in Int
  BY DEF BufferLen, Byte
<1>3. \A i \in 1 .. 3 : m + i - 1 = position + i
  OBVIOUS
<1> HIDE DEF m, n
<1>4. /\ text \in Seq(Int)
      /\ Len(text) = IF m <= n THEN n - m + 1 ELSE 0
      /\ \A i \in 1 .. n - m + 1 : text[i] = bytes[m + i - 1]
  BY <1>1, <1>2, SubSeqProperties
<1> HIDE DEF text
<1>5. Len(text) = 3 /\ \A i \in 1 .. 3 : text[i] = bytes[position + i]
  BY <1>1, <1>3, <1>4
<1> QED
  BY <1>4, <1>5 DEF text, m, n

LEMMA SubstrToIntType ==
  ASSUME NEW bytes \in [1 .. BufferLen -> Byte], NEW position \in {1, 4}
  PROVE  SubstrToInt(bytes, position) \in Int8
<1> DEFINE text == SubSeq(bytes, position + 1, position + 3)
<1>1. text \in Seq(Int) /\ Len(text) = 3
  BY Characters
<1> HIDE DEF text
<1>2. Atoi(text) + INT_SUBSTRING_OFFSET \in Int
  <2>1. Len(text) \in 0 .. 3
    BY <1>1
  <2> QED
    BY <1>1, <2>1, AtoiIsInt DEF INT_SUBSTRING_OFFSET
<1>3. ToInt8(Atoi(text) + INT_SUBSTRING_OFFSET) \in Int8
  BY <1>2, Assigned
<1> QED
  BY <1>3 DEF SubstrToInt, text

\* Nothing but its three characters decides an axis.
LEMMA SubstrToIntSame ==
  ASSUME NEW bytes \in [1 .. BufferLen -> Byte],
         NEW other \in [1 .. BufferLen -> Byte], NEW position \in {1, 4},
         \A i \in 1 .. 3 : bytes[position + i] = other[position + i]
  PROVE  SubstrToInt(bytes, position) = SubstrToInt(other, position)
<1> DEFINE s == SubSeq(bytes, position + 1, position + 3)
           t == SubSeq(other, position + 1, position + 3)
<1>1. s \in Seq(Int) /\ Len(s) = 3 /\ \A i \in 1 .. 3 : s[i] = bytes[position + i]
  BY Characters
<1>2. t \in Seq(Int) /\ Len(t) = 3 /\ \A i \in 1 .. 3 : t[i] = other[position + i]
  BY Characters
<1> HIDE DEF s, t
<1>3. Len(s) = Len(t) /\ \A i \in 1 .. Len(s) : s[i] = t[i]
  BY <1>1, <1>2
<1>4. s = t
  BY <1>1, <1>2, <1>3, SeqEqual
<1> QED
  BY <1>4 DEF SubstrToInt, s, t

\* An axis is what its three digits mean.
LEMMA SubstrToIntMeant ==
  ASSUME NEW bytes \in [1 .. BufferLen -> Byte], NEW position \in {1, 4},
         \A i \in 1 .. 3 : bytes[position + i] \in Digit,
         Meant(bytes, position + 1) \in Int8
  PROVE  SubstrToInt(bytes, position) = Meant(bytes, position + 1)
<1> DEFINE text == SubSeq(bytes, position + 1, position + 3)
           a == bytes[position + 1]
           b == bytes[position + 2]
           c == bytes[position + 3]
<1>1. /\ text \in Seq(Int) /\ Len(text) = 3
      /\ \A i \in 1 .. 3 : text[i] = bytes[position + i]
  BY Characters
<1> HIDE DEF text
<1>2. text[1] = a /\ text[2] = b /\ text[3] = c
  BY <1>1
<1>3. a \in Digit /\ b \in Digit /\ c \in Digit
  OBVIOUS
<1>4. Meant(bytes, position + 1) = 100 * a + 10 * b + c - 111 * 48 - 200
  <2>1. (position + 1) + 1 = position + 2 /\ (position + 1) + 2 = position + 3
    OBVIOUS
  <2> QED
    BY <2>1 DEF Meant
<1>5. Atoi(text) = 100 * (a - 48) + 10 * (b - 48) + (c - 48)
  BY <1>1, <1>2, AtoiOfDigits
<1>6. Atoi(text) + INT_SUBSTRING_OFFSET = 100 * a + 10 * b + c - 111 * 48 - 200
  <2> HIDE DEF a, b, c
  <2>1. a \in Int /\ b \in Int /\ c \in Int
    BY <1>3 DEF Digit
  <2> QED
    BY <1>5, <2>1 DEF INT_SUBSTRING_OFFSET
<1> DEFINE value == Atoi(text) + INT_SUBSTRING_OFFSET
<1>7. value = Meant(bytes, position + 1)
  BY <1>4, <1>6
<1> HIDE DEF value
<1>8. value \in Int8 /\ value \in Int
  BY <1>7 DEF Int8
<1>9. ToInt8(value) = value
  BY <1>8, Assigned
<1> QED
  BY <1>7, <1>9 DEF SubstrToInt, text, value

-----------------------------------------------------------------------------
(* The tasks share no variable that two of them write. *)

MotorStep ==
  Poll \/ TestY \/ TestX \/ BranchX \/ BranchY \/ Walked \/ Again \/ Execute

LEMMA WhoWrites ==
  ASSUME [Next]_vars
  PROVE  /\ Script \/ Listener \/ UNCHANGED <<piVars, listenerVars>>
         /\ BuzzerTask \/ UNCHANGED buzzerVars
         /\ Joystick \/ UNCHANGED joystickVars
         /\ MotorStep \/ UNCHANGED motorVars
<1>1. CASE Script
  BY <1>1 DEF Script, StartScript, Decide, WriteLine, EndScript, buzzerVars,
              joystickVars, motorVars
<1>2. CASE Listener
  BY <1>2 DEF Listener, ReadAutobrake, ReadCollision, buzzerVars, joystickVars,
              motorVars
<1>3. CASE BuzzerTask
  BY <1>3 DEF BuzzerTask, Buzzer, EndOfBeep, piVars, listenerVars, joystickVars,
              motorVars
<1>4. CASE Joystick
  BY <1>4 DEF Joystick, Receive, DecodeX, DecodeY, piVars, listenerVars,
              buzzerVars, motorVars
<1>5. CASE Motor
  BY <1>5 DEF Motor, MotorStep
<1>6. CASE UNCHANGED vars
  BY <1>6 DEF vars
<1> QED
  BY <1>1, <1>2, <1>3, <1>4, <1>5, <1>6 DEF Next

-----------------------------------------------------------------------------
(* The lines and the status. *)

\* The lines show the last decision, except for those still to be written; and
\* when the listener goes on to the second line, the car was not to brake when
\* it read the first.
StatusInv ==
  /\ pi \in {"ended", "sleeps"} \cup Line
  /\ {decided, before} \subseteq Decision
  /\ line \in [Line -> BOOLEAN]
  /\ listener \in Line /\ since \subseteq Decision
  /\ current_status \in 0 .. 2
  /\ pi = "sleeps" => \A l \in Line : line[l] = Level(decided, l)
  /\ pi = "GPIO_AUTOBRAKE" => \A l \in Line : line[l] = Level(before, l)
  /\ pi = "GPIO_COLLISION" =>
       /\ line["GPIO_AUTOBRAKE"] = Level(decided, "GPIO_AUTOBRAKE")
       /\ line["GPIO_COLLISION"] = Level(before, "GPIO_COLLISION")
  /\ listener = "GPIO_COLLISION" => since \cap {"COLLISION", "NORMAL"} # {}

LEMMA StatusInitially == Init => StatusInv
  BY DEF Init, StatusInv, Line, Decision, Level

LEMMA InForceIsDecided ==
  ASSUME StatusInv
  PROVE  InForce \subseteq Decision
  BY DEF StatusInv, InForce, Decision

\* What the listener notices of a new decision adds to what it has noticed.
LEMMA NoticedKeeps ==
  ASSUME StatusInv, InForce' \subseteq Decision, Noticed, UNCHANGED listener
  PROVE  /\ since' \subseteq Decision
         /\ listener' = "GPIO_COLLISION" => since' \cap {"COLLISION", "NORMAL"} # {}
  BY DEF StatusInv, Noticed

LEMMA ScriptKeepsStatus ==
  ASSUME StatusInv, Script
  PROVE  StatusInv'
<1> USE DEF Line, Decision
<1>1. CASE StartScript
  <2>1. InForce' \subseteq Decision
    BY <1>1 DEF StartScript, InForce
  <2>2. /\ since' \subseteq Decision
        /\ listener' = "GPIO_COLLISION" => since' \cap {"COLLISION", "NORMAL"} # {}
    BY <1>1, <2>1, NoticedKeeps DEF StartScript
  <2>3. line' = [l \in Line |-> FALSE] /\ decided' = "NORMAL"
    BY <1>1 DEF StartScript
  <2>4. ASSUME NEW l \in Line
        PROVE  line'[l] = Level(decided', l)
    <3>1. ~line'[l] /\ line'[l] \in BOOLEAN
      BY <2>3
    <3>2. ~Level(decided', l) /\ Level(decided', l) \in BOOLEAN
      BY <2>3 DEF Level
    <3> QED
      BY <3>1, <3>2
  <2> QED
    BY <1>1, <2>2, <2>3, <2>4 DEF StatusInv, StartScript
<1>2. ASSUME NEW decision \in Decision, Decide(decision)
      PROVE  StatusInv'
  <2>1. InForce' \subseteq Decision
    BY <1>2 DEF StatusInv, Decide, InForce
  <2>2. /\ since' \subseteq Decision
        /\ listener' = "GPIO_COLLISION" => since' \cap {"COLLISION", "NORMAL"} # {}
    BY <1>2, <2>1, NoticedKeeps DEF Decide
  <2> QED
    BY <1>2, <2>2 DEF StatusInv, Decide
<1>3. CASE WriteLine
  <2>1. UNCHANGED <<listener, since, current_status, decided>>
    BY <1>3 DEF WriteLine, listenerVars
  <2>2. line' = [line EXCEPT ![pi] = Level(decided, pi)] /\ pi \in Line
    BY <1>3 DEF WriteLine
  <2>3. Level(decided, pi) \in BOOLEAN
    BY DEF Level
  <2>4. CASE pi = "GPIO_AUTOBRAKE"
    <3>1. pi' = "GPIO_COLLISION" /\ before' = before
      BY <1>3, <2>4 DEF WriteLine
    <3> QED
      BY <2>1, <2>2, <2>3, <2>4, <3>1 DEF StatusInv
  <2>5. CASE pi = "GPIO_COLLISION"
    <3>1. pi' = "sleeps" /\ before' = decided
      BY <1>3, <2>5 DEF WriteLine
    <3> QED
      BY <2>1, <2>2, <2>3, <2>5, <3>1 DEF StatusInv
  <2> QED
    BY <2>2, <2>4, <2>5
<1>4. CASE EndScript
  <2>1. InForce' \subseteq Decision
    BY <1>4 DEF EndScript, InForce
  <2>2. /\ since' \subseteq Decision
        /\ listener' = "GPIO_COLLISION" => since' \cap {"COLLISION", "NORMAL"} # {}
    BY <1>4, <2>1, NoticedKeeps DEF EndScript
  <2> QED
    BY <1>4, <2>2 DEF StatusInv, EndScript
<1> QED
  BY <1>1, <1>2, <1>3, <1>4 DEF Script

\* What the level of a line says of the decisions in force.
LEMMA LevelWasDecided ==
  ASSUME StatusInv
  PROVE  /\ TRUE \in GetLevel("GPIO_AUTOBRAKE") => "AUTOBRAKE" \in InForce
         /\ FALSE \in GetLevel("GPIO_AUTOBRAKE") =>
              InForce \cap {"COLLISION", "NORMAL"} # {}
         /\ TRUE \in GetLevel("GPIO_COLLISION") =>
              InForce \cap {"AUTOBRAKE", "COLLISION"} # {}
         /\ FALSE \in GetLevel("GPIO_COLLISION") => "NORMAL" \in InForce
<1> USE DEF Line, Decision, GetLevel, InForce, Level
<1>1. CASE pi = "ended"
  BY <1>1
<1>2. CASE pi = "sleeps"
  BY <1>2 DEF StatusInv
<1>3. CASE pi = "GPIO_AUTOBRAKE"
  BY <1>3 DEF StatusInv
<1>4. CASE pi = "GPIO_COLLISION"
  BY <1>4 DEF StatusInv
<1> QED
  BY <1>1, <1>2, <1>3, <1>4 DEF StatusInv

LEMMA ListenerKeepsStatus ==
  ASSUME StatusInv, Listener
  PROVE  StatusInv'
<1>1. CASE ReadAutobrake
  <2>1. UNCHANGED <<pi, decided, before, line>>
    BY <1>1 DEF ReadAutobrake, piVars
  <2>2. CASE current_status' = 2 /\ UNCHANGED <<listener, since>>
    BY <2>1, <2>2 DEF StatusInv
  <2>3. CASE /\ FALSE \in GetLevel("GPIO_AUTOBRAKE")
             /\ listener' = "GPIO_COLLISION" /\ since' = InForce
             /\ UNCHANGED current_status
    BY <2>1, <2>3, LevelWasDecided, InForceIsDecided DEF StatusInv, Line
  <2> QED
    BY <1>1, <2>2, <2>3 DEF ReadAutobrake
<1>2. CASE ReadCollision
  BY <1>2 DEF ReadCollision, StatusInv, Line, piVars
<1> QED
  BY <1>1, <1>2 DEF Listener

LEMMA StepKeepsStatus == StatusInv /\ [Next]_vars => StatusInv'
<1> SUFFICES ASSUME StatusInv, [Next]_vars
             PROVE  StatusInv'
  OBVIOUS
<1>1. CASE UNCHANGED <<piVars, listenerVars>>
  BY <1>1 DEF StatusInv, piVars, listenerVars
<1> QED
  BY <1>1, WhoWrites, ScriptKeepsStatus, ListenerKeepsStatus

\* The status becomes what was decided, step by step.
LEMMA StepStatus ==
  ASSUME StatusInv, [Next]_vars, current_status' # current_status
  PROVE  \/ current_status' = 2 /\ "AUTOBRAKE" \in InForceWhileRead
         \/ current_status' = 0 /\ "NORMAL" \in InForceWhileRead
         \/ current_status' = 1 /\ \/ "COLLISION" \in InForceWhileRead
                                   \/ {"AUTOBRAKE", "NORMAL"} \subseteq InForceWhileRead
<1>1. Listener
  <2>1. Script => UNCHANGED current_status
    BY DEF Script, StartScript, Decide, WriteLine, EndScript, listenerVars
  <2> QED
    BY <2>1, WhoWrites DEF listenerVars
<1>2. CASE ReadAutobrake
  BY <1>2, LevelWasDecided DEF ReadAutobrake, InForceWhileRead
<1>3. CASE ReadCollision
  <2>1. since \cap {"COLLISION", "NORMAL"} # {}
    BY <1>3 DEF StatusInv, ReadCollision
  <2>2. PICK level \in GetLevel("GPIO_COLLISION") :
          current_status' = IF level THEN 1 ELSE 0
    BY <1>3 DEF ReadCollision
  <2>3. level \in BOOLEAN
    BY <2>2 DEF GetLevel, StatusInv, Line
  <2> QED
    BY <2>1, <2>2, <2>3, LevelWasDecided DEF InForceWhileRead
<1> QED
  BY <1>1, <1>2, <1>3 DEF Listener

-----------------------------------------------------------------------------
(* The packets and the axes. *)

\* The buffer begins with the last packet, and the axes are what it says as far
\* as they are decoded; y stays so while no packet overwrites its digits.
JoystickInv ==
  /\ data \in [1 .. BufferLen -> Byte] /\ packet \in Packet \cup {<<>>}
  /\ joystick \in {"none", "x", "y"} /\ heard \in BOOLEAN
  /\ {x_axis, y_axis} \subseteq Int8
  /\ joystick # "none" =>
       \A i \in 1 .. BufferLen : i <= Len(packet) => data[i] = packet[i]
  /\ joystick = "y" => x_axis = SubstrToInt(data, X_AXIS_START_POS)
  /\ heard /\ (joystick = "none" \/ Len(packet) <= Y_AXIS_START_POS) =>
       y_axis = SubstrToInt(data, Y_AXIS_START_POS)

LEMMA Positions == X_AXIS_START_POS \in {1, 4} /\ Y_AXIS_START_POS \in {1, 4}
  BY DEF X_AXIS_START_POS, Y_AXIS_START_POS

LEMMA JoystickInitially == Init => JoystickInv
<1> SUFFICES ASSUME Init
             PROVE  JoystickInv
  OBVIOUS
<1>1. data \in [1 .. BufferLen -> Byte]
  BY FirstFirmwareAssumption DEF Init
<1>2. 0 \in Int8
  BY DEF Int8
<1> QED
  BY <1>1, <1>2 DEF Init, JoystickInv

LEMMA ReceiveKeepsJoystick ==
  ASSUME JoystickInv, NEW bytes \in Packet, Receive(bytes)
  PROVE  JoystickInv'
<1>1. /\ joystick = "none" /\ joystick' = "x" /\ packet' = bytes
      /\ data' = [i \in 1 .. BufferLen |->
                    IF i <= Len(bytes) THEN bytes[i] ELSE data[i]]
      /\ UNCHANGED <<heard, x_axis, y_axis>>
  BY DEF Receive
<1>2. bytes \in Seq(Byte)
  BY FirstFirmwareAssumption
<1>3. data' \in [1 .. BufferLen -> Byte]
  <2>1. ASSUME NEW i \in 1 .. BufferLen
        PROVE  (IF i <= Len(bytes) THEN bytes[i] ELSE data[i]) \in Byte
    <3>1. CASE i <= Len(bytes)
      <4>1. Len(bytes) \in Nat /\ i \in Nat /\ i >= 1
        BY <1>2, LenProperties DEF BufferLen
      <4>2. i \in 1 .. Len(bytes)
        <5> DEFINE k == Len(bytes)
        <5>1. k \in Nat /\ i <= k
          BY <3>1, <4>1
        <5> HIDE DEF k
        <5>2. i \in 1 .. k
          BY <4>1, <5>1
        <5> QED
          BY <5>2 DEF k
      <4> QED
        BY <1>2, <3>1, <4>2, ElementOfSeq
    <3>2. CASE ~(i <= Len(bytes))
      BY <3>2 DEF JoystickInv
    <3> QED
      BY <3>1, <3>2
  <2> QED
    BY <1>1, <2>1
<1>4. \A i \in 1 .. BufferLen : i <= Len(packet') => data'[i] = packet'[i]
  BY <1>1
<1>5. ASSUME heard', Len(packet') <= Y_AXIS_START_POS
      PROVE  y_axis' = SubstrToInt(data', Y_AXIS_START_POS)
  <2>1. y_axis' = SubstrToInt(data, Y_AXIS_START_POS)
    BY <1>1, <1>5 DEF JoystickInv
  <2>2. \A i \in 1 .. 3 : data'[Y_AXIS_START_POS + i] = data[Y_AXIS_START_POS + i]
    <3> DEFINE k == Len(bytes)
    <3>1. k \in Nat /\ k <= 4
      BY <1>1, <1>2, <1>5, LenProperties DEF Y_AXIS_START_POS
    <3>2. \A i \in 1 .. BufferLen : ~(i <= k) => data'[i] = data[i]
      BY <1>1
    <3> HIDE DEF k
    <3>3. \A i \in 1 .. 3 : 4 + i \in 1 .. BufferLen /\ ~(4 + i <= k)
      BY <3>1 DEF BufferLen
    <3> QED
      BY <3>2, <3>3 DEF Y_AXIS_START_POS
  <2>3. SubstrToInt(data', Y_AXIS_START_POS) = SubstrToInt(data, Y_AXIS_START_POS)
    BY <1>3, <2>2, Positions, SubstrToIntSame DEF JoystickInv
  <2> QED
    BY <2>1, <2>3
<1> QED
  BY <1>1, <1>3, <1>4, <1>5 DEF JoystickInv

LEMMA StepKeepsJoystick == JoystickInv /\ [Next]_vars => JoystickInv'
<1> SUFFICES ASSUME JoystickInv, [Next]_vars
             PROVE  JoystickInv'
  OBVIOUS
<1>1. CASE DecodeX
  <2>1. SubstrToInt(data, X_AXIS_START_POS) \in Int8
    BY Positions, SubstrToIntType DEF JoystickInv
  <2> QED
    BY <1>1, <2>1 DEF JoystickInv, DecodeX
<1>2. CASE DecodeY
  <2>1. SubstrToInt(data, Y_AXIS_START_POS) \in Int8
    BY Positions, SubstrToIntType DEF JoystickInv
  <2> QED
    BY <1>2, <2>1 DEF JoystickInv, DecodeY
<1>3. CASE UNCHANGED joystickVars
  BY <1>3 DEF JoystickInv, joystickVars
<1> QED
  BY <1>1, <1>2, <1>3, WhoWrites, ReceiveKeepsJoystick DEF Joystick

\* What a decoded packet leaves in the axes.
LEMMA StepAxes ==
  ASSUME JoystickInv, [Next]_vars, joystick = "y", joystick' = "none"
  PROVE  /\ IsPacket(packet) =>
              x_axis = Meant(packet, 2) /\ y_axis' = Meant(packet, 5)
         /\ heard /\ Len(packet) <= Y_AXIS_START_POS => y_axis' = y_axis
<1>1. DecodeY
  BY WhoWrites DEF Joystick, Receive, DecodeX, joystickVars
<1>2. y_axis' = SubstrToInt(data, Y_AXIS_START_POS)
  BY <1>1 DEF DecodeY
<1>3. ASSUME IsPacket(packet)
      PROVE  x_axis = Meant(packet, 2) /\ y_axis' = Meant(packet, 5)
  <2>1. \A i \in 1 .. BufferLen : data[i] = packet[i]
    <3>1. packet \in Seq(Byte)
      BY FirstFirmwareAssumption, EmptySeq DEF JoystickInv
    <3> DEFINE k == Len(packet)
    <3>2. k \in Nat /\ k >= BufferLen
      BY <1>3, <3>1, LenProperties DEF IsPacket
    <3>3. \A i \in 1 .. BufferLen : i <= k => data[i] = packet[i]
      BY DEF JoystickInv
    <3> HIDE DEF k
    <3> QED
      BY <3>2, <3>3 DEF BufferLen
  <2>2. data \in [1 .. BufferLen -> Byte] /\ \A i \in 2 .. BufferLen : data[i] \in Digit
    BY <1>3, <2>1 DEF JoystickInv, IsPacket, BufferLen
  <2>3. Meant(data, 2) = Meant(packet, 2) /\ Meant(data, 5) = Meant(packet, 5)
    BY <2>1 DEF Meant, BufferLen
  <2>4. Meant(data, 2) \in Int8 /\ Meant(data, 5) \in Int8
    BY <1>3, <2>3 DEF IsPacket
  <2>5. /\ \A i \in 1 .. 3 : data[1 + i] \in Digit
        /\ \A i \in 1 .. 3 : data[4 + i] \in Digit
    BY <2>2 DEF BufferLen
  <2>6. 1 + 1 = 2 /\ 4 + 1 = 5
    OBVIOUS
  <2>7. SubstrToInt(data, 1) = Meant(data, 2)
    BY <2>2, <2>4, <2>5, <2>6, SubstrToIntMeant
  <2>8. SubstrToInt(data, 4) = Meant(data, 5)
    BY <2>2, <2>4, <2>5, <2>6, SubstrToIntMeant
  <2>9. x_axis = SubstrToInt(data, 1)
    BY DEF JoystickInv, X_AXIS_START_POS
  <2>10. y_axis' = SubstrToInt(data, 4)
    BY <1>2 DEF Y_AXIS_START_POS
  <2> QED
    BY <2>3, <2>7, <2>8, <2>9, <2>10
<1>4. ASSUME heard, Len(packet) <= Y_AXIS_START_POS
      PROVE  y_axis' = y_axis
  BY <1>2, <1>4 DEF JoystickInv
<1> QED
  BY <1>3, <1>4

-----------------------------------------------------------------------------
(* The buzzer. *)

BuzzerInv == buzzer \in {0, 1} /\ buzzer_status \in {0, 1} /\ beeping \in BOOLEAN

LEMMA BuzzerInitially == Init => BuzzerInv
  BY DEF Init, BuzzerInv

LEMMA StepKeepsBuzzer == BuzzerInv /\ [Next]_vars => BuzzerInv'
<1> SUFFICES ASSUME BuzzerInv, [Next]_vars
             PROVE  BuzzerInv'
  OBVIOUS
<1>0. 1 - buzzer_status \in {0, 1}
  <2>1. buzzer_status = 0 \/ buzzer_status = 1
    BY DEF BuzzerInv
  <2> QED
    BY <2>1
<1>1. CASE Buzzer
  BY <1>0, <1>1 DEF Buzzer, BuzzerInv, buzzerVars
<1>2. CASE EndOfBeep
  BY <1>0, <1>2 DEF EndOfBeep, BuzzerInv
<1>3. CASE UNCHANGED buzzerVars
  BY <1>3 DEF BuzzerInv, buzzerVars
<1> QED
  BY <1>1, <1>2, <1>3, WhoWrites DEF BuzzerTask

-----------------------------------------------------------------------------
(* control.c: the routines and the unit. *)

MotorInv ==
  /\ motor \in {"none", "each_full_power", "poll", "test_y", "test_x",
                "branch_x", "branch_y", "walk"}
  /\ branch \in 1 .. Len(Branches)
  /\ calls \in Seq(Call) /\ unit \in Unit

LEMMA FrontAndBackType ==
  ASSUME NEW front \in 0 .. 255, NEW back \in 0 .. 255
  PROVE  FrontAndBack(front, back) \in Seq(Call)
BY DEF FrontAndBack, Set, Call, Channel

LEMMA RoutineTypes ==
  /\ <<>> \in Seq(Call) /\ StopPwm \in Seq(Call) /\ BranchPwm \in Seq(Call)
  /\ EachFullPower \in Seq(Call)
<1>1. 0 \in 0 .. 255 /\ 255 \in 0 .. 255
  OBVIOUS
<1>2. StopPwm \in Seq(Call) /\ BranchPwm \in Seq(Call) /\ GoStraightPwm(255) \in Seq(Call)
  BY <1>1, FrontAndBackType DEF StopPwm, BranchPwm, GoStraightPwm
<1>3. EachFullPower \in Seq(Call)
  BY <1>2, ConcatProperties DEF EachFullPower
<1> QED
  BY <1>2, <1>3, EmptySeq

LEMMA MotorInitially == Init => MotorInv
<1> SUFFICES ASSUME Init
             PROVE  MotorInv
  OBVIOUS
<1>1. calls \in Seq(Call)
  BY RoutineTypes DEF Init
<1>2. unit \in Unit
  BY DEF Init, InitMotor, Unit
<1>3. branch \in 1 .. Len(Branches)
  BY DEF Init, Branches
<1> QED
  BY <1>1, <1>2, <1>3 DEF Init, MotorInv

\* Where the else of a false condition leads.
LEMMA NextBranchType ==
  ASSUME MotorInv, NextBranch
  PROVE  motor' \in {"branch_x", "poll"} /\ branch' \in 1 .. Len(Branches)
<1>1. Len(Branches) = 4
  BY DEF Branches
<1> QED
  BY <1>1 DEF MotorInv, NextBranch

LEMMA StepKeepsMotor == MotorInv /\ [Next]_vars => MotorInv'
<1> SUFFICES ASSUME MotorInv, [Next]_vars
             PROVE  MotorInv'
  OBVIOUS
<1>0. 1 \in 1 .. Len(Branches)
  BY DEF Branches
<1>1. CASE Poll
  BY <1>1, RoutineTypes DEF MotorInv, Poll
<1>2. CASE TestY \/ TestX
  BY <1>0, <1>2, RoutineTypes DEF MotorInv, TestY, TestX, Test
<1>3. CASE BranchX
  BY <1>3, NextBranchType DEF MotorInv, BranchX
<1>4. CASE BranchY
  BY <1>4, NextBranchType, RoutineTypes DEF MotorInv, BranchY
<1>5. CASE Walked
  BY <1>0, <1>5 DEF MotorInv, Walked
<1>6. CASE Again
  BY <1>6, RoutineTypes DEF MotorInv, Again
<1>7. CASE Execute
  <2>1. Head(calls) \in Call /\ Tail(calls) \in Seq(Call)
    BY <1>7, HeadTailProperties DEF MotorInv, Execute
  <2>2. Executed(unit, Head(calls)) \in Unit
    BY <2>1 DEF MotorInv, Executed, Unit, Call
  <2> QED
    BY <1>7, <2>1, <2>2 DEF MotorInv, Execute
<1>8. CASE UNCHANGED motorVars
  BY <1>8 DEF MotorInv, motorVars
<1> QED
  BY <1>1, <1>2, <1>3, <1>4, <1>5, <1>6, <1>7, <1>8, WhoWrites DEF MotorStep

-----------------------------------------------------------------------------
(* The theorems. *)

FirstFirmwareInv == StatusInv /\ BuzzerInv /\ JoystickInv /\ MotorInv

LEMMA FirstFirmwareInvariant == Spec => []FirstFirmwareInv
<1>1. Init => FirstFirmwareInv
  BY StatusInitially, BuzzerInitially, JoystickInitially, MotorInitially
  DEF FirstFirmwareInv
<1>2. FirstFirmwareInv /\ [Next]_vars => FirstFirmwareInv'
  BY StepKeepsStatus, StepKeepsBuzzer, StepKeepsJoystick, StepKeepsMotor
  DEF FirstFirmwareInv
<1> QED
  BY <1>1, <1>2, PTL DEF Spec

\* Every variable keeps its type, the axes the width of an int8_t among them,
\* whatever arrives on the serial line.
THEOREM FirstFirmwareTypeCorrect == Spec => []TypeOK
<1>1. FirstFirmwareInv => TypeOK
  BY DEF FirstFirmwareInv, StatusInv, BuzzerInv, JoystickInv, MotorInv, TypeOK
<1> QED
  BY <1>1, FirstFirmwareInvariant, PTL

\* However the script's writes and the listener's reads interleave, the status
\* becomes one that was decided since the reading began, or a warning between a
\* brake and a free road.
THEOREM StatusIsDecided == Spec => StatusWasDecided
<1>1. FirstFirmwareInv /\ [Next]_vars =>
        [current_status' # current_status =>
           \/ current_status' = 2 /\ "AUTOBRAKE" \in InForceWhileRead
           \/ current_status' = 0 /\ "NORMAL" \in InForceWhileRead
           \/ current_status' = 1 /\ \/ "COLLISION" \in InForceWhileRead
                                     \/ {"AUTOBRAKE", "NORMAL"} \subseteq InForceWhileRead
        ]_vars
  BY StepStatus DEF FirstFirmwareInv
<1> QED
  BY <1>1, FirstFirmwareInvariant, PTL DEF Spec, StatusWasDecided

\* A whole packet of digits sets both axes to the positions it says, if they are
\* such as an int8_t holds, whatever the buffer held, and a piece that does not
\* reach the digits of y leaves y alone.
THEOREM AxesFollowTheirPacket == Spec => AxesAreOfTheirPacket
<1>1. FirstFirmwareInv /\ [Next]_vars =>
        [joystick = "y" /\ joystick' = "none" =>
           /\ IsPacket(packet) =>
                x_axis = Meant(packet, 2) /\ y_axis' = Meant(packet, 5)
           /\ heard /\ Len(packet) <= Y_AXIS_START_POS => y_axis' = y_axis
        ]_vars
  BY StepAxes DEF FirstFirmwareInv
<1> QED
  BY <1>1, FirstFirmwareInvariant, PTL DEF Spec, AxesAreOfTheirPacket
=============================================================================
