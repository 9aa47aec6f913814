--------------------------- MODULE BtHandlerProofs ---------------------------
(***************************************************************************)
(* Theorems about BtHandler.tla, for all phones, positions and pieces.     *)
(***************************************************************************)
EXTENDS BtHandler, SequenceTheorems, TLAPS

\* The calls before the last that may end the set-up: no callback yet, the
\* first of them, both.
Bare == {"nvs_flash_init", "nvs_flash_erase", "nvs_flash_init_again",
         "esp_bt_controller_mem_release"} \cup {Calls[i] : i \in 1 .. 5}
Started == {"esp_bt_gap_set_security_param", "esp_bt_gap_set_pin", "done"}

\* How far the set-up has come tells which callbacks are there, and the stack
\* has been started only when both are.
Registered ==
  /\ pc \in Bare => callbacks = {}
  /\ pc = Calls[6] => callbacks = {"gap"}
  /\ pc = Calls[7] \/ pc \in Started => callbacks = {"gap", "spp"}
  /\ init_evt \/ scan_mode \/ serving => pc \in Started

IInv == TypeOK /\ Registered /\ LedShowsTheLink

-----------------------------------------------------------------------------
(* The bytes of a packet and what they decode to. *)

\* Three digits say a number below a thousand.
LEMMA DigitsSay ==
  ASSUME NEW n \in 0 .. 999
  PROVE  /\ 100 * (n \div 100) + 10 * ((n \div 10) % 10) + (n % 10) = n
         /\ n \div 100 \in Nat /\ (n \div 10) % 10 \in Nat /\ n % 10 \in Nat
  OBVIOUS

LEMMA WidthKept ==
  ASSUME NEW n \in Int
  PROVE  ToInt8(n) \in Int8 /\ (n \in Int8 => ToInt8(n) = n)
  BY DEF ToInt8, Int8

\* An axis survives its digits.
LEMMA AxisOfDigits ==
  ASSUME NEW axis \in Int8
  PROVE  /\ Axis(Digits(axis + 200)) = axis
         /\ \A i \in 1 .. 3 : Digits(axis + 200)[i] \in Nat
<1>1. axis + 200 \in 0 .. 999
  BY DEF Int8
<1>2. /\ 100 * ((axis + 200) \div 100) + 10 * (((axis + 200) \div 10) % 10)
           + ((axis + 200) % 10) = axis + 200
      /\ (axis + 200) \div 100 \in Nat /\ ((axis + 200) \div 10) % 10 \in Nat
      /\ (axis + 200) % 10 \in Nat
  BY <1>1, DigitsSay
<1>3. \A i \in 1 .. 3 : Digits(axis + 200)[i] \in Nat
  BY <1>2 DEF Digits
<1>4. (Digits(axis + 200)[1] - 48) * 100 + (Digits(axis + 200)[2] - 48) * 10
        + (Digits(axis + 200)[3] - 48) - 200 = axis
  BY <1>2 DEF Digits, Int8
<1> QED
  BY <1>3, <1>4, WidthKept DEF Axis

LEMMA ThreeBytes ==
  ASSUME NEW a \in Nat, NEW b \in Nat, NEW c \in Nat
  PROVE  <<a, b, c>> \in Seq(Nat) /\ Len(<<a, b, c>>) = 3
  OBVIOUS

\* Bytes 1 to 3 and 4 to 6 of a packet are the digits of the axes.
LEMMA PacketBytes ==
  ASSUME NEW position \in Int8 \X Int8
  PROVE  /\ \A i \in 1 .. PacketLen : Packet(position)[i] \in Nat
         /\ \A i \in 1 .. 3 :
              /\ Packet(position)[i + 1] = Digits(position[1] + 200)[i]
              /\ Packet(position)[i + 4] = Digits(position[2] + 200)[i]
<1> DEFINE x == Digits(position[1] + 200)
           y == Digits(position[2] + 200)
<1>1. /\ \A i \in 1 .. 3 : x[i] \in Nat
      /\ \A i \in 1 .. 3 : y[i] \in Nat
  BY AxisOfDigits
<1>2. x \in Seq(Nat) /\ y \in Seq(Nat) /\ Len(x) = 3 /\ Len(y) = 3
  <2>1. x = <<x[1], x[2], x[3]>> /\ y = <<y[1], y[2], y[3]>>
    BY DEF Digits
  <2> HIDE DEF x, y
  <2>2. <<x[1], x[2], x[3]>> \in Seq(Nat) /\ Len(<<x[1], x[2], x[3]>>) = 3
    BY <1>1, ThreeBytes
  <2>3. <<y[1], y[2], y[3]>> \in Seq(Nat) /\ Len(<<y[1], y[2], y[3]>>) = 3
    BY <1>1, ThreeBytes
  <2> QED
    BY <2>1, <2>2, <2>3, Zenon
<1>3. Packet(position) = <<0>> \o x \o y
  BY DEF Packet
<1> HIDE DEF x, y
<1> DEFINE head == <<0>> \o x
<1>4. /\ head \in Seq(Nat) /\ Len(head) = 4
      /\ head[1] = 0 /\ \A i \in 1 .. 3 : head[i + 1] = x[i]
  <2>1. <<0>> \in Seq(Nat) /\ Len(<<0>>) = 1 /\ <<0>>[1] = 0
    OBVIOUS
  <2>2. /\ head \in Seq(Nat) /\ Len(head) = Len(<<0>>) + Len(x)
        /\ \A i \in 1 .. Len(<<0>>) + Len(x) :
             head[i] = IF i <= Len(<<0>>) THEN <<0>>[i] ELSE x[i - Len(<<0>>)]
    BY <1>2, <2>1, ConcatProperties
  <2> HIDE DEF head
  <2> QED
    BY <1>2, <2>1, <2>2
<1>5. \A i \in 1 .. 7 :
        Packet(position)[i] = IF i <= 4 THEN head[i] ELSE y[i - 4]
  <2>1. \A i \in 1 .. Len(head) + Len(y) :
          (head \o y)[i] = IF i <= Len(head) THEN head[i] ELSE y[i - Len(head)]
    BY <1>2, <1>4, ConcatProperties
  <2> HIDE DEF head
  <2>2. 1 .. Len(head) + Len(y) = 1 .. 7 /\ Len(head) = 4
    BY <1>2, <1>4
  <2>3. Packet(position) = head \o y
    BY <1>3, Zenon DEF head
  <2> QED
    BY <2>1, <2>2, <2>3, Zenon
<1> HIDE DEF head
<1>6. \A i \in 1 .. 3 : /\ Packet(position)[i + 1] = x[i]
                       /\ Packet(position)[i + 4] = y[i]
  BY <1>4, <1>5
<1>7. \A i \in 1 .. PacketLen : Packet(position)[i] \in Nat
  <2> TAKE i \in 1 .. PacketLen
  <2>1. CASE i <= 4
    <3>1. i = 1 \/ i - 1 \in 1 .. 3
      BY <2>1 DEF PacketLen
    <3>2. Packet(position)[i] = head[i]
      BY <1>5, <2>1 DEF PacketLen
    <3> QED
      BY <1>1, <1>4, <3>1, <3>2 DEF PacketLen
  <2>2. CASE i > 4
    <3>1. Packet(position)[i] = y[i - 4] /\ i - 4 \in 1 .. 3
      BY <1>5, <2>2 DEF PacketLen
    <3> QED
      BY <1>1, <3>1
  <2> QED
    BY <2>1, <2>2 DEF PacketLen
<1> QED
  BY <1>6, <1>7 DEF x, y

-----------------------------------------------------------------------------
(* The set-up and the events. *)

LEMMA CallNames ==
  /\ Len(Calls) = 7
  /\ Calls[1] = "esp_bt_controller_init" /\ Calls[2] = "esp_bt_controller_enable"
  /\ Calls[3] = "esp_bluedroid_init" /\ Calls[4] = "esp_bluedroid_enable"
  /\ Calls[5] = "esp_bt_gap_register_callback"
  /\ Calls[6] = "esp_spp_register_callback" /\ Calls[7] = "esp_spp_init"
  BY DEF Calls

\* All the places the set-up can be at.
LEMMA SetUpPlaces ==
  {"nvs_flash_init", "nvs_flash_erase", "nvs_flash_init_again",
   "esp_bt_controller_mem_release", "esp_bt_gap_set_security_param",
   "esp_bt_gap_set_pin", "done", "gave_up"}
      \cup {Calls[i] : i \in 1 .. Len(Calls)}
    = Bare \cup Started \cup {Calls[6], Calls[7], "gave_up"}
  BY CallNames DEF Bare, Started

SetUpTypeOK ==
  /\ pc \in Bare \cup Started \cup {Calls[6], Calls[7], "gave_up"}
  /\ failures \in 0 .. MaxFailures
  /\ flash \in {"ok", "full"}
  /\ callbacks \subseteq {"gap", "spp"}
  /\ init_evt \in BOOLEAN

LinkTypeOK ==
  /\ scan_mode \in BOOLEAN /\ serving \in BOOLEAN /\ left \in BOOLEAN
  /\ pairing \in [Peer -> Method \cup {"none", "bonded", "refused"}]
  /\ link \subseteq Peer
  /\ led \in {0, 1}

DataTypeOK ==
  /\ x_axis \in Int8 /\ y_axis \in Int8
  /\ moves \in [Peer -> Seq(Position)]
  /\ cut \in [Peer -> 0 .. PacketLen - 1]

PartsOK == SetUpTypeOK /\ LinkTypeOK /\ DataTypeOK

LEMMA TypeParts ==
  /\ TypeOK => PartsOK
  /\ PartsOK => TypeOK
  /\ PartsOK' => TypeOK'
  BY SetUpPlaces DEF TypeOK, PartsOK, SetUpTypeOK, LinkTypeOK, DataTypeOK

LEMMA InitIInv == Init => IInv
<1> SUFFICES ASSUME Init PROVE IInv
  OBVIOUS
<1>1. SetUpTypeOK
  <2>1. pc \in Bare \cup Started \cup {Calls[6], Calls[7], "gave_up"}
    BY Zenon DEF Init, Bare
  <2>2. failures \in 0 .. MaxFailures
    BY BtHandlerAssumption DEF Init
  <2>3. flash \in {"ok", "full"} /\ callbacks = {} /\ init_evt \in BOOLEAN
    BY Zenon DEF Init
  <2> QED
    BY <2>1, <2>2, <2>3 DEF SetUpTypeOK
<1>2. LinkTypeOK
  BY DEF Init, LinkTypeOK
<1>3. DataTypeOK
  <2>1. <<>> \in Seq(Position)
    OBVIOUS
  <2> QED
    BY <2>1 DEF Init, DataTypeOK, Int8, PacketLen
<1>4. Registered
  BY CallNames DEF Init, Registered, Started
<1>5. LedShowsTheLink
  BY DEF Init, LedShowsTheLink
<1> QED
  BY <1>1, <1>2, <1>3, <1>4, <1>5, TypeParts DEF IInv, PartsOK

LEMMA StepNvs ==
  ASSUME SetUpTypeOK, Registered, NvsFlashInit \/ NvsFlashErase \/ Checked
  PROVE  SetUpTypeOK' /\ Registered'
<1> USE BtHandlerAssumption, CallNames
    DEF SetUpTypeOK, Registered, Bare, Started, Goto, Fails, Aborts, serverVars
<1>1. CASE NvsFlashInit
  BY <1>1 DEF NvsFlashInit
<1>2. CASE NvsFlashErase
  BY <1>2 DEF NvsFlashErase
<1>3. CASE Checked
  BY <1>3 DEF Checked
<1> QED
  BY <1>1, <1>2, <1>3

LEMMA StepTry ==
  ASSUME SetUpTypeOK, Registered, NEW i \in 1 .. 7, Try(i)
  PROVE  SetUpTypeOK' /\ Registered'
<1> USE BtHandlerAssumption, CallNames
    DEF SetUpTypeOK, Registered, Bare, Started, Goto, Fails, serverVars
<1>1. pc = Calls[i] /\ UNCHANGED <<flash, scan_mode, serving>>
  BY DEF Try
<1>2. CASE pc' = "gave_up"
  <2>1. /\ failures' = failures + 1 /\ failures < MaxFailures
        /\ UNCHANGED <<callbacks, init_evt>>
    BY <1>2 DEF Try, NextCall
  <2> QED
    BY <1>1, <1>2, <2>1
<1>3. CASE pc' # "gave_up"
  <2>1. /\ pc' = NextCall(i) /\ UNCHANGED failures
        /\ callbacks' = callbacks \cup Registers(Calls[i])
        /\ init_evt' = (init_evt \/ Calls[i] = "esp_spp_init")
    BY <1>3 DEF Try
  <2>2. CASE i \in 1 .. 4
    BY <1>1, <2>1, <2>2 DEF NextCall, Registers
  <2>3. CASE i = 5
    BY <1>1, <2>1, <2>3 DEF NextCall, Registers
  <2>4. CASE i = 6
    BY <1>1, <2>1, <2>4 DEF NextCall, Registers
  <2>5. CASE i = 7
    BY <1>1, <2>1, <2>5 DEF NextCall, Registers
  <2> QED
    BY <2>2, <2>3, <2>4, <2>5
<1> QED
  BY <1>2, <1>3

LEMMA StepParameters ==
  ASSUME SetUpTypeOK, Registered, Parameters
  PROVE  SetUpTypeOK' /\ Registered'
  BY CallNames
  DEF SetUpTypeOK, Registered, Bare, Started, Goto, Parameters, serverVars

\* A step of the set-up leaves the phones alone.
LEMMA StepSetUp ==
  ASSUME IInv, SetUp
  PROVE  IInv'
<1>1. PartsOK /\ Registered
  BY TypeParts DEF IInv
<1>2. SetUpTypeOK' /\ Registered'
  BY <1>1, StepNvs, StepTry, StepParameters, CallNames DEF SetUp, PartsOK
<1>3. UNCHANGED <<scan_mode, serving, pairing, link, led, left,
                  x_axis, y_axis, moves, cut>>
  BY Zenon DEF SetUp, NvsFlashInit, NvsFlashErase, Checked, Try, Parameters,
               serverVars, linkVars, dataVars
<1>4. LinkTypeOK' /\ DataTypeOK'
  BY <1>1, <1>3 DEF PartsOK, LinkTypeOK, DataTypeOK
<1>5. LedShowsTheLink'
  BY <1>3 DEF IInv, LedShowsTheLink
<1> QED
  BY <1>2, <1>4, <1>5, TypeParts DEF IInv, PartsOK

\* The event that opens the server.
LEMMA StepInitEvt ==
  ASSUME IInv, InitEvt
  PROVE  IInv'
<1>1. PartsOK /\ Registered /\ LedShowsTheLink
  BY TypeParts DEF IInv
<1>2. /\ init_evt /\ init_evt' = FALSE
      /\ UNCHANGED <<pc, failures, flash, callbacks, pairing, link, led, left,
                     x_axis, y_axis, moves, cut>>
      /\ \/ scan_mode' = TRUE /\ serving' = TRUE
         \/ UNCHANGED <<scan_mode, serving>>
  BY Zenon DEF InitEvt, linkVars, serverVars, dataVars
<1>3. SetUpTypeOK' /\ LinkTypeOK' /\ DataTypeOK'
  BY <1>1, <1>2 DEF PartsOK, SetUpTypeOK, LinkTypeOK, DataTypeOK
<1>4. Registered' /\ LedShowsTheLink'
  BY <1>1, <1>2 DEF Registered, LedShowsTheLink
<1> QED
  BY <1>3, <1>4, TypeParts DEF IInv, PartsOK

\* A phone asks, is answered or connects.
LEMMA StepEvent ==
  ASSUME IInv, NEW p \in Peer,
         \/ \E method \in Method : AskToPair(p, method)
         \/ StopAsking(p) \/ GapEvt(p) \/ SrvOpenEvt(p)
  PROVE  IInv'
<1>1. PartsOK /\ Registered /\ LedShowsTheLink
  BY TypeParts DEF IInv
<1>2. UNCHANGED <<pc, failures, flash, callbacks, init_evt, scan_mode, serving,
                  x_axis, y_axis, moves, cut>>
  BY Zenon DEF AskToPair, StopAsking, GapEvt, SrvOpenEvt, setupVars, serverVars,
               dataVars
<1>3. SetUpTypeOK' /\ DataTypeOK' /\ Registered'
  BY <1>1, <1>2 DEF PartsOK, SetUpTypeOK, DataTypeOK, Registered
<1>4. CASE SrvOpenEvt(p)
  <2>1. LinkTypeOK' /\ LedShowsTheLink'
    BY <1>1, <1>2, <1>4 DEF PartsOK, LinkTypeOK, LedShowsTheLink, SrvOpenEvt
  <2> QED
    BY <1>3, <2>1, TypeParts DEF IInv, PartsOK
<1>5. CASE ~SrvOpenEvt(p)
  <2>1. UNCHANGED <<link, led, left>>
    BY <1>5, Zenon DEF AskToPair, StopAsking, GapEvt, linkVars
  <2>2. pairing' \in [Peer -> Method \cup {"none", "bonded", "refused"}]
    <3>1. CASE \E method \in Method : AskToPair(p, method)
      BY <1>1, <3>1 DEF PartsOK, LinkTypeOK, AskToPair
    <3>2. CASE StopAsking(p)
      BY <1>1, <3>2 DEF PartsOK, LinkTypeOK, StopAsking
    <3>3. CASE GapEvt(p)
      <4>1. \/ pairing' = [pairing EXCEPT ![p] = "bonded"]
            \/ pairing' = [pairing EXCEPT ![p] = "refused"]
        BY <3>3 DEF GapEvt
      <4> QED
        BY <1>1, <4>1 DEF PartsOK, LinkTypeOK
    <3> QED
      BY <1>5, <3>1, <3>2, <3>3
  <2>3. LinkTypeOK' /\ LedShowsTheLink'
    BY <1>1, <1>2, <2>1, <2>2 DEF PartsOK, LinkTypeOK, LedShowsTheLink
  <2> QED
    BY <1>3, <2>3, TypeParts DEF IInv, PartsOK
<1> QED
  BY <1>4, <1>5

-----------------------------------------------------------------------------
(* The joystick. *)

LEMMA InStream ==
  ASSUME NEW len \in Nat, NEW c \in Nat, NEW k \in 1 .. 7 * len - c
  PROVE  k - 1 + c \in Nat /\ k - 1 + c < 7 * len /\ c + k \in Nat
  OBVIOUS

LEMMA OfPacket ==
  ASSUME NEW at \in Nat, NEW len \in Nat
  PROVE  /\ at \div 7 \in Nat /\ at % 7 \in 0 .. 6 /\ 1 + (at % 7) \in 1 .. 7
         /\ at < 7 * len => 1 + (at \div 7) \in 1 .. len
  OBVIOUS

\* The bytes under way are bytes of packets under way.
LEMMA StreamBytes ==
  ASSUME DataTypeOK, NEW p \in Peer, NEW k \in 1 .. Pending(p)
  PROVE  Stream(p)[k] \in Nat
<1>1. /\ moves[p] \in Seq(Position) /\ Len(moves[p]) \in Nat
      /\ cut[p] \in 0 .. 6
  BY DEF DataTypeOK, PacketLen
<1> DEFINE at == k - 1 + cut[p]
<1>2. /\ at \in Nat /\ 1 + (at \div 7) \in 1 .. Len(moves[p])
      /\ 1 + (at % 7) \in 1 .. 7
  <2>1. Pending(p) = 7 * Len(moves[p]) - cut[p]
    BY DEF Pending, PacketLen
  <2>2. at \in Nat /\ at < 7 * Len(moves[p])
    <3>1. k \in 1 .. 7 * Len(moves[p]) - cut[p] /\ cut[p] \in Nat
      BY <1>1, <2>1
    <3> QED
      BY <1>1, <3>1, InStream
  <2> HIDE DEF at
  <2> QED
    BY <1>1, <2>2, OfPacket
<1>3. Stream(p)[k] = Packet(moves[p][1 + (at \div 7)])[1 + (at % 7)]
  BY DEF Stream, PacketLen
<1> HIDE DEF at
<1>4. moves[p][1 + (at \div 7)] \in Int8 \X Int8
  BY <1>1, <1>2, BtHandlerAssumption
<1>5. \A i \in 1 .. 7 : Packet(moves[p][1 + (at \div 7)])[i] \in Nat
  BY <1>4, PacketBytes, Zenon DEF PacketLen
<1> QED
  BY <1>2, <1>3, <1>5

\* The first n bytes of the stream.
LEMMA DataBytes ==
  ASSUME DataTypeOK, NEW p \in Peer, NEW n \in 1 .. Pending(p)
  PROVE  /\ SubSeq(Stream(p), 1, n) \in Seq(Nat)
         /\ Len(SubSeq(Stream(p), 1, n)) = n
         /\ \A i \in 1 .. n : SubSeq(Stream(p), 1, n)[i] = Stream(p)[i]
<1>1. Pending(p) \in Int
  BY DEF DataTypeOK, Pending, PacketLen
<1>2. \A i \in 1 .. n : Stream(p)[i] \in Nat
  BY <1>1, StreamBytes
<1>3. /\ SubSeq(Stream(p), 1, n) \in Seq(Nat)
      /\ Len(SubSeq(Stream(p), 1, n)) = IF 1 <= n THEN n - 1 + 1 ELSE 0
      /\ \A i \in 1 .. n - 1 + 1 : SubSeq(Stream(p), 1, n)[i] = Stream(p)[1 + i - 1]
  BY <1>1, <1>2, SubSeqProperties
<1> QED
  BY <1>1, <1>3

\* Three bytes of the data, as the callback reads them.
LEMMA ThreeOfData ==
  ASSUME NEW data \in Seq(Nat), NEW from \in Nat \ {0}, Len(data) >= from + 2
  PROVE  /\ SubSeq(data, from, from + 2) \in Seq(Nat)
         /\ \A i \in 1 .. 3 : /\ SubSeq(data, from, from + 2)[i] = data[from + i - 1]
                             /\ data[from + i - 1] \in Nat
<1>1. \A i \in from .. from + 2 : data[i] \in Nat
  OBVIOUS
<1>2. /\ SubSeq(data, from, from + 2) \in Seq(Nat)
      /\ \A i \in 1 .. from + 2 - from + 1 :
           SubSeq(data, from, from + 2)[i] = data[from + i - 1]
  BY <1>1, SubSeqProperties
<1> QED
  BY <1>1, <1>2

LEMMA AxisSum ==
  ASSUME NEW a \in Nat, NEW b \in Nat, NEW c \in Nat
  PROVE  (a - 48) * 100 + (b - 48) * 10 + (c - 48) - 200 \in Int
  OBVIOUS

\* Whatever is handed over, the axes stay in their width.
LEMMA DecodedType ==
  ASSUME NEW data \in Seq(Nat), NEW from \in Nat \ {0}
  PROVE  Decoded(data, from) \subseteq Int8
<1>1. CASE Len(data) >= from + 2
  <2> DEFINE d == SubSeq(data, from, from + 2)
  <2>1. d[1] \in Nat /\ d[2] \in Nat /\ d[3] \in Nat
    BY <1>1, ThreeOfData
  <2>2. Decoded(data, from) = {Axis(d)}
    BY <1>1 DEF Decoded
  <2> HIDE DEF d
  <2>3. (d[1] - 48) * 100 + (d[2] - 48) * 10 + (d[3] - 48) - 200 \in Int
    BY <2>1, AxisSum
  <2>4. Axis(d) \in Int8
    BY <2>3, WidthKept DEF Axis
  <2> QED
    BY <2>2, <2>4
<1>2. CASE ~(Len(data) >= from + 2)
  BY <1>2, BtHandlerAssumption DEF Decoded
<1> QED
  BY <1>1, <1>2

LEMMA StepData ==
  ASSUME DataTypeOK, NEW p \in Peer, NEW n \in Chunk \cup {Pending(p)},
         DataIndEvt(p, n)
  PROVE  DataTypeOK'
<1> DEFINE data == SubSeq(Stream(p), 1, n)
           over == cut[p] + n
<1>1. /\ n \in 1 .. Pending(p)
      /\ x_axis' \in Decoded(data, 2) /\ y_axis' \in Decoded(data, 5)
      /\ moves' = [moves EXCEPT ![p] =
                     SubSeq(@, 1 + (over \div PacketLen), Len(@))]
      /\ cut' = [cut EXCEPT ![p] = over % PacketLen]
  BY DEF DataIndEvt
<1>2. data \in Seq(Nat)
  BY <1>1, DataBytes
<1>3. x_axis' \in Int8 /\ y_axis' \in Int8
  <2> HIDE DEF data
  <2>1. 2 \in Nat \ {0} /\ 5 \in Nat \ {0}
    OBVIOUS
  <2>2. Decoded(data, 2) \subseteq Int8 /\ Decoded(data, 5) \subseteq Int8
    BY <1>2, <2>1, DecodedType
  <2> QED
    BY <1>1, <2>2
<1>4. /\ over \in Nat /\ over \div 7 \in Nat /\ over % 7 \in 0 .. 6
      /\ moves[p] \in Seq(Position) /\ Len(moves[p]) \in Nat
  <2>1. moves[p] \in Seq(Position) /\ Len(moves[p]) \in Nat /\ cut[p] \in Nat
    BY DEF DataTypeOK, PacketLen
  <2>2. over \in Nat
    BY <1>1, <2>1, InStream DEF Pending, PacketLen
  <2> HIDE DEF over
  <2> QED
    BY <2>1, <2>2, OfPacket
<1> HIDE DEF over
<1>5. SubSeq(moves[p], 1 + (over \div 7), Len(moves[p])) \in Seq(Position)
  <2>1. \A i \in 1 + (over \div 7) .. Len(moves[p]) : moves[p][i] \in Position
    BY <1>4
  <2> QED
    BY <1>4, <2>1, SubSeqProperties
<1>6. moves' \in [Peer -> Seq(Position)]
  BY <1>1, <1>5 DEF DataTypeOK, PacketLen
<1>7. cut' \in [Peer -> 0 .. PacketLen - 1]
  BY <1>1, <1>4 DEF DataTypeOK, PacketLen
<1> QED
  BY <1>3, <1>6, <1>7 DEF DataTypeOK

LEMMA StepJoystick ==
  ASSUME IInv, NEW p \in Peer,
         \/ CloseEvt(p)
         \/ \E position \in Position : SendPacket(p, position)
         \/ \E n \in Chunk \cup {Pending(p)} : DataIndEvt(p, n)
  PROVE  IInv'
<1>1. PartsOK /\ Registered /\ LedShowsTheLink
  BY TypeParts DEF IInv
<1>2. UNCHANGED <<pc, failures, flash, callbacks, init_evt, scan_mode, serving,
                  pairing>>
  BY Zenon DEF CloseEvt, SendPacket, DataIndEvt, setupVars, serverVars
<1>3. SetUpTypeOK' /\ Registered'
  BY <1>1, <1>2 DEF PartsOK, SetUpTypeOK, Registered
<1>4. CASE CloseEvt(p)
  <2>1. DataTypeOK'
    <3>1. <<>> \in Seq(Position)
      OBVIOUS
    <3> QED
      BY <1>1, <1>4, <3>1 DEF PartsOK, DataTypeOK, CloseEvt, PacketLen
  <2>2. LinkTypeOK' /\ LedShowsTheLink'
    <3>1. link' = link \ {p} /\ led' = 0 /\ left' = (link' # {})
      BY <1>4 DEF CloseEvt
    <3>2. left' \in BOOLEAN /\ (~left' => link' = {})
      BY <3>1, Zenon
    <3> QED
      BY <1>1, <1>2, <3>1, <3>2 DEF PartsOK, LinkTypeOK, LedShowsTheLink
  <2> QED
    BY <1>3, <2>1, <2>2, TypeParts DEF IInv, PartsOK
<1>5. CASE ~CloseEvt(p)
  <2>1. UNCHANGED <<link, led, left>>
    BY <1>5, Zenon DEF SendPacket, DataIndEvt, linkVars
  <2>2. LinkTypeOK' /\ LedShowsTheLink'
    BY <1>1, <1>2, <2>1 DEF PartsOK, LinkTypeOK, LedShowsTheLink
  <2>3. DataTypeOK'
    <3>1. ASSUME NEW position \in Position, SendPacket(p, position)
          PROVE  DataTypeOK'
      <4>1. Append(moves[p], position) \in Seq(Position)
        BY <1>1 DEF PartsOK, DataTypeOK
      <4> QED
        BY <1>1, <3>1, <4>1 DEF PartsOK, DataTypeOK, SendPacket
    <3> QED
      BY <1>1, <1>5, <3>1, StepData DEF PartsOK
  <2> QED
    BY <1>3, <2>2, <2>3, TypeParts DEF IInv, PartsOK
<1> QED
  BY <1>4, <1>5

LEMMA SpecIInv == Spec => []IInv
<1>1. ASSUME IInv, [Next]_vars
      PROVE  IInv'
  <2>1. CASE SetUp
    BY <1>1, <2>1, StepSetUp
  <2>2. CASE InitEvt
    BY <1>1, <2>2, StepInitEvt
  <2>3. ASSUME NEW p \in Peer, Events(p)
        PROVE  IInv'
    BY <1>1, <2>3, StepEvent, StepJoystick DEF Events
  <2>4. CASE UNCHANGED vars
    <3>1. UNCHANGED <<pc, failures, flash, callbacks, init_evt, scan_mode,
                      serving, pairing, link, led, left, x_axis, y_axis,
                      moves, cut>>
      BY <2>4 DEF vars, setupVars, serverVars, linkVars, dataVars
    <3> QED
      BY <1>1, <3>1 DEF IInv, TypeOK, Registered, LedShowsTheLink
  <2> QED
    BY <1>1, <2>1, <2>2, <2>3, <2>4 DEF Next
<1> QED
  BY <1>1, InitIInv, PTL DEF Spec

\* Type correctness of the set-up, the events and the axes, for every piece the
\* stack may hand over.
THEOREM BtHandlerTypeCorrect == Spec => []TypeOK
<1>1. IInv => TypeOK
  BY DEF IInv
<1> QED
  BY <1>1, SpecIInv, PTL

\* Nobody sees a car that could not answer, however many calls of the set-up may
\* fail (lines 151-194).
THEOREM BtServesWhenItCanAnswer == Spec => []ServesWhenItCanAnswer
<1>1. IInv => ServesWhenItCanAnswer
  BY DEF IInv, Registered, ServesWhenItCanAnswer, Started
<1> QED
  BY <1>1, SpecIInv, PTL

\* What the LED shows of any number of phones: it is on exactly while one is
\* connected and none has left since the last came (lines 59-62, 89-92).
THEOREM BtLedShowsTheLink == Spec => []LedShowsTheLink
<1>1. IInv => LedShowsTheLink
  BY DEF IInv
<1> QED
  BY <1>1, SpecIInv, PTL

-----------------------------------------------------------------------------
(* A packet at the head of the data. *)

\* The first seven bytes of a stream that is at the beginning of a packet.
LEMMA FirstPacket ==
  ASSUME DataTypeOK, NEW p \in Peer, cut[p] = 0, Pending(p) >= 7
  PROVE  /\ moves[p][1] \in Int8 \X Int8 /\ Head(moves[p]) = moves[p][1]
         /\ \A i \in 1 .. 7 : Stream(p)[i] = Packet(moves[p][1])[i]
<1>1. moves[p] \in Seq(Position) /\ Len(moves[p]) >= 1 /\ Pending(p) \in Int
  BY DEF DataTypeOK, Pending, PacketLen
<1>2. moves[p][1] \in Int8 \X Int8 /\ Head(moves[p]) = moves[p][1]
  BY <1>1, BtHandlerAssumption
<1>3. ASSUME NEW i \in 1 .. 7
      PROVE  Stream(p)[i] = Packet(moves[p][1])[i]
  <2>1. i \in 1 .. Pending(p) /\ i - 1 + cut[p] = i - 1
    BY <1>1
  <2>2. Stream(p)[i] = Packet(moves[p][1 + ((i - 1) \div 7)])[1 + ((i - 1) % 7)]
    BY <2>1 DEF Stream, PacketLen
  <2>3. 1 + ((i - 1) \div 7) = 1 /\ 1 + ((i - 1) % 7) = i
    OBVIOUS
  <2> QED
    BY <2>2, <2>3
<1> QED
  BY <1>2, <1>3

\* Three bytes of the data that are the digits of an axis decode to it.
LEMMA DecodedDigits ==
  ASSUME NEW data \in Seq(Nat), NEW from \in Nat \ {0}, Len(data) >= from + 2,
         NEW axis \in Int8,
         data[from] = Digits(axis + 200)[1],
         data[from + 1] = Digits(axis + 200)[2],
         data[from + 2] = Digits(axis + 200)[3]
  PROVE  Decoded(data, from) = {axis}
<1> DEFINE d == SubSeq(data, from, from + 2)
<1>1. \A i \in 1 .. 3 : d[i] = Digits(axis + 200)[i]
  <2>1. d[1] = data[from] /\ d[2] = data[from + 1] /\ d[3] = data[from + 2]
    BY ThreeOfData
  <2> HIDE DEF d
  <2> QED
    BY <2>1
<1>2. Decoded(data, from) = {Axis(d)}
  BY DEF Decoded
<1> HIDE DEF d
<1>3. Axis(d) = Axis(Digits(axis + 200))
  <2> DEFINE e == Digits(axis + 200)
  <2>1. d[1] = e[1] /\ d[2] = e[2] /\ d[3] = e[3]
    BY <1>1
  <2> HIDE DEF e
  <2>2. Axis(d) = Axis(e)
    BY <2>1, Zenon DEF Axis
  <2> QED
    BY <2>2 DEF e
<1> QED
  BY <1>2, <1>3, AxisOfDigits

LEMMA DecodedX ==
  ASSUME NEW data \in Seq(Nat), NEW axis \in Int8, Len(data) >= 4,
         data[2] = Digits(axis + 200)[1], data[3] = Digits(axis + 200)[2],
         data[4] = Digits(axis + 200)[3]
  PROVE  Decoded(data, 2) = {axis}
  BY DecodedDigits

LEMMA DecodedY ==
  ASSUME NEW data \in Seq(Nat), NEW axis \in Int8, Len(data) >= 7,
         data[5] = Digits(axis + 200)[1], data[6] = Digits(axis + 200)[2],
         data[7] = Digits(axis + 200)[3]
  PROVE  Decoded(data, 5) = {axis}
  BY DecodedDigits

LEMMA WholePacket ==
  ASSUME DataTypeOK, NEW p \in Peer, NEW n \in Chunk \cup {Pending(p)},
         DataIndEvt(p, n), cut[p] = 0, Len(moves'[p]) < Len(moves[p])
  PROVE  <<x_axis, y_axis>>' = Head(moves[p])
<1> DEFINE data == SubSeq(Stream(p), 1, n)
<1>1. /\ n \in 1 .. Pending(p)
      /\ x_axis' \in Decoded(data, 2) /\ y_axis' \in Decoded(data, 5)
      /\ moves'[p] = SubSeq(moves[p], 1 + (n \div 7), Len(moves[p]))
  BY DEF DataIndEvt, DataTypeOK, PacketLen
<1>2. moves[p] \in Seq(Position) /\ Len(moves[p]) \in Nat /\ Pending(p) \in Int
  BY DEF DataTypeOK, Pending, PacketLen
<1>3. n >= 7 /\ Pending(p) >= 7
  <2> SUFFICES ASSUME n < 7
               PROVE  FALSE
    BY <1>1, <1>2
  <2>1. n \div 7 = 0
    BY <1>1
  <2>2. moves'[p] = moves[p]
    <3>1. 1 + (n \div 7) = 1
      BY <2>1
    <3>2. moves'[p] = SubSeq(moves[p], 1, Len(moves[p]))
      BY <1>1, <3>1, Zenon
    <3> QED
      BY <1>2, <3>2, SubSeqFull, Zenon
  <2> QED
    BY <1>2, <2>2
<1>4. /\ data \in Seq(Nat) /\ Len(data) = n
      /\ \A i \in 1 .. n : data[i] = Stream(p)[i]
  BY <1>1, DataBytes
<1> HIDE DEF data
<1> DEFINE position == moves[p][1]
<1>5. /\ position \in Int8 \X Int8 /\ Head(moves[p]) = position
      /\ \A i \in 1 .. 7 : data[i] = Packet(position)[i]
  <2>1. \A i \in 1 .. 7 : i \in 1 .. n
    BY <1>1, <1>2, <1>3
  <2> QED
    BY <1>3, <1>4, <2>1, FirstPacket, Zenon
<1> HIDE DEF position
<1>6. \A i \in 1 .. 3 : /\ data[i + 1] = Digits(position[1] + 200)[i]
                       /\ data[i + 4] = Digits(position[2] + 200)[i]
  BY <1>5, PacketBytes
<1>9. /\ position[1] \in Int8 /\ position[2] \in Int8
      /\ position = <<position[1], position[2]>>
      /\ Len(data) >= 4 /\ Len(data) >= 7
  BY <1>1, <1>2, <1>3, <1>4, <1>5
<1>7. Decoded(data, 2) = {position[1]}
  <2> DEFINE axis == position[1]
  <2>1. /\ axis \in Int8
        /\ data[2] = Digits(axis + 200)[1]
        /\ data[3] = Digits(axis + 200)[2]
        /\ data[4] = Digits(axis + 200)[3]
    BY <1>6, <1>9
  <2> HIDE DEF axis
  <2>2. Decoded(data, 2) = {axis}
    BY <1>9, <1>4, <2>1, DecodedX, Zenon
  <2> QED
    BY <2>2, Zenon DEF axis
<1>8. Decoded(data, 5) = {position[2]}
  <2> DEFINE axis == position[2]
  <2>1. /\ axis \in Int8
        /\ data[5] = Digits(axis + 200)[1]
        /\ data[6] = Digits(axis + 200)[2]
        /\ data[7] = Digits(axis + 200)[3]
    BY <1>6, <1>9
  <2> HIDE DEF axis
  <2>2. Decoded(data, 5) = {axis}
    BY <1>9, <1>4, <2>1, DecodedY, Zenon
  <2> QED
    BY <2>2, Zenon DEF axis
<1> QED
  <2>1. x_axis' = position[1] /\ y_axis' = position[2]
    BY <1>1, <1>7, <1>8
  <2> QED
    BY <1>9, <1>5, <2>1, Zenon

\* A packet at the head of the data sets the axes to its position, for every
\* position an axis has room for and however the stream is cut (lines 75-76).
THEOREM BtWholePacketsAreExact == Spec => WholePacketsAreExact
<1>1. ASSUME IInv, [Next]_vars, NEW p \in Peer, p \in link', cut[p] = 0,
             Len(moves'[p]) < Len(moves[p])
      PROVE  <<x_axis, y_axis>>' = Head(moves[p])
  <2>1. DataTypeOK
    BY <1>1, TypeParts DEF IInv, PartsOK
  <2>2. moves[p] \in Seq(Position) /\ Len(moves[p]) \in Nat
    BY <2>1 DEF DataTypeOK
  <2>3. moves'[p] # moves[p]
    BY <1>1, <2>2
  <2>4. PICK q \in Peer :
          \/ CloseEvt(q)
          \/ \E position \in Position : SendPacket(q, position)
          \/ \E n \in Chunk \cup {Pending(q)} : DataIndEvt(q, n)
    BY <1>1, <2>3, Zenon
    DEF Next, SetUp, NvsFlashInit, NvsFlashErase, Checked, Try, Parameters,
        InitEvt, Events, AskToPair, StopAsking, GapEvt, SrvOpenEvt, vars, dataVars
  <2>5. CASE CloseEvt(q)
    BY <1>1, <2>1, <2>3, <2>5 DEF CloseEvt, DataTypeOK
  <2>6. ASSUME NEW position \in Position, SendPacket(q, position)
        PROVE  FALSE
    BY <1>1, <2>1, <2>2, <2>6 DEF SendPacket, DataTypeOK
  <2>7. ASSUME NEW n \in Chunk \cup {Pending(q)}, DataIndEvt(q, n)
        PROVE  <<x_axis, y_axis>>' = Head(moves[p])
    <3>1. q = p
      BY <2>1, <2>3, <2>7 DEF DataIndEvt, DataTypeOK
    <3> QED
      BY <1>1, <2>1, <2>7, <3>1, WholePacket
  <2> QED
    BY <2>4, <2>5, <2>6, <2>7
<1>2. ASSUME IInv, [Next]_vars
      PROVE  [\A p \in Peer :
                p \in link' /\ cut[p] = 0 /\ Len(moves'[p]) < Len(moves[p])
                  => <<x_axis, y_axis>>' = Head(moves[p])]_vars
  BY <1>1, <1>2
<1> QED
  BY <1>2, SpecIInv, PTL DEF Spec, WholePacketsAreExact
=============================================================================
