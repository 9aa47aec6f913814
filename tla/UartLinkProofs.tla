--------------------------- MODULE UartLinkProofs ---------------------------
(***************************************************************************)
(* Theorems about UartLink.tla, for every backlog and every set of slots.  *)
(***************************************************************************)
EXTENDS UartLink, TLAPS

MessageByte == 48 .. 57 \cup {95}

\* The state the next thing to be read was sent with.
Source == IF unread # NoByte THEN unreadOf ELSE sent

Pending == reader # "off" /\ NextRead # NoByte

\* An ESP32 that is off has read nothing.
OffIsBlank == reader = "off" => unread = NoByte /\ reads = 0 /\ run = 0

\* From the second read on the next thing to be read begins a message.
BeginsMessage == Pending /\ reads >= 1 => NextRead = Source

\* What waits at a brake is its backlog; if it is all of one state, the oldest
\* of it is of that state.
BacklogWaits == reader = "braking" /\ Pending => backlog >= 1
OldestIsSent == Pending /\ run >= 1 /\ run >= backlog => NextRead = sent

LinkInv ==
  /\ TypeOK
  /\ wire \in Seq(MessageByte)
  /\ OffIsBlank /\ BeginsMessage /\ BacklogWaits /\ OldestIsSent
  /\ FramedBySilence /\ CatchesUp

-----------------------------------------------------------------------------
(* Bytes. *)

LEMMA DecodedType ==
  ASSUME NEW byte \in Byte
  PROVE  Decoded(byte) \in Byte /\ Decoded(byte) # NoByte
  BY DEF Decoded, Byte, NoByte

LEMMA DecodedState ==
  ASSUME NEW state \in StateId
  PROVE  48 + state \in MessageByte /\ Decoded(48 + state) = state
  BY DEF Decoded, StateId, MessageByte

LEMMA DecodedMessageByte ==
  ASSUME NEW byte \in MessageByte
  PROVE  byte \in Byte /\ Decoded(byte) \in {Decoded(95)} \cup 0 .. 9
  BY DEF Decoded, MessageByte, Byte

LEMMA MessageShape ==
  ASSUME NEW state \in StateId, NEW i \in Index
  PROVE  /\ Message(state, i) \in Seq(MessageByte)
         /\ Message(state, i) \in Seq(Byte)
         /\ Message(state, i) # <<>>
         /\ Head(Message(state, i)) = 48 + state
<1>1. i \in 0 .. 99
  BY UartLinkAssumption
<1>2. 48 + state \in MessageByte /\ 95 \in MessageByte
  BY DEF MessageByte, StateId
<1>3. <<48 + state, 95>> \in Seq(MessageByte)
  BY <1>2
<1>4. Digits(i) \in Seq(MessageByte)
  <2>1. CASE i < 10
    BY <1>1, <2>1 DEF Digits, MessageByte
  <2>2. CASE ~(i < 10)
    <3>1. 48 + i \div 10 \in MessageByte /\ 48 + (i % 10) \in MessageByte
      BY <1>1, <2>2 DEF MessageByte
    <3> QED
      BY <2>2, <3>1 DEF Digits
  <2> QED
    BY <2>1, <2>2
<1>5. Message(state, i) \in Seq(MessageByte)
  BY <1>3, <1>4 DEF Message
<1>6. Len(Message(state, i)) >= 2 /\ Message(state, i)[1] = 48 + state
  BY <1>3, <1>4 DEF Message
<1>7. MessageByte \subseteq Byte
  BY DEF MessageByte, Byte
<1>8. Message(state, i) \in Seq(Byte)
  BY <1>5, <1>7
<1> QED
  BY <1>5, <1>6, <1>8

\* What is read is a state or the rest of a message, never "nothing".
LEMMA NextReadFacts ==
  ASSUME TypeOK, wire \in Seq(MessageByte)
  PROVE  /\ unread # NoByte => NextRead = Decoded(unread) /\ NextRead # NoByte
         /\ reader # "off" /\ unread = NoByte /\ wire # <<>> =>
              /\ NextRead = Decoded(Head(wire))
              /\ NextRead # NoByte
              /\ NextRead \in {Decoded(95)} \cup 0 .. 9
         /\ unread = NoByte /\ wire = <<>> => NextRead = NoByte
         /\ unread = NoByte /\ reader = "off" => NextRead = NoByte
<1>1. unread # NoByte => NextRead = Decoded(unread) /\ NextRead # NoByte
  BY DecodedType DEF TypeOK, NextRead
<1>2. ASSUME wire # <<>>, reader # "off", unread = NoByte
      PROVE  /\ NextRead = Decoded(Head(wire))
             /\ NextRead # NoByte
             /\ NextRead \in {Decoded(95)} \cup 0 .. 9
  <2>1. Head(wire) \in MessageByte
    BY <1>2
  <2>2. NextRead = Decoded(Head(wire))
    BY <1>2 DEF NextRead
  <2> QED
    BY <2>1, <2>2, DecodedMessageByte, DecodedType
<1>3. unread = NoByte /\ (wire = <<>> \/ reader = "off") => NextRead = NoByte
  BY DEF NextRead
<1> QED
  BY <1>1, <1>2, <1>3

-----------------------------------------------------------------------------
(* The invariant. *)

LEMMA LinkInitially == Init => LinkInv
<1> SUFFICES ASSUME Init PROVE LinkInv
  OBVIOUS
<1> USE UartLinkAssumption
<1>1. TypeOK /\ wire \in Seq(MessageByte)
  BY DEF Init, TypeOK, StateId, Byte, NoByte
<1>2. ~Pending
  BY DEF Init, Pending
<1> QED
  BY <1>1, <1>2 DEF Init, LinkInv, OffIsBlank, BeginsMessage, BacklogWaits,
    OldestIsSent, FramedBySilence, CatchesUp, Quiet

\* A message written is the next to be read, or queues behind the one that is.
LEMMA WriteKeepsLink ==
  ASSUME LinkInv, NEW state \in StateId, NEW i \in Index, Write(state, i)
  PROVE  LinkInv'
<1> USE UartLinkAssumption
<1>1. TypeOK /\ wire \in Seq(MessageByte)
  BY DEF LinkInv
<1>2. /\ wire' \in Seq(MessageByte) /\ wire' \in Seq(Byte)
      /\ wire' # <<>> /\ Decoded(Head(wire')) = state
  BY MessageShape, DecodedState DEF Write
<1>3. run' \in 0 .. BrakeMessages /\ backlog' \in 0 .. BrakeMessages
  BY <1>1 DEF Write, PilesUp, TypeOK, Counted
<1>4. TypeOK'
  BY <1>1, <1>2, <1>3 DEF Write, TypeOK
<1>5. unread # NoByte => NextRead' = NextRead /\ NextRead # NoByte
  BY <1>1, NextReadFacts DEF Write, NextRead
<1>6. unread = NoByte /\ reader # "off" => NextRead' = state
  BY <1>2 DEF Write, NextRead
<1>7. OffIsBlank'
  BY DEF LinkInv, OffIsBlank, Write
<1>8. BeginsMessage'
  BY <1>5, <1>6 DEF LinkInv, BeginsMessage, Pending, Source, Write
<1>9. BacklogWaits'
  BY <1>1 DEF Write, PilesUp, BacklogWaits, TypeOK
<1>10. OldestIsSent'
  <2> SUFFICES ASSUME Pending', run' >= 1, run' >= backlog'
               PROVE  NextRead' = state
    BY DEF OldestIsSent, Write
  <2>1. CASE unread = NoByte
    BY <2>1, <1>6 DEF Pending, Write
  <2>2. CASE unread # NoByte
    <3>1. reader \in {"reading", "braking"} /\ Pending
      BY <2>2, <1>1, <1>5 DEF LinkInv, OffIsBlank, Pending, TypeOK
    <3>2. backlog >= 1 /\ backlog' = backlog + 1
      BY <2>2, <3>1 DEF LinkInv, BacklogWaits, Write, PilesUp
    <3>3. run' = Counted(state)
      BY <3>1 DEF Write
    <3>4. run \in Nat /\ backlog \in Nat /\ run' >= 2
      BY <1>1, <1>3, <3>2 DEF TypeOK
    <3>5. state = sent /\ run >= backlog
      BY <1>1, <3>2, <3>3, <3>4 DEF Counted, TypeOK
    <3>6. NextRead = sent
      BY <3>1, <3>2, <3>4, <3>5 DEF LinkInv, OldestIsSent
    <3> QED
      BY <2>2, <3>5, <3>6, <1>5
  <2> QED
    BY <2>1, <2>2
<1>11. FramedBySilence'
  BY DEF LinkInv, FramedBySilence, Write
<1>12. CatchesUp'
  BY <1>2 DEF CatchesUp, Quiet
<1> QED
  BY <1>2, <1>4, <1>7, <1>8, <1>9, <1>10, <1>11, <1>12 DEF LinkInv

\* The arrival of a byte changes nothing of what is to be read.
LEMMA ArriveShowsTheSame ==
  ASSUME LinkInv, Arrive
  PROVE  NextRead' = NextRead /\ (reader # "off" => Source' = Source)
<1>1. TypeOK /\ OffIsBlank /\ wire \in Seq(MessageByte) /\ wire # <<>>
  BY DEF LinkInv, Arrive
<1>2. Head(wire) \in MessageByte
  BY <1>1
<1>3. Head(wire) # NoByte
  BY <1>2, DecodedMessageByte DEF Byte, NoByte
<1>4. CASE reader = "off"
  BY <1>1, <1>4 DEF OffIsBlank, Arrive, NextRead
<1>5. CASE reader # "off" /\ unread = NoByte
  BY <1>1, <1>3, <1>5 DEF Arrive, NextRead, Source
<1>6. CASE reader # "off" /\ unread # NoByte
  BY <1>6 DEF Arrive, NextRead, Source
<1> QED
  BY <1>4, <1>5, <1>6

LEMMA ArriveKeepsLink ==
  ASSUME LinkInv, Arrive
  PROVE  LinkInv'
<1>1. TypeOK /\ OffIsBlank /\ wire \in Seq(MessageByte) /\ wire # <<>>
  BY DEF LinkInv, Arrive
<1>2. Head(wire) \in Byte /\ Head(wire) # NoByte
  <2>1. Head(wire) \in MessageByte
    BY <1>1
  <2> QED
    BY <2>1, DecodedMessageByte DEF Byte, NoByte
<1>3. wire' \in Seq(MessageByte) /\ wire' \in Seq(Byte)
  BY <1>1 DEF Arrive, TypeOK
<1>4. unread' \in Byte \cup {NoByte} /\ unreadOf' \in StateId
  BY <1>1, <1>2 DEF Arrive, TypeOK
<1>5. TypeOK'
  BY <1>1, <1>3, <1>4 DEF Arrive, TypeOK
<1>6. NextRead' = NextRead /\ (reader # "off" => Source' = Source)
  BY ArriveShowsTheSame
<1>7. OffIsBlank'
  BY <1>1 DEF OffIsBlank, Arrive
<1>8. BeginsMessage' /\ BacklogWaits' /\ OldestIsSent'
  BY <1>6 DEF LinkInv, BeginsMessage, BacklogWaits, OldestIsSent, Pending, Arrive
<1>9. FramedBySilence'
  BY DEF LinkInv, FramedBySilence, Arrive
<1>10. reader # "off" => unread' # NoByte
  BY <1>2 DEF Arrive
<1>11. CatchesUp'
  BY <1>10 DEF CatchesUp, Quiet, Arrive
<1> QED
  BY <1>3, <1>5, <1>7, <1>8, <1>9, <1>11 DEF LinkInv

\* A read takes the oldest message, and nothing waits behind it.
LEMMA ReadKeepsLink ==
  ASSUME LinkInv, Read
  PROVE  LinkInv'
<1> USE UartLinkAssumption
<1>1. TypeOK /\ wire \in Seq(MessageByte) /\ unread \in Byte /\ unread # NoByte
  BY DEF LinkInv, Read, TypeOK
<1>2. NextRead = Decoded(unread) /\ Pending
  BY <1>1, NextReadFacts DEF Read, Pending
<1>3. current_state' \in Byte
  BY <1>1, DecodedType DEF Read
<1>4. reads' \in 0 .. 2 /\ (reads' = 2 => reads >= 1)
  BY <1>1 DEF Read, TypeOK
<1>5. TypeOK'
  BY <1>1, <1>3, <1>4 DEF Read, TypeOK
<1>6. ~Pending'
  BY DEF Read, Pending, NextRead
<1>7. BeginsMessage' /\ BacklogWaits' /\ OldestIsSent'
  BY <1>6 DEF BeginsMessage, BacklogWaits, OldestIsSent
<1>8. OffIsBlank'
  BY DEF Read, OffIsBlank
<1>9. FramedBySilence'
  <2>1. reads >= 1 => Decoded(unread) = unreadOf
    BY <1>1, <1>2 DEF LinkInv, BeginsMessage, Source
  <2> QED
    BY <1>4, <2>1 DEF FramedBySilence, Read
<1>10. CatchesUp'
  <2>1. run >= BrakeMessages => run >= 1 /\ run >= backlog
    BY <1>1 DEF TypeOK
  <2>2. run >= BrakeMessages => Decoded(unread) = sent
    BY <1>2, <2>1 DEF LinkInv, OldestIsSent
  <2> QED
    BY <2>2 DEF CatchesUp, Read
<1> QED
  BY <1>1, <1>5, <1>7, <1>8, <1>9, <1>10 DEF LinkInv, Read

\* The end of a brake, and the start and the loss of the ESP32.
LEMMA PowerKeepsLink ==
  ASSUME LinkInv, BrakeDone \/ Boot \/ Reset
  PROVE  LinkInv'
<1> USE UartLinkAssumption
<1>1. CASE BrakeDone
  <2>1. TypeOK' /\ (wire \in Seq(MessageByte))'
    BY <1>1 DEF LinkInv, TypeOK, BrakeDone, history
  <2>2. Pending' = Pending /\ NextRead' = NextRead /\ Source' = Source
    BY <1>1 DEF Pending, NextRead, Source, BrakeDone, history
  <2>3. BeginsMessage' /\ OldestIsSent' /\ BacklogWaits' /\ OffIsBlank'
    BY <1>1, <2>2 DEF LinkInv, BeginsMessage, OldestIsSent, BacklogWaits,
      OffIsBlank, BrakeDone, history
  <2>4. FramedBySilence' /\ CatchesUp'
    BY <1>1 DEF LinkInv, FramedBySilence, CatchesUp, Quiet, BrakeDone, history
  <2> QED
    BY <2>1, <2>3, <2>4 DEF LinkInv
<1>2. CASE Boot
  <2>1. TypeOK' /\ (wire \in Seq(MessageByte))'
    BY <1>2 DEF LinkInv, TypeOK, Boot, history
  <2>2. reads' = 0 /\ run' = 0 /\ reader' = "reading"
    BY <1>2 DEF LinkInv, OffIsBlank, Boot, history
  <2>3. /\ BeginsMessage' /\ OldestIsSent' /\ BacklogWaits' /\ OffIsBlank'
        /\ FramedBySilence' /\ CatchesUp'
    BY <2>2 DEF BeginsMessage, OldestIsSent, BacklogWaits, OffIsBlank,
      FramedBySilence, CatchesUp
  <2> QED
    BY <2>1, <2>3 DEF LinkInv
<1>3. CASE Reset
  <2>1. TypeOK' /\ (wire \in Seq(MessageByte))'
    BY <1>3 DEF LinkInv, TypeOK, Reset, Byte
  <2>2. reader' = "off" /\ unread' = NoByte /\ reads' = 0 /\ run' = 0
    BY <1>3 DEF Reset
  <2>3. /\ BeginsMessage' /\ OldestIsSent' /\ BacklogWaits' /\ OffIsBlank'
        /\ FramedBySilence' /\ CatchesUp'
    BY <2>2 DEF BeginsMessage, OldestIsSent, BacklogWaits, OffIsBlank, Pending,
      FramedBySilence, CatchesUp, Quiet
  <2> QED
    BY <2>1, <2>3 DEF LinkInv
<1> QED
  BY <1>1, <1>2, <1>3

LEMMA StepKeepsLink ==
  ASSUME LinkInv, [Next]_vars
  PROVE  LinkInv'
<1>1. CASE Send
  BY <1>1, WriteKeepsLink DEF Send
<1>2. CASE Arrive
  BY <1>2, ArriveKeepsLink
<1>3. CASE Read
  BY <1>3, ReadKeepsLink
<1>4. CASE BrakeDone \/ Boot \/ Reset
  BY <1>4, PowerKeepsLink
<1>5. CASE UNCHANGED vars
  BY <1>5 DEF vars, LinkInv, TypeOK, OffIsBlank, BeginsMessage, BacklogWaits,
    OldestIsSent, Pending, NextRead, Source, FramedBySilence, CatchesUp, Quiet
<1> QED
  BY <1>1, <1>2, <1>3, <1>4, <1>5 DEF Next

\* The invariant holds of every behaviour.
LEMMA LinkInvariant == Spec => []LinkInv
  BY LinkInitially, StepKeepsLink, PTL DEF Spec

\* Type correctness, for every backlog and every set of slots.
THEOREM LinkTypeCorrect == Spec => []TypeOK
  BY LinkInvariant, PTL DEF LinkInv

\* From the second read after its start on, the ESP32 acts on whole messages
\* (uart_handler.c 79-95 never looks for their beginnings).
THEOREM SilenceFrames == Spec => []FramedBySilence
  BY LinkInvariant, PTL DEF LinkInv

\* A state sent for as long as a brake takes is the one the ESP32 acts on, the
\* backlog of the brake read or not (uart_handler.c 85-95).
THEOREM BrakeIsCaughtUp == Spec => []CatchesUp
  BY LinkInvariant, PTL DEF LinkInv

-----------------------------------------------------------------------------
(* The bytes implement the messages. *)

\* What a byte in the middle of a message decodes to.
AnyJunk == {Decoded(95)} \cup 0 .. 9

LEMMA MessagesInitially == Init => Messages!Init
  BY DEF Init, Messages!Init, Messages!Nothing, NextRead, NoByte

\* The write of the bytes is the write of the message, whose first byte is
\* what the task will read if it has nothing to read.
LEMMA WriteIsWrite ==
  ASSUME LinkInv, NEW state \in StateId, NEW i \in Index, Write(state, i)
  PROVE  Messages!Write(state)
<1>1. TypeOK /\ OffIsBlank /\ wire = <<>>
  BY DEF LinkInv, Write
<1>2. wire' # <<>> /\ Decoded(Head(wire')) = state
  BY MessageShape, DecodedState DEF Write
<1>3. wire \in Seq(MessageByte)
  BY DEF LinkInv
<1>4. unread # NoByte => NextRead' = NextRead /\ NextRead # NoByte
  BY <1>1, <1>3, NextReadFacts DEF Write, NextRead
<1>5. unread = NoByte => NextRead = NoByte
  BY <1>1 DEF NextRead
<1>6. unread = NoByte /\ reader # "off" => NextRead' = state
  BY <1>2 DEF Write, NextRead
<1>7. reader = "off" => NextRead' = NextRead
  BY <1>1 DEF OffIsBlank, Write, NextRead
<1> QED
  BY <1>4, <1>5, <1>6, <1>7 DEF Write, PilesUp,
    Messages!Write, Messages!PilesUp, Messages!Nothing, NoByte

LEMMA ArriveIsInvisible ==
  ASSUME LinkInv, Arrive
  PROVE  UNCHANGED Messages!vars
  BY ArriveShowsTheSame DEF Arrive, Messages!vars

LEMMA ReadIsRead ==
  ASSUME LinkInv, Read
  PROVE  Messages!Read
<1>1. NextRead = Decoded(unread) /\ NextRead # NoByte
  BY NextReadFacts DEF LinkInv, Read
<1>2. NextRead' = NoByte
  BY DEF Read, NextRead
<1> QED
  BY <1>1, <1>2 DEF Read, NoByte, AUTOBRAKE, Messages!Read, Messages!Nothing,
    Messages!BrakesOn, Messages!AUTOBRAKE

\* A message under way is a state if none of it has arrived yet, junk if not:
\* both are among what Boot may show.
LEMMA BootIsBoot ==
  ASSUME LinkInv, Boot
  PROVE  Messages!Boot
<1>1. TypeOK /\ wire \in Seq(MessageByte) /\ unread = NoByte
  BY DEF LinkInv, OffIsBlank, Boot
<1>2. NextRead' \in {NoByte} \cup AnyJunk
  <2>1. CASE wire = <<>>
    BY <1>1, <2>1 DEF Boot, NextRead
  <2>2. CASE wire # <<>>
    <3>1. Head(wire) \in MessageByte
      BY <1>1, <2>2
    <3>2. Decoded(Head(wire)) \in AnyJunk
      BY <3>1, DecodedMessageByte DEF AnyJunk
    <3>3. NextRead' = Decoded(Head(wire))
      BY <1>1, <2>2 DEF Boot, NextRead
    <3> QED
      BY <3>2, <3>3
  <2> QED
    BY <2>1, <2>2
<1> QED
  BY <1>2 DEF Boot, AnyJunk, NoByte, Messages!Boot, Messages!Nothing

LEMMA BrakeDoneIsBrakeDone ==
  ASSUME BrakeDone
  PROVE  Messages!BrakeDone
  BY DEF BrakeDone, history, NextRead, Messages!BrakeDone

LEMMA ResetIsReset ==
  ASSUME Reset
  PROVE  Messages!Reset
  BY DEF Reset, NextRead, NoByte, Messages!Reset, Messages!Nothing

\* Every step of the bytes is a step of the messages or changes nothing of
\* them.
LEMMA StepIsMessageStep ==
  ASSUME LinkInv, [Next]_vars
  PROVE  [Messages!Next]_(Messages!vars)
<1>1. CASE Send
  BY <1>1, WriteIsWrite DEF Send, Messages!Next, StateId, Messages!StateId
<1>2. CASE Arrive
  BY <1>2, ArriveIsInvisible
<1>3. CASE Read
  BY <1>3, ReadIsRead DEF Messages!Next
<1>4. CASE BrakeDone
  BY <1>4, BrakeDoneIsBrakeDone DEF Messages!Next
<1>5. CASE Boot
  BY <1>5, BootIsBoot DEF Messages!Next
<1>6. CASE Reset
  BY <1>6, ResetIsReset DEF Messages!Next
<1>7. CASE UNCHANGED vars
  BY <1>7 DEF vars, NextRead, Messages!vars
<1> QED
  BY <1>1, <1>2, <1>3, <1>4, <1>5, <1>6, <1>7 DEF Next

\* To the task the line is one of whole messages (MessageLink.tla), whatever
\* the slots they carry and however many of them a brake lets pile up.
THEOREM LinkImplementsMessages == Spec => IsMessageLink
<1>1. LinkInv /\ [Next]_vars => [Messages!Next]_(Messages!vars)
  BY StepIsMessageStep
<1> QED
  BY <1>1, MessagesInitially, LinkInvariant, PTL
  DEF Spec, IsMessageLink, Messages!Spec
=============================================================================
