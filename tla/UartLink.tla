------------------------------ MODULE UartLink ------------------------------
(***************************************************************************)
(* The serial line from the Raspberry Pi to the ESP32: the messages        *)
(* "<state>_<index>" of main.py, which have no terminator, and the task of *)
(* uart_handler.c that reads them.  uart_read_bytes returns what has       *)
(* arrived when the line has been silent for 20 ms, and of that the task   *)
(* looks at the first byte only; so the model keeps the first unread byte. *)
(* While emergency_brake runs (one second) the task reads nothing and the  *)
(* messages pile up: 88 bytes at most, far from BUF_SIZE.                  *)
(***************************************************************************)
EXTENDS Integers, Sequences

CONSTANTS
  Index,         \* slots of last_states a message may carry
  BrakeMessages  \* messages that one read may find after emergency_brake

ASSUME UartLinkAssumption ==
  /\ Index \subseteq 0 .. 99
  /\ BrakeMessages \in Nat \ {0}

VARIABLES
  sent,           \* the state in the last message written
  wire,           \* its bytes that have not arrived yet
  reader,         \* the ESP32: off, reading, braking
  unread,         \* the first byte that uart_read_bytes has yet to return
  current_state,
  backlog,        \* of the messages written since the brake, those not read
  unreadOf,       \* the state in the message the byte unread is from
  readOf,         \* the same for the byte last read
  reads,          \* reads since the ESP32 was started, counted up to 2
  run             \* messages since then that carry the state sent

vars == <<sent, wire, reader, unread, current_state, backlog,
          unreadOf, readOf, reads, run>>
history == <<unreadOf, readOf, reads, run>>

StateId == {0, 1, 2}
AUTOBRAKE == 2
NoByte == -1
Byte == 0 .. 255

TypeOK ==
  /\ {sent, unreadOf, readOf} \subseteq StateId
  /\ wire \in Seq(Byte)
  /\ reader \in {"off", "reading", "braking"}
  /\ unread \in Byte \cup {NoByte}
  /\ current_state \in Byte
  /\ backlog \in 0 .. BrakeMessages
  /\ reads \in 0 .. 2
  /\ run \in 0 .. BrakeMessages

-----------------------------------------------------------------------------

Digits(n) == IF n < 10 THEN <<48 + n>> ELSE <<48 + n \div 10, 48 + (n % 10)>>

\* str.encode(str(current_state) + '_' + str(i))
Message(state, i) == <<48 + state, 95>> \o Digits(i)

\* data[0]-48 in a uint8_t
Decoded(byte) == (byte - 48) % 256

Init ==
  /\ sent = 0 /\ wire = <<>>
  /\ reader = "off" /\ unread = NoByte /\ current_state = 0 /\ backlog = 0
  /\ unreadOf = 0 /\ readOf = 0 /\ reads = 0 /\ run = 0

Counted(state) ==
  IF state # sent THEN 1 ELSE IF run < BrakeMessages THEN run + 1 ELSE run

\* The message is one of the backlog of a brake.
PilesUp == reader = "braking" \/ unread # NoByte

\* The vote sends a message every 50 ms: later than the 20 ms of silence after
\* which a read in progress returns.  Only the read after a brake finds bytes
\* that have waited, so a message may come before its silence is over; it is
\* the last of the BrakeMessages that this read returns.
Write(state, i) ==
  /\ wire = <<>>
  /\ reader = "reading" /\ unread # NoByte => backlog >= 1
  /\ PilesUp => backlog < BrakeMessages
  /\ wire' = Message(state, i)
  /\ sent' = state
  /\ backlog' = IF PilesUp THEN backlog + 1 ELSE 0
  /\ run' = IF reader = "off" THEN 0 ELSE Counted(state)
  /\ UNCHANGED <<reader, unread, current_state, unreadOf, readOf, reads>>

\* A byte comes to the end of the line; the driver drops it when there is none.
Arrive ==
  /\ wire # <<>>
  /\ wire' = Tail(wire)
  /\ IF reader # "off" /\ unread = NoByte
     THEN unread' = Head(wire) /\ unreadOf' = sent
     ELSE UNCHANGED <<unread, unreadOf>>
  /\ UNCHANGED <<sent, reader, current_state, backlog, readOf, reads, run>>

\* Faulty: the last byte read is not cleared from the buffer.
ReadAgain ==
  /\ reader = "reading" /\ unread # NoByte /\ wire = <<>>
  /\ current_state' = Decoded(unread)
  /\ readOf' = unreadOf
  /\ reads' = IF reads < 2 THEN reads + 1 ELSE reads
  /\ reader' = IF current_state' # current_state /\ current_state' = AUTOBRAKE
               THEN "braking" ELSE "reading"
  /\ backlog' = 0
  /\ UNCHANGED <<sent, wire, unread, unreadOf, run>>

\* Faulty: the read does not wait for the line to be silent.
ReadAtOnce ==
  /\ reader = "reading" /\ unread # NoByte
  /\ current_state' = Decoded(unread)
  /\ unread' = NoByte
  /\ readOf' = unreadOf
  /\ reads' = IF reads < 2 THEN reads + 1 ELSE reads
  /\ reader' = IF current_state' # current_state /\ current_state' = AUTOBRAKE
               THEN "braking" ELSE "reading"
  /\ backlog' = 0
  /\ UNCHANGED <<sent, wire, unreadOf, run>>

\* Lines 79-95: the first byte of what has arrived is the state, the rest is
\* dropped.
Read ==
  /\ reader = "reading" /\ unread # NoByte /\ wire = <<>>
  /\ current_state' = Decoded(unread)
  /\ unread' = NoByte
  /\ readOf' = unreadOf
  /\ reads' = IF reads < 2 THEN reads + 1 ELSE reads
  /\ reader' = IF current_state' # current_state /\ current_state' = AUTOBRAKE
               THEN "braking" ELSE "reading"
  /\ backlog' = 0
  /\ UNCHANGED <<sent, wire, unreadOf, run>>

\* emergency_brake returns.
BrakeDone ==
  /\ reader = "braking"
  /\ reader' = "reading"
  /\ UNCHANGED <<sent, wire, unread, current_state, backlog, history>>

\* init_uart1 and the start of the task, at any moment of a message.
Boot ==
  /\ reader = "off"
  /\ reader' = "reading"
  /\ UNCHANGED <<sent, wire, unread, current_state, backlog, history>>

\* The ESP32 loses power or is reset.
Reset ==
  /\ reader # "off"
  /\ reader' = "off"
  /\ unread' = NoByte
  /\ current_state' = 0
  /\ backlog' = 0
  /\ reads' = 0
  /\ run' = 0
  /\ UNCHANGED <<sent, wire, unreadOf, readOf>>

Send == \E state \in StateId, i \in Index : Write(state, i)

Next == Send \/ Arrive \/ Read \/ BrakeDone \/ Boot \/ Reset

\* The line delivers, the task and the vote thread run, the ESP32 is turned on;
\* whether it is reset is left open.
Fairness ==
  WF_vars(Arrive) /\ WF_vars(Read) /\ WF_vars(BrakeDone) /\ WF_vars(Boot)
    /\ WF_vars(Send)

Spec == Init /\ [][Next]_vars
FairSpec == Spec /\ Fairness

-----------------------------------------------------------------------------

\* A byte in the middle of a message is taken for a state once at most: from
\* the second read after the ESP32's start the state is one that the Raspberry
\* Pi sent, in the oldest message not read before.  The messages have no
\* terminator; it is the silence between them that frames them.
FramedBySilence == reads = 2 => current_state = readOf

\* Nothing is under way.
Quiet == reader # "off" /\ wire = <<>> /\ unread = NoByte

\* However many messages a brake has made the task miss, and whatever the ESP32
\* was started into, the state it acts on is the one sent as soon as that one
\* has been sent for as long as a brake takes (lines 85-95 use the oldest of
\* the messages that piled up).
CatchesUp == Quiet /\ run >= BrakeMessages => current_state = sent

\* If the Raspberry Pi stays with a state and the ESP32 is not reset for ever,
\* the ESP32 ends up in that state for good.
EventuallyAgrees ==
  \A state \in StateId :
    <>[](sent = state /\ reader # "off") => <>[](current_state = state)

\* What the next read will return, if nothing happens to the ESP32: the first
\* byte it has, or else the first that is still to come.
NextRead ==
  IF unread # NoByte THEN Decoded(unread)
  ELSE IF reader # "off" /\ wire # <<>> THEN Decoded(Head(wire))
  ELSE NoByte

\* The '_' and the digits.
Messages == INSTANCE MessageLink WITH
  Junk <- {Decoded(95)} \cup 0 .. 9, unread <- NextRead

\* To the task the line is one of whole messages, of which it reads the oldest,
\* although it neither looks for their ends nor for their beginnings (main.py
\* 317 against uart_handler.c 79-95).
IsMessageLink == Messages!Spec
=============================================================================
