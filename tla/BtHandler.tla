------------------------------ MODULE BtHandler ------------------------------
(***************************************************************************)
(* bt_handler.c: the set-up of the Bluetooth stack, which app_main runs in *)
(* its own task, and the two callbacks, which the stack calls in its own   *)
(* as soon as the calls of the set-up let it.  Phones pair, connect, send  *)
(* joystick packets and disconnect.  A packet is seven bytes on a stream:  *)
(* the stack hands over what it has, a packet, several, or part of one,    *)
(* and the callback decodes bytes 1 to 6 of that whatever its length.      *)
(* What the axes do to the motors is in CarControl.tla.                    *)
(***************************************************************************)
EXTENDS Integers, Sequences

CONSTANTS
  Peer,        \* phones
  Position,    \* <<x_axis, y_axis>> of a joystick
  Garbage,     \* what an axis decodes to when its digits did not arrive
  Chunk,       \* lengths of data the stack hands over, beside all there is
  MaxPackets,  \* packets of a phone under way
  MaxFailures  \* calls of the set-up that fail

Int8 == -128 .. 127

ASSUME BtHandlerAssumption ==
  /\ Position \subseteq Int8 \X Int8
  /\ Garbage \subseteq Int8
  /\ Chunk \subseteq Nat \ {0}
  /\ MaxPackets \in Nat
  /\ MaxFailures \in Nat

VARIABLES
  pc,          \* the call configure_bluetooth_and_events makes next
  failures,    \* calls that have failed
  flash,       \* the NVS partition
  callbacks,   \* those registered: gap, spp
  init_evt,    \* ESP_SPP_INIT_EVT is due
  scan_mode,   \* connectable and discoverable
  serving,     \* esp_spp_start_srv has been called
  pairing,     \* of each phone: none, a request, bonded or refused
  link,        \* the phones connected
  led,         \* the level of BLINK_GPIO
  x_axis, y_axis,
  moves,       \* the positions in the packets of each phone under way
  cut,         \* how many bytes of the first one were handed over before
  left         \* a phone has left others behind since the last came

setupVars == <<pc, failures, flash, callbacks, init_evt>>
serverVars == <<scan_mode, serving>>
linkVars == <<link, led, left>>
dataVars == <<x_axis, y_axis, moves, cut>>
vars == <<setupVars, serverVars, pairing, linkVars, dataVars>>

\* The calls that end the set-up when they fail, in their order.
Calls == <<"esp_bt_controller_init", "esp_bt_controller_enable",
           "esp_bluedroid_init", "esp_bluedroid_enable",
           "esp_bt_gap_register_callback", "esp_spp_register_callback",
           "esp_spp_init">>

Method == {"pin4", "pin16", "confirm", "notify"}
PacketLen == 7

TypeOK ==
  /\ pc \in {"nvs_flash_init", "nvs_flash_erase", "nvs_flash_init_again",
             "esp_bt_controller_mem_release", "esp_bt_gap_set_security_param",
             "esp_bt_gap_set_pin", "done", "gave_up"}
            \cup {Calls[i] : i \in 1 .. Len(Calls)}
  /\ failures \in 0 .. MaxFailures
  /\ flash \in {"ok", "full"}
  /\ callbacks \subseteq {"gap", "spp"}
  /\ {init_evt, scan_mode, serving, left} \subseteq BOOLEAN
  /\ pairing \in [Peer -> Method \cup {"none", "bonded", "refused"}]
  /\ link \subseteq Peer
  /\ led \in {0, 1}
  /\ x_axis \in Int8 /\ y_axis \in Int8
  /\ moves \in [Peer -> Seq(Position)]
  /\ cut \in [Peer -> 0 .. PacketLen - 1]

Init ==
  /\ pc = "nvs_flash_init" /\ failures = 0 /\ flash \in {"ok", "full"}
  /\ callbacks = {} /\ init_evt = FALSE
  /\ scan_mode = FALSE /\ serving = FALSE
  /\ pairing = [p \in Peer |-> "none"]
  /\ link = {} /\ led = 0 /\ left = FALSE
  /\ x_axis = 0 /\ y_axis = 0
  /\ moves = [p \in Peer |-> <<>>] /\ cut = [p \in Peer |-> 0]

-----------------------------------------------------------------------------
(* The set-up. *)

Goto(call) == pc' = call /\ UNCHANGED failures
Fails(call) ==
  failures < MaxFailures /\ failures' = failures + 1 /\ pc' = call

\* ESP_ERROR_CHECK aborts, and the chip starts again.
Aborts == Fails("nvs_flash_init")

\* Lines 151-156: a partition that is full or of another version is erased and
\* tried again, any other error aborts.
NvsFlashInit ==
  /\ pc = "nvs_flash_init"
  /\ \/ flash = "ok" /\ Goto("esp_bt_controller_mem_release")
     \/ flash = "full" /\ Goto("nvs_flash_erase")
     \/ Aborts
  /\ UNCHANGED <<flash, callbacks, init_evt, serverVars, pairing, linkVars,
                 dataVars>>

NvsFlashErase ==
  /\ pc = "nvs_flash_erase"
  /\ \/ flash' = "ok" /\ Goto("nvs_flash_init_again")
     \/ UNCHANGED flash /\ Aborts
  /\ UNCHANGED <<callbacks, init_evt, serverVars, pairing, linkVars, dataVars>>

\* The second nvs_flash_init, and line 158.
Checked ==
  /\ \/ /\ pc = "nvs_flash_init_again"
        /\ Goto("esp_bt_controller_mem_release") \/ Aborts
     \/ /\ pc = "esp_bt_controller_mem_release"
        /\ Goto(Calls[1]) \/ Aborts
  /\ UNCHANGED <<flash, callbacks, init_evt, serverVars, pairing, linkVars,
                 dataVars>>

Registers(call) ==
  CASE call = "esp_bt_gap_register_callback" -> {"gap"}
    [] call = "esp_spp_register_callback"    -> {"spp"}
    [] OTHER                                 -> {}

NextCall(i) ==
  IF i < Len(Calls) THEN Calls[i + 1] ELSE "esp_bt_gap_set_security_param"

\* Faulty: the stack is started before its callback is registered.
TryInitFirst(i) ==
  /\ pc = Calls[i]
  /\ \/ /\ Goto(NextCall(i))
        /\ callbacks' = callbacks \cup Registers(Calls[i])
        /\ init_evt' = (init_evt \/ Calls[i] = "esp_bluedroid_enable")
     \/ Fails("gave_up") /\ UNCHANGED <<callbacks, init_evt>>
  /\ UNCHANGED <<flash, serverVars, pairing, linkVars, dataVars>>

\* Faulty: a call that fails is only reported.
TryOn(i) ==
  /\ pc = Calls[i]
  /\ \/ /\ Goto(NextCall(i))
        /\ callbacks' = callbacks \cup Registers(Calls[i])
        /\ init_evt' = (init_evt \/ Calls[i] = "esp_spp_init")
     \/ Fails(NextCall(i)) /\ UNCHANGED <<callbacks, init_evt>>
  /\ UNCHANGED <<flash, serverVars, pairing, linkVars, dataVars>>

\* Lines 161-194: the first call that fails ends the set-up, and app_main goes
\* on without Bluetooth.
Try(i) ==
  /\ pc = Calls[i]
  /\ \/ /\ Goto(NextCall(i))
        /\ callbacks' = callbacks \cup Registers(Calls[i])
        /\ init_evt' = (init_evt \/ Calls[i] = "esp_spp_init")
     \/ Fails("gave_up") /\ UNCHANGED <<callbacks, init_evt>>
  /\ UNCHANGED <<flash, serverVars, pairing, linkVars, dataVars>>

\* Lines 196-209, whose results nobody looks at.
Parameters ==
  /\ \/ pc = "esp_bt_gap_set_security_param" /\ Goto("esp_bt_gap_set_pin")
     \/ pc = "esp_bt_gap_set_pin" /\ Goto("done")
  /\ UNCHANGED <<flash, callbacks, init_evt, serverVars, pairing, linkVars,
                 dataVars>>

SetUp ==
  \/ NvsFlashInit \/ NvsFlashErase \/ Checked
  \/ \E i \in 1 .. Len(Calls) : Try(i)
  \/ Parameters

-----------------------------------------------------------------------------
(* The callbacks: esp_spp_cb and esp_bt_gap_cb. *)

\* ESP_SPP_INIT_EVT; an event without a callback is lost.
InitEvt ==
  /\ init_evt
  /\ init_evt' = FALSE
  /\ IF "spp" \in callbacks THEN scan_mode' = TRUE /\ serving' = TRUE
                            ELSE UNCHANGED serverVars
  /\ UNCHANGED <<pc, failures, flash, callbacks, pairing, linkVars, dataVars>>

\* A phone that sees the car asks to pair; it may give up waiting.
AskToPair(p, method) ==
  /\ scan_mode /\ pairing[p] \in {"none", "refused"}
  /\ pairing' = [pairing EXCEPT ![p] = method]
  /\ UNCHANGED <<setupVars, serverVars, linkVars, dataVars>>

StopAsking(p) ==
  /\ pairing[p] \in Method
  /\ pairing' = [pairing EXCEPT ![p] = "none"]
  /\ UNCHANGED <<setupVars, serverVars, linkVars, dataVars>>

\* The code esp_bt_gap_pin_reply gives, and the one the log says to type.
PinReply(method) ==
  IF method = "pin16" THEN [i \in 1 .. 16 |-> 0] ELSE <<49, 50, 51, 52>>
PinShown(method) ==
  IF method = "pin16" THEN [i \in 1 .. 16 |-> 48] ELSE <<49, 50, 51, 52>>

\* Faulty: only pin codes are answered.
GapEvtPinOnly(p) ==
  /\ "gap" \in callbacks
  /\ pairing[p] \in {"pin4", "pin16"}
  /\ pairing' = [pairing EXCEPT ![p] = IF PinReply(@) = PinShown(@)
                                       THEN "bonded" ELSE "refused"]
  /\ UNCHANGED <<setupVars, serverVars, linkVars, dataVars>>

\* ESP_BT_GAP_PIN_REQ_EVT, CFM_REQ_EVT and KEY_NOTIF_EVT, and the AUTH_CMPL_EVT
\* that follows and is only logged, as is a passkey request, which the
\* capability set on line 199 does not give rise to.
GapEvt(p) ==
  /\ "gap" \in callbacks
  /\ \/ /\ pairing[p] \in {"pin4", "pin16"}
        /\ pairing' = [pairing EXCEPT ![p] = IF PinReply(@) = PinShown(@)
                                             THEN "bonded" ELSE "refused"]
     \/ /\ pairing[p] \in {"confirm", "notify"}
        /\ pairing' = [pairing EXCEPT ![p] = "bonded"]
  /\ UNCHANGED <<setupVars, serverVars, linkVars, dataVars>>

\* ESP_SPP_SRV_OPEN_EVT: the server asks for authentication.
SrvOpenEvt(p) ==
  /\ serving /\ pairing[p] = "bonded" /\ p \notin link
  /\ link' = link \cup {p} /\ led' = 1 /\ left' = FALSE
  /\ UNCHANGED <<setupVars, serverVars, pairing, dataVars>>

\* Faulty: the LED keeps its level.
CloseEvtLit(p) ==
  /\ p \in link
  /\ link' = link \ {p} /\ left' = (link' # {})
  /\ moves' = [moves EXCEPT ![p] = <<>>] /\ cut' = [cut EXCEPT ![p] = 0]
  /\ UNCHANGED <<setupVars, serverVars, pairing, led, x_axis, y_axis>>

\* ESP_SPP_CLOSE_EVT: the axes and the motors stay as they are.  Bytes under way
\* are lost.
CloseEvt(p) ==
  /\ p \in link
  /\ link' = link \ {p} /\ led' = 0 /\ left' = (link' # {})
  /\ moves' = [moves EXCEPT ![p] = <<>>] /\ cut' = [cut EXCEPT ![p] = 0]
  /\ UNCHANGED <<setupVars, serverVars, pairing, x_axis, y_axis>>

-----------------------------------------------------------------------------
(* The joystick. *)

Digits(n) == <<48 + n \div 100, 48 + ((n \div 10) % 10), 48 + (n % 10)>>

\* A byte the code skips, and both axes shifted by JOYSTICK_OFFSET.
Packet(position) ==
  <<0>> \o Digits(position[1] + 200) \o Digits(position[2] + 200)

\* The bytes of phone p that have not been handed over.
Pending(p) == PacketLen * Len(moves[p]) - cut[p]
Stream(p) ==
  LET Byte(k) == Packet(moves[p][1 + (k \div PacketLen)])[1 + (k % PacketLen)]
  IN  [k \in 1 .. Pending(p) |-> Byte(k - 1 + cut[p])]

ToInt8(n) == ((n + 128) % 256) - 128

\* Faulty: the axes are kept without a sign.
AxisUnsigned(d) ==
  ((d[1] - 48) * 100 + (d[2] - 48) * 10 + (d[3] - 48) - 200) % 128

\* Lines 75-76: three digits less HEX_OFFSET, in an int8_t.
Axis(d) ==
  ToInt8((d[1] - 48) * 100 + (d[2] - 48) * 10 + (d[3] - 48) - 200)

\* Digits beyond the end of the data are whatever is in memory there.
Decoded(data, from) ==
  IF Len(data) >= from + 2 THEN {Axis(SubSeq(data, from, from + 2))}
                           ELSE Garbage

SendPacket(p, position) ==
  /\ p \in link /\ Len(moves[p]) < MaxPackets
  /\ moves' = [moves EXCEPT ![p] = Append(@, position)]
  /\ UNCHANGED <<setupVars, serverVars, pairing, linkVars, x_axis, y_axis, cut>>

\* ESP_SPP_DATA_IND_EVT with the first n bytes.
DataIndEvt(p, n) ==
  /\ n \in 1 .. Pending(p)
  /\ LET data == SubSeq(Stream(p), 1, n) IN
       x_axis' \in Decoded(data, 2) /\ y_axis' \in Decoded(data, 5)
  /\ LET over == cut[p] + n IN
       /\ moves' = [moves EXCEPT ![p] =
                      SubSeq(@, 1 + (over \div PacketLen), Len(@))]
       /\ cut' = [cut EXCEPT ![p] = over % PacketLen]
  /\ UNCHANGED <<setupVars, serverVars, pairing, linkVars>>

Events(p) ==
  \/ \E method \in Method : AskToPair(p, method)
  \/ StopAsking(p)
  \/ GapEvt(p)
  \/ SrvOpenEvt(p)
  \/ CloseEvt(p)
  \/ \E position \in Position : SendPacket(p, position)
  \/ \E n \in Chunk \cup {Pending(p)} : DataIndEvt(p, n)

Next == SetUp \/ InitEvt \/ \E p \in Peer : Events(p)

\* app_main's task and the task that calls the callbacks run.  What the phones
\* do is left open.
Fairness == WF_vars(SetUp) /\ WF_vars(InitEvt) /\ \A p \in Peer : WF_vars(GapEvt(p))

Spec == Init /\ [][Next]_vars
FairSpec == Spec /\ Fairness

-----------------------------------------------------------------------------

\* Nobody can see the car before both callbacks are there to answer: the stack
\* makes the car discoverable from an event, while the set-up still goes on or
\* after it has ended early (lines 161-194, 47-52).
ServesWhenItCanAnswer ==
  /\ scan_mode => callbacks = {"gap", "spp"}
  /\ pc = "gave_up" => ~scan_mode /\ ~init_evt

\* Unless a call fails for good the car ends up waiting for phones, even if
\* the flash has to be erased first and however often the chip has to start
\* again: the event that opens the server is not missed (lines 151-194, 47-52).
EndsUpServing == <>[](serving \/ pc = "gave_up")

\* Every request to pair gets an answer, whichever way the phone asks
\* (lines 110-132).  It says nothing of which: a phone that asks for sixteen
\* digits is shown the digits of line 113 and refused by lines 114-115.
PairingIsAnswered ==
  \A p \in Peer : pairing[p] \in Method ~> pairing[p] \notin Method

\* The LED is never on without a phone, and with one connected it is dark
\* exactly when another has left since the last came: with two phones the LED
\* does not show that the other still drives the car (lines 59-62, 89-92: the
\* callback does not count the connections).
LedShowsTheLink == led = 1 <=> link # {} /\ ~left

\* Whatever pieces the stream came in before, a packet whose bytes begin the
\* data sets both axes to the position of the joystick (lines 75-76).
WholePacketsAreExact ==
  [][\A p \in Peer :
       p \in link' /\ cut[p] = 0 /\ Len(moves'[p]) < Len(moves[p])
         => <<x_axis, y_axis>>' = Head(moves[p])]_vars
=============================================================================
