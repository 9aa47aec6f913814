# A verification development for the ADAS car

The repository is a model car with an emergency brake.  A Raspberry Pi measures
how far the next obstacle is and decides between three states (0 normal,
1 warning, 2 automatic brake); an ESP32 drives the wheels from a Bluetooth
joystick and obeys the state.  This directory holds TLA+ models of the parts
that decide and act, TLC configurations that check them on small instances, and
theorems that TLAPS proves for every value of the constants.

    tlc -config VotingHistory.cfg VotingHistory.tla     # a run
    tlapm VotingProofs.tla                               # a proof

`PROJECT.json` lists the runs, the line of the source each definition
translates, the faulty variant that shows each property can fail, the hazards
and the findings.  Definitions marked "Faulty" in the modules are those
variants; no specification uses them.

## The system

```
 HC-SR04 x 2 --- GPIO ---> sensor_thread 0, 1 --+ lists under lock_0, lock_1
                                                |
 current_speed <-- get_speed_via_serial_thread  +--> get_median_distances_thread
       ^                                                  | "<state>_<index>", 9600 baud
       |  "%d.%04d\n"                                     v
 get_rms_task (ESP32) ---------- UART1 ------ get_ECU_serial_parameters_TASK
       ^ encoder interrupts                               | current_state, emergency_brake
       |                                                  v
 joystick -- Bluetooth --> esp_spp_cb -- mcpwm_motor_control --> MCPWM registers --> H bridge
                                                          |
                                 alarms_task ------------ BUZZER_GPIO
```

The firmware that matters is `src/ESP_IDF_CarControlESP32/main`, the Raspberry
Pi program `src/ECU_RASP/main.py`.  Their predecessors, `src/CarControlESP32`
and `sensor_ultrassonico.py`, spoke through two GPIO lines instead of the serial
line.  There are no tests in the repository, and its documentation is the
comments and the messages the programs print.

| Component | State it keeps | Operations | Interacts through | What is hard | What makes it correct |
|---|---|---|---|---|---|
| Vote (`main.py` 205-323) | `last_states`, `i`, `current_state` | one of six branches per median, write to the serial port, advance of the index | messages to the ESP32 | a ring whose marks outlive the road they come from; two kinds of alarm marks, counted differently | a lasting road is acted upon in time; no change without evidence |
| Sensor, median and speed threads (`main.py` 86-306, 325-356) | two lists, two locks, `current_speed`, the limits | append; median and clear; decide; read a speed | shared lists, locks, a global | the lists are read and cleared by another thread; a thread that raises an exception is gone and nobody notices | each distance counts once; either sensor brakes; no lock is kept |
| Ultrasonic sampling (`main.py` 122-178) | the three clock readings of a sample | trigger, two polling loops, two ways to give up | GPIO lines | polling with jitter, a sensor that does not answer or is still answering | the echo measured is the sample's own; the thread survives |
| Serial line (`main.py` 308-317, `uart_handler.c` 35-99) | bytes under way, the driver's buffer, `current_state` | write, read, the second a brake takes, start, reset | UART | no terminator: silence frames the messages; a backlog during each brake | the ESP32 catches up with the Raspberry Pi |
| Motor driver (`mcpwm_brushed_dc_control.c`) | the PWM registers | forward, backward, stop, `emergency_brake`, `mcpwm_motor_control` | registers shared by two tasks | each routine is many separate writes | never both inputs of a bridge; brake = pulse, then stop |
| ESP32 tasks (`uart_handler.c`, `bt_handler.c`, `main.c`) | `current_state`, the registers, the buzzer | a byte read, a joystick packet, a poll of the state | three tasks on two cores, nothing protected | a state checked once and acted upon over many writes | the brake wins in the end |
| Bluetooth (`bt_handler.c`) | how far the set-up is, callbacks, pairings, connections, LED, axes | the set-up call by call; pair, connect, data, close | callbacks in the stack's task, while the set-up still runs in `app_main`'s | a call that fails half-way; a stream cut anywhere; several phones | nobody sees a car that cannot answer; a packet is decoded to the joystick's position |
| Encoder and speed report (`encoder_isr.c`, `uart_handler.c` 50-68, `main.py` 86-96) | two pulse counters, the line, `readline`'s buffer | interrupt, periodic read, send and reset; read and convert | interrupt and task share the counters; a serial line | an increment torn by the reset; a line cut by a start | what is lost or counted twice is bounded; a whole line is exact |
| The whole car | all of the above, message by message | a sample, a read, a brake, a joystick command, stops and starts of both computers | | vote, backlog and restarts add up | a road that lasts is braked for, warned of or released within a bounded number of samples |
| First firmware (`src/CarControlESP32`, `sensor_ultrassonico.py`) | two lines, `current_status`, the buzzer, the axes, the PWM unit | two writes, two reads, a beep, a packet, a poll of the axes | lines and globals | a decision read in halves | the status was decided; the buzzer follows |
| LED task, camera demo, experiments | | | | keep no state, third-party or trials | not modelled |

## The modules

| Module | What it is |
|---|---|
| `SlidingVote` | abstract: a vote over a window of the last marks |
| `Voting` | the branches of `get_median_distances_thread` over the ring `last_states` |
| `VotingHistory` | `Voting` with the zones really measured as history variables, the properties about the road, and `IsSlidingVote`, which maps the ring to the window |
| `Ecu` | the threads of the Raspberry Pi: lists, locks, medians, limits, speed, exceptions |
| `Ultrasonic` | one sensor thread against the HC-SR04 |
| `MessageLink` | abstract: a line of whole messages of which the oldest is read |
| `UartLink` | the serial line and both its ends byte by byte; `IsMessageLink` maps it to the line of messages |
| `Mcpwm` | the motor driver: every routine a sequence of register writes and waits |
| `CarControl` | the three tasks of the ESP32 executing these routines one write at a time |
| `CarControlHistory` | `CarControl` with history variables for what has interleaved, and the safety properties |
| `BtHandler` | the Bluetooth set-up, the two callbacks, the phones and their packets |
| `EncoderCounter` | the interrupt handler and `get_rms_task` over the pulse counters |
| `Decimal` | numbers as text, as `sprintf` writes them and `float` and `atoi` read them |
| `SpeedReport` | `EncoderCounter` with the line it sends and the thread that reads it |
| `AdasSystem` | the whole car: an instance of `Voting`, an instance of `MessageLink`, the brake, the callback and the motors |
| `LedcMotor`, `FirstFirmware` | the motor driver and the tasks of the first firmware, and the script that drives the two lines |
| `MCCarControl`, `MCBtHandler`, `MCFirstFirmware` | instances for TLC, where a constant needs an expression |
| `VotingProofs`, `EcuProofs`, `UartLinkProofs`, `CarControlProofs`, `BtHandlerProofs`, `AdasSystemProofs`, `FirstFirmwareProofs` | theorems about the module of that name and those it is built on |
| `SensorProofs` | theorems about what the car measures: `EncoderCounter`, `SpeedReport` with `Decimal`, and `Ultrasonic` |

**Vote.**  A zone (near, mid, far: `less_distance` against the two limits) is the
input; each branch of the `if/elif/else` is an action (`Autobrake`,
`AlmostAutobrake`, `Collision`, ...), and `Record` is what all of them end in:
store the mark, send the state with the slot just written, advance the index
(lines 308-323).  Variables keep the source's names.

**Threads.**  `Ecu` has one action per section between two scheduling points
that others can see: acquire, append and release; acquire, take the median,
clear and release; each test of the speed.  `lock` records who holds it.  A
sample and its wait for the lock are one action: the distance is a local until
it is appended.  The tests of `current_speed` (lines 255-263) read the global
anew each time, so the speed may change between them.  The limits `AUTOBRAKE_DIST`
and `COLLISION_DIST` are assigned inside the function and so are local to it,
unbound until a stage matches: a first iteration at speed 80 or more ends the
thread with `UnboundLocalError`, which the model keeps as `median_alive`.
`float` of a truncated line ends the speed thread in the same way.  Distances are
doubled so that the median of an even list is an integer.

**Ultrasonic.**  Time is counted in ticks from `SampleStartTime`; every
iteration of a polling loop lets 1 to `Jitter` ticks pass, and the clock is read
somewhere within; so may the check after the loop.  The sensor is external: it
answers a trigger with an echo, does not answer, or ignores it because the last
echo is still on the line.  `whose` remembers which sample an echo answers.

**Serial line.**  The bytes of a message travel one by one; the driver's buffer
is abstracted to its first unread byte, because the task looks at `data[0]`
only and drops the rest.  `uart_read_bytes` returns 20 ms after the last byte,
which is `wire = <<>>` in `Read`; messages are at least 50 ms apart, so a task that is
waiting has read one before the next comes; the guard of `Write` says so, and
lets a message in beside one that waits only while `emergency_brake` runs or in
the 20 ms read right after it (`PilesUp`), which goes on as long as there is data.
`backlog` counts those that no read has taken.  `MessageLink` has one pending message in place of the bytes;
only the first thing read after a start may be junk.  The mapping `NextRead` is
the state that the next read will return.

**ESP32.**  `todo[t]` is what task `t` still has to execute of the routine it
has started.  A routine is chosen in one step, from the state read in that step
(`seen` for the joystick), and executed one library call at a time, so all
interleavings of the two cores at the level of register writes are explored.  A
wait (`vTaskDelay`) is a step without effect: how long it takes against the
other tasks is left open.

**Bluetooth.**  `pc` is the call `configure_bluetooth_and_events` makes next:
each may succeed or fail; a failure of one of the seven in `Calls` ends the
set-up, one of those under `ESP_ERROR_CHECK` before them starts the chip again,
and the results of the two after them are not looked at.  The callbacks run in another task, as soon as the calls that cause
their events have been made.  `moves` and `cut` stand for the bytes a phone has
sent that have not been handed over: positions of whole packets, and how much of
the first is gone.  `DataIndEvt` hands over a number of bytes and decodes bytes
1 to 6 of them, whatever they are and however many there are.  What the axes do
to the motors is `MotorControl` in `Mcpwm`.

**Speed.**  The handler's increment is a load and a store (`PulseLoad`,
`PulseStore`), for the counters are plain globals that a task on either core
reads and sets to zero.  `SpeedReport` adds the line, byte by byte, and the
thread that reads it: `Float` raises on what is no number, which ends the thread.
`Decimal` holds the conversions, character by character, because the property is
about them: `"%d"` of any number, `"%04d"` of the fraction, and the number that
digits mean.

**The whole car.**  `Sample` is one iteration of the median thread, a vote
(`V!Vote`) and its message (`Link!Write`); `Read` is the ESP32's task and, if the
state has become AUTOBRAKE, the first half of `emergency_brake`; `PulseEnds` and
`BrakeEnds` are the other two thirds.  The callback decides in one step and acts
in another, because that is the gap that matters; the register writes of a
routine, which `CarControl` interleaves, are one step here.  `Reset` and `Boot`
stop and start the ESP32, `PiStops` and `PiStarts` the Raspberry Pi, whose
restart clears the array.  `streak` and `lately` remember the road and the last
messages.

**First firmware.**  The script writes two lines one after the other; the
listener reads them one after the other; a line floats when the script has
ended.  `since` collects the decisions in force since the listener read the first
line.  `atoi` of three characters (blanks, a sign, as many digits as there are),
narrowed to an `int8_t`, is `SubstrToInt`; `MCFirstFirmware` evaluates examples;
`uart_read_bytes` overwrites as much of the buffer as has come (`Receive`).
`set_all_duty` reads the axes anew for each test of its four branches (`BranchX`,
`BranchY`, `NextBranch`), while the joystick task writes them one after the other.
It computes duties but writes 0 in all four branches (the computed ones are
commented out): the motors are modelled as the code has them.

## The runs

Passing runs:

| Run | Properties | What it shows |
|---|---|---|
| `voting` | `DecidesInTime`, `EvidenceForChange`, `IsSlidingVote` | Two samples more than the tolerated false alarms are enough to brake, warn or release, whatever marks earlier roads have left; no state changes without more than the tolerated number of samples for it; the ring is a sliding window. |
| `ecu` | `EverySampleCounts`, `EitherSensorBrakes`, `DiesAtOnceOrNever`, `KeepsDeciding` | The locks lose and duplicate no distance; an obstacle one sensor sees is decided upon whatever the other does, at any speed, alive or dead speed thread; the uncovered speed ends the thread in its first iteration only; no lock is kept. |
| `ultrasonic` | `MeasuresItsEcho`, `InRangeIsNotGivenUp`, `KeepsSampling` | A sample's own finished echo is measured to within an iteration at each end; an echo in range is never given up, although time passes between the end of a loop and the check that reads the clock again; a silent sensor does not hang the thread. |
| `uart_link` | `FramedBySilence`, `CatchesUp`, `EventuallyAgrees`, `IsMessageLink` | From the second read on the state is one the Raspberry Pi sent; after a state has been sent for as long as a brake takes, the ESP32 has it; a lasting state is adopted for good; the bytes are a line of whole messages. |
| `car_control` | `ForwardOnlyByStaleCommand`, `BrakesAsDesigned`, `NotDrivenBothWays`, `OnePulsePerAutobrake`, `EveryBrakeCutsOff`, `AutobrakeStaysCutOff`, `BuzzerFollowsState` | What the brake guarantees under all interleavings, and exactly which interleaving each guarantee needs excluded: a command decided before the change of state, a joystick write in the middle of the brake, two tasks amid writes at once.  Every brake has an instant at which no wheel is driven forward; with joystick packets still coming, a car that stays in AUTOBRAKE is cut off for good; the buzzer ends up following the state although two tasks write it. |
| `bt_handler` | `ServesWhenItCanAnswer`, `LedShowsTheLink`, `EndsUpServing`, `PairingIsAnswered`, `WholePacketsAreExact` | Whichever calls of the set-up fail, no phone sees a car without its callbacks, and the event that opens the server is not missed; every pairing request is answered; the LED is never on without a phone, and dark with one connected exactly when another has left since the last came; a packet at the head of the data is decoded exactly, whatever pieces came before. |
| `speed_report` | `TypeOK`, `PulsesAreAccountedFor`, `WholeLinesAreExact`, `StandingIsReported` | Pulses stored between the read and the reset are lost and a torn increment brings back the whole of what the last report counted, and nothing else goes wrong; a whole line arrives to the last digit and never ends the thread; a car that stands is reported to stand in the end. |
| `first_firmware` | `TypeOK`, `StatusWasDecided`, `BuzzerFollowsDecision`, `AxesAreOfTheirPacket` | Two lines written and read separately show no brake and no free road that was not decided, only a warning between the two; the buzzer ends up as the decision wants it; a whole packet is decoded whatever is left in the buffer. |
| `adas_system` | `TypeOK`, `ReactsInTime`, `RoadIsObeyed`, `StopsWithoutAPhone` | End to end: samples of one zone, as many as its tolerance and the backlog add up to, are acted upon (brake, warning or release), after any road, brake, stop or start; what a silent Raspberry Pi leaves behind is a state of the last second; a lasting road ends up in the ESP32's state; a car whose phone has gone is stopped by an obstacle that comes before it and stays, if it was not in AUTOBRAKE already. |

The type invariants of `Voting`, `Ecu`, `Ultrasonic`, `UartLink`, `CarControl` and
`BtHandler` are proved instead of run; so is `RemembersTheRoad`, which the two
bounds of the vote rest on.

Runs that end in a counterexample, each against a line of the repository:

| Run | The line says | The code does |
|---|---|---|
| `voting_tolerance` (`ToleratesFalseNormals`) | `main.py` 57: `COUNT_NORMAL_FALSE_ALARM` false alarms are tolerated before going back to normal | Normal marks from before the obstacle are still in the array of 20 when the brake comes after 7 alarms, so one far sample releases it.  The run uses the constants of the code. |
| `ultrasonic_given_up` (`GivenUpEchoesAreNotMeasured`) | `main.py` 154: a sample is given up and the next one begun | The echo given up is still on the line; the next sample finds it high at once and measures what is left of it: an obstacle out of range looks close. |
| `car_control_forward` (`NotForwardWhileBraking`) | `mcpwm_brushed_dc_control.c` 86 and 101: brake on, brake released | A joystick command decided on the old state writes its registers after the brake's stop: the wheels go forward while the brake holds. |

Three more disagreements that the models show and no run is spent on.  For a phone
that asks for sixteen digits `bt_handler.c` 113 logs `Input pin code: 0000 0000 0000
0000`, the digit zero sixteen times, and lines 114-115 reply sixteen bytes of value
zero: in `GapEvt` the reply is not the code shown and the phone is refused.
`PairingIsAnswered` asks for an answer only and does not call that one right.
`control.c` 181 prints `Andando!` (going) and all four branches that follow write a
duty of 0: no register of `LedcMotor` is ever anything else.  `main.c` 40 has the
task that would get there commented out, so the program as it is built does not show
it.  `mcpwm_brushed_dc_control.c` 86 turns the buzzer on for as long as the brake
lasts, and `alarms_task`, with a level from before the brake, can silence it
in the middle (`AlarmsPoll` before `UartByte`, its write after the first one of
`EmergencyBrake`); `BuzzerFollowsState` says nothing of a car in AUTOBRAKE.

What the passing properties permit, because the code does so and no line of the
repository says otherwise: a line of the speed that was cut is a wrong speed or
ends the thread that reads it (`WholeLinesAreExact` begins with the next whole
line); pulses are lost, and counted twice when an increment is torn
(`PulsesAreAccountedFor` says which); a joystick packet handed over in pieces, or
one decoded over the rest of another, moves the axes anywhere
(`WholePacketsAreExact`, `AxesAreOfTheirPacket`); the motors keep the last command
when the connection closes, and the ESP32 its last state when the Raspberry Pi
falls silent; two tasks amid their register writes can turn on both inputs of a
bridge (`NotDrivenBothWays` and `BrakesAsDesigned` exclude that interleaving and
say what holds without it); the second of two phones drives with the LED off.

### Bounds, and why they are enough

- `voting`: 8 slots with tolerances 3, 2, 2 instead of 20 with 6, 4, 4.  The
  window is longer than every tolerance plus two, the order of the tolerances is
  the code's, and the index wraps.  The theorems below hold for all sizes.
- `ecu`: a near and a far distance whose mean is between the two limits, a
  covered and the uncovered speed (24 and 80), and `MaxSamples` = 2 distances a
  sensor appends between two medians: empty, odd and even lists.  `MaxSamples` is
  the only artificial bound.  Deadlock is not checked, because the system really
  stops when both sensors have reached it and the median thread and the speed
  thread have ended.
- `ultrasonic`: limit 10, jitter 2, delay 2 and echoes of 1, 2, 3, 5 and
  15 ticks: shorter than an iteration, in range, too close to the limit to be
  sure of (2 + 5 and two iterations are more than 10), and longer than the
  limit.  `since` stops counting at `LastTick`, one iteration past the limit,
  where every guard that reads it has settled.
- `uart_link`: `BrakeMessages` = 3 stands for the 20 to 22 messages that come
  within the second of a brake and the read that follows it; a backlog has an oldest, a middle and a newest message.  `Index` has a
  one-digit and a two-digit slot, so messages of both lengths are read from any
  of their bytes.  `reads` and `run` stop counting where the properties stop
  asking.
- `car_control`: the bytes '0', '1', '2' and '_' (decoded to 47, a state no case
  handles), and joystick positions to the left, back, and at the edge of the dead
  zone of both axes, where the wheels are driven by what the edge decides.  The
  search `car_control_forward` adds ahead and right.  The history variables are
  booleans and the routines finite, so no other bound is needed.  The theorems
  hold for every position.
- `bt_handler`: two phones, so that one can leave the other; the positions
  (100, 57) and (0, -100), both ends of an axis; `Chunk` = {3} beside all that is
  there: pieces end inside an axis and before the next, and a packet can come
  with the rest of the last one.  `MaxPackets` = 2 of a phone under way,
  `MaxFailures` = 2 failing calls: one that starts the chip again and one that
  ends the set-up.  Digits that have not come decode to -128.  Deadlock is not
  checked: a set-up that has given up is final.
- `speed_report`: `MaxCount` = 2 pulses of a wheel between two resets, so that an
  increment has an older pulse to bring back; the real 40 pulses and 21.3628 cm,
  so that the fractions have zeros to be padded; a line is cut once at most.
- `first_firmware`: a packet of axes -50 and -80, and its last three bytes, which
  mix with the old buffer: a centred x after a whole packet, 76 and 56 before the
  first.  With the half-decoded ones these axes reach every test of every branch.
  The buffer begins with zero bytes.
- `adas_system`: an array of 3 with tolerances 1, 0, 0, a backlog of 3, junk
  bytes that decode to 2 (a digit of the index, which brakes) and 47.  The order
  of the tolerances is the code's.  The theorem `AdasSystemReacts` holds for all
  of them.

### Fairness, and why the code justifies it

- `CarControl`: weak fairness of every task's next library call and of
  `alarms_task`'s poll.  The tasks are created at the same priority, the tick
  slices time between them, the Bluetooth host runs on core 0 at a higher
  priority and sleeps between packets; `alarms_task`, which spins in states
  without a case, is preempted, and the build (`-Og`, `sdkconfig`) keeps its
  loop reading `current_state`, which is not `volatile`, from memory.  Nothing is
  assumed about bytes and packets arriving, except where a property names it
  (`JoystickGoesOn`).
- `BtHandler`: `app_main`'s task and the task that calls the callbacks run, so
  the set-up, the initial event and each pairing request go on.  What the phones
  do is left open.
- `SpeedReport`: the task, the handler's second step and the line go on.  Pulses,
  the start of the reader and resets are not assumed.
- `Ecu`: weak fairness of each sensor thread and of the median thread.  The
  interpreter passes from thread to thread; the polling loops and the sleep of
  the median thread let every other thread run.  The speed thread is not
  assumed to run: the line may be silent.  `Lock` has no fair queue, and none is
  needed: within the bound the median thread finds the lock free in the end.
- `Ultrasonic`: the thread runs.  That the sensor answers is not assumed.
- `UartLink`: the line delivers, the two threads run, the ESP32 is switched on
  after a reset.  Resets themselves are not fair, and `EventuallyAgrees` only
  speaks of behaviours in which they stop.
- `AdasSystem`: the median thread samples, the task reads, a brake and a callback
  that have begun go on.  That a computer starts again, and that the joystick is
  used, is not assumed.
- `FirstFirmware`: the listener and the buzzer task run, and the script does what
  it has decided to.  That the listener runs rests on the second core: with the
  100 ticks a second of `sdkconfig`, `vTaskDelay(5 / portTICK_PERIOD_MS)` waits for
  no tick at all, so `buzzer_TASK` (priority 3) never leaves its core to the listener
  (priority 2); neither is pinned, and the listener has the other.

## What is proved

Each module `...Proofs` types the state first, strengthens the properties to an
invariant (`IInv`, `RoadInv`, `LinkInv`, `AccountInv`, `LineInv`, `FirstFirmwareInv`)
and has one step per action under it.  Beside the assumptions on the constants
that the modules name, which TLC evaluates in the runs, nothing is assumed.  The
strengthening is what the property leaves unsaid:

**Vote** (`VotingProofs`; any size, any natural tolerances, and where the road is
concerned tolerances at least two below the size, as 4 and 6 are below 20).
`VotingTypeCorrect`: the index never leaves the ring.  `VotingRefinesSlidingVote`:
`Spec => IsSlidingVote`; `SlotOfAge` is a bijection between ages and slots, so
counting slots is counting ages (`CountIsMarks`), and `Record` pushes one mark
(`RecordPushes`).  `VotingDecidesInTime` is not inductive, for it says nothing
about the array: `RoadInv` adds `RemembersTheRoad` (`VotingRemembersTheRoad`), slot
by slot the mark is one the sample of that age can have left; a run of n samples
then leaves n marks (`RunLeavesMarks`).  `VotingNeedsEvidence` reads the same
invariant the other way (`MarksHaveSamples`).

**Motors** (`CarControlProofs`; any bytes, any commands of two `int8_t`).
`CarControlTypeCorrect`: only calls the driver has, with duties it accepts.
`OnlyStaleCommandsDriveForward`, `UndisturbedBrakeBrakes`, `OneRoutineOneWay` and
`NoSecondPulse` are the four safety properties of the run.  The invariant
describes what is left in `todo`: it is the end of a routine of its task
(`Queues`); every call that turns an input on comes after one that turns the
opposite input off (`Apart`), and a queued command decided on AUTOBRAKE will
undo what a stale one has done (`Repairing`); a brake is at a known call, and
what the registers hold there follows from the calls before it (`CutOff`,
`BrakeInOrder`, call by call in `BrakeTable`).

**Serial line** (`UartLinkProofs`; any slots, any backlog of at least one).
`LinkTypeCorrect`; `SilenceFrames`: from the second read on what waits begins a
message (`BeginsMessage`); `BrakeIsCaughtUp`: if all that waits is of one state, so
is the oldest (`OldestIsSent`); `LinkImplementsMessages`: every step of the bytes is
a step of `MessageLink` or leaves it unchanged.

**The whole car** (`AdasSystemProofs`; any array, tolerances at least two below its
size, any backlog, any junk bytes).  `AdasSystemTypeCorrect`, and
`AdasSystemReacts`: a near road is braked for, one in between is warned of and a
far one releases the car within its tolerance, one, and backlog samples; and a
silent line leaves one of the last states behind.  `StreakMarks` relates the
streak to the marks in the ring, read backwards from its index (`SlotBack`): n
samples of a zone have left n marks of it, so a streak longer than the tolerance
has been counted (`StreakCounts`) and decided upon (`StreakDecides`).  `LineFollows`
relates the decisions to what waits in the line, also in the middle of a
backlog; `WaitingIsRecent` what waits to the last messages.

**Threads** (`EcuProofs`; any distances, speeds and bound).  `EcuTypeCorrect`,
`EcuCountsEverySample`, `EcuDiesAtOnceOrNever`, `EitherSensorIsEnough`.  `Locked` says
that the lock is held by the thread whose section it is, `DecidedWithLimits` that
nothing is decided before a stage has matched.

**Ultrasonic** (`SensorProofs`, of `SampleSpec`; any limit, jitter, delay and echoes).
`UltrasonicTypeCorrect`, `UltrasonicMeasuresItsEcho`, `UltrasonicKeepsItsEcho`.  `Timed`
ties the echo on the line to the clock of the sample that caused it.

**Speed** (`SensorProofs`; any bound, any pulses a revolution, any wheel).
`ReportsAreAccountedFor`, and `SpeedReportsAreAccountedFor` with the line around it:
what the handler has loaded is still the count (`LoadedIsCount`), or the one the
reset has wiped out (`LoadedIsOld`).  `SpeedReportTypeCorrect` and
`WholeLinesGiveTheSpeed`, for speeds of any number of digits, from `LineInv`: a newline
is only ever the last byte of the wire, and what has come of a line that was not
cut, followed by what has not, is the line that was sent (`NothingMissing`).  That the
line is read to the last digit is arithmetic about recursive functions: they are
shown to exist (`ValuesExist`, `TextsExist`: the prefixes for which such a function
exists are all of them), then to obey their equations (`NumberValue`, `NumberAppend`),
and `DecimalNumber` says `Number(Decimal(n)) = n`, `PaddedNumber` the same of four
places, `Converted` that `Float` of the text of a speed is the speed.  The library's
induction theorems cannot be used, so `ByInduction` derives induction over a *set*
of numbers from the least number of its complement (`LeastNumber`, from
`WFMin`).

**Bluetooth** (`BtHandlerProofs`; any phones, positions of two `int8_t`, pieces and
failures).  `BtHandlerTypeCorrect`, `BtServesWhenItCanAnswer`, `BtLedShowsTheLink`,
`BtWholePacketsAreExact`.  `Registered` derives the callbacks from `pc`; `DigitsSay` is
the arithmetic of the three digits.

**First firmware** (`FirstFirmwareProofs`; any bytes in the buffer, any packets that
are not empty).  `FirstFirmwareTypeCorrect`; `StatusIsDecided`: `StatusInv` says which of
the two lines shows the last decision and which still the one before, and that
the listener only goes on to the second line after a moment at which the car was
not to brake; `AxesFollowTheirPacket`: `JoystickInv` ties buffer, last packet and axes
together, over the axis that is decoded next, and `SubstrToIntMeant` is what `atoi`
makes of three digits (`LeadingExists` and `AtoiIsInt` also type it for every other
byte).

Model-checked only: all liveness (it needs fairness and ENABLED, about which TLAPS
cannot reason here): `KeepsDeciding`, `KeepsSampling`, `EventuallyAgrees`,
`EveryBrakeCutsOff`, `AutobrakeStaysCutOff`, `BuzzerFollowsState`, `EndsUpServing`,
`PairingIsAnswered`, `StandingIsReported`, `RoadIsObeyed`, `StopsWithoutAPhone`,
`BuzzerFollowsDecision`.  Every safety property that a passing run
checks is also a theorem.  The three searches that end in a counterexample stay
with TLC.

## Not modelled, and why

- The camera thread, switched off by `ACTIVE__CAMERA`; the debug branch of
  `sensor_thread`, which invents distances.  `main.py` 316 writes to the port
  under `if not __debug__`, that is with `python -O` only; the models are of a
  program started that way.
- Lines 72-77 of `encoder_isr.c`, an edit that does not compile: `get_rms_task` is
  modelled without them.  The last digit of the speed, which the rounding of a
  float may change, is modelled as exact.
- `blink_task` of both firmwares (keeps no state), `test_emergency_brakes` (never
  called), the start-up of the peripherals beyond the values it leaves behind.
- `ultrassonic_plus_encoder.py`, which repeats the loop of
  `sensor_ultrassonico.py` and prints what it counts; the timing of the echo in
  both, which is that of `Ultrasonic` without a limit.
- Camera demo, experiments, `.pio`, `sdkconfig`: third-party or generated.
- One hazard has no property: both sensors silent count as a free road
  (`main.py` 229-244).  The code decides so on purpose, and no line of it says
  otherwise.
