# A TLA+ model of the RoomSec gateway

The gateway (`src/src/cpp/`) controls one door: it scans a finger, asks an
authentication and an authorization server, releases the door strike for a few
seconds, watches whether the door is left open, counts the people who pass and
tells all of this on a small display with a buzzer. It runs on a Raspberry Pi,
one thread per concern, over devices the threads share. This directory models
what is hard to test in it, checks the models with TLC and proves the main
results with TLAPS.

`tlc -config X.cfg M` runs a check, `tlapm M_proofs.tla` a proof; `PROJECT.json`
lists every run, theorem, and the source lines of every definition.

## 1. Inventory

### Threads

`main` builds everything in `buildStdGateway` (main.cpp:218-318), and
`StdGateway::operator()` (stdgateway.cpp:104-126) starts three threads and joins
them. None ever ends: the `stop` flags are set nowhere.

| thread | code | calls |
|---|---|---|
| Ui | `Ui::operator()` | Queue, LCDDisplay (over IOExpander), Buzzer |
| door | `DoorStateController::operator()` | DoorStateSensor, TailgateAnalyzer, Ui (message, startAlarm, stopAlarm) |
| fingerprint | `FingerprintController::operator()` | FingerprintScanner, the two servers, Lock (over IOExpander), DoorStateSensor, Ui (message) |

### Components

| component | state | operations | what is hard | what makes it correct |
|---|---|---|---|---|
| FingerprintController | the attempt's credential and reply, the time of the release | one loop: scan, authenticate, authorize, hold, relock | exceptions, late wake-ups, wall clock steps, door moves between polls, a crash in the hold | the strike is released only for a granted user, for a bounded time, and engaged again; one verdict per completed attempt |
| Lock | cached `state` | constructor, `setState` | writes only on a change, so a wrong cache swallows an order | the cache is the pin's level |
| IOExpander | cached bytes `gpioa`, `gpiob`, device registers | `initialize`, `makeHigh`, `makeLow` (`setRW`, `getRW`, `send`, `read`) | two threads, no lock: read-modify-write race, reordered bus writes | a call changes its pins and no others |
| LCDDisplay | none but the device's | `initialize`, `setBacklightPins`, `putStr`, `clear`, `home`, `setBacklightColor` as pin sequences | nibbles over the racing expander; a process that dies in the middle of a byte | every byte arrives whole; a boot brings the device back into step |
| Ui | `alarmOn`, `alarmMessage`, the queue | `message`, `startAlarm`, `stopAlarm`, the thread's loop | a mutex and a queue with its own mutex; changes while a message is shown | no change of the alarm is lost, no torn alarm |
| Queue | `std::queue`, mutex, condition variable | `push`, `front_pop` (`front`, `back`, `pop`, `empty` unused) | lost and spurious wake-ups | a first-in first-out queue of atomic calls |
| Buzzer | `state` | `on`, `off` | – | – |
| DoorStateController | `state`, `alarmOn`, `doorOpenTime` | one cycle per 10 ms | sampling, wall clock, a boot with the door open | the alarm starts and stops in time; session and messages follow the door |
| DoorStateSensor | `state` under a mutex | `getDoorState` | called by two threads | a call returns the door as it is |
| TailgateAnalyzer | `sessionRunning`, `results` | `beginSession`, `update`, `finishSession`, `getResults` | called out of session; uninitialized results | reports the last session |
| BlockAnalyzer | `rawStreams`, `zeroCount`, `blockages`, `monitoring`, `firstRun` | `beginMonitoringSession`, `update`, `endMonitoringSession`; smoothing, blocks, peaks, pairing | streams cut in the middle of a session; reads past the end of vectors | each reading analyzed once, a passage not cut in two, peaks counted once |
| MCP3008BlockSensor | last reading and value | `getSensorValue` | a cache; conversion to whole volts | it answers with the value of this reading |
| FingerprintScanner | device handle, async flags | `scanFingerprint`; asynchronous interface without a caller | an error repeats the loop for ever | a scan returns |
| server adapters | thrift transport | open, call, close | – | – |
| main, StdGateway | – | `initHardware`, `buildStdGateway`, start and join of the threads | each step can end the process; errors that cancel out | all threads run, or none; the devices tell the state of this process, not of the last |
| ReplGateway, options, logging | – | – | – | – |

## 2. The modules

Each component module holds the state, one action per operation or step, the
properties, and *fault* operators (`... \* Fault:`): mutated forms of an action,
used by no specification, with which each property is shown to be breakable.

| module | models | checked by | proofs |
|---|---|---|---|
| `Gateway` | main.cpp, stdgateway.cpp, the calls between the threads; composes `Ui` and `DoorStateController` | `MCGateway` | `Gateway_proofs` |
| `FingerprintController` | fingerprintcontroller.cpp, lock.cpp | `MCFingerprintController` | `FingerprintController_proofs` |
| `DoorStateController` | doorstatecontroller.cpp, the session flags of tailgateanalyzer.cpp | `MCDoorStateController`; as the abstract specification in `MCGateway` | `DoorStateController_proofs` |
| `Ui` | ui.cpp, buzzer.cpp | `MCUi`, `MCGateway` | `Ui_proofs` |
| `MessageFifo` | what queue.h promises (abstract) | through `MessageQueue` | |
| `MessageQueue` | queue.h; implements `MessageFifo` | `MCMessageQueue` | `MessageQueue_proofs` |
| `IOExpander` | ioexpander.cpp with lock.cpp, any calls of the display | `MCIOExpander` (violations), `MCLCDDisplay` | `IOExpander_proofs` |
| `LCDDisplay` | lcddisplay.cpp over `IOExpander`, and the device | `MCLCDDisplay` | `LCDDisplay_proofs` |
| `BlockAnalyzer` | the monitoring session of tailgateanalyzer.cpp and blockanalyzer.cpp | through `TailgateMonitor` | `TailgateMonitor_proofs` |
| `PassageAnalysis` | the signal processing of blockanalyzer.cpp, as operators | through `TailgateMonitor` | `TailgateMonitor_proofs` |
| `MCP3008BlockSensor` | mcp3008blocksensor.cpp, as operators | through `TailgateMonitor` | `TailgateMonitor_proofs` |
| `TailgateMonitor` | the session with the sensors and the analysis; extends the last three | `MCTailgateMonitor` | `TailgateMonitor_proofs` |

How the models stand to each other:

* `MessageQueue` implements `MessageFifo`; `Ui` uses the queue as a sequence changed in
  one step.
* `Gateway` runs the Ui thread of `Ui` beside a door thread that makes its calls one by
  one, and implements `DoorStateController`, in which a cycle is one step (theorem
  `DoorImplemented`): what is proved of the latter holds of the composition.
* `LCDDisplay` and `TailgateMonitor` extend `IOExpander` and `BlockAnalyzer` with the data
  these abstract from, and implement them (theorems `ImplementsExpander` and
  `ImplementsSession`): what is proved of the small modules holds of the large ones.
* `FingerprintController` lets the calls of the expander take effect; what the race does to
  them is the subject of `IOExpander` and `LCDDisplay`. `DoorStateController` keeps of the
  analyzer only whose session a result belongs to, `BlockAnalyzer` what the result is made
  of, `TailgateMonitor` what it counts.

### FingerprintController

`pc` follows the statements of the loop: `scan`, `authn` (in `authenticate`),
`authz` (in `authorize`), `hold` (lines 103-120). `Grant` is line 99 to the
first sleep, `KeepHolding` and `Relock` evaluate the loop's condition when a
sleep is over, `Throw` is an exception out of a server call: an `int` is caught
and reported, anything else ends the process without running destructors. `Kill`
is the death of the process for any other reason, `Boot` the constructors.
Messages to the Ui are kept by type in `told`, per attempt. The stop flag and the
destructor are left out, since nothing stops the thread.

Time: `Tick` is a tick of real time in the hold. A sleep of `n` ticks ends after
`n`, and at most `MaxLate` later. `skew` is how far the wall clock, which the code
reads with `system_clock`, was stepped since the release, at most `MaxSkew` either
way. Ticks outside the hold would change nothing.

### IOExpander

The byte of a bank is the set of its high pins. A call is four steps: `Load` (read
and change in a register), `Store`, `Argument` (the byte is read again for the call
of the bus write, or, as the compiler may, not) and `Write`. `want` and `sure` are
history variables: what was last asked of each pin, and which pins were last asked
for by a call that had its bank to itself. A concurrent pair of calls makes the pins
of both unsure, until asked for again. `BootCall` and
`DisplayCall` are any calls on display pins. `Written` knows that
`initialize` writes to the address in place of the descriptor, which the bus refuses.
The direction registers are left out: every pin the gateway drives is an output in
all of them except for the mask that `setBacklightPins` computes from uninitialized
memory.

### LCDDisplay

`todo` is what is left of the display operation the Ui thread is in, as calls of
`makeHigh` and `makeLow`; pins keep their numbers, a nibble is the set of its high pins.
`lcd` is the device: whether it takes bytes or nibbles, and the half of a byte it has. `React` lets
it latch a nibble when the enable pin falls; if other pins change in the same write the
device may see them before or after. A process may die between any two steps, and the
device keeps its state. Once two calls on the display's bank have overlapped, the device is
not followed until the next boot (`disturbed`), which then finds it in any state; what the
overlap does to the pins remains the subject of `IOExpander`. The delays and the busy time of the
device are not modelled.

### DoorStateController

One action per pair of sampled states, each with all it calls, and `Cycle` for what
every cycle does. `nap` and `since` are the real time since `startTime` and
`doorOpenTime`, and `napSkew` and `openSkew` the clock's skew at those readings, so
that the code's differences are `nap + skew - napSkew` and so on. `sleep_until`
is over when either the clock has reached the point or the duration computed once
is over: which of the two a library does is left open. `bootedOpen` and the
counters `still`, `seenOpen` are history. Results are abstracted to the session they
are of: `garbage` (uninitialized), `current`, `previous`.

### Ui

The Ui thread's steps are those between which another thread can be seen: taking the
mutex, drawing the default screen and releasing it, taking a message, the end of each
beep, the end of a message. Callers of `startAlarm` and `stopAlarm` take the mutex,
set the flag, set the text, push, and release, a step each. `PopMessage` is
lines 161-184 with the presentation by type: `info` is silent, `error` beeps
twice, the others once. The `default` branch (lines 191-196) cannot be reached with the
types there are.

### MessageQueue and MessageFifo

`MessageFifo` says what a caller may rely on: a call takes effect at one instant
between call and return. In `MessageQueue` a push takes effect at `queue.push`, a
front_pop where it takes the front; `CallPhase` is the refinement mapping. `notify_one`
wakes any one sleeper, which must take the mutex again, and a sleeper may wake for no
reason.

### BlockAnalyzer

A reading is its number; what it read is abstracted to dead or not (all sensors zero),
and an analysis to the stream it is of, so that `blockages` is a sequence of sets of
readings. `Update` is one call of `update`: it adds a reading and, when that makes
`ZeroCutOff` dead ones in a row, analyzes the stream and starts another.

### PassageAnalysis and MCP3008BlockSensor

Operators, one for each function of blockanalyzer.cpp:118-430 and for `getSensorValue`. The code
reads past the end of `raw`, `flooredRaw` and the vectors of points; `At` takes
what it finds there from a parameter. Weights are positive integers and the
division by their sum is left out: only the order of smoothed values and whether they are
zero is used. `SumOf` is a recursive function. The points of a stream are a set: their times
differ, so that the loops of `analyzeStreams`, which pass from peak to peak, find the
peaks by their numbers in time. Both streams are searched equally often, and the last
search (`LastSearch`) is the first that passes the end of one. The readings of the converter that make one,
two and three whole volts are named by the first of each (409, 697, 951).

The braces of `simplifyStreams` (blockanalyzer.cpp:396-421) do not balance. Both places
where one may be missing give the same function, which is what `BlockPoints` defines.

### TailgateMonitor

Each action is the one of `BlockAnalyzer` with the streams of the two sensors (`values`), their
objects (`sensors`), the triples found so far and the reported sum. Every analysis
chooses a memory (`Memories`) that lies behind its vectors. `Sample` takes a pair of readings
from `Scenes`.

### Gateway

`stage` is where main is. `InitHardware` has the two tests as they are: `HardwareStatus`
fails for every descriptor other than 0, and main goes on after a failure (see section
5). `Build` ends the process by an assertion without a scanner. The door thread
(`doorPc`) makes the calls of a cycle in order: a message is one step, `startAlarm` and
`stopAlarm` are the steps of `Ui`. Its local `alarmOn` is `doorAlarm`, and `Ordered` maps what it has
told the Ui so far to the `uiAlarm` of `DoorStateController`. The fingerprint thread is what
others notice of it: its messages, and `Die`, when one of its exceptions ends the process.
Then memory is gone, and buzzer and screen stay as they are. The wall clock is steady here
and lateness zero; `door_alarm` lets both vary.

## 3. Runs

| run | bounds | shows |
|---|---|---|
| `entry` | 2 users, an `int` and a thrift exception, hold of 4 ticks, first sleep 2, period 1, lateness 1, skew 2 | all properties of the fingerprint thread |
| `network_error` (violation) | as `entry` | a thrift exception is not the `int` the handler of "Network Error" catches, and ends the process |
| `expander` | main's wiring: 7 pins of bank A, 3 of B, Ui and fingerprint thread; one character, one command, one colour | what holds in spite of the race; a boot resynchronises the display; bytes arrive unless calls overlap |
| `expander_race` (violation) | 2 banks, 3 pins, 2 threads | a locked Lock with its pin high: the Ui's byte overwrites the lock's |
| `expander_init` (violation) | the same | `initialize` does not "set all pins to write 0" |
| `door_alarm` | alarm after 4 ticks, period 1, lateness 1, skew 1 | all properties of the door thread |
| `door_report` (violation) | the same | a boot with the door open reports results no session wrote |
| `ui` | 2 threads with the alarm, 3 types, 3 messages | all properties of the Ui, with liveness |
| `queue` | 2 producers, 2 consumers, 2 messages, 3 queued | no lost wake-up; implements `MessageFifo`, with liveness |
| `session` | 7 readings, cut-off 3, frame 3, 3 scenes, 2 memories | the session is exact, peaks are counted once, short passages in their direction |
| `passage_missed` (violation) | the same | a person who blocks each beam for two readings is not reported as one inward passage |
| `gateway` | alarm after 1 tick, period 1, `info` and `warning`, 3 queued | start, crash and restart of the whole process; the alarm end to end, with liveness; implements `DoorStateController` |

Why the bounds are enough. The timings are small but keep the order they have
in the code (no order between the longest clock step and the hold is assumed; a skew
may be up to half the hold), and the bounds the properties state are formulas over the
constants, proved for all of them. Two users and two exceptions are one more than is
needed to tell them apart. Three pins on a bank give two for one thread and one for
the other, and every subset of pins and every initial register value occurs. One
character and one command with both halves different show an exchange of halves and of the
register select; what a byte says is not looked at. Two
callers of the alarm are one more than the gateway has. Two consumers are one more
than the gateway has and the least with which `notify_one` can wake the wrong one.

Seven readings with a cut-off of three allow two cuts, or two people who pass both beams one after
the other within one stream, so that two short passages of each sensor are paired; the number of sessions is not limited. The frame of 3 in place of 11 drops one
reading at each end of a stream in place of five, so that the edges are met within the bound.
A scene blocks at most one beam, with two levels of blocking; the memories are zeros
and a blocked beam with a peak, everywhere. Memory is never negative and a vector is
never moved while it is read. Two kinds of messages are all that `Ui` tells apart here
(silent, beeping), and three places in the queue hold what one closing under
alarm sends. The
bounds that are the model's and not the code's (`QueueBound`, `Bound`, `MaxReadings`,
`Cap`) stand in guards or stop a counter; the inductive invariants do not depend on
their values. `QueueBound` in `Gateway` keeps room for what the door thread has to send (`Due`):
it holds back the fingerprint thread's messages and the door, never the door thread.

Liveness and fairness. `HoldEnds` (a released strike is engaged, unless the process
dies) assumes that time passes and that a thread whose sleep is over is scheduled.
`AlarmSounds` and `AlarmStops` assume weak fairness of every step a thread can take by
itself, and strong fairness of taking the mutex: nobody sleeps with it, and the door
thread, which uses the alarm, sleeps 10 ms between two calls, so a waiting thread finds
it free again and again. The queue assumes the same of its mutex. In `Gateway`, main, the
door thread, the Ui thread and time are fair in this sense; the fingerprint thread has no fairness
at all, since it may wait for ever for a finger, a server, or a scanner that is gone
(fingerprintscanner.cpp:110), and `AlarmFollowsDoor` holds regardless. Fairness is part of
`Spec`; no safety theorem uses it.

## 4. What is proved

All theorems hold for every value of the constants allowed by the named assumptions of
their module, which TLC evaluates in the runs: the order and the signs of the timings
(`TimingAssumption`), who drives which pin (`WiringAssumption`, `DisplayAssumption`, with
commands that do not set the display's 8-bit mode, as the code's do not), that the gateway's
own messages are among the types and the queue holds two (`MessageAssumption`), that the
frame is odd and longer than one (`WeightAssumption`), and that what lies behind the points
of a stream has a number for its time (`SensorAssumption`).

* **FingerprintController_proofs** – `TypeCorrect`; `StrikeSafe`,
  `LockMirrorsPinSafe` and `TerminatedLockedSafe` by an invariant that adds that outside the hold the
  strike is engaged whenever the process lives, and that a hold implies a granted reply
  and a known user; `HoldSafe` and `OpenDoorRelockedSafe` by an invariant that
  relates `held` to the sleep under way: when the loop last slept, the clock read less
  than the duration. `OneVerdictEach`, an action property, needs what has been told and
  replied at each point of the control. It covers the attempts the process does not survive as
  well: those have told no verdict, or the success of the hold.
* **IOExpander_proofs** – `SettledCallsObeyed`, `SettledLockSafe`, `SoleBankSafe`. The
  invariant says for each sure pin what cached byte, register and every register copy
  in flight hold of it: a concurrent call on other pins copies the pin as it is. One
  lemma per step of a call.
* **LCDDisplay_proofs** – `ImplementsExpander`: every step of the display with its device
  is a step of `IOExpander` or leaves it alone, because all calls left of an operation are on
  display pins (`TodoInv`). The three results above are carried over by it
  (`DisplaySettledPinsHold`, `DisplaySettledLockObeyed`, `DisplaySoleBankExact`);
  `DisplayTypeCorrect` adds the device. `BootSyncs` (BootResyncs) and `BytesDelivered`
  (BytesArrive) follow the device through the calls: what is left of an operation, what the
  calls before made of the pins, and what the device made of those go together, for a nibble
  (`NibbleAt`), a byte (`ByteAt`), the boot (`BootAt`) and any number of bytes (`RunAt`). A
  call of the display moves all three to the next place, and a call of the lock none. In the boot
  the device starts in any state: after the first function set it has obeyed or holds
  half a byte, and after three it takes bytes (`SyncAt`). `CopyInv` says that the cached
  byte of the display's bank is the register's as long as no two calls have overlapped on
  it. The invariant is `CallersInv /\ CopyInv /\ ProtocolInv`.
* **DoorStateController_proofs** – `SessionSafe`, `ReportsFresh`, `AlarmInTime`,
  `AlarmStops` (here a bound on the time, AlarmStopsInTime), `AlarmNeverEarly`. The time
  invariant relates the real time since the door moved to the time since the last
  sample and since `doorOpenTime`.
* **Ui_proofs** – `TextSafe` needs that the mutex is held exactly by the thread in the
  critical section and that flag and text agree whenever it is free; `IdleSafe` that a
  change of the alarm is followed by a message. The step of each invariant is a lemma of its
  own, which `Gateway_proofs` uses again through an instance.
* **MessageQueue_proofs** – `WakeUpsKept` by counting: the queue is no longer than the
  consumers on their way plus the pushes yet to notify, while a consumer sleeps. This is
  inductive as it stands. `ImplementsFifoSafely` is the step simulation of `MessageFifo`.
* **Gateway_proofs** – The invariant has five parts: the stage of main (`MainInv`), the
  invariant of `Ui` (`UiInv`), what a process finds that starts (`FreshInv`), that the door
  thread's calls so far, with the present and the due one, leave the Ui's alarm as the door
  thread's own (`OrderInv`), and that what the door thread will send fits in the queue
  (`RoomInv`). `TypeCorrect` follows from it. `DoorImplemented` is the refinement: each step of
  the gateway is a cycle of `DoorStateController`, a crash, a boot, or none of its
  business. Its theorems are cited through an instance, for example the time in which
  the alarm starts (`DoorInTime`). `QuietTold` (QuietTellsDoor) says that a gateway with
  nothing left to tell shows and sounds the door thread's alarm, and with the last two
  `QuietIsTrue` follows from the door to the devices: when nothing is left to tell, a door
  closed for longer than a sample takes leaves them silent and clear, and a door open for
  longer than the alarm takes is sounded and shown.
* **TailgateMonitor_proofs** – First the session without data: `SessionsExact`, inductive as it
  stands, and `CutsInSilence`, which needs that the open stream reaches to the last reading
  and that its last `zeroCount` readings were dead. `ImplementsSession` carries them over to
  the session with data. `ReadingsNotFaint`: the invariant says of each sensor that its cached
  value is that of its cached reading, and of each stream that its values are 0 or at least 23,
  which `MappedValues` shows for all ten-bit readings. `MonitorTypeCorrect` has the types of
  all data, the sums included.

  What the analysis counts is proved of its operators, for streams of any length, any
  weights and whatever lies behind the vectors. Blocks are maximal and each has one peak at most,
  so the peaks of a stream have different times (`PointsOrdered`) and their numbers are 1 to
  their count (`NumbersExact`). Counting the pairs and what is left over gives
  `PeopleCounted`, and for the session `PeaksCounted`. `ShortPassagesExact` (ShortPassagesCounted)
  follows a short passage through the stages: none of its stream's readings is dropped
  (`QuietFloored`), the weights meet one blocked reading at most (`QuietSmoothed`), so that the
  smoothed values have a block as wide as the frame for each passage, no two of which touch
  (`PassageBlock`, `OtherBlocks`), with one peak, where the greatest weight meets the reading
  (`PassagePeak`). The peak is therefore equally late for every passage of both sensors, its
  number is the passage's (`QuietNumbers`), and the search with that number compares the two
  passages' own times (`PassagesPaired`). Two facts about the constants are hypotheses:
  `floorCutOff` is not zero (it is 20), and the weights rise to one of them and fall from
  there, as those of `generateNormalDistribution` do (`Bell`, blockanalyzer.cpp:472-485).

  Sums are defined by recursion. The induction is stated of sets (`Ascends`: a set of numbers
  with 0 and every successor has them all, from the well-foundedness of `<`), which gives
  that the function a sum is defined by exists (`SumsExist`), its type and its bounds.

Every safety property of a passing run is stated by a theorem. Only model-checked are the
liveness properties (`HoldEnds`, `AlarmSounds`, `AlarmStops`, `AlarmFollowsDoor`,
`ThreadsStart`, and the fairness of `ImplementsFifo`): fairness speaks of `ENABLED`, which
is out of the prover's reach. The findings are
counterexamples and need no proof.

## 5. Findings

1. fingerprintcontroller.cpp:130 – the handler of network errors catches `int`; the
   exceptions of thrift end the process. The strike is engaged when that happens
   (`TerminatedLocked`), so the door stays shut and nobody is let in.
2. ioexpander.cpp:144, 181 – the byte shared by the display and the strike is changed without
   a lock: the strike can stay released while the program takes it for locked, and
   the next `setState(locked)` does nothing.
3. ioexpander.cpp:79-83 – the writes of `initialize` go to the I2C address in place of the
   descriptor.
4. doorstatecontroller.cpp:99-109 – after a boot with the door open, uninitialized results are
   reported.
5. blockanalyzer.cpp:129-145 – `smoothStream` skips every reading above the cut-off that has a
   neighbour above it, and reads as far past the end of the stream as it skips at its
   beginning. A person in the beam for two readings (20 ms) or longer leaves no peak. Passages of one
   reading are counted as the header says (`ShortPassagesCounted`).

Observed, without a run:

* fingerprintcontroller.cpp:111 – the strike is held for four seconds, where the comment at
  lines 105-106 says five.
* main.cpp:86, 201 – `wiringPiSPISetup` returns a descriptor, which is taken for an
  error, and main goes on when `initHardware` returns other than 0. The two cancel out, and
  mending one alone keeps the gateway from starting (the mutant of `ThreadsStart`).
* mcp3008blocksensor.cpp:53 – the conversion to whole volts leaves the values 0, 23, 61 and 100, so
  that `floorCutOff` never cuts anything off (`NoFaintReading`).
* blockanalyzer.cpp:231-238 – people seen by one sensor only are counted as unknown if the other
  saw somebody else, and dropped if it saw nobody.
* fingerprintscanner.cpp:146-149 – `getResult` returns `asyncComplete`; nobody calls it.
* fingerprintscanner.cpp:110 – the scan repeats after errors of the device.
* replgateway.cpp:83-108 – all commands but `authn` stand after the loop, where the input is
  `quit`; main does not build this gateway.
* tailgateanalyzer.h:38-39 announces that sensors given during a session replace the old ones after it,
  and nothing does that.

## 6. Not modelled

* *ReplGateway*: main does not build it.
* *FingerprintScanner*: the asynchronous interface has no caller in the gateway; the
  synchronous scan touches no state but its own and is the action `Scan`.
* *Thrift adapters*: calls that answer or throw. The transport that an exception leaves
  open is met by no later call, since the process does not survive the exception.
* *Options and logging*: no state the properties speak of. Memory that is never freed
  (blockanalyzer.cpp:29, 45) has no effect before it runs out.
* *Expander*: direction registers, `getRW`, `send`, `read`; *display*: delays and
  busy times; *buzzer*: `flip`, `getState`; *queue*: `front`, `back`, `pop`, `empty`. The
  last three have no caller.
* *Destructors and the stop flags*: no flag is ever set, no thread ends, and a process that
  dies by an exception of a thread runs no destructor of the shared parts.
* `src/lib/gmock` is vendored test code (some nine tenths of all lines), and not part of the system; the
  map covers the gateway's own sources in `src/src/cpp`.

## 7. Plan

What would come next: the door thread with the sensors' data in one composition
(`DoorStateController` over `TailgateMonitor`, whose session flags both already carry); a clock
that steps in `Gateway`; and the fingerprint thread in full in `Gateway`, which shares the door
and the Ui with the others, with the theorems of both parts carried over as those of the door
thread are.
