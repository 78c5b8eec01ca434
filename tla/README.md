# A verification of the self-balancing vehicle firmware

This directory models the control firmware of the robot (`src/firmware/main`) in
TLA+, checks it with TLC and proves its central properties with TLAPS. The
firmware is a few thousand lines of C for a dual-core ESP32. Its numerics are
documented and simulated elsewhere in the repository; what is hard to test is
that **four kinds of context share plain `volatile` variables**: web and button
tasks on core 0, two hard real-time loops on core 1, timer and GPIO interrupts,
and a reporter task that trails behind. That is what the models are about.

Line numbers refer to files of `src/firmware/main` unless a path is given.

## 1. Inventory

### Where things run

| Context | Core, priority | What it does |
|---|---|---|
| `app_main` | 0 | boot: LED, telemetry, Wi-Fi, web server, then `control_start` |
| httpd | 0 | every HTTP/WebSocket handler, one at a time: commands, uploads, OTA; sends queued broadcasts |
| `reporter_task` | 0, low | takes a filled half of the telemetry buffer, announces warnings and results, packs frames |
| `button_task` | 0, low | debounces a button, toggles balance |
| `led_task` | 0, low | plays the newest LED pattern |
| `motor_task` | 1, highest | 500 Hz: encoders, wheel PI or open-loop command, H-bridge, telemetry record |
| `imu_task` | 1, one below | 250 Hz: MPU6050 over I2C, estimator, balance PID, publishes setpoint, cut and snapshot |
| alarm, rollover, data-ready ISRs | 1 | notify the two tasks, fold PCNT rollovers, count samples |

`imu_task` runs only while `motor_task` waits; `motor_task` may cut into it
between any two instructions. Core 0 and core 1 interleave freely.

### Components

| Component | State | Operations | Meets | What makes it correct |
|---|---|---|---|---|
| Control lifecycle (`control.c`, `app_main.c`) | `s_mode`, `s_stop_req`, task handles, GPTimers, `s_periph_ready` | start, stop, bring-up, exit, alarms | OTA gate, every command | stop means gone and parked; one instance of each loop; no alarm to a deleted task; no `ESP_ERROR_CHECK` trips |
| Wheel commands (`control.c` 477-546, 669-713) | feature flags, setpoints, open-loop commands, `s_bal_w_common`, `s_bal_cut`, PI integrators | motor tick, balance tick, `exp`/`est`/`ctrl`/`balance`/`speed`/`motor`/`stop`, button | playback, sweep, lifecycle | a cut parks and does not wind up; whoever has let go has let go; balance takes over |
| Snapshot seqlock (87-122) | `s_pub_seq`, payload | publish, single-attempt read | both loops | no torn copy, no spinning, newest data |
| Telemetry hand-off (93-96, 548-580, 917-985) | two half buffers, queue of 2, drop counter | record, hand over, cache, pack | motor loop to reporter | frames whole, in order, delivered |
| Warnings (124-163, 728-815) | counters, worst values | count, drain | both loops to reporter | nothing that happened is forgotten |
| Playback (182-195, 358-376, 1113-1156; `web_server.c` 671-753) | step array, length, index, active, report | upload, start, stop, step, announce | httpd, motor loop, reporter | steps in turn, inside the array, end announced once |
| Deadband sweep (197-211, 302-356, 1162-1183) | phase, clock, baselines, thresholds | arm, disarm, tick, report | httpd, motor loop, encoders | thresholds true; it ends |
| Gyro calibration (213-257, 1185-1191) | sum, extremes, count, verdict | arm, accumulate, fold, report | httpd, imu loop, driver | mean of the right samples, at rest; answered |
| Web server (`web_server.c`) | handler table, broadcast work queue | commands, uploads, OTA, rollback, broadcast | everything | flashing only while parked; a slow client holds up nobody else |
| Encoders (`encoders.c`) | 64-bit accumulators, PCNT | rollover, read, reset | both wheel loops, sweep, `enc reset` | a read never counts a rollover twice or not at all |
| IMU driver (`imu.c`) | FIFO, data-ready count, bias | init, scan, newest frame | imu loop, bring-up | newest whole frame after any backlog, desync or failed transfer |
| Estimator, wheel PI, balance PID | filter and integrator states | reset, step | both loops | no wind-up, no start from a stale state |
| Button and LED (`control.c` 987-1031, 1103-1111; `led.c`) | debounce locals, balance flag, one-place mailbox | poll, toggle, blink | web command, `app_main` | one toggle a press; LEDs show the flag |
| ESP-NOW pairing (`quick-checks/esp-now-*`) | `s_paired`, `s_peer_pending` | beacon, adopt, forward, echo | the other node | both pair |
| Motors, Wi-Fi, web app | I/O | | | |
| IMU quick check, simulation, experiments | stand-alone programs | | none | |

### What is hard here

- the mode, the flags and the scripts are checked in one place and used in
  another, with another core in between;
- a lifecycle call polls for a bounded time, against a bring-up with none;
- httpd is up before the control loops are;
- data handed over without a lock: seqlock, double buffer, counters, step array,
  64-bit accumulators on a 32-bit core;
- hardware that runs on while software looks at it: a counter that wraps before its
  interrupt is served, a FIFO that is not in step with its interrupt;
- one server task for every request and every broadcast; memory that is lost and a
  flash that is not when the power goes; radio messages nobody acknowledges;
- everything must keep working over any number of stops and starts, where the
  new tasks begin with fresh locals and the rest of the state is kept.

`PROJECT.json` lists 40 such hazards, each at its line, with the properties that
would catch it, or the reason why none does.

## 2. Modules

| Module | Models | Composed with |
|---|---|---|
| `ControlContract` | what the lifecycle promises: driven only while started, stopped only when parked, flashed only while stopped | refined by `ControlLifecycle` |
| `ControlLifecycle` | the lifecycle in full: both core-0 threads, task instances from a pool, handles, notifications, timers, bus, OTA gate, rollback, reset | |
| `ControlLifecycleProofs` | theorems | extends it |
| `Snapshot` | an atomic register of whole samples | refined by `Seqlock` |
| `Seqlock` | the snapshot, word by word, with preemption and wrap | `MCSharedData` |
| `TelemetryHandoff`, `TelemetryHandoffProofs` | the double buffer, the queue, a reporter cycle, slot by slot | extended by `MCSharedData`, instance in `MCActivities` |
| `WarningDrain` | the counters, an addition as load and store | `MCSharedData` |
| `WheelLoop`, `WheelLoopProofs` | one tick of each loop, statement by statement where core 0 can cut in, against the commands as sequences of single stores | |
| `Playback` | uploading, starting, stopping, playing and announcing a script, store by store | instance in `MCActivities` |
| `DeadbandSweep` | arming, running and reporting a sweep, with wheels that turn above an unknown duty | instance in `MCActivities` |
| `GyroCalibration` | arming, averaging, folding, announcing | instance in `MCActivities` |
| `TelemetryFrame` | pure operators: which slots of a half a topic's frame takes and how long it is | beside `TelemetryHandoff` in `MCTelemetryHandoff`; its lemmas are in `TelemetryHandoffProofs` |
| `ActivitiesProofs` | theorems about the three activities above and the late reporter | extends `MCActivities` |
| `Encoders`, `EncodersProofs` | one wheel's counter, pending rollover, its ISR, a reader on either core, `encoder_reset`, two words to a 64-bit access | `MCDevices` |
| `ImuFifo` | the sensor's FIFO and edges against init, drain, resync, register read, and every transfer that may fail | `MCDevices` |
| `HttpServer` | the server task: requests, uploads piece by piece, the two slots, `set_boot_partition`, rollback, broadcasts, a reset at any step | `MCDevices` |
| `Pairing` | both nodes' beacons, adoption and traffic, messages lost | `MCDevices` |
| `BalanceButton` | bouncing contact, debounce, toggle and web command as threads, mailbox, LED task | `MCDevices` |
| `Controllers` | both wheels' PI and the balance PID in integers, with any settings | `MCDevices` |
| `DevicesProofs` | theorems about the FIFO, server, pairing, button and controllers, and about their composition | extends `MCDevices`, `EncodersProofs` |
| `MCControlLifecycle`, `MCWheelLoop` | instances of one module | |
| `MCSharedData` | the hand-off with its frames (`MCTelemetryHandoff`), the snapshot and the counters side by side | extends `MCTelemetryHandoff`; instances of `Seqlock`, `WarningDrain` |
| `SharedDataProofs` | theorems about the snapshot, the counters and their composition with the hand-off | extends `MCSharedData` |
| `MCActivities`, `MCDevices` | the activities and the devices side by side | instances of the parts |

Names are the source's: a variable `s_play_len` is `s_play_len`; control points
(`mpc`, `ipc`, `rpc`, `hpc`, `cpc`) stand for the place in the code a context has
reached. A definition called "Wrong variant of ..." is not used by any
specification: it is what a plausible slip would make of the definition after
it, and shows that the properties tell the two apart.

### From the code to a model

- **Step size.** A step is one access to a shared variable, or a stretch of code
  with at most one. What cannot interleave is merged: in `ControlLifecycle` a tick
  is one step, because none of its properties looks inside; `WheelLoop` opens it.
  Two steps are larger than the code's: the three flags read together at 496 (`MotorPlay`), and a 64-bit start
  time (185, 208); no property turns on a store between their parts.
- **Tasks as instances.** A second `START` can create a second `motor_task`
  while the first lives. Tasks are therefore drawn from a pool and a handle names
  the last one created. Two instances of each are one more than correct behaviour
  needs.
- **Data.** In `WheelLoop` a speed or duty is where it came from (`zero`, `user`,
  `script`, `bal`), the PI is an empty or a wound integrator, pitch is unknown,
  within or over the limit. A command for one wheel is given to both. Bad samples
  and the lag of the filter are an estimate that stays as it was for a while.
  `BALANCE_DIV` is 1, as in `control.h`. The integrator of the balance PID and the
  re-seeding of the estimator after a gyro calibration are not followed. An upload
  with no valid row is in `Playback`, not here.
- **Numbering.** In `Seqlock` and `TelemetryHandoff` a word or slot holds the number of the
  publication or sample written to it; "whole", "newest" and "in order" are
  statements about these numbers.
- **Calibration arithmetic.** A stored bias is remembered as how many samples were
  summed, by what they were divided and whether they were spread: what makes it
  honest, without the floats.
- **Controller arithmetic.** A float is an integer in a unit of its own and a gain times a
  tick is one factor; `/` by the feedforward gain rounds toward zero. A low-pass filter
  lands anywhere between where it was and its input, which covers every weight in [0, 1].
- **Images and messages.** A slot is whole, part or blank; an upload is the pieces still to
  come; a message block is counted. In `ImuFifo` bytes are numbered as the sensor makes
  them, so that "whole" and "newest" are statements about one number.
- **Ghost state.** A few variables exist only for properties and guard nothing in the code's
  actions: `pos`, `raced`, `mixed` (`Encoders`), `atTick` (`ImuFifo`), `alike` and `duty`
  (`Controllers`), `level`, `same`, `held`, `want`, `met` (`BalanceButton`).
- **Time.** `Playback` counts ticks, `DeadbandSweep` levels of the ramp,
  `TelemetryHandoff` recorded samples; each clock stops counting once nothing can
  tell the difference. The 400 ms of the stop wait and the time of `i2c_scan`
  are related by one constant, `BusMayHang`.

## 3. Runs

Six runs pass; six show a state the code's own comments exclude. All are
exhaustive for their bounds.

| Run | Question | Bounds | States |
|---|---|---|---|
| `lifecycle_timely` | Does a stop stop, is a flash safe, do loops come up, if bring-up fits the stop wait and no request is early? Does the code refine its contract? | 2 + 2 task instances; any number of starts, stops, resets | 8.8 thousand |
| `lifecycle_early_client` | Do the ISRs stay safe with a hanging bus and early requests? | the same, with symmetry | 1.4 million |
| `shared_data` | Without a lock: are telemetry frames whole, ordered, delivered if the reporter keeps up; is every snapshot read whole and newest; is any motor warning forgotten? | see below | 52 thousand |
| `wheels` | Do cuts, falls, take-over and the manual command of open loop behave whatever commands cut into the ticks? | 1 wheel, web and button, 2 commands out of 10, from 2 presets | 336 thousand |
| `activities` | Calibration, playback, sweep, late reporter | see below | 550 thousand |
| `devices` | Are counts exact, samples newest, images bootable, blocks freed; does the server come back, do nodes pair, do button and LEDs agree, does a reset forget? | see below | 326 thousand |
| `lifecycle_early_flash` | *violation of* "only flash in STOP_CONTROL (task stopped, motors parked)" (`web_server.c` 568) | | |
| `lifecycle_hung_bus_stop` | *violation of* "so callers know control stopped on return" (1074-1076) | | |
| `wheels_balance_off_race` | *violation of* "disabling drops the setpoints the balancer owned" (987-989) | 2 wheels, 2 commands | |
| `handoff_late_torn` | *violation of* "can hand over even while the reporter is mid-cycle" (1035-1036) | batches of 3, cycle up to 5 | |
| `handoff_quick_restart` | *violation of* "motor_task fills one half while the reporter drains the other" (93) | as in `shared_data`, but a restart may find the reporter at work | |
| `encoder_other_core` | *violation of* "we never mix an old accum with a new count" (`encoders.c` 103-104) | a reader on core 0 | |

**Lifecycle.** `StopMeansGone`, `FlashOnlyParked`, `OneOwner`, `NoPanic` and
`HandlesLive` are invariants over threads, tasks, timers and the H-bridge
together; `StartLeadsToLoops` asks that a start produces two running loops. `ImplementsContract` checks the refinement
`ControlContract`: `phase` is `flashing` while an upload is past the gate, else the
mode; `moving` is what the H-bridge is told. The refinement includes `rollback`, which has no
STOP gate and may reset the chip while the wheels turn: the reset itself parks them.

**Shared data.** Three modules that share no variable, in one run: a variable `which` chooses the one that moves.

*Snapshot.* Three words are enough for a read to begin, be in the middle and end in three
different publications; a counter modulo 4 wraps twice in four publications.
A writer that has lower priority on the same core is why one attempt is enough:
a read that has begun is never overtaken.

*Hand-off.* Batches of 4, a queue of two, 2 topics, 17 samples. `MaxCycle` bounds the age of a batch handed over, in samples, at 3:
the reporter is done before the other half is full. Beside
a restart that finds the reporter idle that is the whole condition (`FramesAreWhole` proves it); `handoff_late_torn` leaves it and finds a torn
frame with an empty drop counter, because a queue of two protects indices and not
halves. `motor_task` may be stopped and started at any sample in this run, provided the
reporter is done by the first sample of the new task. That is an assumption (`~QuickRestart`), which nothing in the code
ensures: neither a stop nor a start waits for the reporter, and with the sensor already present both take some 10 ms,
while a batch takes 200 ms. `handoff_quick_restart` leaves it and finds a torn frame with a reporter that is just as quick,
because a new task fills half 0 whichever half is being drained.
A restart loses the samples of an unfinished half; `EveryBatchInOrder` allows that gap and no other, and no batch a second time. `FrameNotStale`,
in `activities`, says what is left when the reporter is arbitrarily
late and when `motor_task` is restarted in the middle of its cycle, batches being dropped for a full queue: frames may show newer samples than
announced, never older ones, and each comes from a later batch than the one before.

*Warnings.* Two counters a group and two events a group; an addition is a load and a store, and the clearing may fall between them.

**Wheels.** Two commands are enough for each other's races: one to change who drives
the wheels, one to change it back, from two threads, at any point of both
ticks. `CutKeepsClean` is about an integrator across ticks. The three
liveness properties have the form "if from some time on nobody interferes, the
wheels end up ...", because operators never have to stop sending commands.
The initial states are those after boot in a chosen experiment.

**Activities.** Four modules whose variables are disjoint share one run in the same way. Gyro calibration: 3 samples a run, 3 runs. Playback: arrays of
2 steps, at most 3 ticks, durations 0, 1, 2, 2 commands; once with commands only
between runs (the "left alone" properties) and once with commands at any point (`InBounds`).
Sweep: a ramp of 3 levels (2 when commands interfere), every combination of wheel thresholds,
the ceiling included. Reporter: batches of 2, 10 samples (enough for
a full queue, a dropped batch and a restart after it), restart at any time (`QuickRestart`).
A property that names `which` is about that reading only.

**Devices.** Six modules with disjoint variables share one run in the same way; the two
controllers count as two parts.

- *Encoder:* limit 3, words of 2 values, positions from -1 to 4, the wheel mounted
  the other way round. The limit is no multiple of the word, so that a rollover changes the low
  word, as 30000 does below 2^32 (the proof needs nothing more). Rollovers at both limits, again and again, and one reset fit; a wheel that starts the other way is the mirror image.
  At most `LIMIT - 2` counts go by under one attempt to read, and the ISR is done before the
  next limit: at the fastest a wheel turns, 30000 counts take seconds.
  `CountIsExact` holds a reader on core 1 to the exact position and a reader on core 0 to within
  one limit of it. Two kinds of read are excluded by name: `mixed`, where a store of the other core falls between
  the loads, and `raced`, where a reset met a rollover.
- *FIFO:* frames of 3 bytes, bursts of at most 6, a FIFO of 11 bytes (so that a full one ends in
  part of a frame), 5 frames. The sensor may push a frame a moment after its edge, but not later than
  the next transfer that takes data; a burst ends before the FIFO is full. Each register write of
  `mpu6050_init` and of the resync may fail unseen.
- *Server:* one client, a queue of one, uploads of up to one piece, any number of requests and resets.
  `ServerComesBack` is about `stop`: it is served unless an upload in progress stalls.
- *Pairing:* the code's 4 beacons after adoption, at most 3 of one sender lost in a row, either node
  booting at any time. With 4 lost `BothPair` fails, as it must; the bound is where the handshake holds.
- *Button:* a debounce of 3 polls, any contact, commands at any point of a toggle. The first poll comes
  after `app_main`'s last call, a few milliseconds into the life of `button_task`.
- *Controllers:* duties up to 2, a floor of 1, setpoints to 1, speeds, tilts and gains 0 and 1; all settings may
  change at every tick. The proof has no such bounds.

Deadlock is checked where the system has no end (`lifecycle_*`); elsewhere a bound on
commands, samples, edges or publications, or two nodes that have paired, ends a behaviour, and the configuration says `CHECK_DEADLOCK FALSE`.

### Fairness, and why the code justifies it

- *Tasks and timers* (`ControlLifecycle`): weak fairness of each task's step, of a running
  timer's alarm, and of a lifecycle call that has begun. FreeRTOS runs ready tasks,
  GPTimers reload, and no step waits for another's lock. Requests from the network
  are under no obligation.
- *`imu_task`* (`WheelLoop`): strong fairness, since it is enabled only between two
  ticks of `motor_task`: again and again, as `motor_task` uses a fraction of its period, but not
  continuously. The estimate catches up or is dropped with the IMU
  (`ImuCatchesUp`): after `IMU_FAIL_LIMIT` ticks without a good sample the IMU is declared lost.
- *Reporter*: weak fairness of its cycle; queueing a frame does not block.
- *A command once begun* is carried out; none has to be given.
- *Server task* (`HttpServer`): weak fairness of what it is in the middle of, since sends are
  non-blocking or time out; nothing is promised of a receive on a stalled link, which the code retries. Strong
  fairness of serving a request that waits: one round of `esp_http_server` takes at most one queued
  message and then looks at every ready socket, so broadcasts delay a command but do not starve it.
- *Pairing*: both nodes boot and `pair_task` wakes from its delay. The radio is constrained only by `MAXLOST`.

## 4. Proofs

Every invariant and every action property of the passing runs is also a theorem, for all values of the
constants the assumptions allow.

| Theorem | For every ... | Under |
|---|---|---|
| `LifecycleSafety`: `StopMeansGone`, `FlashOnlyParked`, `OneOwner`, `NoPanic` | pool of tasks, number of starts, stops, uploads, resets | `~BusMayHang`, `~EarlyClient` |
| `LifecycleImplementsContract` | the same | the same |
| `IsrHandles`: `TypeOK`, `HandlesLive` | the same | nothing |
| `FlashIsSafe`, `EachLoopHasOneOwner`, `NothingPanics` | corollaries: `FlashOnlyParked`, `OneOwner`, `NoPanic` one by one | `~BusMayHang`, `~EarlyClient` |
| `SnapshotIsWhole`, `ReadGetsNewest`, `SeqlockImplementsSnapshot` | set of words, even wrap, number of publications | nothing |
| `FramesAreWhole`: `FrameIsBatch`; `HalvesStayApart`: `HalvesDisjoint`; `BatchesInOrder`: `EveryBatchInOrder` | batch size, queue length, topics | `MaxCycle < N`, `~QuickRestart` |
| `FramesFit` | batch size, decimation, topic, mode | the batch fits the two count bytes |
| `EvenlySpaced` | the same | batch a multiple of the decimation |
| `MotorWarningsSurvive`: `MotorRemembered` | set of counters, number of events | nothing |
| `WheelTypes`: `TypeOK`; `CutStaysClean`: `CutKeepsClean` | wheels, clients, commands | nothing |
| `CalibrationIsHonest`: `BiasIsHonest` | samples a run, runs | commands between runs |
| `ScriptStaysInBounds`: `InBounds` | capacity, ticks, commands at any point | nothing |
| `ScriptPlaysInTurn`: `StepsInTurn`; `ScriptEndsOnce`: `FinishedIsFinished` | the same | commands between runs |
| `SweepReportsTruth`: `SweepIsTruthful` | wheels, ceiling, thresholds | sweep left alone |
| `LateFramesAreNewer`: `FrameNotStale` | batch size, queue length, cycle, restarts | nothing |
| `ActivityTypes`: `TypeOK` of the `activities` run | all of the above | nothing |
| `ExactCount`: `CountIsExact` | limit, word, travel, resets, direction | limit above 1 and no multiple of the word |
| `NewestSample`: `SampleIsNewest` | frame, burst and FIFO sizes, frames | longest burst and one frame fit the FIFO |
| `ControllersSafe`: `ResetForgets`, clamps | limits, gains, speeds, tilts | floor within the duty limit |
| `NeverBricked`: `BootsWhole`; `NothingIsLeftBehind`: `NothingLeaks` | clients, queue, pieces, resets | nothing |
| `EveryPressShows`: `PressShows` | debounce length above 1, contact, commands | nothing |
| `SharedDataImplementsParts` | the parts of `shared_data` | nothing |
| `DevicesImplementParts`; `DeviceTypes`: `TypeOK` of the `devices` run | all of the above | at least one beacon after pairing |

What "commands between runs" and "left alone" leave out is in the model with the same actions (`Overlap`, `MayRearm`,
`MaySuspend`, `MayReset`, `QuickRestart`); section 3 shows what fails with
`QuickRestart`, section 5 what fails with the others. The assumptions on constants are those of the modules'
`ASSUME`s. Two are conditions the code's numbers meet with much room: `MAXREAD + FRAME <= CAP` (112 and 14 bytes in a FIFO
of 1024) and `MOREBEACONS > 0` (4). `ActivitiesAssumption` gathers what the instances in `MCActivities` assume, since an `ASSUME` of an
instantiated module is not inherited; `SharedDataAssumption` does the same
for `Seqlock` and `WarningDrain`.

**Lifecycle.** `StopMeansGone` alone is not inductive: it says nothing of a started system.
`IInv` adds what holds in between. `ThreadsInv`: what the mode and the stop
request are at each point of the core-0 threads, and that `app_main` has no rival
before it is done. `QuietInv`: no handle is set while stopped or between setting the mode
and creating the task. `TimerInv`: a timer runs exactly while its task is in its
loop or about to stop it, so each `gptimer_start` finds a stopped timer and each
`gptimer_stop` a running one. `HardwareInv`: the bus is taken only by the first
bring-up and wheels turn only between the first tick and the park. Each is
preserved with the help of the others; the two assumptions are used exactly where the
two violation runs break them. `HandlesLive` needs neither, as every handle is cleared before
its task is deleted.

**Seqlock.** Parity tells whether a write is under way (`ParityInv`); the payload is the last
publication but for words still to be stored (`PayloadInv`); under a read neither moves
(`CopyInv`).

**Hand-off.** `KeepsUpInv`: at most one batch is outstanding and its age is the
fill of the other half, so `age < N` separates the halves; `Holds`: an outstanding half still has
its samples. `OrderInv` turns the order of batches, a property of steps, into one of states: the batch that waits, or if none does the
one being filled, follows the batch last handed over or is the first of the running task. A *late* reporter shares halves, and
`LateInv` keeps only what sharing cannot break: a half in the queue or in hand (`Fresh`) holds nothing older than its batch,
and the batches finished, at work, waiting and being filled follow one another (`LateOrder`), whatever was dropped between them.

**Warnings.** When the reporter starts to clear, it holds something to say, so a lost
increment never loses the fact.

**Wheels.** `CutKeepsClean` is inductive once the types are known, and the types need one fact about the future: `TodoInv`, that the stores a
client has yet to do are stores of the commands.

**Calibration.** `BiasIsHonest` speaks of what was folded long ago. `GyroRun` follows it from the start: counter and sum go together through the
run, so the mean divides as many samples as it sums. `GyroCommanded` is the exclusion: from the first store of a command to its last, no run is
armed.

**Playback.** `InBounds` holds under any interleaving because every length the loop can read fits the array (`PlayRange`), and the index
is compared with it once more before a step is played (`PlayRun`). `StepsInTurn` needs more: every step below the length carries its own place (`ScriptBuilt`), the time
of the tick is past the step before the index (`ScriptPlace`), and a command finds the loop at rest (`ScriptQuiet`).

**Sweep.** The verdict relates a reported duty to a threshold nobody can read. `OnRamp` says it of a wheel while its phase runs: either it has turned,
and its duty was enough, or it got every level so far and can have left its baseline only at a sufficient one. `Truthful` says it of a phase that
is over, `SweepArming` that wheels stand while the baselines are taken.

**Encoders.** The counter can roll over between any two of the four loads of a read. `AccumInv`: `accum` and the pending limit make up `Base`, the position less
the counter, with the stores of the interrupt half done or not. On core 0 (`BesideIsr`) `accum` stands still or the
read is `mixed`. On core 1 (`UnderIsr`) there are four numbers, the rollover since the first load, the second, the counter and the third. They are
ordered (`Since`) and at most one rollover fits, as two would take `LIMIT` counts. Accepting the read means that the low words of the first and
the second look at `accum` agree, and `RolloverShows` says that a rollover changes the low word: so there was none between, or the
high words tell it. That lemma is where the assumption on limit and word is used.

**FIFO.** "Whole" and "newest" are facts about the byte a burst will end with, `BurstEnd`. `BurstInv` fixes it when the byte count is read: it is a multiple of the
frame, after the last sample, and at most one frame behind the edges the tick saw. It stays because, during a burst, a frame pushed grows both
`Pushed` and the bytes held, and the FIFO does not overflow. That last step failed for sizes where a burst and a frame
do not fit; hence the assumption.

**Controllers.** The clamps are inductive by themselves once what feeds them is an integer; the lemmas
walk through `Feed`, `Ref`, `Raw`, `Compensate` to show that. `ResetForgets` relates two wheels, a self-composition: equal
states under equal inputs stay equal, so whatever a reset left behind would show.

**Server.** `BootsWhole` needs `FlashInv`: the boot slot differs from the running one only in `restart`, where nobody writes,
and an upload that reaches `ota boot` has verified the other slot. `NothingLeaks` is inductive and proved in three parts
(`Blocks`, `Buffers`, `Handles`).

**Button.** `DebounceInv` ties the task's locals to the last polls: the candidate is the level, `stable` is the level last held, and
while they differ the count is the number of equal polls. `LedInv` says of each point inside `control_set_balance` which of flag and
mailbox already shows what is wanted, as long as one thread is inside.

**Frames.** `FramesFit` rests on what is known of a quotient, since count is one and the last slot is (count - 1) strides in.

**Composition.** The theorems about devices and shared data are stated of each part's own specification. `DevicesImplementParts` and
`SharedDataImplementsParts` show that the specification TLC checks
implements each of them (a step of one part leaves the variables of the others alone: `PartsStep`, `SharedStep`), so each holds there too;
`DeviceTypes` needs all the invariants at once (`DevicesInv`), some types being bounds that only the protocol keeps, such as the byte count of a
burst or the number of blocks in the work queue. The activities are proved in their composition directly (`ActivityInv`).

The type invariants of `ControlLifecycle`, `Seqlock`, `TelemetryHandoff` and `WarningDrain` are conjuncts of their theorems and are not
repeated as run properties.

*Only model-checked:* liveness, `StartLeadsToLoops`, `EveryBatchDelivered`, `FallenIsParked`, `BalanceTakesOver`, `OpenLoopObeys`, `MotorIsTold`,
`ArmedIsAnsweredOrGone`, `RunIsAnnounced`, `SweepEnds`, `ServerComesBack` and `BothPair`: fairness and `ENABLED` are outside TLAPS here.

## 5. What was found

Six runs contradict a comment of the code (section 3; `findings` in `PROJECT.json` tells each story).
Modelling showed further behaviours, for which there is no run. Where a module has a constant that lets the
behaviour in, the constant is named:

- after a stop that gave up, a new start creates a second `motor_task` beside the first, and
  an `ESP_ERROR_CHECK` on a timer or the I2C port can fail (`NoPanic` with `BusMayHang`);
- an experiment preset switches balance off without dropping its setpoint (1089), which a later
  `ctrl on` tracks, against "the last 'speed' command persists" (492); no race is needed;
- `play stop` can lose against a tick inside `playback_step` in the same way as `balance off`, against "also drop a speed-script
  setpoint" (1154);
- `ctrl_was` and `bal_was` are read from the flags again at the end of a tick (546, 713): off and on
  within one tick is no edge, and the loop starts on old integrators;
- on the tick that enables balance, the motor loop can see a cut flag and setpoint from before (684-685);
- a second `gyrocal` during a run can clear the counter between the last sample and the division by it (242-248), or leave an old
  verdict standing: `GyroCalibration` violates `BiasIsHonest` with `MayRearm`; one armed without an IMU is never answered (232);
- a script refilled or restarted under the loop can skip steps or be announced as finished (366-369);
- the IMU group of warnings can be cleared unread (776-779); the motor group cannot lose a violation altogether;
- a second `deadband` during a sweep stores results, phase, clock and baselines (1163-1171) under a loop that ticks among them, against
  "publish last so the loop only sees a ready state" (1173), and an `enc reset` during a sweep moves the counts away from their
  baselines: `DeadbandSweep` violates `SweepIsTruthful` with `MayRearm` and with `MayReset`;
- a sweep that is suspended resumes at the duty its clock has reached meanwhile (315);
- `encoder_reset` clears `accum` and then the counter with no lock (`encoders.c` 117-120): a rollover that falls between
  them, or whose ISR has loaded `accum`, leaves the count one limit off for good;
- on core 0 the loads of the 64-bit `accum` may also straddle its stores (`mixed`);
- pairing never completes if a node hears none of the beacons the other sends after adopting it, or if one reboots after the other stopped;
- a press and a `balance` command inside `control_set_balance` together can leave LED and flag apart until the next change (1107-1110),
  against "so the robot's state shows without the web" (1105-1106);
- the cap on braking effort is described as safety and commented out (`wheel_pi.c` 178-183); `wheel_pi.h` 69 says of feedforward
  "Off by default", and `s_ff_en` starts true (`wheel_pi.c` 61);
- a stalled upload keeps every command waiting, `control stop` included, for as long as the socket lives (`web_server.c` 605, 735).

## 6. Not modelled, and the plan

Not modelled on purpose: formatting and wording of messages, the bytes of a value in a frame, JSON, Wi-Fi and pin
configuration, the estimator's filter as numbers, estimator weights and trims, PWM duty, the phases of an LED blink, register
values of the sensor, the web server of the ESP-NOW station (an earlier form of the firmware's), the IMU quick check (one
polling loop), MATLAB scripts, presentation in the web app.

Planned, in this order:

1. *Boot order with the hand-off*: `s_ready_q` created after an early start.
2. *One server with one lifecycle*: `HttpServer` as the client of `ControlLifecycle`, so that the gate and the upload's pieces meet the tasks.
3. *Loop-stats averages and worst-case trackers* in `WarningDrain`.
4. Start times of a script and of a sweep in two words, as `Encoders` has its accumulator.
5. Abstract specifications of the sweep and of the playback (one verdict a sweep, one end a run) with the refinement
   proved, on top of the invariants of section 4.

New small modules go side by side into the `devices` or `activities` run.
