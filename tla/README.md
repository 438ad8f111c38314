# A TLA+ model of the UGV core

This directory holds TLA+ specifications of the C++ runtime in this repository
(`config/`, `core/`, `command/`, `subsystems/`, `utils/`) and of the file
transport it shares with the Rust API (`rust/ugv_api`), the TLC configurations
that check them on small instances, and proofs that TLAPS checks for every
value of the constants. Paths below are relative to `src/`; line numbers are
those of the commit the models were written from.

## 1. Inventory

| Part | Code | State it keeps | Operations | Hard part |
|---|---|---|---|---|
| Core runtime | `config/UgvCore.{hpp,cpp}` | `threads_`, `state_`, the order of boot and shutdown | `run`, `safe_shutdown`, the bodies of five threads, the command handlers | six threads without a common lock; failed boot paths |
| StopController | `core/StopController.hpp` | `stop_` (atomic), a condition variable | `request_stop`, `stop_requested`, `wait_for_stop` | store and notify are not atomic: a wake-up can be lost |
| EStopLatch | `core/EStopLatch.hpp` | `latched_` (atomic), `reason_` under a mutex | `trigger`, `latched`, `reason_string` | the latch is visible before its reason and before anybody acted on it |
| Drives | `subsystems/Stubs.hpp`, `Interfaces.hpp` | `enabled_` (atomic) | `enable`, `disable`, `estop` | three threads write it |
| CommandRouter | `command/CommandRouter.{hpp,cpp}`, `CommandTypes.hpp` | `q_`, `handlers_` under `mu_` | `submit`, `register_handler`, `process_one`, `process_some` | handlers and callback run outside the lock, on a time read before the batch |
| StateStore | `core/StateStore.{hpp,cpp}` | `state.bin`, `state.bin.tmp` | `load`, `save` | crash between two file operations; `state_` is read twice |
| Iceoryx2Bridge | `subsystems/Iceoryx2Bridge.{hpp,cpp}` | `command_offset_`, the files `commands.in`, `telemetry.out` | `init`, `pump_rx`, `publish_telemetry`, `publish_command_result` | another process appends while it reads; the offset dies with the process; what it reads need not come from the API |
| Rust transport | `rust/ugv_api/src/transport/iceoryx2_transport.rs` | `telemetry_offset`, pending frames and results | `send_command`, `receive_telemetry`, `receive_command_results`, `encode_command` and the two parsers | reads a line another process is still writing; keeps the tables of numbers a second time |
| Enumerations | `models/enums/*.hpp`, `rust/ugv_api/src/commands` | none | members and their numbers | two languages, kept equal by hand |
| Logger | `utils/Logger.{hpp,cpp}` | the global pointer under `g_logger_mu`, `mu_`, the stream and its buffer, `robot.log` | `init_logger`, `logger`, `log`, `flush`, `shutdown_logger` | every thread writes one stream; a Fatal line locks `mu_` twice; the object goes before its users may |
| Sensors | `subsystems/Interfaces.hpp`, `Stubs.hpp`, `sensor_thread` | the frame and joints, kept from one turn to the next | `read_frame`, `read_joint_states` | a read that fails leaves an old value behind |
| Base64 | `utils/Base64.cpp` | none | `base64_encode`, `base64_decode` | the last block |
| crc32_ieee | `core/StateStore.cpp` | none | the checksum of the state | two states must be told apart |
| Rate | `core/Rate.hpp` | a time point per loop | `sleep_until_next` | none for these properties |
| main | `main.cpp` | `data_dir` | arguments, logger, data directory, `run`, exit code | destroys the logger first and the core last |

How they interact. `main` builds one `UgvCore` and calls `run()`, which owns
everything else. The main thread boots (bring-up, E-STOP thread, load, calibrate,
save, enable drives, spawn four threads), waits on `StopController`, and shuts
down. The io thread calls `Iceoryx2Bridge::pump_rx`, which reads `commands.in`
and calls `CommandRouter::submit`; the control thread calls `process_some`,
whose handlers call `EStopLatch::trigger`, `StopController::request_stop` and
the drives, and whose callback writes `state_` and appends R lines to
`telemetry.out`; the sensor thread appends T lines to the same file; the persist
thread saves `state_`; the E-STOP thread polls the latch. All of them log through
one mutex. A client process of the Rust API appends to `commands.in` and polls
`telemetry.out`; nothing but the two files connects it to the core.

What makes each part correct, and where it is stated:

| Part | Correct means | Property |
|---|---|---|
| Core runtime | results that were published stay true; the drives are on only with a calibrated rover and an E-STOP thread, and never again after a stop; `run()` leaves no thread behind and saves the final state; an E-STOP reaches `estop()` | `AcksTruthful`, `IInv`, `NoReEnable`, `ExitClean`, `FinalSave`, `NoEStopLost` |
| StopController | a stop ends the process | `StopTerminates`, `StopTerminatesUnlatched` |
| EStopLatch, Drives | a latch turns the drives off; where a Fatal line blocks the logger, it still does once the E-STOP thread is past its first log line | `LatchDisables`, `EStopGetsThrough` |
| CommandRouter | each accepted command is answered once, in order, unless it came after the one that ended the consumer's loop; none that expired runs | `KeepsPromise`, `AcceptedAnswered`, `AnsweredInOrder`, `NoLateExecution` |
| StateStore | an atomic cell across failures and crashes, no rollback, loss in two known places only, repair; a checksum that is CRC-32 and tells states apart | `IsACell`, `NoRollback`, `Survives`, `CatchesUp`, `IsCRC32`, `ToldApart` |
| Bridge and Rust transport, on the files | an ordered channel; damage only where two writers collide; results genuine and in order; an answer to each command the queue has room for; what a stop leaves unanswered, and what a restart repeats | `IsAChannel`, `DamageNeedsRace`, `SubmittedOnce`, `ResultsInOrder`, `ResultsAreGenuine`, `PayloadAnswered`, `LeftBehind`, `ShutdownRepeats` |
| Bridge and Rust transport, in the lines | what is sent is what is read; a damaged line runs no handler it does not name; a failed decode leaves nothing of a payload, and which texts are decoded that the standard refuses | `ParsedAsSent`, `RightHandler`, `ResultSurvives`, `TelemetrySurvives`, `CodecIsStandard`, `RefusedWhole` |
| Sensors | no published frame holds an old reading | `FrameFresh` |
| Logger, main | lines are whole; a crash loses only what was not promised, an exit nothing; nobody uses the logger after its end; `log()` returns unless a Fatal line has wedged it | `LinesWhole`, `IsAJournal`, `ExitComplete`, `TeardownSafe`, `LogReturns` |

## 2. Modules

| Module | Role |
|---|---|
| `UgvCore` | the six threads of the runtime and all they share |
| `UgvCoreInv` | its inductive invariant `IInv` |
| `UgvCoreProofs` | the theorems about it |
| `CommandRouter` | the bounded queue with several consumers, real time stamps and wrapping arithmetic |
| `CommandService` | what a router promises a sender: each command is refused, or accepted and answered once |
| `CommandRouterProofs` | the theorems about the router |
| `StateStore` | `save` operation by operation, failures, kills, `load` |
| `StateCell` | an atomic cell, the abstraction of `StateStore` |
| `StateStoreProofs` | the theorems about the store, the refinement among them |
| `CommandBridge` | the two files between the Rust clients and the core |
| `CommandChannel` | an ordered channel, the abstraction of `commands.in` |
| `CommandBridgeProofs` | the theorems about `commands.in` and `telemetry.out`, the refinement among them |
| `CommandWire` | what a command line and a result line say, from the Rust API through the parser and the handlers and back |
| `Base64` | both functions of `Base64.cpp`, a turn of a loop per step, and the standard they are compared with |
| `Base64Proofs` | the theorems about them |
| `Telemetry` | the sensor loop, the T line, and the frame the client reads from it |
| `Checksum` | `crc32_ieee`, bit by bit, and the CRC-32 it is compared with |
| `CommandWireProofs` | the theorems about `Checksum`, `Telemetry` and `CommandWire` |
| `Logger` | the global logger and `Logger::log` |
| `LogFile` | a file of lines that only grows, the abstraction of `robot.log` |
| `UgvMain` | `main.cpp` around the logger and around what `run()` looks like from there |
| `UgvMainProofs` | the theorems about the logger under `main`, the refinement among them |
| `Filter` | the elements of a sequence that are in a set: an operator of `CommandBridge` and `UgvMain` |
| `DataLemmas` | what the proofs need of numbers, recursive functions, `FlattenSeq` and `Filter` |
| `MC...` | values of the constants for TLC |

`CommandWire` extends `Base64`, `Telemetry` and `Checksum`, and `UgvMain` extends
`Logger`: the component's actions, with the ones that use it. `Filter` defines what
`SelectSeq` does by a recursive function, whose values a proof can relate to each
other, which those of a RECURSIVE operator cannot. `UgvCore` contains
the steps of the router, the store, the latch and the logger that other threads
can see; `CommandRouter`, `StateStore`, `CommandBridge` and `Logger` are the same
components in their own detail.

### UgvCore

`pc[t]` is the statement thread `t` executes next, and each step reads or writes
shared memory at most once, so TLC interleaves the threads wherever the C++
memory operations can interleave. `stop`, `latched`, `reason`, `drives`, `q`,
`state` stand for `stop_`, `latched_`, `reason_`, the drives' `enabled_`, the
router's `q_`, `state_`. `threads` is `threads_`, `wedged` the thread that holds
`Logger::mu_` for ever. `disk` is what a load of
`state.bin` would give; it begins as one of `Stored`, what an earlier life left.

- Boot (`run`, `UgvCore.cpp:20-48`) is one action per call. Its three Fatal lines
  are `FatalBoot`; a failed calibration returns without `safe_shutdown`, so the
  E-STOP thread is still joinable when the core is destroyed and `Return` is
  `std::terminate`.
- `request_stop` is two steps, the store and the notification (`rs_store`,
  `rs_notify`), and the timed wait is three (test, block, time out).
- `EStopLatch::trigger` is three steps; the loser of the exchange skips two.
- `StateStore::save` is two reads of `state`, because `persist_thread` passes the
  live object while the control thread writes it; a file whose halves disagree
  does not load.
- A Fatal line with `flush_always` locks `mu_` twice, which is undefined for
  `std::mutex`. `Relock` names the two outcomes a build shows: the thread blocks
  with the mutex held, or `lock()` throws. Any other log line waits for the mutex.
- The handlers that differ in effect are kept (`Kinds`): EmergencyStop, Shutdown,
  Reboot, Stop, the stub handlers that only accept, and what is rejected without a
  handler. A sleep only delays the read that follows it, so it is no step.
- The stubs' `init`, `enable` and the calibration always succeed today; `run`
  handles their failure, and `Failures` lets them fail.
- `start_runtime` constructs four `std::thread`s one after the other;
  `SpawnRuntime` does it at once. A thread that starts late is a thread that does
  not move, so nothing is lost. `Spawned` lets a run leave out threads it does not
  need.

### CommandRouter

`submit` and the head of `process_one` are atomic (they hold `mu_`); the handler
and the callback are steps of their own, on `now`, which the consumer read before
its batch. `Age` subtracts modulo `Modulus`. A command carries the time its sender
stamped it with, the time to live, the priority, and an id; an id of 0 is invalid.
Every consumer is `control_thread`; `UgvCore` has one, and the class allows more.
Its loop (`UgvCore.cpp:307-310`) ends when a stop is requested and calls nothing
once the E-STOP is latched. Only handlers do either (the commands of `Stopping`),
so `ended` is set by `RunHandler` and read by `BeginBatch`: the batch in progress
goes on, and no other begins. Fairness does not make the handler of a command in
`Wedging` return, as that of an EmergencyStop need not with `flush_always`.

### StateStore

`tmp` and `bin` are the contents of the temporary file and of `state.bin`: nothing
readable, or a header's checksum and a payload, each standing for the state it was
made from (two different states have different CRCs). `pc` is the operation `save`
does next. `Die` may happen anywhere. `held` and `recent` are history: the values
`state_` has had since this save, and since the last successful save, began.

### CommandBridge

A file is a sequence of tokens: a command line is its first byte, the rest, and a
newline; a result line is one token and a newline; a telemetry frame is one token,
or two when it does not fit the stream's buffer (`LongFrames`), and a newline.
That is exactly the granularity at which the readers and writers can see each
other: `writeln!` makes two writes, an R line one, and `pump_rx` can step over one
byte that it took for a newline. `ReadLine` is one turn of the loop in `pump_rx`,
whose offset grows by the length of the line plus one whether or not the newline
was there. `ReadTelemetry` is one `read_line` of `drain_lines`, whose offset grows
by the bytes read. Two clients, their deaths, a newline that cannot be written
(`FailSend`: the client lives on, its line unfinished), and restarts of the core
(offset 0 again) are part of the environment. `PublishResult` appends the R line, or
nothing where `telemetry.out` cannot be opened, which the control thread ignores;
`Unpublishable` bounds the commands it may happen to.

The core that reads the file has a life: `q` is the router's queue, `batch` what is
left of `process_some`, and a command in `Stopping` asks for the stop, after which
the batch still runs to its end, the control thread leaves its loop with what is
in the queue, and `Exit` ends the life (`UgvCore` has the rest of that shutdown). A
command in `Timed` has a time to live and is rejected once it is `stale`; the
others are replayed by the next life. A handler of a command in `Wedging` need not
return; the core then goes no further (`Wedged`).

### CommandWire, Base64, Telemetry, Checksum

These four are about values, and have one actor each: every behaviour is the
journey of one message. In `CommandWire` a field of a line is the number
`std::stoull` reads, `Junk` where it has no digits and `TooBig` where it throws;
`Cut` is the cast to the width of an enumeration; the enumerations are the tables
of `models/enums`. `ProcessOne` leaves open what `CommandRouter` decides (the age)
and what a handler may answer. Any name may have been taken for
`RejectReason::SafetyLockout`, which the enumeration lacks. `Base64` steps once per
block; `Standard` gives each place of RFC 4648's text directly, and is the
meaning the Rust client gives to a payload. In `Telemetry` everything read in a
turn carries its number, which is how an old value is told from a new one, and a
name is the sequence of parts that its separators make of it. A joint has all its
five parts; a reading is a whole number of `1/Unit`, and `Rounded` is what `operator<<`
leaves of it, six digits with a tie going to the even one. `Checksum` runs
`crc32_ieee` on two payloads at a time, the one `save` reads for the checksum and
the one it reads for the file, and compares with the division of polynomials.

### Logger, UgvMain, LogFile

A line is two tokens, so that a kill can come between them. `buffer` is what the
stream has not handed to the file: it may do so during any write, must do so in
`flush` and in the destructor, and loses it when the process is killed. `gmu` and
`mu` are the two mutexes, `life` the object behind the global pointer. A use of
that object after its end is `process = "undefined"`, a call of `logger()` without
one `"terminated"` (it throws, and no thread catches). `UgvMain` is `main`
statement by statement; `run()` is what its logger sees of it: the threads it
starts, of which a calibration that fails leaves one behind. `born` marks where one
process ends and the next begins.

## 3. Runs

| Run | Instance | Question |
|---|---|---|
| `core_shutdown` | control, io; 2 commands of EmergencyStop, Shutdown, Stop; queue 1, batch 2; boot failures; Fatal lines return | the safety properties of the runtime; a stop terminates, a latch disables |
| `core_boot` | all four spawned threads; 1 command, EmergencyStop or Reboot; two stored files; every failure; `flush_always` with both outcomes | `IInv`, that an E-STOP gets through to the drives past a wedged logger, and that a stop still terminates unless latched |
| `core_flush_estop` | control, io; 2 commands; `flush_always` blocks | must find: the latch does not disable the drives |
| `router_order` | 1 consumer, 3 commands of Stop and EmergencyStop (which ends the loop and may not return), queue 2, batch 2, stamps 0 and 1, time to live 1 | refinement of `CommandService`, order, expiry, every accepted command answered but for those behind the end of the loop |
| `router_false_expiry` | 1 consumer, 2 commands | must find: a fresh command is rejected as expired |
| `router_preemption` | 1 consumer, 2 priorities | must find: Critical does not preempt |
| `store_faults` | 3 values, 3 failing operations of any kind, 2 writes, 2 deaths | refinement of `StateCell`, no rollback, where the state can be lost, repair |
| `bridge_channel` | 1 client, 4 commands (one empty, two that stop the core, one of these with a time to live and a handler that may not return, one whose result may not be written), queue 2, batch 2, 1 restart | refinement of `CommandChannel`, results in order, the commands the queue has room for answered, what a stop leaves behind and a restart repeats |
| `bridge_race` | 2 symmetric clients, 2 commands, 2 long frames, 1 client that dies or fails to write a newline, 1 restart | what two writers can damage; results are genuine |
| `bridge_empty` | 1 client, 2 commands, one empty | must find: a command is never delivered |
| `wire` | every command of the API with three pairs of id and time, with and without a payload; lines whose fields are around the width of the enumeration or no numbers; every status and reason; two turns of the sensor loop with up to two joints, names with and without separator, readings on both sides of zero and of six digits; texts of up to 5 characters and some of 8; all states with their neighbours | what is sent is what is read, what is damaged runs nothing, the codecs are the standard's, states are told apart |
| `logger` | main and 2 workers, 5 lines, 1 kill, levels Debug, Info and Fatal, with and without `flush_always` | refinement of `LogFile`, whole lines, teardown, completeness, `log()` returns |

Bounds, and why they are enough. Two commands let one handler stop the core while
the next one of the same batch still runs, and put an EmergencyStop on both sides
of a Shutdown; that is all `NoEStopLost` and `AcksTruthful` can tell apart. A
queue of one is full after one command, and a batch of two crosses from one
command to the next. In the router three commands against a queue of two fill it,
drain it and fill it again, with one behind the command that ends the loop; the
clock of 3 ticks and the time to live of 1 have both sides of `age = ttl` and, in
`router_false_expiry`, a command stamped after the batch read the clock, whose age
wraps in `Modulus` 8. Other times to live, 2^w - 1 among them, are the theorems'. In
the store three faults are what it takes to fail a
rename, the removal and the second rename in one save; two writes and two deaths
let a state be saved, torn, and lost or repaired across two lives. In
`bridge_channel` four commands put one in front of the stop, one behind it in the
batch and one behind it in the queue, which with its two places also refuses some:
after a restart the whole file is read in one go. There are no frames, because
`bridge_race` has them and the proof of `ResultsInOrder` covers any number. Two
clients are one more than is safe to append without a lock; one fault
(`MaxClientFaults`) and one restart give each its successor. In `wire` texts of 5
characters have each place of a block, a
length that is no block, and `=` and foreign characters everywhere; numbers on both
sides of 2^16 show the cut, and two joints put one, and the count of the sensors,
behind another. In `logger` five lines are two per thread and one more,
across a kill; the frames of two turns show what the first leaves to the second. The
runs without symmetry check refinements and liveness; the one that uses it checks
only invariants. What the bounds cut off (longer queues, more commands, clients,
threads, longer texts and payloads) is what the theorems cover.

The type invariant of each module that has one is proved; `IInv`, which contains
that of `UgvCore`, is also checked by `core_boot`.

Deadlock is checked where the system has an end of its own (`core_shutdown`: `Over`
is the only way to stop; the router and the store always have a step). It is off in
the runs with a wedged logger, which is a real deadlock, in the bridge runs, where
bounded clients run out of commands, in `wire`, where a journey ends, and in
`logger`, where a process does.

## 4. Fairness

`UgvCore!Fairness` is weak fairness of each of the six threads: the operating
system schedules every runnable thread, and the timeout of `wait_for` elapses. A
thread blocked on the logger's mutex is not enabled, so nothing is assumed of it.
A mutex that is contended but free is modelled as available; the critical sections
of the logger are finite except for the self-deadlock. No fairness is assumed of
the arrival of commands, and no property depends on it. In `CommandRouter` the
control thread calls `process_some` again until a handler has ended its loop, and
finishes the batch it is in; a handler of `Wedging` is not bound to return. In
`StateStore` the
persist loop saves for ever and a dead process is started again; writes, deaths and
faults are bounded, so `CatchesUp` is about a state that has become quiet. In
`CommandBridge` the io and control threads loop while the core is up, the latter
until a stop is requested, and neither beyond a handler that may not return
(`Wedged`); a client that has written a line ends it, by its newline or by failing
to write it, and polls; no core is made to start, and no write to succeed. In
`UgvMain` every thread inside `log()` and `main` itself go on, and a worker that is
not logging ends in the end, as the join in `run()` needs; nothing makes a worker
log, a process die or a new one start. Strong fairness is not used anywhere.

## 5. What the code does otherwise than it says

Each is a run that must find the violation; PROJECT.json quotes the lines.

1. `core_flush_estop`: with `flush_always`, which `main.cpp` sets, a Fatal line
   locks `Logger::mu_` twice. The EmergencyStop handler never returns, and a thread
   that had not logged yet never starts: the E-STOP can be latched with the drives
   on for ever. `core_boot` shows the other side: once the E-STOP thread is past that
   line, and if nobody had asked for a stop before, `EStopGetsThrough`.
2. `router_false_expiry`: a command stamped after the batch read the clock has an
   age of nearly 2^64 and is rejected as expired.
3. `router_preemption`: the queue ignores priorities, so Critical does not preempt.
4. `bridge_empty`: a command with an empty payload is dropped as malformed.

Seen while reading: `UgvCore.cpp:170` uses `RejectReason::SafetyLockout`, which
`RejectReason.hpp` does not declare (`CommandWire` lets it be any member), and
`CMakeLists.txt` does not list `config/UgvCore.cpp`; the models are of the code as
written. A '|' in the name of a joint or sensor shifts the parts of a T line, and one
payload that is not text makes the client drop the whole frame: `TelemetrySurvives`
says what holds of the others. After a restart `pump_rx` begins at offset 0 and
delivers every old
command again, a Shutdown included; `CommandChannel` states that as `Rewind`, and
`ShutdownRepeats` that such a file ends every later life of the core that no handler
keeps. `pump_rx` ignores what `submit` returns, so a command that a full queue refuses
is never answered, and it reads the whole file in one loop against a queue of 256:
`PayloadAnswered` and `ShutdownRepeats` are stated for the first `max_queue` commands of
the file, which are never refused, and a Shutdown behind more of them need not repeat.
Nor is a command answered whose result finds `telemetry.out` unopenable
(`Iceoryx2Bridge.cpp:137`, ignored at `UgvCore.cpp:321`): `PayloadAnswered` excepts it.

## 6. Proofs

All are checked by TLAPS for every value of the constants that satisfies the
module's assumption, and only from it.

**UgvCoreProofs.** `Invariance`: `Spec => []IInv`. None of the safety properties
is inductive: that the drives are off after a Stop needs to know that main is past
`EnableDrives`, which needs the path of main, which needs `rc`. `IInv` is the
conjunction of `TypeOK` and twelve parts, each about one thread or one pair:
`MainPath` (labels and `rc`), `BootQuiet` (nothing has happened before the
spawn), `DrivesPath`, `ThreadsPath` (who can be joined), `StopPath` (where the flag
must be set), `LatchPath`, `EstopPath` and `WedgePath` (the latch, the E-STOP thread
and the logger),
`ControlPath` (what the current handler and each published result imply),
`SavePath` (the last save has no second writer), `StopOrigin` and `MissedLatch`
(who asked for the stop, the argument of `NoEStopLost`: if main missed the latch,
the stop it saw came from a Shutdown published before the EmergencyStop). Each part
is preserved by each thread's steps under the other parts; TLC checks `IInv` in
`core_boot`. `TypeCorrect`, `AcksStayTrue`, `DrivesAreGuarded`, `ExitIsClean`,
`FinalSaveIsWhole`, `EStopIsNotLost` follow from it, and
`DrivesStayOff` is the action property `NoReEnable` from the same invariant.
`WedgedDrivesHolds` is the safety half of `EStopGetsThrough`, for every instance: if
the drives are on with the logger wedged, the E-STOP is latched and the E-STOP thread
has still to run to `estop()`, or a stop had been asked for. It does not say that the
thread gets there, and from its first log line it does not (`core_flush_estop`).

**StateStoreProofs.** `StoreInv` adds `SaveInv` to `TypeOK` and `NoRollback`: while
a save is in progress `state_` is in `held` and `held` in `recent`; the temporary
file is empty when it is about to be written (`trunc`), and from then on it loads a
value of `held` if it loads at all. So what a rename publishes is a value of `held`
or nothing. From it follow `StoreTypes`, `StateNeverRollsBack` and the refinement
`StoreIsACell`, in which the renames and the removal are `Commit`, the start of
`save` is `Begin`, `load` is `Start`, and everything else, deaths included, stutters.
`WrittenInv` adds that the checksum and the payload in the temporary file are both
values of `held`: if that is one value only and the write was not cut short, they
are equal and the file loads (`WholeLoads`), so a loadable `state.bin` is lost
nowhere but in the two places `Survives` names (`LostInTwoPlaces`).

**CommandRouterProofs.** `RouterInv` is `TypeOK`, the expiry property, and that a
consumer about to report has a result; `QueueBounded` and `NothingRunsLate` follow
(the lemma `NotExpired` is where the wrapping subtraction is shown harmless in
this direction). For one consumer, `InStep` says that the accepted commands are
those answered, then the one held, then the queue, in this order;
`AnswersKeepOrder` follows. For any number of consumers `OnceInv` says that every
accepted command is in exactly one place, answered, in one consumer's hands or in
the queue, and in it once, and that none that was refused is in any
(`CommandsInOnePlace`). With it each step of the router is one of
`CommandService`, or changes no command's status: `PromiseKept`.

**CommandBridgeProofs.** `BridgeInv` ties the reader to the file: every command
sent has one place in it, in the order of sending; what was parsed lies before the
offset, and nothing is parsed twice in a life; a line before the offset that was
not parsed has no newline in front of it, and one whose payload was spoilt none
behind it; the queue is in the order of the file, behind the command that stopped
the core. From it follow `BridgeTypeSafe`, `SubmittedOnceHolds`,
`DamageNeedsRaceHolds` and `LeftBehindHolds`, for any number of clients, deaths and
restarts. `NoneInvented` counts, for each client and command, the R tokens in front
of its offset in `telemetry.out`: it has polled no more, whatever is written, so
`ResultsAreGenuineHolds`. Without long frames every line is a token and a newline
and every offset stands behind a newline (`LinesAreTokens`), and
`ResultsInOrderHolds`; with them a result may be lost behind half a frame.
`FileIsAChannel` is the refinement of `CommandChannel` for one client that ends every
line it begins (`OneClient`: it neither dies before the newline nor fails to write it,
`iceoryx2_transport.rs:176`; without it the refinement is false, which
is what `DamageNeedsRace` is about): `ChannelInv` says that every command of the
file has its three tokens in place, the last one but for the newline still to come,
that the reader stands behind one of these lines, and that what it delivered are
the commands with a payload in front of it.

**Base64Proofs.** `CodecInv`: after `m` turns the encoder has the first `4 * m`
places of `Standard(input)`, the decoder the first bytes of what the text stands
for. One turn is arithmetic on one block. So both loops are right for inputs of
every length, without an induction over the data: the induction is over the steps.
A text may also come from elsewhere. `RefusedWholeHolds`: refused are exactly the texts
whose length is no multiple of four or that hold a foreign character, and nothing of
them is returned. That is less than RFC 4648 and the Rust crate refuse, and the
theorem says by how much: every accepted text is the standard encoding of the bytes
returned, unless a `=` is out of place (`PadAstray`) or there are bits behind the last
byte (`SpareBits`). For the other texts (`Regular`) each block spells the bytes it
decodes to (`RegularYields`), and after `m` turns the first `4 * m` characters are the
encoding of what is there (`Undone`).

**CommandWireProofs** has four parts.

The checksum. A turn of the inner loop is one to one, because the polynomial
has bit 31, which no shifted word has; so payloads that agree but in one byte stay
apart from that byte on. `ToldApartHolds` assumes that payloads of a pair differ in
one byte at most (`OneByteAtMost`): while threads run, only `last_authority` of the
state changes. `IsCRC32Holds` is for payloads of every length: `DivisionInv` says
that after `m` turns the dividend, reduced by the first `m` steps of the long
division by the generator, is the register, mirrored, added to the bytes still to come
(`DivisionTurns` unfolds that division, `TurningReduces` is its step).

The sensor loop. `SensorInv` says where the frame and the joints are of this
turn's reading, and where they are empty. The parts of a T line are counted for
every number of joints, of five parts each, and of sensors (`LineParts`, by
`FlattenEqual`), so that the client finds each where the core put it:
`TelemetrySurvivesHolds`, `FrameFreshHolds`. Readings are any whole multiples of
`1/Unit`, negative ones too, and arrive rounded to six digits.

The journeys of a command and of its result. `LineInv` says on each leg what the
envelope still is: made of the same numbers while the payload is decoded, where
`CodecInv` takes over, and equal to the one sent from then on; and that the handler
that ran is the one its number names. `ResultInv` says the same of the result. The
enumerations enter by four lemmas, which show that a status or a reason and its
number determine each other, that each number of the API names a command with a handler,
and that the casts keep every number in use. From these
`ParsedAsSentHolds`, `RightHandlerHolds` and `ResultSurvivesHolds`: for all
envelopes with any id, time and payload, for damaged lines of any fields and
length, and for messages of any length over the alphabet of the model: a letter, the
separator, and the `/` that replaces it.

The assumptions on the constants are what the code's types say: bytes and
symbols, pairs of payloads of one length, parts of names that are integers, doubles
or words.

**UgvMainProofs.** Whatever `main` and the workers are at, a step does one of nine
things to the calls of `log()` and to the file (`StepKinds`). `LinesInv` says that
the thread between lock and unlock is the holder of `mu_`, that one about to write
a tail has its head at the end of the file, and that a head of this process at the
end of the file has such a thread; so what follows a head is its tail, or a line of
a later process (`LinesWholeHolds`). `Owned` says that a thread in a call is among
the running, and these among those `run()` left (`TeardownSafeHolds`). With
`AllStand`, that a written line stands in the file, and `Gone`, that the destroyed
logger left nothing in the buffer, `ExitCompleteHolds` follows. `Saved` adds
that with `flush_always` a line is on the disk before its `log()` returns, so that no
kill takes it away; with it every step appends one line, cuts some off behind the
promised ones, promises more, or changes neither (`JournalStep`), which is
`FileIsAJournal`, the refinement of `LogFile`. `MainTypes` is the type invariant.

**DataLemmas.** The library's induction theorems take an operator as a parameter,
which the provers here cannot instantiate. `Induction` is the same for a set of
numbers, from the least-number principle; `Recursion` shows that a function
defined by recursion on the numbers exists and unfolds; and from these follows what
`FlattenSeq`, `Kept` and the division of polynomials compute for inputs of every
length.

Every safety property and every refinement that a passing run checks has a
theorem. Only model-checked, because liveness under fairness and `ENABLED` are
beyond the prover: `StopTerminates`, `StopTerminatesUnlatched`, `LatchDisables` (where
Fatal lines return), `EStopGetsThrough` (where they do not), `AcceptedAnswered`,
`CatchesUp`, `PayloadAnswered`,
`ShutdownRepeats` and `LogReturns`. The four violations of section 5 are
counterexamples, for which a run is the proof.

## 7. Not modelled

- `Rate`: `sleep_until_next` only delays; its catch-up after an overrun changes no
  order of steps.
- `parse_args` and the usage text of `main.cpp`, which end before the logger exists.
- The console half of `Logger::log`, written under the same lock, the layout and
  time stamp of a line, and `set_min_level` and `logger_ready`, which nobody calls.
- `publish_sensor_frame` has no caller and `pump_tx` is empty.
- Readings that are infinite or no number, and the exponent `operator<<` prints: a
  reading is a finite number, and what is printed its value to six digits.
- White space at the end of a result's message, which `trim_end` takes off, and a
  newline in it, which would end its line.
- A line of `telemetry.out` that is not UTF-8, as a name may make it: `read_line` fails,
  `drain_lines` ends without moving its offset, and the client never gets behind it.
- A full disk under `commands.in`, `telemetry.out` and `robot.log`, where a write may
  stop half-way; `StateStore` has it for `state.bin`.
- The Rust data types without behaviour; `commands/enums.rs` is in no module;
  `ugv_api.rs` forwards.
- Power failure: `save` does not sync, so the order of completed file operations
  can be lost; the model keeps it.
- The text of the E-STOP reason, which only a log line reads.
- The programs under `cmake-build-debug` that CMake generates to identify compilers.

## 8. What is left

The parts were modelled in the order of their weight: the runtime first (it decides
what the rover does), the queue, the store and the transport it uses, then what is
in the lines and files, and the logger with `main`. What could be added:

1. The safety half of the liveness properties: that the runtime is never stuck
   before its end unless the logger is wedged, and a measure that each fair step
   lowers, as invariants and action properties; the step to `~>` stays with TLC.
2. The refinement of `CommandChannel` for several clients that take turns: nothing
   in the code makes them, so it would be about a file that is locked.
