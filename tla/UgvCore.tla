------------------------------ MODULE UgvCore ------------------------------
(***************************************************************************)
(* The runtime of config/UgvCore.cpp: the boot sequence and the supervisor *)
(* loop of the main thread, the E-STOP, control, sensor, io and persist    *)
(* threads, and what they share: StopController, EStopLatch, the drives,   *)
(* the command queue, state_ and its file, and the logger's mutex.         *)
(*                                                                         *)
(* Each step of a thread touches shared memory at most once.  pc[t] names  *)
(* the statement thread t is about to execute.  A thread blocked in        *)
(* sleep_until_next is at "check": the sleep only delays that read.        *)
(***************************************************************************)
EXTENDS Naturals, Sequences

CONSTANTS
  Commands,      \* kinds of commands that arrive, a subset of Kinds
  MaxCommands,   \* bound: commands that arrive in one life of the process
  MaxQueue,      \* CommandRouterConfig.max_queue (256)
  MaxBatch,      \* max_n of process_some in control_thread (8)
  Spawned,       \* threads start_runtime spawns; a run may leave some out
  Stored,        \* what an earlier life left: {s}, or {} if it does not load
  Failures,      \* which fallible operations may fail
  FlushAlways,   \* Logger::Config.flush_always (TRUE in main.cpp)
  Relock         \* what locking a std::mutex one already owns may do

(* Handlers that differ in their effect.  Stub is every handler that only  *)
(* accepts; Rejected is a command process_one refuses without a handler.   *)
Kinds == {"EmergencyStop", "Shutdown", "Reboot", "Stop", "Stub", "Rejected"}

ASSUME ConstantsAssumption ==
  /\ Commands \subseteq Kinds
  /\ MaxCommands \in Nat
  /\ MaxQueue \in Nat \ {0}
  /\ MaxBatch \in Nat \ {0}
  /\ Spawned \subseteq {"control", "sensor", "io", "persist"}
  /\ Failures \subseteq {"bringup", "calibration", "enable", "save", "directory"}
  /\ FlushAlways \in BOOLEAN
  /\ Relock \in (SUBSET {"blocks", "throws"}) \ {{}}

(* PersistentStateV1: authority is "Issuer" once a command set it. *)
States == [calibrated : BOOLEAN, authority : {"Unknown", "Issuer"}]

ASSUME StoredAssumption == Stored \subseteq {{}} \cup {{s} : s \in States}

VARIABLES
  pc,           \* statement each thread is at; "off" before it is spawned
  process,      \* "running", "exited" or "terminated" (std::terminate)
  rc,           \* the value run() is going to return, 0 unless a step fails
  threads,      \* threads_: the spawned threads main has not joined
  wedged,       \* thread stuck in Logger::log holding Logger::mu_, or "none"
  stop,         \* StopController::stop_
  latched,      \* EStopLatch::latched_
  reason,       \* whether EStopLatch::reason_ has been assigned
  drives,       \* "idle" until enabled, then "on" or "off"
  estopCalled,  \* whether IDriveSystem::estop() has been called
  q,            \* CommandRouter::q_
  received,     \* commands the io thread has read so far
  cur,          \* command the control thread is executing, and its result
  batch,        \* iterations process_some has done
  acks,         \* R lines of telemetry.out, in order
  state,        \* state_
  summed,       \* what the save in progress has computed its checksum of
  disk          \* {s} if loading state.bin yields s, {} if it fails

stopVars  == <<stop, latched, reason>>
driveVars == <<drives, estopCalled>>
cmdVars   == <<q, received, cur, batch, acks>>
storeVars == <<state, summed, disk>>
lifeVars  == <<process, rc, threads, wedged>>
vars == <<pc, lifeVars, stopVars, driveVars, cmdVars, storeVars>>

Workers == {"estop", "control", "sensor", "io", "persist"}
Threads == Workers \cup {"main"}

Cold   == [calibrated |-> FALSE, authority |-> "Unknown"]

(* The statement a popped command takes the control thread to, and the     *)
(* status its handler returns (Stop may change its own to Rejected).       *)
HandlerEntry ==
  [EmergencyStop |-> "cas", Shutdown |-> "rs_store", Reboot |-> "rs_store",
   Stop |-> "st_check", Stub |-> "post", Rejected |-> "post"]
HandlerStatus ==
  [EmergencyStop |-> "Succeeded", Shutdown |-> "Succeeded",
   Reboot |-> "Accepted", Stop |-> "Succeeded", Stub |-> "Accepted",
   Rejected |-> "Rejected"]
Results == [cmd : Kinds, status : {"Succeeded", "Accepted", "Rejected"}]

Init ==
  /\ pc = [t \in Threads |-> IF t = "main" THEN "bringup" ELSE "off"]
  /\ process = "running" /\ rc = 0 /\ threads = {} /\ wedged = "none"
  /\ stop = FALSE /\ latched = FALSE /\ reason = FALSE
  /\ drives = "idle" /\ estopCalled = FALSE
  /\ q = <<>> /\ received = 0 /\ batch = 0 /\ acks = <<>>
  /\ cur = [cmd |-> "Rejected", status |-> "Rejected"]
  /\ state = Cold /\ summed = Cold
  /\ disk \in Stored

Goto(t, from, to) == pc[t] = from /\ pc' = [pc EXCEPT ![t] = to]

-----------------------------------------------------------------------------
(* Logging.  log() takes mu_; for a Fatal line with flush_always it then   *)
(* calls flush(), which locks mu_ again: undefined, in practice the thread *)
(* blocks for ever with mu_ held, or lock() throws and nobody catches it.  *)

LoggerFree == wedged = "none"

FatalLog(t, from, to) ==
  /\ LoggerFree
  /\ \/ /\ ~FlushAlways
        /\ Goto(t, from, to)
        /\ UNCHANGED <<process, wedged>>
     \/ /\ FlushAlways /\ "blocks" \in Relock
        /\ pc[t] = from
        /\ wedged' = t
        /\ UNCHANGED <<pc, process>>
     \/ /\ FlushAlways /\ "throws" \in Relock
        /\ pc[t] = from
        /\ process' = "terminated"
        /\ UNCHANGED <<pc, wedged>>
  /\ UNCHANGED <<rc, threads, stopVars, driveVars, cmdVars, storeVars>>

Log(t, from, to) ==
  /\ LoggerFree
  /\ Goto(t, from, to)
  /\ UNCHANGED <<lifeVars, stopVars, driveVars, cmdVars, storeVars>>

-----------------------------------------------------------------------------
(* StopController: request_stop stores the flag, then notifies; a waiting  *)
(* main thread is the only one on the condition variable.                  *)

StoreStop(t) ==
  /\ Goto(t, "rs_store", "rs_notify")
  /\ stop' = TRUE
  /\ UNCHANGED <<latched, reason, lifeVars, driveVars, cmdVars, storeVars>>

NotifyStop(t, to) ==
  /\ pc[t] = "rs_notify"
  /\ pc' = [pc EXCEPT ![t] = to,
              !["main"] = IF t = "main" THEN to
                          ELSE IF @ = "blocked" THEN "wait" ELSE @]
  /\ UNCHANGED <<lifeVars, stopVars, driveVars, cmdVars, storeVars>>

(* IDriveSystem::estop and ::disable; the log line that follows the store  *)
(* is the statement "to".                                                  *)
DrivesEstop_LogOnly(t, from, to) ==   \* mutant: forgets the store
  Goto(t, from, to) /\ UNCHANGED <<lifeVars, stopVars, driveVars, cmdVars, storeVars>>

DrivesEstop(t, from, to) ==
  /\ Goto(t, from, to)
  /\ drives' = "off" /\ estopCalled' = TRUE
  /\ UNCHANGED <<lifeVars, stopVars, cmdVars, storeVars>>

DrivesDisable(t, from, to) ==
  /\ Goto(t, from, to)
  /\ drives' = "off"
  /\ UNCHANGED <<estopCalled, lifeVars, stopVars, cmdVars, storeVars>>

(* StateStore::save reads state_ twice, for the checksum and for the       *)
(* payload; a file whose two halves disagree does not load.  A save that   *)
(* fails leaves the old file or one that does not load (StateStore.tla has *)
(* the steps), and no caller looks at its result; create_directories may   *)
(* throw, which no caller catches.                                         *)
SaveChecksum(t, from, to) ==
  /\ \/ Goto(t, from, to) /\ summed' = state /\ UNCHANGED process
     \/ /\ "directory" \in Failures
        /\ pc[t] = from
        /\ process' = "terminated"
        /\ UNCHANGED <<pc, summed>>
  /\ UNCHANGED <<state, disk, rc, threads, wedged, stopVars, driveVars, cmdVars>>

SaveFile(t, from, to) ==
  /\ Goto(t, from, to)
  /\ \/ disk' = IF summed = state THEN {state} ELSE {}
     \/ "save" \in Failures /\ disk' \in {disk, {}}
  /\ UNCHANGED <<state, summed, lifeVars, stopVars, driveVars, cmdVars>>

LoopCheck_Forever(t, body) ==   \* mutant: never asks stop_requested()
  /\ Goto(t, "check", body)
  /\ UNCHANGED <<lifeVars, stopVars, driveVars, cmdVars, storeVars>>

(* while (!stop_.stop_requested()): the read at the head of every loop.    *)
LoopCheck(t, body) ==
  /\ Goto(t, "check", IF stop THEN "exit" ELSE body)
  /\ UNCHANGED <<lifeVars, stopVars, driveVars, cmdVars, storeVars>>

-----------------------------------------------------------------------------
(* The main thread: run().  Until SpawnRuntime only the E-STOP thread runs *)
(* beside it, so no log line of the boot sequence can block.               *)

MainKeeps == UNCHANGED <<stopVars, driveVars, cmdVars, storeVars>>

HardwareBringup ==
  /\ \/ Goto("main", "bringup", "spawn_estop") /\ UNCHANGED rc
     \/ "bringup" \in Failures /\ Goto("main", "bringup", "fatal") /\ rc' = 2
  /\ MainKeeps /\ UNCHANGED <<process, threads, wedged>>

StartEstopThread ==
  /\ pc["main"] = "spawn_estop"
  /\ pc' = [pc EXCEPT !["main"] = "load", !["estop"] = "start"]
  /\ threads' = threads \cup {"estop"}
  /\ MainKeeps /\ UNCHANGED <<process, rc, wedged>>

LoadState ==
  /\ Goto("main", "load", "calibrate")
  /\ state' \in IF disk = {} THEN {Cold} ELSE disk
  /\ UNCHANGED <<summed, disk, lifeVars, stopVars, driveVars, cmdVars>>

CalibrationSequence_Lenient ==   \* mutant: a failed calibration goes on
  /\ Goto("main", "calibrate", "save")
  /\ \/ state' = [state EXCEPT !.calibrated = TRUE]
     \/ "calibration" \in Failures /\ UNCHANGED state
  /\ UNCHANGED <<summed, disk, lifeVars, stopVars, driveVars, cmdVars>>

CalibrationSequence ==
  /\ \/ /\ Goto("main", "calibrate", "save")
        /\ state' = [state EXCEPT !.calibrated = TRUE]
        /\ UNCHANGED rc
     \/ /\ "calibration" \in Failures
        /\ Goto("main", "calibrate", "fatal")
        /\ rc' = 3
        /\ UNCHANGED state
  /\ UNCHANGED <<summed, disk, process, threads, wedged, stopVars, driveVars, cmdVars>>

ClearCalibrated ==
  /\ Goto("main", "clear", "save_failed")
  /\ state' = [state EXCEPT !.calibrated = FALSE]
  /\ UNCHANGED <<summed, disk, lifeVars, stopVars, driveVars, cmdVars>>

(* drives_.enable(), "only once runtime is about to start".                *)
EnableDrives ==
  /\ \/ Goto("main", "enable", "spawn") /\ drives' = "on" /\ UNCHANGED rc
     \/ /\ "enable" \in Failures
        /\ Goto("main", "enable", "fatal")
        /\ rc' = 4
        /\ UNCHANGED drives
  /\ UNCHANGED <<estopCalled, process, threads, wedged>>
  /\ UNCHANGED <<stopVars, cmdVars, storeVars>>

SpawnRuntime ==
  /\ pc["main"] = "spawn"
  /\ pc' = [t \in Threads |-> IF t = "main" THEN "wait"
                              ELSE IF t \in Spawned THEN "start" ELSE pc[t]]
  /\ threads' = threads \cup Spawned
  /\ MainKeeps /\ UNCHANGED <<process, rc, wedged>>

(* The three FATAL lines of run(), each before the failure's own path.     *)
FatalBoot ==
  FatalLog("main", "fatal", CASE rc = 2 -> "return" [] rc = 3 -> "clear"
                              [] OTHER -> "sd_warn")

(* while (!stop_requested()) wait_for_stop(250ms).  wait_for evaluates the *)
(* predicate before it blocks: a store and notify in between is lost, and  *)
(* the timeout, a step that is always possible, is what recovers it.       *)
WaitCheck ==
  /\ Goto("main", "wait", IF stop THEN "sd_warn" ELSE "to_block")
  /\ MainKeeps /\ UNCHANGED lifeVars

WaitBlock == Goto("main", "to_block", "blocked") /\ MainKeeps /\ UNCHANGED lifeVars

WaitTimeout == Goto("main", "blocked", "wait") /\ MainKeeps /\ UNCHANGED lifeVars

(* safe_shutdown(), up to the joins. *)
ChooseStopPath_Disable ==   \* mutant: always disable(), never estop()
  Goto("main", "sd_choose", "sd_disable") /\ MainKeeps /\ UNCHANGED lifeVars

ChooseStopPath ==
  /\ Goto("main", "sd_choose", IF latched THEN "sd_reason" ELSE "sd_disable")
  /\ MainKeeps /\ UNCHANGED lifeVars

(* Joining the threads one after the other is waiting until all are done.  *)
Join_EstopOnly ==   \* mutant: joins only the first thread
  /\ "estop" \in threads => pc["estop"] = "done"
  /\ Goto("main", "join", "sd_save")
  /\ threads' = {}
  /\ MainKeeps /\ UNCHANGED <<process, rc, wedged>>

Join ==
  /\ \A t \in threads : pc[t] = "done"
  /\ Goto("main", "join", "sd_save")
  /\ threads' = {}
  /\ MainKeeps /\ UNCHANGED <<process, rc, wedged>>

(* run() returns, main() logs and destroys the core: destroying a joinable *)
(* std::thread calls std::terminate.                                       *)
Return ==
  /\ LoggerFree
  /\ Goto("main", "return", "done")
  /\ process' = IF threads = {} THEN "exited" ELSE "terminated"
  /\ MainKeeps /\ UNCHANGED <<rc, threads, wedged>>

MainStep ==
  \/ HardwareBringup \/ StartEstopThread \/ LoadState \/ CalibrationSequence
  \/ SaveChecksum("main", "save", "save_file")
  \/ SaveFile("main", "save_file", "enable") \/ EnableDrives \/ SpawnRuntime
  \/ FatalBoot \/ ClearCalibrated
  \/ SaveChecksum("main", "save_failed", "save_failed_file")
  \/ SaveFile("main", "save_failed_file", "return")
  \/ WaitCheck \/ WaitBlock \/ WaitTimeout
  \/ Log("main", "sd_warn", "rs_store")
  \/ StoreStop("main") \/ NotifyStop("main", "sd_choose") \/ ChooseStopPath
  \/ Log("main", "sd_reason", "sd_estop")
  \/ DrivesEstop("main", "sd_estop", "sd_estop_fatal")
  \/ FatalLog("main", "sd_estop_fatal", "join")
  \/ DrivesDisable("main", "sd_disable", "sd_disable_warn")
  \/ Log("main", "sd_disable_warn", "join")
  \/ Join
  \/ SaveChecksum("main", "sd_save", "sd_save_file")
  \/ SaveFile("main", "sd_save_file", "sd_info")
  \/ Log("main", "sd_info", "return") \/ Return

-----------------------------------------------------------------------------
(* The E-STOP thread. *)

EstopLatchCheck_Logged ==   \* mutant: a log line in the loop, before estop()
  /\ LoggerFree
  /\ Goto("estop", "body", IF latched THEN "estop" ELSE "check")
  /\ UNCHANGED <<lifeVars, stopVars, driveVars, cmdVars, storeVars>>

EstopLatchCheck ==
  /\ Goto("estop", "body", IF latched THEN "estop" ELSE "check")
  /\ UNCHANGED <<lifeVars, stopVars, driveVars, cmdVars, storeVars>>

EstopStep ==
  \/ Log("estop", "start", "check") \/ LoopCheck("estop", "body")
  \/ EstopLatchCheck
  \/ DrivesEstop("estop", "estop", "estop_fatal")
  \/ FatalLog("estop", "estop_fatal", "rs_store")
  \/ StoreStop("estop") \/ NotifyStop("estop", "check")
  \/ Log("estop", "exit", "done")

-----------------------------------------------------------------------------
(* The control thread: process_some under the latch check of its loop, and *)
(* the handlers of register_default_command_handlers.                      *)

ControlKeeps == UNCHANGED <<lifeVars, stopVars, driveVars>>

ForgetAuthority ==
  /\ Goto("control", "init", "check")
  /\ state' = [state EXCEPT !.authority = "Unknown"]
  /\ ControlKeeps /\ UNCHANGED <<cmdVars, summed, disk>>

ControlLatchCheck_Refresh ==   \* mutant: enables the drives every cycle
  /\ Goto("control", "body", IF latched THEN "check" ELSE "pop")
  /\ drives' = IF latched THEN drives ELSE "on"
  /\ UNCHANGED <<estopCalled, lifeVars, stopVars, cmdVars, storeVars>>

ControlLatchCheck ==
  /\ Goto("control", "body", IF latched THEN "check" ELSE "pop")
  /\ ControlKeeps /\ UNCHANGED <<cmdVars, storeVars>>

(* process_one, the locked part, or the end of process_some. *)
ProcessOne ==
  /\ pc["control"] = "pop"
  /\ IF batch < MaxBatch /\ q # <<>>
     THEN /\ pc' = [pc EXCEPT !["control"] = HandlerEntry[Head(q)]]
          /\ cur' = [cmd |-> Head(q), status |-> HandlerStatus[Head(q)]]
          /\ q' = Tail(q)
          /\ batch' = batch + 1
     ELSE /\ pc' = [pc EXCEPT !["control"] = "check"]
          /\ batch' = 0
          /\ UNCHANGED <<cur, q>>
  /\ ControlKeeps /\ UNCHANGED <<received, acks, storeVars>>

(* EStopLatch::trigger: only the caller that wins the exchange goes on to  *)
(* assign the reason and log.                                              *)
TriggerLatch_Retry ==   \* mutant: tries until it wins the exchange
  /\ Goto("control", "cas", IF latched THEN "cas" ELSE "reason")
  /\ latched' = TRUE
  /\ UNCHANGED <<stop, reason, lifeVars, driveVars, cmdVars, storeVars>>

TriggerLatch ==
  /\ Goto("control", "cas", IF latched THEN "rs_store" ELSE "reason")
  /\ latched' = TRUE
  /\ UNCHANGED <<stop, reason, lifeVars, driveVars, cmdVars, storeVars>>

SetReason ==
  /\ Goto("control", "reason", "latch_fatal")
  /\ reason' = TRUE
  /\ UNCHANGED <<stop, latched, lifeVars, driveVars, cmdVars, storeVars>>

(* The Stop handler refuses while the E-STOP is latched. *)
StopHandler ==
  /\ Goto("control", "st_check", IF latched THEN "post" ELSE "st_disable")
  /\ cur' = IF latched THEN [cur EXCEPT !.status = "Rejected"] ELSE cur
  /\ ControlKeeps /\ UNCHANGED <<q, received, batch, acks, storeVars>>

(* on_processed: remember the authority, log, publish the result. *)
NoteAuthority ==
  /\ Goto("control", "post", "ack_log")
  /\ state' = IF cur.status = "Rejected" THEN state
              ELSE [state EXCEPT !.authority = "Issuer"]
  /\ ControlKeeps /\ UNCHANGED <<cmdVars, summed, disk>>

PublishResult ==
  /\ Goto("control", "publish", "pop")
  /\ acks' = Append(acks, cur)
  /\ ControlKeeps /\ UNCHANGED <<q, received, cur, batch, storeVars>>

ControlStep ==
  \/ Log("control", "start", "init") \/ ForgetAuthority
  \/ LoopCheck("control", "body") \/ ControlLatchCheck \/ ProcessOne
  \/ TriggerLatch \/ SetReason
  \/ FatalLog("control", "latch_fatal", "rs_store")
  \/ StoreStop("control") \/ NotifyStop("control", "post")
  \/ StopHandler \/ DrivesDisable("control", "st_disable", "st_warn")
  \/ Log("control", "st_warn", "post")
  \/ NoteAuthority \/ Log("control", "ack_log", "publish") \/ PublishResult
  \/ Log("control", "exit", "done")

-----------------------------------------------------------------------------
(* The io, persist and sensor threads.  pump_rx submits the commands it    *)
(* finds one by one; a full queue drops the command (the result of submit  *)
(* is ignored).  The sensor loop publishes telemetry, which is not state   *)
(* of this module.                                                         *)

PumpRx(c) ==
  /\ pc["io"] = "body"
  /\ received < MaxCommands
  /\ received' = received + 1
  /\ q' = IF Len(q) >= MaxQueue THEN q ELSE Append(q, c)
  /\ UNCHANGED <<pc, cur, batch, acks, lifeVars, stopVars, driveVars, storeVars>>

PumpEnd ==
  /\ Goto("io", "body", "check")
  /\ UNCHANGED <<lifeVars, stopVars, driveVars, cmdVars, storeVars>>

IoStep ==
  \/ Log("io", "start", "check") \/ LoopCheck("io", "body")
  \/ (\E c \in Commands : PumpRx(c)) \/ PumpEnd
  \/ Log("io", "exit", "done")

PersistStep ==
  \/ Log("persist", "start", "check") \/ LoopCheck("persist", "body")
  \/ SaveChecksum("persist", "body", "save_file")
  \/ SaveFile("persist", "save_file", "check")
  \/ Log("persist", "exit", "done")

SensorStep ==
  \/ Log("sensor", "start", "check") \/ LoopCheck("sensor", "check")
  \/ Log("sensor", "exit", "done")

-----------------------------------------------------------------------------
Running(A) == process = "running" /\ A

(* The process is over; nothing runs any more. *)
Over == process # "running" /\ UNCHANGED vars

Next ==
  \/ Running(MainStep) \/ Running(EstopStep) \/ Running(ControlStep)
  \/ Running(IoStep) \/ Running(PersistStep) \/ Running(SensorStep)
  \/ Over

(* The scheduler runs every thread that can run, and wait_for's timeout    *)
(* elapses.  Nothing is assumed of the commands that arrive.               *)
Fairness ==
  /\ WF_vars(Running(MainStep)) /\ WF_vars(Running(EstopStep))
  /\ WF_vars(Running(ControlStep)) /\ WF_vars(Running(IoStep))
  /\ WF_vars(Running(PersistStep)) /\ WF_vars(Running(SensorStep))

Spec == Init /\ [][Next]_vars
FairSpec == Spec /\ Fairness

-----------------------------------------------------------------------------
(* Properties *)

MainLabels ==
  {"bringup", "spawn_estop", "load", "calibrate", "save", "save_file",
   "enable", "spawn", "fatal", "clear", "save_failed", "save_failed_file",
   "wait", "to_block", "blocked", "sd_warn", "rs_store", "rs_notify",
   "sd_choose", "sd_reason", "sd_estop", "sd_estop_fatal", "sd_disable",
   "sd_disable_warn", "join", "sd_save", "sd_save_file", "sd_info", "return",
   "done"}
HandlerLabels ==
  {"cas", "reason", "latch_fatal", "rs_store", "rs_notify", "st_check",
   "st_disable", "st_warn"}
LoopLabels == {"off", "start", "check", "body", "exit", "done"}
Labels ==
  [main    |-> MainLabels,
   estop   |-> LoopLabels \cup {"estop", "estop_fatal", "rs_store", "rs_notify"},
   control |-> LoopLabels \cup HandlerLabels
               \cup {"init", "pop", "post", "ack_log", "publish"},
   sensor  |-> LoopLabels \ {"body"},
   io      |-> LoopLabels,
   persist |-> LoopLabels \cup {"save_file"}]

AllLabels == UNION {Labels[t] : t \in Threads}

(* Types, and the sizes the code bounds: the queue never exceeds max_queue *)
(* and process_some never runs more than max_n iterations.                 *)
TypeOK ==
  /\ pc \in [Threads -> AllLabels]
  /\ \A t \in Threads : pc[t] \in Labels[t]
  /\ process \in {"running", "exited", "terminated"}
  /\ rc \in {0, 2, 3, 4}
  /\ threads \in SUBSET Workers
  /\ wedged \in Threads \cup {"none"}
  /\ stop \in BOOLEAN /\ latched \in BOOLEAN /\ reason \in BOOLEAN
  /\ drives \in {"idle", "on", "off"} /\ estopCalled \in BOOLEAN
  /\ q \in Seq(Commands) /\ Len(q) <= MaxQueue
  /\ received \in 0..MaxCommands
  /\ cur \in Results /\ acks \in Seq(Results)
  /\ batch \in 0..MaxBatch
  /\ state \in States /\ summed \in States /\ disk \in SUBSET States

(* What a published result says stays true for ever: after "drives         *)
(* disabled" the drives are off, whatever main and the E-STOP thread do    *)
(* meanwhile; after "estop latched" and "shutdown requested" the latch and *)
(* the stop flag are set; Stop is refused only under the latch.            *)
AcksTruthful ==
  \A i \in 1..Len(acks) :
    /\ acks[i].cmd = "Stop" /\ acks[i].status = "Succeeded" => drives = "off"
    /\ acks[i].cmd = "Stop" /\ acks[i].status = "Rejected" => latched
    /\ acks[i].cmd = "EmergencyStop" => latched /\ stop
    /\ acks[i].cmd \in {"Shutdown", "Reboot"} => stop

(* The drives are on only with a calibrated rover and an E-STOP thread     *)
(* that has been started and not been joined.                              *)
DrivesGuarded ==
  drives = "on" => state.calibrated /\ "estop" \in threads

(* safe_shutdown: unless the bring-up failed, a process that exits has its *)
(* drives off, stop set and no thread of the core left running; and where  *)
(* Fatal lines return, only the failed calibration ends in std::terminate, *)
(* because its return path leaves the E-STOP thread joinable (or a save    *)
(* whose directory cannot be made).                                        *)
ExitClean ==
  /\ process = "exited" /\ rc # 2 =>
       /\ stop /\ drives # "on"
       /\ \A t \in Workers : pc[t] \in {"off", "done"}
  /\ process = "terminated" => rc = 3 \/ FlushAlways \/ "directory" \in Failures

(* The last save of safe_shutdown loses nothing: nobody writes state_      *)
(* between its two reads, so the next boot loads exactly the final state.  *)
FinalSave ==
  process = "exited" /\ rc # 2 /\ "save" \notin Failures => disk = {state}

(* A latched E-STOP reaches IDriveSystem::estop() before run() returns,    *)
(* except when an earlier command of the control thread had already asked  *)
(* for the shutdown: main may then pass its latch check before the E-STOP  *)
(* is latched, and only disable() is called.                               *)
NoEStopLost ==
  process = "exited" /\ latched /\ ~estopCalled =>
    \E i, j \in 1..Len(acks) :
      /\ i < j
      /\ acks[i].cmd \in {"Shutdown", "Reboot"}
      /\ acks[j].cmd = "EmergencyStop"

(* A wedged logger is not safe by itself: the drives may still be on.  But *)
(* then the control thread wedged it, in trigger, and the E-STOP thread has*)
(* yet to call estop(): it is at its first log line, which it can no longer*)
(* write, or in its loop, which writes none, or it had left the loop       *)
(* because a stop had been asked for before.                               *)
WedgedDrives ==
  wedged # "none" /\ drives = "on" =>
    /\ wedged = "control" /\ latched
    /\ pc["estop"] \in {"start", "check", "body", "estop"} \/ stop

(* Where Fatal lines wedge the logger or end the process, a latched E-STOP *)
(* still turns the drives off, provided that the E-STOP thread is past its *)
(* first log line and nobody had asked for a stop before: its loop takes no*)
(* mutex until estop() is called.  Both conditions are needed.             *)
EStopGetsThrough ==
  latched /\ ~stop /\ pc["estop"] # "start" ~> drives = "off" \/ process # "running"

(* The drives are enabled once, before anything can stop them: no step     *)
(* turns them on after a Stop, an E-STOP or a shutdown has been asked for. *)
NoReEnable ==
  [][drives' = "on" => drives = "on" \/ (drives = "idle" /\ ~stop /\ ~latched)]_vars

(* request_stop() ends the process: every thread leaves its loop and main  *)
(* joins them all, although the notification itself can be lost.           *)
StopTerminates == stop ~> process = "exited"

(* Where Fatal lines wedge the logger, a stop still ends the process as    *)
(* long as no E-STOP is latched and the boot did not fail; a save whose    *)
(* directory cannot be made ends it too, in std::terminate.  (A stop is    *)
(* never taken back, so this is what ~> would say.)                        *)
StopTerminatesUnlatched ==
  []<>(~stop \/ process # "running" \/ latched \/ rc # 0)

(* A latched E-STOP turns the drives off. *)
LatchDisables == latched ~> drives = "off"
=============================================================================
