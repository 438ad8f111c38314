---------------------------- MODULE UgvCoreProofs ----------------------------
(***************************************************************************)
(* UgvCore satisfies its safety properties for every value of its          *)
(* constants: IInv of UgvCoreInv is inductive, and they follow from it.    *)
(* There is one lemma per part of IInv, with one step per thread; where a  *)
(* thread's actions need different arguments, one step per action below.   *)
(***************************************************************************)
EXTENDS UgvCoreInv, TLAPS

USE DEF lifeVars, stopVars, driveVars, cmdVars, storeVars, Goto, MainKeeps,
        ControlKeeps, LoggerFree, Log, FatalLog, Running

-----------------------------------------------------------------------------
(* Types *)

(* The labels of each thread, one by one.                                  *)
LEMMA LabelsOf ==
  /\ DOMAIN Labels = Threads
  /\ Labels["main"] = MainLabels
  /\ Labels["estop"] = LoopLabels \cup {"estop", "estop_fatal", "rs_store", "rs_notify"}
  /\ Labels["control"] = LoopLabels \cup HandlerLabels
                         \cup {"init", "pop", "post", "ack_log", "publish"}
  /\ Labels["sensor"] = LoopLabels \ {"body"}
  /\ Labels["io"] = LoopLabels
  /\ Labels["persist"] = LoopLabels \cup {"save_file"}
  /\ \A t \in Threads : Labels[t] \subseteq AllLabels
BY DEF Labels, Threads, Workers, AllLabels

(* A jump to one of the thread's labels keeps every pc within its labels.  *)
LEMMA GotoTypes ==
  ASSUME TypeOK, NEW t \in Threads, NEW from, NEW to \in Labels[t], Goto(t, from, to)
  PROVE  pc' \in [Threads -> AllLabels] /\ \A u \in Threads : pc'[u] \in Labels[u]
BY LabelsOf DEF TypeOK, Goto

(* The types of the initial state.                                         *)
(* The types of the initial state.                                         *)
(* The types of the initial state.                                         *)
(* The types of the initial state.                                         *)
LEMMA InitTypes == Init => TypeOK
<1> SUFFICES ASSUME Init PROVE TypeOK
  OBVIOUS
<1>1. pc \in [Threads -> AllLabels] /\ \A t \in Threads : pc[t] \in Labels[t]
  BY LabelsOf DEF Init, Threads, Workers, LoopLabels, MainLabels
<1>2. q \in Seq(Commands) /\ Len(q) <= MaxQueue /\ acks \in Seq(Results)
  BY ConstantsAssumption DEF Init
<1>3. cur \in Results
  BY DEF Init, Results, Kinds
<1>4. state \in States /\ summed \in States /\ disk \in SUBSET States
  BY StoredAssumption DEF Init, States, Cold
<1>5. stop \in BOOLEAN /\ latched \in BOOLEAN /\ reason \in BOOLEAN /\ estopCalled \in BOOLEAN
  BY Zenon DEF Init
<1>6. threads \in SUBSET Workers /\ wedged \in Threads \cup {"none"}
  BY DEF Init
<1>7. received \in 0..MaxCommands /\ batch \in 0..MaxBatch /\ rc \in {0, 2, 3, 4}
  BY ConstantsAssumption DEF Init
<1>8. process \in {"running", "exited", "terminated"} /\ drives \in {"idle", "on", "off"}
  BY DEF Init
<1> QED
  BY <1>1, <1>2, <1>3, <1>4, <1>5, <1>6, <1>7, <1>8, Zenon DEF TypeOK

(* A popped command is one of the kinds the dispatch table knows.          *)
LEMMA HeadOfQueue ==
  ASSUME TypeOK, q # <<>>
  PROVE  /\ Head(q) \in Commands /\ Head(q) \in Kinds
         /\ Tail(q) \in Seq(Commands) /\ Len(Tail(q)) <= MaxQueue
         /\ HandlerEntry[Head(q)] \in Labels["control"]
         /\ [cmd |-> Head(q), status |-> HandlerStatus[Head(q)]] \in Results
<1>1. Head(q) \in Commands /\ Tail(q) \in Seq(Commands) /\ Len(Tail(q)) <= MaxQueue
  BY ConstantsAssumption DEF TypeOK
<1>2. Head(q) \in Kinds
  BY <1>1, ConstantsAssumption
<1>3. HandlerEntry[Head(q)] \in HandlerLabels \cup {"post"}
  BY <1>2 DEF Kinds, HandlerEntry, HandlerLabels
<1>4. HandlerStatus[Head(q)] \in {"Succeeded", "Accepted", "Rejected"}
  BY <1>2 DEF Kinds, HandlerStatus
<1> QED
  BY <1>1, <1>2, <1>3, <1>4, LabelsOf DEF Results

(* No step takes a thread to a statement of another one.                   *)
LEMMA PcTypes ==
  ASSUME TypeOK, [Next]_vars
  PROVE  pc' \in [Threads -> AllLabels] /\ \A u \in Threads : pc'[u] \in Labels[u]
<1>1. CASE Running(MainStep)
  BY <1>1, LabelsOf, GotoTypes DEF TypeOK, Threads, Workers, MainLabels,
    LoopLabels, HandlerLabels, MainStep, HardwareBringup, StartEstopThread,
    LoadState, CalibrationSequence, ClearCalibrated, EnableDrives,
    SpawnRuntime, FatalBoot, WaitCheck, WaitBlock, WaitTimeout,
    ChooseStopPath, Join, Return, StoreStop, NotifyStop, DrivesEstop,
    DrivesDisable, SaveChecksum, SaveFile
<1>2. CASE Running(EstopStep)
  BY <1>2, LabelsOf, GotoTypes DEF TypeOK, Threads, Workers, MainLabels,
    LoopLabels, HandlerLabels, EstopStep, EstopLatchCheck, LoopCheck,
    DrivesEstop, StoreStop, NotifyStop
<1>3. CASE Running(ControlStep)
  <2>1. CASE ProcessOne
    <3>1. \E to \in Labels["control"] : pc' = [pc EXCEPT !["control"] = to]
      <4>1. "check" \in Labels["control"]
        BY LabelsOf DEF LoopLabels
      <4> QED
        BY <2>1, <4>1, HeadOfQueue DEF ProcessOne
    <3>2. Labels["control"] \subseteq AllLabels /\ "control" \in Threads
      BY LabelsOf DEF Threads, Workers
    <3> QED
      BY <3>1, <3>2 DEF TypeOK
  <2>2. CASE NotifyStop("control", "post")
    BY <2>2, <1>3, LabelsOf, GotoTypes DEF TypeOK, Threads, Workers,
      MainLabels, LoopLabels, HandlerLabels, NotifyStop
  <2>3. CASE Log("control", "start", "init") \/ ForgetAuthority \/
            LoopCheck("control", "body") \/ ControlLatchCheck \/ TriggerLatch
            \/ SetReason \/ FatalLog("control", "latch_fatal", "rs_store") \/
            StoreStop("control") \/ StopHandler \/
            DrivesDisable("control", "st_disable", "st_warn") \/
            Log("control", "st_warn", "post") \/ NoteAuthority \/
            Log("control", "ack_log", "publish") \/ PublishResult \/
            Log("control", "exit", "done")
    BY <2>3, <1>3, LabelsOf, GotoTypes DEF TypeOK, Threads, Workers,
      MainLabels, LoopLabels, HandlerLabels, ForgetAuthority, LoopCheck,
      ControlLatchCheck, TriggerLatch, SetReason, StoreStop, StopHandler,
      DrivesDisable, NoteAuthority, PublishResult
  <2> QED
    BY <1>3, <2>1, <2>2, <2>3 DEF ControlStep
<1>4. CASE Running(IoStep)
  BY <1>4, LabelsOf, GotoTypes DEF TypeOK, Threads, Workers, MainLabels,
    LoopLabels, HandlerLabels, IoStep, PumpRx, PumpEnd, LoopCheck
<1>5. CASE Running(PersistStep)
  BY <1>5, LabelsOf, GotoTypes DEF TypeOK, Threads, Workers, MainLabels,
    LoopLabels, HandlerLabels, PersistStep, SaveChecksum, SaveFile, LoopCheck
<1>6. CASE Running(SensorStep)
  BY <1>6, LabelsOf, GotoTypes DEF TypeOK, Threads, Workers, MainLabels,
    LoopLabels, HandlerLabels, SensorStep, LoopCheck
<1>7. CASE Over \/ UNCHANGED vars
  BY <1>7, LabelsOf, GotoTypes DEF TypeOK, Threads, Workers, MainLabels,
    LoopLabels, HandlerLabels, Over, vars
<1> QED
  BY <1>1, <1>2, <1>3, <1>4, <1>5, <1>6, <1>7 DEF Next

(* The types of the life cycle, of the flags and of the drives.            *)
LEMMA LifeTypes ==
  ASSUME TypeOK, [Next]_vars
  PROVE  /\ process' \in {"running", "exited", "terminated"}
         /\ rc' \in {0, 2, 3, 4}
         /\ threads' \in SUBSET Workers
         /\ wedged' \in Threads \cup {"none"}
         /\ drives' \in {"idle", "on", "off"}
<1>1. CASE Running(MainStep)
  BY <1>1, ConstantsAssumption DEF TypeOK, Threads, Workers, MainStep,
    HardwareBringup, StartEstopThread, LoadState, CalibrationSequence,
    ClearCalibrated, EnableDrives, SpawnRuntime, FatalBoot, WaitCheck,
    WaitBlock, WaitTimeout, ChooseStopPath, Join, Return, StoreStop,
    NotifyStop, DrivesEstop, DrivesDisable, SaveChecksum, SaveFile
<1>2. CASE Running(EstopStep)
  BY <1>2, ConstantsAssumption DEF TypeOK, Threads, Workers, EstopStep,
    EstopLatchCheck, LoopCheck, DrivesEstop, StoreStop, NotifyStop
<1>3. CASE Running(ControlStep)
  BY <1>3, ConstantsAssumption DEF TypeOK, Threads, Workers, ControlStep,
    ForgetAuthority, LoopCheck, ControlLatchCheck, ProcessOne, TriggerLatch,
    SetReason, StoreStop, NotifyStop, StopHandler, DrivesDisable,
    NoteAuthority, PublishResult
<1>4. CASE Running(IoStep)
  BY <1>4, ConstantsAssumption DEF TypeOK, Threads, Workers, IoStep, PumpRx,
    PumpEnd, LoopCheck
<1>5. CASE Running(PersistStep)
  BY <1>5, ConstantsAssumption DEF TypeOK, Threads, Workers, PersistStep,
    SaveChecksum, SaveFile, LoopCheck
<1>6. CASE Running(SensorStep)
  BY <1>6, ConstantsAssumption DEF TypeOK, Threads, Workers, SensorStep,
    LoopCheck
<1>7. CASE Over \/ UNCHANGED vars
  BY <1>7, ConstantsAssumption DEF TypeOK, Threads, Workers, Over, vars
<1> QED
  BY <1>1, <1>2, <1>3, <1>4, <1>5, <1>6, <1>7 DEF Next

LEMMA FlagTypes ==
  ASSUME TypeOK, [Next]_vars
  PROVE  /\ stop' \in BOOLEAN /\ latched' \in BOOLEAN
         /\ reason' \in BOOLEAN /\ estopCalled' \in BOOLEAN
<1>1. CASE Running(MainStep)
  BY <1>1, Zenon DEF TypeOK, MainStep, HardwareBringup, StartEstopThread,
    LoadState, CalibrationSequence, ClearCalibrated, EnableDrives,
    SpawnRuntime, FatalBoot, WaitCheck, WaitBlock, WaitTimeout,
    ChooseStopPath, Join, Return, StoreStop, NotifyStop, DrivesEstop,
    DrivesDisable, SaveChecksum, SaveFile
<1>2. CASE Running(EstopStep)
  BY <1>2, Zenon DEF TypeOK, EstopStep, EstopLatchCheck, LoopCheck,
    DrivesEstop, StoreStop, NotifyStop
<1>3. CASE Running(ControlStep)
  BY <1>3, Zenon DEF TypeOK, ControlStep, ForgetAuthority, LoopCheck,
    ControlLatchCheck, ProcessOne, TriggerLatch, SetReason, StoreStop,
    NotifyStop, StopHandler, DrivesDisable, NoteAuthority, PublishResult
<1>4. CASE Running(IoStep)
  BY <1>4, Zenon DEF TypeOK, IoStep, PumpRx, PumpEnd, LoopCheck
<1>5. CASE Running(PersistStep)
  BY <1>5, Zenon DEF TypeOK, PersistStep, SaveChecksum, SaveFile, LoopCheck
<1>6. CASE Running(SensorStep)
  BY <1>6, Zenon DEF TypeOK, SensorStep, LoopCheck
<1>7. CASE Over \/ UNCHANGED vars
  BY <1>7, Zenon DEF TypeOK, Over, vars
<1> QED
  BY <1>1, <1>2, <1>3, <1>4, <1>5, <1>6, <1>7 DEF Next

(* The types and bounds of the commands: q never exceeds max_queue, a      *)
(* batch never max_n.                                                      *)
LEMMA CommandTypes ==
  ASSUME TypeOK, [Next]_vars
  PROVE  /\ q' \in Seq(Commands) /\ Len(q') <= MaxQueue
         /\ received' \in 0..MaxCommands
         /\ cur' \in Results /\ acks' \in Seq(Results)
         /\ batch' \in 0..MaxBatch
<1>1. CASE Running(MainStep)
  BY <1>1 DEF TypeOK, MainStep, HardwareBringup, StartEstopThread, LoadState,
    CalibrationSequence, ClearCalibrated, EnableDrives, SpawnRuntime,
    FatalBoot, WaitCheck, WaitBlock, WaitTimeout, ChooseStopPath, Join,
    Return, StoreStop, NotifyStop, DrivesEstop, DrivesDisable, SaveChecksum,
    SaveFile
<1>2. CASE Running(EstopStep)
  BY <1>2 DEF TypeOK, EstopStep, EstopLatchCheck, LoopCheck, DrivesEstop,
    StoreStop, NotifyStop
<1>3. CASE Running(ControlStep)
  <2>1. CASE ProcessOne
    <3>1. CASE batch < MaxBatch /\ q # <<>>
      <4>1. batch' \in 0..MaxBatch
        BY <2>1, <3>1, ConstantsAssumption DEF TypeOK, ProcessOne
      <4>2. /\ q' = Tail(q) /\ received' = received /\ acks' = acks
            /\ cur' = [cmd |-> Head(q), status |-> HandlerStatus[Head(q)]]
        BY <2>1, <3>1 DEF ProcessOne
      <4> QED
        BY <3>1, <4>1, <4>2, HeadOfQueue DEF TypeOK
    <3>2. CASE ~(batch < MaxBatch /\ q # <<>>)
      BY <2>1, <3>2, ConstantsAssumption DEF TypeOK, ProcessOne
    <3> QED
      BY <3>1, <3>2
  <2>2. CASE StopHandler
    BY <2>2, <1>3 DEF TypeOK, Results, StopHandler
  <2>3. CASE Log("control", "start", "init") \/ Log("control", "st_warn", "post")
             \/ Log("control", "ack_log", "publish") \/ Log("control", "exit", "done")
             \/ FatalLog("control", "latch_fatal", "rs_store")
    BY <2>3 DEF TypeOK
  <2>4. CASE LoopCheck("control", "body") \/ ControlLatchCheck \/ TriggerLatch \/ SetReason
    BY <2>4 DEF TypeOK, LoopCheck, ControlLatchCheck, TriggerLatch, SetReason
  <2>5. CASE StoreStop("control") \/ NotifyStop("control", "post")
             \/ DrivesDisable("control", "st_disable", "st_warn")
    BY <2>5 DEF TypeOK, StoreStop, NotifyStop, DrivesDisable
  <2>6. CASE ForgetAuthority \/ NoteAuthority
    BY <2>6 DEF TypeOK, ForgetAuthority, NoteAuthority
  <2>7. CASE PublishResult
    BY <2>7 DEF TypeOK, PublishResult
  <2> QED
    BY <1>3, <2>1, <2>2, <2>3, <2>4, <2>5, <2>6, <2>7 DEF ControlStep
<1>4. CASE Running(IoStep)
  <2>1. ASSUME NEW c \in Commands, PumpRx(c)
        PROVE  /\ q' \in Seq(Commands) /\ Len(q') <= MaxQueue
               /\ received' \in 0..MaxCommands
    <3>1. Append(q, c) \in Seq(Commands) /\ Len(Append(q, c)) = Len(q) + 1
      BY DEF TypeOK
    <3>2. Len(q) \in Nat
      BY DEF TypeOK
    <3>3. q' \in Seq(Commands) /\ Len(q') <= MaxQueue
      BY <2>1, <3>1, <3>2, ConstantsAssumption DEF TypeOK, PumpRx
    <3> QED
      BY <2>1, <3>3, ConstantsAssumption DEF TypeOK, PumpRx
  <2>2. CASE \E c \in Commands : PumpRx(c)
    BY <2>1, <2>2 DEF TypeOK, PumpRx
  <2>3. CASE Log("io", "start", "check") \/ LoopCheck("io", "body") \/ PumpEnd
             \/ Log("io", "exit", "done")
    BY <2>3 DEF TypeOK, LoopCheck, PumpEnd
  <2> QED
    BY <1>4, <2>2, <2>3 DEF IoStep
<1>5. CASE Running(PersistStep)
  BY <1>5 DEF TypeOK, PersistStep, SaveChecksum, SaveFile, LoopCheck
<1>6. CASE Running(SensorStep)
  BY <1>6 DEF TypeOK, SensorStep, LoopCheck
<1>7. CASE Over \/ UNCHANGED vars
  BY <1>7 DEF TypeOK, Over, vars
<1> QED
  BY <1>1, <1>2, <1>3, <1>4, <1>5, <1>6, <1>7 DEF Next

(* The types of state_ and its file.                                       *)
LEMMA StoreTypes ==
  ASSUME TypeOK, [Next]_vars
  PROVE  state' \in States /\ summed' \in States /\ disk' \in SUBSET States
<1>1. CASE Running(MainStep)
  <2>1. CASE LoadState
    <3>1. Cold \in States
      BY DEF States, Cold
    <3>2. state' \in States
      BY <2>1, <3>1 DEF TypeOK, LoadState
    <3> QED
      BY <2>1, <3>2 DEF TypeOK, LoadState
  <2>2. CASE SaveFile("main", "save_file", "enable")
    BY <2>2, <1>1 DEF TypeOK, States, SaveFile
  <2>3. CASE SaveFile("main", "save_failed_file", "return")
    BY <2>3, <1>1 DEF TypeOK, States, SaveFile
  <2>4. CASE SaveFile("main", "sd_save_file", "sd_info")
    BY <2>4, <1>1 DEF TypeOK, States, SaveFile
  <2>5. CASE HardwareBringup \/ StartEstopThread \/ CalibrationSequence \/
            SaveChecksum("main", "save", "save_file") \/ EnableDrives \/
            SpawnRuntime \/ FatalBoot \/ ClearCalibrated \/
            SaveChecksum("main", "save_failed", "save_failed_file") \/
            WaitCheck \/ WaitBlock \/ WaitTimeout \/
            Log("main", "sd_warn", "rs_store") \/ StoreStop("main") \/
            NotifyStop("main", "sd_choose") \/ ChooseStopPath \/
            Log("main", "sd_reason", "sd_estop") \/
            DrivesEstop("main", "sd_estop", "sd_estop_fatal") \/
            FatalLog("main", "sd_estop_fatal", "join") \/
            DrivesDisable("main", "sd_disable", "sd_disable_warn") \/
            Log("main", "sd_disable_warn", "join") \/ Join \/
            SaveChecksum("main", "sd_save", "sd_save_file") \/
            Log("main", "sd_info", "return") \/ Return
    BY <2>5, <1>1 DEF TypeOK, States, HardwareBringup, StartEstopThread,
      CalibrationSequence, SaveChecksum, EnableDrives, SpawnRuntime,
      FatalBoot, ClearCalibrated, WaitCheck, WaitBlock, WaitTimeout,
      StoreStop, NotifyStop, ChooseStopPath, DrivesEstop, DrivesDisable, Join,
      Return
  <2> QED
    BY <1>1, <2>1, <2>2, <2>3, <2>4, <2>5 DEF MainStep
<1>2. CASE Running(EstopStep)
  BY <1>2 DEF TypeOK, States, EstopStep, EstopLatchCheck, LoopCheck,
    DrivesEstop, StoreStop, NotifyStop
<1>3. CASE Running(ControlStep)
  BY <1>3 DEF TypeOK, States, ControlStep, ForgetAuthority, LoopCheck,
    ControlLatchCheck, ProcessOne, TriggerLatch, SetReason, StoreStop,
    NotifyStop, StopHandler, DrivesDisable, NoteAuthority, PublishResult
<1>4. CASE Running(IoStep)
  BY <1>4 DEF TypeOK, States, IoStep, PumpRx, PumpEnd, LoopCheck
<1>5. CASE Running(PersistStep)
  BY <1>5 DEF TypeOK, States, PersistStep, SaveChecksum, SaveFile, LoopCheck
<1>6. CASE Running(SensorStep)
  BY <1>6 DEF TypeOK, States, SensorStep, LoopCheck
<1>7. CASE Over \/ UNCHANGED vars
  BY <1>7 DEF TypeOK, States, Over, vars
<1> QED
  BY <1>1, <1>2, <1>3, <1>4, <1>5, <1>6, <1>7 DEF Next

(* Types are kept.                                                         *)
LEMMA TypeStep ==
  ASSUME TypeOK, [Next]_vars
  PROVE  TypeOK'
BY PcTypes, LifeTypes, FlagTypes, CommandTypes, StoreTypes, Zenon DEF TypeOK

-----------------------------------------------------------------------------
(* The inductive invariant, part by part *)

(* Only the three failures of the boot set rc, each before its own path; a *)
(* process is over either because run() returned without joinable threads, *)
(* or by one of the known calls of std::terminate.                         *)
LEMMA MainPathStep ==
  ASSUME TypeOK, MainPath, ThreadsPath, [Next]_vars
  PROVE  MainPath'
<1>1. CASE Running(MainStep)
  BY <1>1, LabelsOf, SMTT(60) DEF TypeOK, Threads, Workers, MainPath, ThreadsPath, Boot,
    Waiting, Stopping, DrivesDone, Joined, MainStep, HardwareBringup,
    StartEstopThread, LoadState, CalibrationSequence, ClearCalibrated,
    EnableDrives, SpawnRuntime, FatalBoot, WaitCheck, WaitBlock, WaitTimeout,
    ChooseStopPath, Join, Return, StoreStop, NotifyStop, DrivesEstop,
    DrivesDisable, SaveChecksum, SaveFile
<1>2. CASE Running(EstopStep)
  BY <1>2, LabelsOf DEF TypeOK, Threads, Workers, MainPath, ThreadsPath, Boot,
    Waiting, Stopping, DrivesDone, Joined, EstopStep, EstopLatchCheck,
    LoopCheck, DrivesEstop, StoreStop, NotifyStop
<1>3. CASE Running(ControlStep)
  BY <1>3, LabelsOf DEF TypeOK, Threads, Workers, MainPath, ThreadsPath, Boot,
    Waiting, Stopping, DrivesDone, Joined, ControlStep, ForgetAuthority,
    LoopCheck, ControlLatchCheck, ProcessOne, TriggerLatch, SetReason,
    StoreStop, NotifyStop, StopHandler, DrivesDisable, NoteAuthority,
    PublishResult
<1>4. CASE Running(IoStep)
  BY <1>4, LabelsOf DEF TypeOK, Threads, Workers, MainPath, ThreadsPath, Boot,
    Waiting, Stopping, DrivesDone, Joined, IoStep, PumpRx, PumpEnd, LoopCheck
<1>5. CASE Running(PersistStep)
  BY <1>5, LabelsOf DEF TypeOK, Threads, Workers, MainPath, ThreadsPath, Boot,
    Waiting, Stopping, DrivesDone, Joined, PersistStep, SaveChecksum,
    SaveFile, LoopCheck
<1>6. CASE Running(SensorStep)
  BY <1>6, LabelsOf DEF TypeOK, Threads, Workers, MainPath, ThreadsPath, Boot,
    Waiting, Stopping, DrivesDone, Joined, SensorStep, LoopCheck
<1>7. CASE Over \/ UNCHANGED vars
  BY <1>7, LabelsOf DEF TypeOK, Threads, Workers, MainPath, ThreadsPath, Boot,
    Waiting, Stopping, DrivesDone, Joined, Over, vars
<1> QED
  BY <1>1, <1>2, <1>3, <1>4, <1>5, <1>6, <1>7 DEF Next

(* Before SpawnRuntime only the E-STOP thread exists, and it has nothing   *)
(* to act on.                                                              *)
LEMMA BootQuietStep ==
  ASSUME TypeOK, MainPath, BootQuiet, LatchPath, ControlPath, [Next]_vars
  PROVE  BootQuiet'
<1>1. CASE Running(MainStep)
  BY <1>1, LabelsOf DEF TypeOK, Threads, Workers, MainPath, BootQuiet,
    LatchPath, ControlPath, Runtime, Boot, Waiting, Stopping, DrivesDone,
    Joined, MainStep, HardwareBringup, StartEstopThread, LoadState,
    CalibrationSequence, ClearCalibrated, EnableDrives, SpawnRuntime,
    FatalBoot, WaitCheck, WaitBlock, WaitTimeout, ChooseStopPath, Join,
    Return, StoreStop, NotifyStop, DrivesEstop, DrivesDisable, SaveChecksum,
    SaveFile
<1>2. CASE Running(EstopStep)
  BY <1>2, LabelsOf DEF TypeOK, Threads, Workers, MainPath, BootQuiet,
    LatchPath, ControlPath, Runtime, Boot, Waiting, Stopping, DrivesDone,
    Joined, EstopStep, EstopLatchCheck, LoopCheck, DrivesEstop, StoreStop,
    NotifyStop
<1>3. CASE Running(ControlStep)
  BY <1>3, LabelsOf DEF TypeOK, Threads, Workers, MainPath, BootQuiet,
    LatchPath, ControlPath, Runtime, Boot, Waiting, Stopping, DrivesDone,
    Joined, ControlStep, ForgetAuthority, LoopCheck, ControlLatchCheck,
    ProcessOne, TriggerLatch, SetReason, StoreStop, NotifyStop, StopHandler,
    DrivesDisable, NoteAuthority, PublishResult
<1>4. CASE Running(IoStep)
  BY <1>4, LabelsOf DEF TypeOK, Threads, Workers, MainPath, BootQuiet,
    LatchPath, ControlPath, Runtime, Boot, Waiting, Stopping, DrivesDone,
    Joined, IoStep, PumpRx, PumpEnd, LoopCheck
<1>5. CASE Running(PersistStep)
  BY <1>5, LabelsOf DEF TypeOK, Threads, Workers, MainPath, BootQuiet,
    LatchPath, ControlPath, Runtime, Boot, Waiting, Stopping, DrivesDone,
    Joined, PersistStep, SaveChecksum, SaveFile, LoopCheck
<1>6. CASE Running(SensorStep)
  BY <1>6, LabelsOf DEF TypeOK, Threads, Workers, MainPath, BootQuiet,
    LatchPath, ControlPath, Runtime, Boot, Waiting, Stopping, DrivesDone,
    Joined, SensorStep, LoopCheck
<1>7. CASE Over \/ UNCHANGED vars
  BY <1>7, LabelsOf DEF TypeOK, Threads, Workers, MainPath, BootQuiet,
    LatchPath, ControlPath, Runtime, Boot, Waiting, Stopping, DrivesDone,
    Joined, Over, vars
<1> QED
  BY <1>1, <1>2, <1>3, <1>4, <1>5, <1>6, <1>7 DEF Next

(* The drives are enabled once, after the calibration, and off when        *)
(* safe_shutdown has passed its store: nobody enables them again.          *)
LEMMA DrivesPathStep ==
  ASSUME TypeOK, MainPath, BootQuiet, LatchPath, DrivesPath, [Next]_vars
  PROVE  DrivesPath'
<1>1. CASE Running(MainStep)
  BY <1>1, LabelsOf DEF TypeOK, Threads, Workers, MainPath, BootQuiet,
    LatchPath, DrivesPath, Runtime, Uncalibrated, States, Cold, Boot, Waiting,
    Stopping, DrivesDone, Joined, MainStep, HardwareBringup, StartEstopThread,
    LoadState, CalibrationSequence, ClearCalibrated, EnableDrives,
    SpawnRuntime, FatalBoot, WaitCheck, WaitBlock, WaitTimeout,
    ChooseStopPath, Join, Return, StoreStop, NotifyStop, DrivesEstop,
    DrivesDisable, SaveChecksum, SaveFile
<1>2. CASE Running(EstopStep)
  BY <1>2, LabelsOf DEF TypeOK, Threads, Workers, MainPath, BootQuiet,
    LatchPath, DrivesPath, Runtime, Uncalibrated, States, Cold, Boot, Waiting,
    Stopping, DrivesDone, Joined, EstopStep, EstopLatchCheck, LoopCheck,
    DrivesEstop, StoreStop, NotifyStop
<1>3. CASE Running(ControlStep)
  BY <1>3, LabelsOf DEF TypeOK, Threads, Workers, MainPath, BootQuiet,
    LatchPath, DrivesPath, Runtime, Uncalibrated, States, Cold, Boot, Waiting,
    Stopping, DrivesDone, Joined, ControlStep, ForgetAuthority, LoopCheck,
    ControlLatchCheck, ProcessOne, TriggerLatch, SetReason, StoreStop,
    NotifyStop, StopHandler, DrivesDisable, NoteAuthority, PublishResult
<1>4. CASE Running(IoStep)
  BY <1>4, LabelsOf DEF TypeOK, Threads, Workers, MainPath, BootQuiet,
    LatchPath, DrivesPath, Runtime, Uncalibrated, States, Cold, Boot, Waiting,
    Stopping, DrivesDone, Joined, IoStep, PumpRx, PumpEnd, LoopCheck
<1>5. CASE Running(PersistStep)
  BY <1>5, LabelsOf DEF TypeOK, Threads, Workers, MainPath, BootQuiet,
    LatchPath, DrivesPath, Runtime, Uncalibrated, States, Cold, Boot, Waiting,
    Stopping, DrivesDone, Joined, PersistStep, SaveChecksum, SaveFile,
    LoopCheck
<1>6. CASE Running(SensorStep)
  BY <1>6, LabelsOf DEF TypeOK, Threads, Workers, MainPath, BootQuiet,
    LatchPath, DrivesPath, Runtime, Uncalibrated, States, Cold, Boot, Waiting,
    Stopping, DrivesDone, Joined, SensorStep, LoopCheck
<1>7. CASE Over \/ UNCHANGED vars
  BY <1>7, LabelsOf DEF TypeOK, Threads, Workers, MainPath, BootQuiet,
    LatchPath, DrivesPath, Runtime, Uncalibrated, States, Cold, Boot, Waiting,
    Stopping, DrivesDone, Joined, Over, vars
<1> QED
  BY <1>1, <1>2, <1>3, <1>4, <1>5, <1>6, <1>7 DEF Next

(* A thread is in threads_ from its start until main joins it, after its   *)
(* end.                                                                    *)
LEMMA ThreadsPathStep ==
  ASSUME TypeOK, MainPath, BootQuiet, ThreadsPath, [Next]_vars
  PROVE  ThreadsPath'
<1>1. CASE Running(MainStep)
  <2>1. CASE HardwareBringup
    BY <2>1, <1>1, LabelsOf, ConstantsAssumption DEF TypeOK, Threads, Workers,
      MainPath, BootQuiet, ThreadsPath, Runtime, Boot, Waiting, Stopping,
      DrivesDone, Joined, HardwareBringup
  <2>2. CASE StartEstopThread
    BY <2>2, <1>1, LabelsOf, ConstantsAssumption DEF TypeOK, Threads, Workers,
      MainPath, BootQuiet, ThreadsPath, Runtime, Boot, Waiting, Stopping,
      DrivesDone, Joined, StartEstopThread
  <2>3. CASE CalibrationSequence
    BY <2>3, <1>1, LabelsOf, ConstantsAssumption DEF TypeOK, Threads, Workers,
      MainPath, BootQuiet, ThreadsPath, Runtime, Boot, Waiting, Stopping,
      DrivesDone, Joined, CalibrationSequence
  <2>4. CASE EnableDrives
    BY <2>4, <1>1, LabelsOf, ConstantsAssumption DEF TypeOK, Threads, Workers,
      MainPath, BootQuiet, ThreadsPath, Runtime, Boot, Waiting, Stopping,
      DrivesDone, Joined, EnableDrives
  <2>5. CASE SpawnRuntime
    BY <2>5, <1>1, LabelsOf, ConstantsAssumption DEF TypeOK, Threads, Workers,
      MainPath, BootQuiet, ThreadsPath, Runtime, Boot, Waiting, Stopping,
      DrivesDone, Joined, SpawnRuntime
  <2>6. CASE FatalBoot
    BY <2>6, <1>1, LabelsOf, ConstantsAssumption DEF TypeOK, Threads, Workers,
      MainPath, BootQuiet, ThreadsPath, Runtime, Boot, Waiting, Stopping,
      DrivesDone, Joined, FatalBoot
  <2>7. CASE Join
    BY <2>7, <1>1, LabelsOf, ConstantsAssumption DEF TypeOK, Threads, Workers,
      MainPath, BootQuiet, ThreadsPath, Runtime, Boot, Waiting, Stopping,
      DrivesDone, Joined, Join
  <2>8. CASE Return
    BY <2>8, <1>1, LabelsOf, ConstantsAssumption DEF TypeOK, Threads, Workers,
      MainPath, BootQuiet, ThreadsPath, Runtime, Boot, Waiting, Stopping,
      DrivesDone, Joined, Return
  <2>9. CASE LoadState \/ SaveChecksum("main", "save", "save_file") \/
            SaveFile("main", "save_file", "enable") \/ ClearCalibrated \/
            SaveChecksum("main", "save_failed", "save_failed_file") \/
            SaveFile("main", "save_failed_file", "return") \/ WaitCheck \/
            WaitBlock \/ WaitTimeout \/ Log("main", "sd_warn", "rs_store") \/
            StoreStop("main") \/ NotifyStop("main", "sd_choose") \/
            ChooseStopPath \/ Log("main", "sd_reason", "sd_estop") \/
            DrivesEstop("main", "sd_estop", "sd_estop_fatal") \/
            FatalLog("main", "sd_estop_fatal", "join") \/
            DrivesDisable("main", "sd_disable", "sd_disable_warn") \/
            Log("main", "sd_disable_warn", "join") \/
            SaveChecksum("main", "sd_save", "sd_save_file") \/
            SaveFile("main", "sd_save_file", "sd_info") \/
            Log("main", "sd_info", "return")
    <3>1. UNCHANGED <<threads, rc>>
      BY <2>9 DEF LoadState, SaveChecksum, SaveFile, ClearCalibrated,
        WaitCheck, WaitBlock, WaitTimeout, StoreStop, NotifyStop,
        ChooseStopPath, DrivesEstop, DrivesDisable
    <3>2. \A t \in Workers : pc'[t] = pc[t]
      BY <2>9 DEF TypeOK, Threads, Workers, LoadState, SaveChecksum, SaveFile,
        ClearCalibrated, WaitCheck, WaitBlock, WaitTimeout, StoreStop,
        NotifyStop, ChooseStopPath, DrivesEstop, DrivesDisable
    <3>3. pc'["main"] \in Joined => pc["main"] \in Joined \/ rc = 3
      BY <2>9 DEF TypeOK, Threads, MainPath, Joined, LoadState, SaveChecksum,
        SaveFile, ClearCalibrated, WaitCheck, WaitBlock, WaitTimeout,
        StoreStop, NotifyStop, ChooseStopPath, DrivesEstop, DrivesDisable
    <3>4. pc'["main"] \notin {"bringup", "spawn_estop"} \cup Joined
          => pc["main"] \notin {"bringup", "spawn_estop"} \cup Joined
      BY <2>9 DEF TypeOK, Threads, Joined, LoadState, SaveChecksum, SaveFile,
        ClearCalibrated, WaitCheck, WaitBlock, WaitTimeout, StoreStop,
        NotifyStop, ChooseStopPath, DrivesEstop, DrivesDisable
    <3>5. pc'["main"] \notin {"bringup", "spawn_estop"}
      BY <2>9 DEF TypeOK, Threads, LoadState, SaveChecksum, SaveFile,
        ClearCalibrated, WaitCheck, WaitBlock, WaitTimeout, StoreStop,
        NotifyStop, ChooseStopPath, DrivesEstop, DrivesDisable
    <3> QED
      BY <3>1, <3>2, <3>3, <3>4, <3>5 DEF ThreadsPath
  <2> QED
    BY <1>1, <2>1, <2>2, <2>3, <2>4, <2>5, <2>6, <2>7, <2>8, <2>9 DEF MainStep
<1>2. CASE Running(EstopStep)
  BY <1>2, LabelsOf, ConstantsAssumption DEF TypeOK, Threads, Workers,
    MainPath, BootQuiet, ThreadsPath, Runtime, Boot, Waiting, Stopping,
    DrivesDone, Joined, EstopStep, EstopLatchCheck, LoopCheck, DrivesEstop,
    StoreStop, NotifyStop
<1>3. CASE Running(ControlStep)
  BY <1>3, LabelsOf, ConstantsAssumption, SMTT(60) DEF TypeOK, Threads, Workers,
    MainPath, BootQuiet, ThreadsPath, Runtime, Boot, Waiting, Stopping,
    DrivesDone, Joined, ControlStep, ForgetAuthority, LoopCheck,
    ControlLatchCheck, ProcessOne, TriggerLatch, SetReason, StoreStop,
    NotifyStop, StopHandler, DrivesDisable, NoteAuthority, PublishResult
<1>4. CASE Running(IoStep)
  BY <1>4, LabelsOf, ConstantsAssumption DEF TypeOK, Threads, Workers,
    MainPath, BootQuiet, ThreadsPath, Runtime, Boot, Waiting, Stopping,
    DrivesDone, Joined, IoStep, PumpRx, PumpEnd, LoopCheck
<1>5. CASE Running(PersistStep)
  BY <1>5, LabelsOf, ConstantsAssumption DEF TypeOK, Threads, Workers,
    MainPath, BootQuiet, ThreadsPath, Runtime, Boot, Waiting, Stopping,
    DrivesDone, Joined, PersistStep, SaveChecksum, SaveFile, LoopCheck
<1>6. CASE Running(SensorStep)
  BY <1>6, LabelsOf, ConstantsAssumption DEF TypeOK, Threads, Workers,
    MainPath, BootQuiet, ThreadsPath, Runtime, Boot, Waiting, Stopping,
    DrivesDone, Joined, SensorStep, LoopCheck
<1>7. CASE Over \/ UNCHANGED vars
  BY <1>7, LabelsOf, ConstantsAssumption, ZenonT(60) DEF TypeOK, Threads, Workers,
    MainPath, BootQuiet, ThreadsPath, Runtime, Boot, Waiting, Stopping,
    DrivesDone, Joined, Over, vars
<1> QED
  BY <1>1, <1>2, <1>3, <1>4, <1>5, <1>6, <1>7 DEF Next

(* Main passes its loop only with the stop flag set, or sets it itself.    *)
LEMMA StopPathStep ==
  ASSUME TypeOK, MainPath, StopPath, [Next]_vars
  PROVE  StopPath'
<1>1. CASE Running(MainStep)
  BY <1>1, LabelsOf DEF TypeOK, Threads, Workers, MainPath, StopPath, Boot,
    Waiting, Stopping, DrivesDone, Joined, MainStep, HardwareBringup,
    StartEstopThread, LoadState, CalibrationSequence, ClearCalibrated,
    EnableDrives, SpawnRuntime, FatalBoot, WaitCheck, WaitBlock, WaitTimeout,
    ChooseStopPath, Join, Return, StoreStop, NotifyStop, DrivesEstop,
    DrivesDisable, SaveChecksum, SaveFile
<1>2. CASE Running(EstopStep)
  BY <1>2, LabelsOf DEF TypeOK, Threads, Workers, MainPath, StopPath, Boot,
    Waiting, Stopping, DrivesDone, Joined, EstopStep, EstopLatchCheck,
    LoopCheck, DrivesEstop, StoreStop, NotifyStop
<1>3. CASE Running(ControlStep)
  BY <1>3, LabelsOf DEF TypeOK, Threads, Workers, MainPath, StopPath, Boot,
    Waiting, Stopping, DrivesDone, Joined, ControlStep, ForgetAuthority,
    LoopCheck, ControlLatchCheck, ProcessOne, TriggerLatch, SetReason,
    StoreStop, NotifyStop, StopHandler, DrivesDisable, NoteAuthority,
    PublishResult
<1>4. CASE Running(IoStep)
  BY <1>4, LabelsOf DEF TypeOK, Threads, Workers, MainPath, StopPath, Boot,
    Waiting, Stopping, DrivesDone, Joined, IoStep, PumpRx, PumpEnd, LoopCheck
<1>5. CASE Running(PersistStep)
  BY <1>5, LabelsOf DEF TypeOK, Threads, Workers, MainPath, StopPath, Boot,
    Waiting, Stopping, DrivesDone, Joined, PersistStep, SaveChecksum,
    SaveFile, LoopCheck
<1>6. CASE Running(SensorStep)
  BY <1>6, LabelsOf DEF TypeOK, Threads, Workers, MainPath, StopPath, Boot,
    Waiting, Stopping, DrivesDone, Joined, SensorStep, LoopCheck
<1>7. CASE Over \/ UNCHANGED vars
  BY <1>7, LabelsOf DEF TypeOK, Threads, Workers, MainPath, StopPath, Boot,
    Waiting, Stopping, DrivesDone, Joined, Over, vars
<1> QED
  BY <1>1, <1>2, <1>3, <1>4, <1>5, <1>6, <1>7 DEF Next

(* The E-STOP path of either thread follows the latch, and its Fatal line  *)
(* the store to the drives, which stays: a latch comes after the boot.     *)
LEMMA LatchPathStep ==
  ASSUME TypeOK, MainPath, BootQuiet, DrivesPath, LatchPath, [Next]_vars
  PROVE  LatchPath'
<1>1. CASE Running(MainStep)
  BY <1>1, LabelsOf DEF TypeOK, Threads, Workers, MainPath, BootQuiet,
    DrivesPath, LatchPath, Boot, Waiting, Stopping, DrivesDone, Joined,
    MainStep, HardwareBringup, StartEstopThread, LoadState,
    CalibrationSequence, ClearCalibrated, EnableDrives, SpawnRuntime,
    FatalBoot, WaitCheck, WaitBlock, WaitTimeout, ChooseStopPath, Join,
    Return, StoreStop, NotifyStop, DrivesEstop, DrivesDisable, SaveChecksum,
    SaveFile
<1>2. CASE Running(EstopStep)
  BY <1>2, LabelsOf DEF TypeOK, Threads, Workers, MainPath, BootQuiet,
    DrivesPath, LatchPath, Boot, Waiting, Stopping, DrivesDone, Joined,
    EstopStep, EstopLatchCheck, LoopCheck, DrivesEstop, StoreStop, NotifyStop
<1>3. CASE Running(ControlStep)
  BY <1>3, LabelsOf DEF TypeOK, Threads, Workers, MainPath, BootQuiet,
    DrivesPath, LatchPath, Boot, Waiting, Stopping, DrivesDone, Joined,
    ControlStep, ForgetAuthority, LoopCheck, ControlLatchCheck, ProcessOne,
    TriggerLatch, SetReason, StoreStop, NotifyStop, StopHandler,
    DrivesDisable, NoteAuthority, PublishResult
<1>4. CASE Running(IoStep)
  BY <1>4, LabelsOf DEF TypeOK, Threads, Workers, MainPath, BootQuiet,
    DrivesPath, LatchPath, Boot, Waiting, Stopping, DrivesDone, Joined,
    IoStep, PumpRx, PumpEnd, LoopCheck
<1>5. CASE Running(PersistStep)
  BY <1>5, LabelsOf DEF TypeOK, Threads, Workers, MainPath, BootQuiet,
    DrivesPath, LatchPath, Boot, Waiting, Stopping, DrivesDone, Joined,
    PersistStep, SaveChecksum, SaveFile, LoopCheck
<1>6. CASE Running(SensorStep)
  BY <1>6, LabelsOf DEF TypeOK, Threads, Workers, MainPath, BootQuiet,
    DrivesPath, LatchPath, Boot, Waiting, Stopping, DrivesDone, Joined,
    SensorStep, LoopCheck
<1>7. CASE Over \/ UNCHANGED vars
  BY <1>7, LabelsOf DEF TypeOK, Threads, Workers, MainPath, BootQuiet,
    DrivesPath, LatchPath, Boot, Waiting, Stopping, DrivesDone, Joined, Over,
    vars
<1> QED
  BY <1>1, <1>2, <1>3, <1>4, <1>5, <1>6, <1>7 DEF Next

(* The E-STOP thread ends only once a stop has been asked for, and logs its*)
(* Fatal line with the drives off.                                         *)
LEMMA EstopPathStep ==
  ASSUME TypeOK, MainPath, BootQuiet, DrivesPath, LatchPath, EstopPath, [Next]_vars
  PROVE  EstopPath'
<1>1. CASE Running(MainStep)
  BY <1>1, LabelsOf DEF TypeOK, Threads, Workers, MainPath, BootQuiet,
    DrivesPath, LatchPath, EstopPath, Boot, Waiting, Stopping, DrivesDone, Joined,
    MainStep, HardwareBringup, StartEstopThread, LoadState,
    CalibrationSequence, ClearCalibrated, EnableDrives, SpawnRuntime,
    FatalBoot, WaitCheck, WaitBlock, WaitTimeout, ChooseStopPath, Join,
    Return, StoreStop, NotifyStop, DrivesEstop, DrivesDisable, SaveChecksum,
    SaveFile
<1>2. CASE Running(EstopStep)
  BY <1>2, LabelsOf DEF TypeOK, Threads, Workers, MainPath, BootQuiet,
    DrivesPath, LatchPath, EstopPath, Boot, Waiting, Stopping, DrivesDone, Joined,
    EstopStep, EstopLatchCheck, LoopCheck, DrivesEstop, StoreStop, NotifyStop
<1>3. CASE Running(ControlStep)
  BY <1>3, LabelsOf DEF TypeOK, Threads, Workers, MainPath, BootQuiet,
    DrivesPath, LatchPath, EstopPath, Boot, Waiting, Stopping, DrivesDone, Joined,
    ControlStep, ForgetAuthority, LoopCheck, ControlLatchCheck, ProcessOne,
    TriggerLatch, SetReason, StoreStop, NotifyStop, StopHandler,
    DrivesDisable, NoteAuthority, PublishResult
<1>4. CASE Running(IoStep)
  BY <1>4, LabelsOf DEF TypeOK, Threads, Workers, MainPath, BootQuiet,
    DrivesPath, LatchPath, EstopPath, Boot, Waiting, Stopping, DrivesDone, Joined,
    IoStep, PumpRx, PumpEnd, LoopCheck
<1>5. CASE Running(PersistStep)
  BY <1>5, LabelsOf DEF TypeOK, Threads, Workers, MainPath, BootQuiet,
    DrivesPath, LatchPath, EstopPath, Boot, Waiting, Stopping, DrivesDone, Joined,
    PersistStep, SaveChecksum, SaveFile, LoopCheck
<1>6. CASE Running(SensorStep)
  BY <1>6, LabelsOf DEF TypeOK, Threads, Workers, MainPath, BootQuiet,
    DrivesPath, LatchPath, EstopPath, Boot, Waiting, Stopping, DrivesDone, Joined,
    SensorStep, LoopCheck
<1>7. CASE Over \/ UNCHANGED vars
  BY <1>7, LabelsOf DEF TypeOK, Threads, Workers, MainPath, BootQuiet,
    DrivesPath, LatchPath, EstopPath, Boot, Waiting, Stopping, DrivesDone, Joined, Over,
    vars
<1> QED
  BY <1>1, <1>2, <1>3, <1>4, <1>5, <1>6, <1>7 DEF Next

(* A Fatal line wedges the logger only after a latch or in a failed boot.  *)
LEMMA WedgePathStep ==
  ASSUME TypeOK, MainPath, BootQuiet, DrivesPath, LatchPath, ControlPath, WedgePath, [Next]_vars
  PROVE  WedgePath'
<1>1. CASE Running(MainStep)
  BY <1>1, LabelsOf DEF TypeOK, Threads, Workers, MainPath, BootQuiet,
    DrivesPath, LatchPath, ControlPath, WedgePath, Boot, Waiting, Stopping,
    DrivesDone, Joined, MainStep, HardwareBringup, StartEstopThread,
    LoadState, CalibrationSequence, ClearCalibrated, EnableDrives,
    SpawnRuntime, FatalBoot, WaitCheck, WaitBlock, WaitTimeout,
    ChooseStopPath, Join, Return, StoreStop, NotifyStop, DrivesEstop,
    DrivesDisable, SaveChecksum, SaveFile
<1>2. CASE Running(EstopStep)
  BY <1>2, LabelsOf DEF TypeOK, Threads, Workers, MainPath, BootQuiet,
    DrivesPath, LatchPath, ControlPath, WedgePath, Boot, Waiting, Stopping,
    DrivesDone, Joined, EstopStep, EstopLatchCheck, LoopCheck, DrivesEstop,
    StoreStop, NotifyStop
<1>3. CASE Running(ControlStep)
  BY <1>3, LabelsOf DEF TypeOK, Threads, Workers, MainPath, BootQuiet,
    DrivesPath, LatchPath, ControlPath, WedgePath, Boot, Waiting, Stopping,
    DrivesDone, Joined, ControlStep, ForgetAuthority, LoopCheck,
    ControlLatchCheck, ProcessOne, TriggerLatch, SetReason, StoreStop,
    NotifyStop, StopHandler, DrivesDisable, NoteAuthority, PublishResult
<1>4. CASE Running(IoStep)
  BY <1>4, LabelsOf DEF TypeOK, Threads, Workers, MainPath, BootQuiet,
    DrivesPath, LatchPath, ControlPath, WedgePath, Boot, Waiting, Stopping,
    DrivesDone, Joined, IoStep, PumpRx, PumpEnd, LoopCheck
<1>5. CASE Running(PersistStep)
  BY <1>5, LabelsOf DEF TypeOK, Threads, Workers, MainPath, BootQuiet,
    DrivesPath, LatchPath, ControlPath, WedgePath, Boot, Waiting, Stopping,
    DrivesDone, Joined, PersistStep, SaveChecksum, SaveFile, LoopCheck
<1>6. CASE Running(SensorStep)
  BY <1>6, LabelsOf DEF TypeOK, Threads, Workers, MainPath, BootQuiet,
    DrivesPath, LatchPath, ControlPath, WedgePath, Boot, Waiting, Stopping,
    DrivesDone, Joined, SensorStep, LoopCheck
<1>7. CASE Over \/ UNCHANGED vars
  BY <1>7, LabelsOf DEF TypeOK, Threads, Workers, MainPath, BootQuiet,
    DrivesPath, LatchPath, ControlPath, WedgePath, Boot, Waiting, Stopping,
    DrivesDone, Joined, Over, vars
<1> QED
  BY <1>1, <1>2, <1>3, <1>4, <1>5, <1>6, <1>7 DEF Next

(* Between the two reads of the last save no thread is left to write       *)
(* state_.                                                                 *)
LEMMA SavePathStep ==
  ASSUME TypeOK, MainPath, ThreadsPath, SavePath, [Next]_vars
  PROVE  SavePath'
<1>1. CASE Running(MainStep)
  BY <1>1, LabelsOf DEF TypeOK, Threads, Workers, MainPath, ThreadsPath,
    SavePath, Boot, Waiting, Stopping, DrivesDone, Joined, MainStep,
    HardwareBringup, StartEstopThread, LoadState, CalibrationSequence,
    ClearCalibrated, EnableDrives, SpawnRuntime, FatalBoot, WaitCheck,
    WaitBlock, WaitTimeout, ChooseStopPath, Join, Return, StoreStop,
    NotifyStop, DrivesEstop, DrivesDisable, SaveChecksum, SaveFile
<1>2. CASE Running(EstopStep)
  BY <1>2, LabelsOf DEF TypeOK, Threads, Workers, MainPath, ThreadsPath,
    SavePath, Boot, Waiting, Stopping, DrivesDone, Joined, EstopStep,
    EstopLatchCheck, LoopCheck, DrivesEstop, StoreStop, NotifyStop
<1>3. CASE Running(ControlStep)
  BY <1>3, LabelsOf DEF TypeOK, Threads, Workers, MainPath, ThreadsPath,
    SavePath, Boot, Waiting, Stopping, DrivesDone, Joined, ControlStep,
    ForgetAuthority, LoopCheck, ControlLatchCheck, ProcessOne, TriggerLatch,
    SetReason, StoreStop, NotifyStop, StopHandler, DrivesDisable,
    NoteAuthority, PublishResult
<1>4. CASE Running(IoStep)
  BY <1>4, LabelsOf DEF TypeOK, Threads, Workers, MainPath, ThreadsPath,
    SavePath, Boot, Waiting, Stopping, DrivesDone, Joined, IoStep, PumpRx,
    PumpEnd, LoopCheck
<1>5. CASE Running(PersistStep)
  BY <1>5, LabelsOf DEF TypeOK, Threads, Workers, MainPath, ThreadsPath,
    SavePath, Boot, Waiting, Stopping, DrivesDone, Joined, PersistStep,
    SaveChecksum, SaveFile, LoopCheck
<1>6. CASE Running(SensorStep)
  BY <1>6, LabelsOf DEF TypeOK, Threads, Workers, MainPath, ThreadsPath,
    SavePath, Boot, Waiting, Stopping, DrivesDone, Joined, SensorStep,
    LoopCheck
<1>7. CASE Over \/ UNCHANGED vars
  BY <1>7, LabelsOf DEF TypeOK, Threads, Workers, MainPath, ThreadsPath,
    SavePath, Boot, Waiting, Stopping, DrivesDone, Joined, Over, vars
<1> QED
  BY <1>1, <1>2, <1>3, <1>4, <1>5, <1>6, <1>7 DEF Next

(* A result is true when the control thread publishes it, and stays true:  *)
(* the stop flag and the latch are never cleared, the drives never enabled *)
(* again.                                                                  *)
LEMMA ControlPathStep ==
  ASSUME TypeOK, MainPath, BootQuiet, DrivesPath, LatchPath, ControlPath, [Next]_vars
  PROVE  ControlPath'
<1>1. CASE Running(MainStep)
  BY <1>1, LabelsOf DEF TypeOK, Threads, Workers, MainPath, BootQuiet,
    DrivesPath, LatchPath, ControlPath, Runtime, Truthful, Stops, Boot,
    Waiting, Stopping, DrivesDone, Joined, MainStep, HardwareBringup,
    StartEstopThread, LoadState, CalibrationSequence, ClearCalibrated,
    EnableDrives, SpawnRuntime, FatalBoot, WaitCheck, WaitBlock, WaitTimeout,
    ChooseStopPath, Join, Return, StoreStop, NotifyStop, DrivesEstop,
    DrivesDisable, SaveChecksum, SaveFile
<1>2. CASE Running(EstopStep)
  BY <1>2, LabelsOf DEF TypeOK, Threads, Workers, MainPath, BootQuiet,
    DrivesPath, LatchPath, ControlPath, Runtime, Truthful, Stops, Boot,
    Waiting, Stopping, DrivesDone, Joined, EstopStep, EstopLatchCheck,
    LoopCheck, DrivesEstop, StoreStop, NotifyStop
<1>3. CASE Running(ControlStep)
  <2>1. CASE ProcessOne
    <3>1. CASE batch < MaxBatch /\ q # <<>>
      <4>1. PICK k \in Kinds :
              /\ cur' = [cmd |-> k, status |-> HandlerStatus[k]]
              /\ pc' = [pc EXCEPT !["control"] = HandlerEntry[k]]
        BY <2>1, <3>1, HeadOfQueue DEF ProcessOne
      <4>2. UNCHANGED <<acks, drives, stop, latched, reason>>
        BY <2>1 DEF ProcessOne
      <4>3. pc'["control"] = HandlerEntry[k]
        BY <4>1 DEF TypeOK, Threads, Workers
      <4> QED
        BY <4>1, <4>2, <4>3 DEF ControlPath, Truthful, Stops, Kinds,
          HandlerEntry, HandlerStatus
    <3>2. CASE ~(batch < MaxBatch /\ q # <<>>)
      BY <2>1, <3>2 DEF TypeOK, Threads, Workers, ControlPath, Truthful, ProcessOne
    <3> QED
      BY <3>1, <3>2
  <2>2. CASE PublishResult
    BY <2>2, <1>3, LabelsOf DEF TypeOK, Threads, Workers, MainPath, BootQuiet,
      DrivesPath, LatchPath, ControlPath, Runtime, Truthful, Stops, Boot,
      Waiting, Stopping, DrivesDone, Joined, PublishResult
  <2>3. CASE Log("control", "start", "init") \/ ForgetAuthority \/
            LoopCheck("control", "body") \/ ControlLatchCheck \/ TriggerLatch
            \/ SetReason \/ FatalLog("control", "latch_fatal", "rs_store") \/
            StoreStop("control") \/ NotifyStop("control", "post") \/
            StopHandler \/ DrivesDisable("control", "st_disable", "st_warn")
            \/ Log("control", "st_warn", "post") \/ NoteAuthority \/
            Log("control", "ack_log", "publish") \/
            Log("control", "exit", "done")
    BY <2>3, <1>3, LabelsOf DEF TypeOK, Threads, Workers, MainPath, BootQuiet,
      DrivesPath, LatchPath, ControlPath, Runtime, Truthful, Stops, Boot,
      Waiting, Stopping, DrivesDone, Joined, ForgetAuthority, LoopCheck,
      ControlLatchCheck, TriggerLatch, SetReason, StoreStop, NotifyStop,
      StopHandler, DrivesDisable, NoteAuthority
  <2> QED
    BY <1>3, <2>1, <2>2, <2>3 DEF ControlStep
<1>4. CASE Running(IoStep)
  BY <1>4, LabelsOf DEF TypeOK, Threads, Workers, MainPath, BootQuiet,
    DrivesPath, LatchPath, ControlPath, Runtime, Truthful, Stops, Boot,
    Waiting, Stopping, DrivesDone, Joined, IoStep, PumpRx, PumpEnd, LoopCheck
<1>5. CASE Running(PersistStep)
  BY <1>5, LabelsOf DEF TypeOK, Threads, Workers, MainPath, BootQuiet,
    DrivesPath, LatchPath, ControlPath, Runtime, Truthful, Stops, Boot,
    Waiting, Stopping, DrivesDone, Joined, PersistStep, SaveChecksum,
    SaveFile, LoopCheck
<1>6. CASE Running(SensorStep)
  BY <1>6, LabelsOf DEF TypeOK, Threads, Workers, MainPath, BootQuiet,
    DrivesPath, LatchPath, ControlPath, Runtime, Truthful, Stops, Boot,
    Waiting, Stopping, DrivesDone, Joined, SensorStep, LoopCheck
<1>7. CASE Over \/ UNCHANGED vars
  BY <1>7, LabelsOf DEF TypeOK, Threads, Workers, MainPath, BootQuiet,
    DrivesPath, LatchPath, ControlPath, Runtime, Truthful, Stops, Boot,
    Waiting, Stopping, DrivesDone, Joined, Over, vars
<1> QED
  BY <1>1, <1>2, <1>3, <1>4, <1>5, <1>6, <1>7 DEF Next

(* Only the control thread changes the acknowledgements, the command in    *)
(* progress and the latch; only SpawnRuntime moves it beside itself.       *)
LEMMA ControlFrame ==
  ASSUME TypeOK, [Next]_vars, ~Running(ControlStep)
  PROVE  /\ UNCHANGED <<acks, cur, latched>>
         /\ pc'["control"] = pc["control"] \/ SpawnRuntime
<1>1. CASE Running(MainStep)
  BY <1>1 DEF TypeOK, Threads, Workers, MainStep, HardwareBringup,
    StartEstopThread, LoadState, CalibrationSequence, ClearCalibrated,
    EnableDrives, SpawnRuntime, FatalBoot, WaitCheck, WaitBlock, WaitTimeout,
    ChooseStopPath, Join, Return, StoreStop, NotifyStop, DrivesEstop,
    DrivesDisable, SaveChecksum, SaveFile
<1>2. CASE Running(EstopStep)
  BY <1>2 DEF TypeOK, Threads, Workers, EstopStep, EstopLatchCheck, LoopCheck,
    DrivesEstop, StoreStop, NotifyStop
<1>3. CASE Running(ControlStep)
  BY <1>3
<1>4. CASE Running(IoStep)
  BY <1>4 DEF TypeOK, Threads, Workers, IoStep, PumpRx, PumpEnd, LoopCheck
<1>5. CASE Running(PersistStep)
  BY <1>5 DEF TypeOK, Threads, Workers, PersistStep, SaveChecksum, SaveFile,
    LoopCheck
<1>6. CASE Running(SensorStep)
  BY <1>6 DEF TypeOK, Threads, Workers, SensorStep, LoopCheck
<1>7. CASE Over \/ UNCHANGED vars
  BY <1>7 DEF TypeOK, Threads, Workers, Over, vars
<1> QED
  BY <1>1, <1>2, <1>3, <1>4, <1>5, <1>6, <1>7 DEF Next

(* PublishResult appends the command in progress.                          *)
LEMMA Published ==
  ASSUME TypeOK, PublishResult
  PROVE  /\ Len(acks') = Len(acks) + 1 /\ Len(acks) \in Nat
         /\ \A i \in 1..Len(acks) : acks'[i] = acks[i]
         /\ acks'[Len(acks) + 1] = cur
BY DEF TypeOK, PublishResult

(* Without a latch, and unless the boot failed, it was a Shutdown or a     *)
(* Reboot command that set the stop flag: main sets it only after it has   *)
(* seen it, the E-STOP thread only after a latch.                          *)
LEMMA StopOriginStep ==
  ASSUME TypeOK, MainPath, BootQuiet, StopPath, LatchPath, ControlPath, StopOrigin,
         [Next]_vars
  PROVE  StopOrigin'
<1>0. SUFFICES ASSUME stop', rc' = 0, ~latched'
               PROVE  Acked({"Shutdown", "Reboot"})' \/ Finishing({"Shutdown", "Reboot"})'
  BY DEF StopOrigin
<1>3. rc' = 0
  BY <1>0
<1>1. CASE ~Running(ControlStep)
  <2>1. UNCHANGED <<acks, cur, latched>> /\ (pc'["control"] = pc["control"] \/ SpawnRuntime)
    BY <1>1, ControlFrame
  <2>2. rc = 0 /\ stop
    <3>1. CASE Running(MainStep)
      <4>1. rc = 0
        BY <1>3, <3>1 DEF MainStep, HardwareBringup, StartEstopThread,
          LoadState, CalibrationSequence, ClearCalibrated, EnableDrives,
          SpawnRuntime, FatalBoot, WaitCheck, WaitBlock, WaitTimeout,
          ChooseStopPath, Join, Return, StoreStop, NotifyStop, DrivesEstop,
          DrivesDisable, SaveChecksum, SaveFile
      <4>2. CASE StoreStop("main")
        BY <4>1, <4>2 DEF StopPath, StoreStop
      <4>3. CASE ~StoreStop("main")
        <5>1. stop' = stop
          BY <3>1, <4>3 DEF MainStep, HardwareBringup, StartEstopThread,
            LoadState, CalibrationSequence, ClearCalibrated, EnableDrives,
            SpawnRuntime, FatalBoot, WaitCheck, WaitBlock, WaitTimeout,
            ChooseStopPath, Join, Return, StoreStop, NotifyStop, DrivesEstop,
            DrivesDisable, SaveChecksum, SaveFile
        <5> QED
          BY <1>0, <4>1, <5>1 DEF TypeOK
      <4> QED
        BY <4>1, <4>2, <4>3
    <3>2. CASE Running(EstopStep)
      BY <1>0, <2>1, <3>2 DEF TypeOK, LatchPath, EstopStep, EstopLatchCheck,
        LoopCheck, DrivesEstop, StoreStop, NotifyStop
    <3>3. CASE Running(IoStep)
      BY <1>0, <3>3 DEF IoStep, PumpRx, PumpEnd, LoopCheck
    <3>4. CASE Running(PersistStep)
      BY <1>0, <3>4 DEF PersistStep, SaveChecksum, SaveFile, LoopCheck
    <3>5. CASE Running(SensorStep)
      BY <1>0, <3>5 DEF SensorStep, LoopCheck
    <3>6. CASE Over \/ UNCHANGED vars
      BY <1>0, <3>6 DEF Over, vars
    <3> QED
      BY <1>1, <3>1, <3>2, <3>3, <3>4, <3>5, <3>6 DEF Next
  <2>3. ~SpawnRuntime
    BY <2>2 DEF BootQuiet, Boot, SpawnRuntime
  <2>4. Acked({"Shutdown", "Reboot"}) \/ Finishing({"Shutdown", "Reboot"})
    BY <1>0, <2>1, <2>2 DEF StopOrigin
  <2> QED
    BY <2>1, <2>3, <2>4 DEF Acked, Finishing
<1>2. CASE Running(ControlStep)
  <2>1. rc = 0 /\ ~latched
    BY <1>0, <1>2 DEF TypeOK, ControlStep, ForgetAuthority, LoopCheck,
      ControlLatchCheck, ProcessOne, TriggerLatch, SetReason, StoreStop,
      NotifyStop, StopHandler, DrivesDisable, NoteAuthority, PublishResult
  <2>2. CASE StoreStop("control")
    BY <1>2, <2>1, <2>2 DEF TypeOK, Threads, Workers, ControlPath, Stops, StoreStop,
      Finishing
  <2>3. CASE PublishResult
    <3>1. Acked({"Shutdown", "Reboot"}) \/ Finishing({"Shutdown", "Reboot"})
      BY <1>0, <2>1, <2>3 DEF StopOrigin, PublishResult
    <3>2. CASE Acked({"Shutdown", "Reboot"})
      BY <2>3, <3>2, Published DEF Acked
    <3>3. CASE Finishing({"Shutdown", "Reboot"})
      BY <2>3, <3>3, Published DEF Acked, Finishing
    <3> QED
      BY <3>1, <3>2, <3>3
  <2>4. CASE ~StoreStop("control") /\ ~PublishResult
    <3>1. stop /\ acks' = acks
      BY <1>0, <1>2, <2>4 DEF ControlStep, ForgetAuthority, LoopCheck,
        ControlLatchCheck, ProcessOne, TriggerLatch, SetReason, StoreStop,
        NotifyStop, StopHandler, DrivesDisable, NoteAuthority, PublishResult
    <3>2. Finishing({"Shutdown", "Reboot"}) => Finishing({"Shutdown", "Reboot"})'
      BY <1>2, <2>4 DEF TypeOK, Threads, Workers, Finishing, ControlStep,
        ForgetAuthority, LoopCheck, ControlLatchCheck, ProcessOne,
        TriggerLatch, SetReason, StoreStop, NotifyStop, StopHandler,
        DrivesDisable, NoteAuthority, PublishResult
    <3> QED
      BY <2>1, <3>1, <3>2 DEF StopOrigin, Acked
  <2> QED
    BY <2>2, <2>3, <2>4
<1> QED
  BY <1>1, <1>2

(* An E-STOP that main missed was latched after main had chosen disable(), *)
(* and so after the command that made it stop.                             *)
LEMMA MissedLatchStep ==
  ASSUME TypeOK, MainPath, BootQuiet, StopPath, LatchPath, ControlPath, StopOrigin,
         MissedLatch, [Next]_vars
  PROVE  MissedLatch'
<1> DEFINE
    Path == {"sd_disable", "sd_disable_warn", "join"} \cup Joined
    Asked(i) == acks[i].cmd \in {"Shutdown", "Reboot"}
    After(i) == Triggered \/ \E j \in 1..Len(acks) : i < j /\ acks[j].cmd = "EmergencyStop"
    Missed == \E i \in 1..Len(acks) : Asked(i) /\ After(i)
<1> SUFFICES ASSUME pc'["main"] \in Path, latched', ~estopCalled'
             PROVE  Missed'
  BY DEF MissedLatch
<1>2. CASE ~Running(ControlStep)
  <2>1. UNCHANGED <<acks, cur, latched>> /\ (pc'["control"] = pc["control"] \/ SpawnRuntime)
    BY <1>2, ControlFrame
  <2>2. ~SpawnRuntime
    BY <2>1 DEF BootQuiet, Boot, SpawnRuntime
  <2>3. pc["main"] \in Path /\ latched /\ ~estopCalled
    <3>1. CASE Running(MainStep)
      BY <2>1, <3>1, ZenonT(60) DEF TypeOK, Threads, Workers, BootQuiet, LatchPath, Boot,
        Joined, MainStep, HardwareBringup, StartEstopThread, LoadState,
        CalibrationSequence, ClearCalibrated, EnableDrives, SpawnRuntime,
        FatalBoot, WaitCheck, WaitBlock, WaitTimeout, ChooseStopPath, Join,
        Return, StoreStop, NotifyStop, DrivesEstop, DrivesDisable,
        SaveChecksum, SaveFile
    <3>2. CASE Running(EstopStep)
      BY <2>1, <3>2 DEF TypeOK, Threads, Workers, Joined, EstopStep,
        EstopLatchCheck, LoopCheck, DrivesEstop, StoreStop, NotifyStop
    <3>3. CASE Running(IoStep)
      BY <2>1, <3>3 DEF TypeOK, Threads, Workers, Joined, IoStep, PumpRx,
        PumpEnd, LoopCheck
    <3>4. CASE Running(PersistStep)
      BY <2>1, <3>4 DEF TypeOK, Threads, Workers, Joined, PersistStep,
        SaveChecksum, SaveFile, LoopCheck
    <3>5. CASE Running(SensorStep)
      BY <2>1, <3>5 DEF TypeOK, Threads, Workers, Joined, SensorStep,
        LoopCheck
    <3>6. CASE Over \/ UNCHANGED vars
      BY <2>1, <3>6 DEF TypeOK, Over, vars
    <3> QED
      BY <1>2, <3>1, <3>2, <3>3, <3>4, <3>5, <3>6 DEF Next
  <2>4. Missed
    BY <2>3 DEF MissedLatch
  <2> QED
    BY <2>1, <2>2, <2>4 DEF Triggered
<1>3. CASE Running(ControlStep)
  <2>1. pc["main"] \in Path /\ ~estopCalled
    BY <1>3 DEF TypeOK, Threads, Workers, Joined, ControlStep,
      ForgetAuthority, LoopCheck, ControlLatchCheck, ProcessOne, TriggerLatch,
      SetReason, StoreStop, NotifyStop, StopHandler, DrivesDisable,
      NoteAuthority, PublishResult
  <2>2. CASE latched
    <3>1. PICK i \in 1..Len(acks) : Asked(i) /\ After(i)
      BY <2>1, <2>2 DEF MissedLatch
    <3>2. CASE PublishResult
      <4>1. i \in 1..Len(acks') /\ Asked(i)' /\ i < Len(acks) + 1
        BY <3>1, <3>2, Published
      <4>2. CASE Triggered
        <5>1. acks'[Len(acks) + 1].cmd = "EmergencyStop"
          BY <3>2, <4>2, Published DEF Triggered
        <5> QED
          BY <3>2, <4>1, <5>1, Published
      <4>3. CASE \E j \in 1..Len(acks) : i < j /\ acks[j].cmd = "EmergencyStop"
        BY <3>2, <4>1, <4>3, Published
      <4> QED
        BY <3>1, <4>2, <4>3
    <3>3. CASE ~PublishResult
      <4>1. acks' = acks
        BY <1>3, <3>3 DEF ControlStep, ForgetAuthority, LoopCheck,
          ControlLatchCheck, ProcessOne, TriggerLatch, SetReason, StoreStop,
          NotifyStop, StopHandler, DrivesDisable, NoteAuthority, PublishResult
      <4>2. Triggered => Triggered'
        BY <1>3, <3>3 DEF TypeOK, Threads, Workers, ControlPath, Triggered,
          ControlStep, ForgetAuthority, LoopCheck, ControlLatchCheck,
          ProcessOne, TriggerLatch, SetReason, StoreStop, NotifyStop,
          StopHandler, DrivesDisable, NoteAuthority, PublishResult
      <4> QED
        BY <3>1, <4>1, <4>2
    <3> QED
      BY <3>2, <3>3
  <2>3. CASE ~latched
    <3>1. TriggerLatch
      BY <1>3, <2>3 DEF ControlStep, ForgetAuthority, LoopCheck,
        ControlLatchCheck, ProcessOne, TriggerLatch, SetReason, StoreStop,
        NotifyStop, StopHandler, DrivesDisable, NoteAuthority, PublishResult
    <3>2. stop /\ rc = 0
      BY <2>1, <3>1 DEF MainPath, StopPath, BootQuiet, Runtime, DrivesDone, Joined,
        TriggerLatch
    <3>3. PICK i \in 1..Len(acks) : Asked(i)
      BY <2>3, <3>1, <3>2 DEF StopOrigin, Acked, Finishing, TriggerLatch
    <3>4. Triggered' /\ acks' = acks
      BY <2>3, <3>1 DEF TypeOK, Threads, Workers, ControlPath, Triggered, TriggerLatch
    <3> QED
      BY <3>3, <3>4
  <2> QED
    BY <2>2, <2>3
<1> QED
  BY <1>2, <1>3

-----------------------------------------------------------------------------
(* IInv is inductive, and what follows from it *)

(* The initial state satisfies the invariant.                              *)
LEMMA InitInvariant == Init => IInv
<1> SUFFICES ASSUME Init PROVE IInv
  OBVIOUS
<1>1. TypeOK
  BY InitTypes
<1>2. /\ pc["main"] = "bringup"
      /\ \A t \in Workers : pc[t] = "off"
  BY DEF Init, Threads, Workers
<1>3. /\ process = "running" /\ rc = 0 /\ threads = {} /\ wedged = "none"
      /\ drives = "idle" /\ acks = <<>> /\ Len(acks) = 0
  BY DEF Init
<1>4. ~stop /\ ~latched /\ ~estopCalled
  BY Zenon DEF Init
<1>5. MainPath /\ BootQuiet /\ DrivesPath
  BY <1>2, <1>3, <1>4 DEF MainPath, BootQuiet, DrivesPath, Runtime, Workers,
    Boot, Uncalibrated, Waiting, Stopping, DrivesDone, Joined
<1>6. ThreadsPath /\ StopPath /\ LatchPath /\ EstopPath /\ WedgePath /\ SavePath
  BY <1>2, <1>3, <1>4 DEF ThreadsPath, StopPath, LatchPath, EstopPath, WedgePath, SavePath,
    Workers, DrivesDone, Joined
<1>7. ControlPath /\ StopOrigin /\ MissedLatch
  BY <1>2, <1>3, <1>4 DEF ControlPath, StopOrigin, MissedLatch, Workers
<1> QED
  BY <1>1, <1>5, <1>6, <1>7 DEF IInv

(* Every step keeps the invariant.                                         *)
LEMMA NextInvariant == IInv /\ [Next]_vars => IInv'
<1> SUFFICES ASSUME IInv, [Next]_vars PROVE IInv'
  OBVIOUS
<1>1. /\ TypeOK /\ MainPath /\ BootQuiet /\ DrivesPath /\ ThreadsPath /\ StopPath
      /\ LatchPath /\ EstopPath /\ WedgePath /\ ControlPath /\ SavePath
      /\ StopOrigin /\ MissedLatch
  BY DEF IInv
<1>2. TypeOK'
  BY <1>1, TypeStep
<1>3. MainPath' /\ BootQuiet' /\ DrivesPath' /\ ThreadsPath' /\ StopPath'
  BY <1>1, MainPathStep, BootQuietStep, DrivesPathStep, ThreadsPathStep, StopPathStep
<1>4. LatchPath' /\ EstopPath' /\ WedgePath' /\ ControlPath' /\ SavePath'
  BY <1>1, LatchPathStep, EstopPathStep, WedgePathStep, ControlPathStep, SavePathStep
<1>5. StopOrigin' /\ MissedLatch'
  BY <1>1, StopOriginStep, MissedLatchStep
<1> QED
  BY <1>2, <1>3, <1>4, <1>5 DEF IInv

(* IInv holds in every reachable state.                                    *)
THEOREM Invariance == Spec => []IInv
<1>1. Init => IInv
  BY InitInvariant
<1>2. IInv /\ [Next]_vars => IInv'
  BY NextInvariant
<1> QED
  BY <1>1, <1>2, PTL DEF Spec

(* Every variable keeps its type; the queue of the router and the batch of *)
(* the control thread keep their bounds.                                   *)
THEOREM TypeCorrect == Spec => []TypeOK
<1>1. IInv => TypeOK
  BY DEF IInv
<1> QED
  BY <1>1, Invariance, PTL

(* A published result is true and stays true.                              *)
THEOREM AcksStayTrue == Spec => []AcksTruthful
<1>1. IInv => AcksTruthful
  BY DEF IInv, ControlPath, Truthful, AcksTruthful
<1> QED
  BY <1>1, Invariance, PTL

(* The drives are on only with a calibrated rover and a live E-STOP        *)
(* thread.                                                                 *)
THEOREM DrivesAreGuarded == Spec => []DrivesGuarded
<1>1. IInv => DrivesGuarded
  <2> SUFFICES ASSUME IInv, drives = "on" PROVE state.calibrated /\ "estop" \in threads
    BY DEF DrivesGuarded
  <2>1. rc \in {0, 4} /\ pc["main"] \notin Uncalibrated \cup Joined
    BY DEF IInv, TypeOK, DrivesPath, Uncalibrated, Boot
  <2> QED
    BY <2>1 DEF IInv, DrivesPath, ThreadsPath, Uncalibrated
<1> QED
  BY <1>1, Invariance, PTL

(* A process that exits has stopped its drives and ended its threads; one  *)
(* that is terminated has hit a known cause.                               *)
THEOREM ExitIsClean == Spec => []ExitClean
<1>1. IInv => ExitClean
  <2> SUFFICES ASSUME IInv PROVE ExitClean
    OBVIOUS
  <2>1. CASE process = "exited" /\ rc # 2
    <3>1. pc["main"] = "done" /\ threads = {}
      BY <2>1 DEF IInv, MainPath
    <3>2. rc \in {0, 4}
      BY <2>1, <3>1 DEF IInv, TypeOK, ThreadsPath
    <3>3. \A t \in Workers : pc[t] \in {"off", "done"}
      BY <3>1 DEF IInv, ThreadsPath
    <3>4. stop
      BY <3>1, <3>2 DEF IInv, StopPath
    <3>5. drives # "on"
      BY <3>1, <3>2 DEF IInv, DrivesPath, Joined
    <3> QED
      BY <2>1, <3>3, <3>4, <3>5 DEF ExitClean
  <2>2. CASE ~(process = "exited" /\ rc # 2)
    BY <2>2 DEF IInv, MainPath, ExitClean
  <2> QED
    BY <2>1, <2>2
<1> QED
  BY <1>1, Invariance, PTL

(* The file a clean exit leaves loads the final state.                     *)
THEOREM FinalSaveIsWhole == Spec => []FinalSave
<1>1. IInv => FinalSave
  <2> SUFFICES ASSUME IInv, process = "exited", rc # 2, "save" \notin Failures
               PROVE  disk = {state}
    BY DEF FinalSave
  <2>1. pc["main"] = "done" /\ threads = {}
    BY DEF IInv, MainPath
  <2>2. rc \in {0, 4}
    BY <2>1 DEF IInv, TypeOK, ThreadsPath
  <2> QED
    BY <2>1, <2>2 DEF IInv, SavePath
<1> QED
  BY <1>1, Invariance, PTL

(* A latched E-STOP reaches the drives before the process exits, unless it *)
(* was latched after an acknowledged Shutdown or Reboot.                   *)
THEOREM EStopIsNotLost == Spec => []NoEStopLost
<1>1. IInv => NoEStopLost
  <2> SUFFICES ASSUME IInv, process = "exited", latched, ~estopCalled
               PROVE  \E i, j \in 1..Len(acks) :
                        /\ i < j
                        /\ acks[i].cmd \in {"Shutdown", "Reboot"}
                        /\ acks[j].cmd = "EmergencyStop"
    BY DEF NoEStopLost
  <2>1. pc["main"] = "done" /\ threads = {}
    BY DEF IInv, MainPath
  <2>2. pc["control"] \in {"off", "done"}
    BY <2>1 DEF IInv, ThreadsPath, Workers
  <2>3. PICK i \in 1..Len(acks) :
          /\ acks[i].cmd \in {"Shutdown", "Reboot"}
          /\ \/ Triggered
             \/ \E j \in 1..Len(acks) : i < j /\ acks[j].cmd = "EmergencyStop"
    BY <2>1 DEF IInv, MissedLatch, Joined
  <2>4. ~Triggered
    BY <2>2 DEF Triggered
  <2> QED
    BY <2>3, <2>4
<1> QED
  BY <1>1, Invariance, PTL

(* With the drives on, the logger is stuck only in the handler of an       *)
(* E-STOP, which has latched it, and the E-STOP thread has then still to   *)
(* run to estop() or a stop has been asked for.                            *)
THEOREM WedgedDrivesHolds == Spec => []WedgedDrives
<1>1. IInv => WedgedDrives
  <2> SUFFICES ASSUME IInv, wedged # "none", drives = "on" PROVE WedgedDrives
    BY DEF WedgedDrives
  <2>1. wedged = "control" /\ latched
    BY DEF IInv, TypeOK, WedgePath, Threads, Workers
  <2>2. pc["estop"] # "off"
    BY DEF IInv, TypeOK, EstopPath, DrivesPath, Boot
  <2>3. pc["estop"] \in {"start", "check", "body", "estop"} \/ stop
    <3>1. pc["estop"] \in LoopLabels \cup {"estop", "estop_fatal", "rs_store", "rs_notify"}
      BY LabelsOf DEF IInv, TypeOK, Threads, Workers
    <3> QED
      BY <2>2, <3>1 DEF IInv, EstopPath, LoopLabels
  <2> QED
    BY <2>1, <2>3 DEF WedgedDrives
<1> QED
  BY <1>1, Invariance, PTL

(* No step turns the drives on after a stop or an E-STOP.                  *)
THEOREM DrivesStayOff == Spec => NoReEnable
<1> DEFINE Enabling ==
      drives' = "on" => drives = "on" \/ (drives = "idle" /\ ~stop /\ ~latched)
<1>1. IInv /\ [Next]_vars => [Enabling]_vars
  <2> SUFFICES ASSUME IInv, Next, drives' = "on" PROVE Enabling
    BY DEF Enabling
  <2>1. CASE Running(MainStep)
    <3>1. CASE EnableDrives
      BY <3>1 DEF IInv, BootQuiet, DrivesPath, Boot, EnableDrives
    <3>2. CASE ~EnableDrives
      BY <2>1, <3>2 DEF MainStep, HardwareBringup, StartEstopThread,
        LoadState, CalibrationSequence, ClearCalibrated, EnableDrives,
        SpawnRuntime, FatalBoot, WaitCheck, WaitBlock, WaitTimeout,
        ChooseStopPath, Join, Return, StoreStop, NotifyStop, DrivesEstop,
        DrivesDisable, SaveChecksum, SaveFile
    <3> QED
      BY <3>1, <3>2
  <2>2. CASE Running(EstopStep)
    BY <2>2 DEF EstopStep, EstopLatchCheck, LoopCheck, DrivesEstop, StoreStop,
      NotifyStop
  <2>3. CASE Running(ControlStep)
    BY <2>3 DEF ControlStep, ForgetAuthority, LoopCheck, ControlLatchCheck,
      ProcessOne, TriggerLatch, SetReason, StoreStop, NotifyStop, StopHandler,
      DrivesDisable, NoteAuthority, PublishResult
  <2>4. CASE Running(IoStep)
    BY <2>4 DEF IoStep, PumpRx, PumpEnd, LoopCheck
  <2>5. CASE Running(PersistStep)
    BY <2>5 DEF PersistStep, SaveChecksum, SaveFile, LoopCheck
  <2>6. CASE Running(SensorStep)
    BY <2>6 DEF SensorStep, LoopCheck
  <2>7. CASE Over
    BY <2>7 DEF Over, vars
  <2> QED
    BY <2>1, <2>2, <2>3, <2>4, <2>5, <2>6, <2>7 DEF Next
<1> QED
  BY <1>1, Invariance, PTL DEF Spec, NoReEnable
=============================================================================
