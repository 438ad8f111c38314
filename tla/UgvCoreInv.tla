----------------------------- MODULE UgvCoreInv -----------------------------
(***************************************************************************)
(* The inductive invariant of UgvCore: what holds at each statement of each*)
(* thread and makes the safety properties of UgvCore follow.               *)
(***************************************************************************)
EXTENDS UgvCore

Runtime == {"control", "sensor", "io", "persist"}
Boot == {"bringup", "spawn_estop", "load", "calibrate", "save", "save_file",
         "enable", "spawn", "fatal", "clear", "save_failed", "save_failed_file"}
Uncalibrated == {"bringup", "spawn_estop", "load", "calibrate"}
Waiting == {"wait", "to_block", "blocked"}
Stopping == {"sd_warn", "rs_store", "rs_notify", "sd_choose", "sd_reason",
             "sd_estop", "sd_disable"}
DrivesDone == {"sd_estop_fatal", "sd_disable_warn", "join"}
Joined == {"sd_save", "sd_save_file", "sd_info", "return", "done"}

(* run() by its labels: which value it is going to return where.           *)
MainPath ==
  LET m == pc["main"] IN
  /\ m \in (Boot \ {"fatal", "clear", "save_failed", "save_failed_file"})
           \cup Waiting => rc = 0
  /\ m = "fatal" => rc # 0
  /\ m \in {"clear", "save_failed", "save_failed_file"} => rc = 3
  /\ m \in Stopping \cup DrivesDone \cup (Joined \ {"return", "done"}) => rc \in {0, 4}
  /\ process = "exited" => m = "done" /\ threads = {}
  /\ process = "terminated" => rc = 3 \/ FlushAlways \/ "directory" \in Failures

(* Nothing has happened to the runtime before it is spawned.               *)
BootQuiet ==
  /\ pc["main"] \in Boot \/ rc # 0 =>
       /\ \A t \in Runtime : pc[t] = "off"
       /\ acks = <<>> /\ ~latched /\ ~estopCalled
  /\ pc["main"] \in Boot => ~stop

(* The drives by the labels of run(), and the calibration they rest on.    *)
DrivesPath ==
  LET m == pc["main"] IN
  /\ m \in Boot \ {"spawn"} => drives = "idle"
  /\ rc \in {2, 3} => drives = "idle"
  /\ rc \in {0, 4} /\ m \notin Uncalibrated => state.calibrated
  /\ rc \in {0, 4} /\ m \in DrivesDone \cup Joined => drives = "off"

(* threads_: a thread that is neither unborn nor done can be joined.       *)
ThreadsPath ==
  LET m == pc["main"] IN
  /\ \A t \in Workers : pc[t] \notin {"off", "done"} => t \in threads
  /\ m \in {"bringup", "spawn_estop"} \/ rc = 2 => threads = {}
  /\ m \notin {"bringup", "spawn_estop"} \cup Joined /\ rc # 2 => "estop" \in threads
  /\ rc = 3 => "estop" \in threads
  /\ rc \in {0, 4} /\ m \in Joined => threads = {}

StopPath ==
  LET m == pc["main"] IN
  m \in {"rs_notify", "sd_choose", "sd_reason", "sd_estop", "sd_disable"}
        \cup DrivesDone \cup (Joined \ {"return", "done"})
  \/ (m \in {"return", "done"} /\ rc \in {0, 4})
  \/ (m \in {"sd_warn", "rs_store"} /\ rc = 0) => stop

(* The E-STOP thread acts on a latch; a Fatal line comes after its store.  *)
LatchPath ==
  /\ pc["estop"] \in {"estop", "estop_fatal", "rs_store", "rs_notify"} => latched
  /\ pc["estop"] = "estop_fatal" => drives = "off"
  /\ pc["main"] \in {"sd_reason", "sd_estop", "sd_estop_fatal"} => latched
  /\ pc["main"] = "sd_estop_fatal" => drives = "off" /\ estopCalled

(* The E-STOP thread leaves its loop only for a stop, and asks for one only*)
(* after estop().                                                          *)
EstopPath ==
  /\ pc["estop"] \in {"exit", "done"} => stop
  /\ pc["estop"] \in {"estop_fatal", "rs_store", "rs_notify"} => drives # "on"
  /\ pc["estop"] = "off" => pc["main"] \in {"bringup", "spawn_estop"} \/ rc = 2

WedgePath ==
  /\ wedged # "none" => latched \/ rc # 0
  /\ wedged = "control" => latched /\ reason
  /\ wedged \in {"main", "estop"} => drives # "on"
  /\ wedged \notin {"sensor", "io", "persist"}

(* What is true of a published result.                                     *)
Truthful(a) ==
  /\ a.cmd = "Stop" /\ a.status = "Succeeded" => drives = "off"
  /\ a.cmd = "Stop" /\ a.status = "Rejected" => latched
  /\ a.cmd = "EmergencyStop" => latched /\ stop
  /\ a.cmd \in {"Shutdown", "Reboot"} => stop

Stops == {"EmergencyStop", "Shutdown", "Reboot"}

(* The command in progress by the labels of the control thread.            *)
ControlPath ==
  LET c == pc["control"] IN
  /\ c \in {"cas", "reason", "latch_fatal"} => cur.cmd = "EmergencyStop"
  /\ c \in {"reason", "latch_fatal"} => latched
  /\ c = "latch_fatal" => reason
  /\ c \in {"rs_store", "rs_notify"} =>
       cur.cmd \in Stops /\ (cur.cmd = "EmergencyStop" => latched)
  /\ c = "rs_notify" => stop
  /\ c \in {"st_check", "st_disable", "st_warn"} =>
       cur = [cmd |-> "Stop", status |-> "Succeeded"]
  /\ c = "st_warn" => drives = "off"
  /\ c \in {"post", "ack_log", "publish"} => Truthful(cur)
  /\ \A i \in 1..Len(acks) : Truthful(acks[i])

(* The save safe_shutdown makes is the only writer, with no reader.        *)
SavePath ==
  LET m == pc["main"] IN
  /\ m = "sd_save_file" => summed = state
  /\ m \in {"sd_info", "return", "done"} /\ rc \in {0, 4} /\ "save" \notin Failures =>
       disk = {state}

(* Who asked for the stop, and how far the control thread is with it.      *)
Acked(cmds) == \E i \in 1..Len(acks) : acks[i].cmd \in cmds
Finishing(cmds) ==
  cur.cmd \in cmds /\ pc["control"] \in {"rs_notify", "post", "ack_log", "publish"}
Triggered ==
  /\ cur.cmd = "EmergencyStop"
  /\ pc["control"] \in {"reason", "latch_fatal", "rs_store", "rs_notify",
                        "post", "ack_log", "publish"}

StopOrigin ==
  stop /\ rc = 0 /\ ~latched =>
    Acked({"Shutdown", "Reboot"}) \/ Finishing({"Shutdown", "Reboot"})

MissedLatch ==
  /\ pc["main"] \in {"sd_disable", "sd_disable_warn", "join"} \cup Joined
  /\ latched /\ ~estopCalled
  => \E i \in 1..Len(acks) :
       /\ acks[i].cmd \in {"Shutdown", "Reboot"}
       /\ \/ Triggered
          \/ \E j \in 1..Len(acks) : i < j /\ acks[j].cmd = "EmergencyStop"

IInv ==
  /\ TypeOK /\ MainPath /\ BootQuiet /\ DrivesPath /\ ThreadsPath /\ StopPath
  /\ LatchPath /\ EstopPath /\ WedgePath /\ ControlPath /\ SavePath
  /\ StopOrigin /\ MissedLatch
=============================================================================
