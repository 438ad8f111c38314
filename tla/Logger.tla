------------------------------- MODULE Logger -------------------------------
(***************************************************************************)
(* utils/Logger: the global logger behind g_logger_mu, and Logger::log,    *)
(* which formats a line, takes mu_ and hands the line to a stream with a   *)
(* buffer, until a flush or the destructor empties it.                     *)
(*                                                                         *)
(* A line is two tokens, its head and its tail: a process can be killed    *)
(* between them.  What a program does with the logger is UgvMain's.        *)
(***************************************************************************)
EXTENDS Naturals, Sequences

CONSTANTS
  Threads,
  MinLevel,   \* Config.min_level
  Relock,     \* what locking a std::mutex one already owns may do
  MaxLines    \* bound: lines logged by all processes together

Level == [Trace |-> 0, Debug |-> 1, Info |-> 2, Warn |-> 3, Error |-> 4, Fatal |-> 5]

ASSUME LoggerAssumption ==
  /\ MinLevel \in DOMAIN Level /\ MaxLines \in Nat
  /\ Relock \in (SUBSET {"blocks", "throws"}) \ {{}}

VARIABLES
  process,      \* "running", "killed", "exited", "terminated" or "undefined"
  life,         \* the object of g_logger: "none", "alive" or "dead"
  flushAlways,  \* Config.flush_always
  gmu,          \* thread that keeps g_logger_mu over a step, or "none"
  mu,           \* thread that holds mu_, or "none"
  call,         \* step, level and line of the log() of each thread
  lines,        \* lines begun so far
  buffer,       \* what the stream has not written yet
  disk,         \* robot.log
  returned      \* lines whose log() has returned

callVars == <<call, lines, returned>>
fileVars == <<buffer, disk>>
loggerVars == <<process, life, flushAlways, gmu, mu, callVars, fileVars>>

NoCall == [step |-> "idle", level |-> "Info", line |-> 0]

LineHead(l) == <<l, "head">>
LineTail(l) == <<l, "tail">>

LoggerInit ==
  /\ process = "running" /\ life = "none" /\ flushAlways \in BOOLEAN
  /\ gmu = "none" /\ mu = "none"
  /\ call = [t \in Threads |-> NoCall] /\ lines = 0 /\ returned = {}
  /\ buffer = <<>> /\ disk = <<>>

At(t, step) == process = "running" /\ call[t].step = step
Step(t, step) == call' = [call EXCEPT ![t].step = step]

(* init_logger: opens the file to append; a file that cannot be opened     *)
(* throws, and main does not catch it.                                     *)
InitLogger_Truncate ==   \* mutant: opens without ios::app
  /\ gmu = "none" /\ life = "none"
  /\ life' = "alive" /\ disk' = <<>>
  /\ UNCHANGED <<process, flushAlways, gmu, mu, callVars, buffer>>

InitLogger ==
  /\ gmu = "none" /\ life = "none"
  /\ \/ life' = "alive" /\ UNCHANGED process
     \/ process' = "terminated" /\ UNCHANGED life
  /\ UNCHANGED <<flushAlways, gmu, mu, callVars, fileVars>>

-----------------------------------------------------------------------------
(* An ARC_LOG macro: logger().log(level, ...).                             *)

BeginLog(t, level) ==
  /\ At(t, "idle") /\ lines < MaxLines
  /\ lines' = lines + 1
  /\ call' = [call EXCEPT ![t] = [step |-> "get", level |-> level, line |-> lines + 1]]
  /\ UNCHANGED <<process, life, flushAlways, gmu, mu, returned, fileVars>>

(* logger(): a reference to the object, which outlives the lock.           *)
GetLogger(t) ==
  /\ At(t, "get") /\ gmu = "none"
  /\ IF life = "alive" THEN Step(t, "filter") /\ UNCHANGED process
     ELSE process' = "terminated" /\ UNCHANGED call
  /\ UNCHANGED <<life, flushAlways, gmu, mu, lines, returned, fileVars>>

(* Every later step of log() reads the object.                             *)
UseDead(t) ==
  /\ process = "running" /\ life = "dead"
  /\ call[t].step \notin {"idle", "get"}
  /\ process' = "undefined"
  /\ UNCHANGED <<life, flushAlways, gmu, mu, callVars, fileVars>>

(* Below min_level nothing is logged; else the line is formatted, before   *)
(* any lock.                                                               *)
Filter(t) ==
  /\ At(t, "filter") /\ life = "alive"
  /\ IF Level[call[t].level] < Level[MinLevel] THEN Step(t, "idle") ELSE Step(t, "lock")
  /\ UNCHANGED <<process, life, flushAlways, gmu, mu, lines, returned, fileVars>>

LockLine_Unlocked(t) ==   \* mutant: no scoped_lock in log
  /\ At(t, "lock") /\ life = "alive"
  /\ Step(t, "head")
  /\ UNCHANGED <<process, life, flushAlways, gmu, mu, lines, returned, fileVars>>

LockLine(t) ==
  /\ At(t, "lock") /\ life = "alive" /\ mu = "none"
  /\ mu' = t
  /\ Step(t, "head")
  /\ UNCHANGED <<process, life, flushAlways, gmu, lines, returned, fileVars>>

(* file_ << line_str, and the flush; the stream may write out what its     *)
(* buffer holds before it is asked to.                                     *)
WriteLine(t) ==
  /\ life = "alive"
  /\ \/ At(t, "head") /\ Step(t, "tail") /\ buffer' = Append(buffer, LineHead(call[t].line))
     \/ At(t, "tail") /\ Step(t, IF flushAlways THEN "flush" ELSE "unlock")
        /\ buffer' = Append(buffer, LineTail(call[t].line))
  /\ UNCHANGED <<process, life, flushAlways, gmu, mu, lines, returned, disk>>

Spill ==
  /\ buffer # <<>>
  /\ disk' = Append(disk, Head(buffer)) /\ buffer' = Tail(buffer)
  /\ UNCHANGED <<process, life, flushAlways, gmu, mu, callVars>>

SpillOnWrite(t) ==
  process = "running" /\ life = "alive" /\ call[t].step \in {"tail", "unlock"} /\ Spill

(* A Fatal line calls flush(), which locks mu_ a second time.              *)
FlushLine(t) ==
  /\ At(t, "flush") /\ life = "alive"
  /\ \/ Spill
     \/ /\ buffer = <<>>
        /\ Step(t, IF call[t].level = "Fatal" THEN "relock" ELSE "unlock")
        /\ UNCHANGED <<process, life, flushAlways, gmu, mu, lines, returned, fileVars>>

LockAgain(t) ==
  /\ At(t, "relock")
  /\ \/ "blocks" \in Relock /\ Step(t, "stuck") /\ UNCHANGED process
     \/ "throws" \in Relock /\ process' = "terminated" /\ UNCHANGED call
  /\ UNCHANGED <<life, flushAlways, gmu, mu, lines, returned, fileVars>>

ReturnLog_Locked(t) ==   \* mutant: leaves mu_ locked
  /\ At(t, "unlock") /\ life = "alive"
  /\ Step(t, "idle")
  /\ returned' = returned \cup {call[t].line}
  /\ UNCHANGED <<process, life, flushAlways, gmu, mu, lines, fileVars>>

ReturnLog(t) ==
  /\ At(t, "unlock") /\ life = "alive"
  /\ mu' = "none"
  /\ Step(t, "idle")
  /\ returned' = returned \cup {call[t].line}
  /\ UNCHANGED <<process, life, flushAlways, gmu, lines, fileVars>>

LogStep(t) ==
  \/ GetLogger(t) \/ UseDead(t) \/ Filter(t) \/ LockLine(t) \/ WriteLine(t)
  \/ FlushLine(t) \/ LockAgain(t) \/ ReturnLog(t)

-----------------------------------------------------------------------------
(* shutdown_logger: keeps g_logger_mu while the destructor flushes, which  *)
(* takes mu_, and then frees the object.                                   *)

BeginShutdown(t) ==
  /\ At(t, "idle") /\ gmu = "none"
  /\ gmu' = t
  /\ UNCHANGED <<process, life, flushAlways, mu, callVars, fileVars>>

DestructorFlush_Skipped(t) ==   \* mutant: the buffer is given up
  /\ At(t, "idle") /\ gmu = t /\ life = "alive" /\ mu = "none"
  /\ life' = "dead" /\ gmu' = "none" /\ buffer' = <<>>
  /\ UNCHANGED <<process, flushAlways, mu, callVars, disk>>

DestructorFlush(t) ==
  /\ At(t, "idle") /\ gmu = t /\ life = "alive" /\ mu = "none"
  /\ \/ Spill
     \/ /\ buffer = <<>>
        /\ life' = "dead" /\ gmu' = "none"
        /\ UNCHANGED <<process, flushAlways, mu, callVars, fileVars>>

(* The process is killed; a new one finds what is on the disk.             *)
KillProcess ==
  /\ process = "running"
  /\ process' = "killed" /\ buffer' = <<>>
  /\ UNCHANGED <<life, flushAlways, gmu, mu, callVars, disk>>

NewProcess ==
  /\ process = "killed"
  /\ process' = "running" /\ life' = "none" /\ gmu' = "none" /\ mu' = "none"
  /\ call' = [t \in Threads |-> NoCall]
  /\ UNCHANGED <<flushAlways, lines, returned, fileVars>>
=============================================================================
