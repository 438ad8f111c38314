------------------------------- MODULE UgvMain -------------------------------
(***************************************************************************)
(* main.cpp around the core: the logger is made first and destroyed before *)
(* the core is, the data directory is probed, run() starts threads that    *)
(* log, and joins them or, when the calibration fails, returns with the    *)
(* E-STOP thread still running.  UgvCore has the steps of run(); here it   *)
(* is what the logger sees of it.                                          *)
(***************************************************************************)
EXTENDS Logger, FiniteSets, Filter

CONSTANTS
  Workers,    \* the threads of the core, one of them "estop"
  WorkerLog,  \* levels of the lines they log
  MaxKills    \* bound: kills of the process

ASSUME MainAssumption ==
  /\ Threads = Workers \cup {"main"} /\ Workers # {"estop"}
  /\ "estop" \in Workers /\ "main" \notin Workers
  /\ "none" \notin Threads
  /\ WorkerLog \subseteq DOMAIN Level /\ MaxKills \in Nat

VARIABLES
  at,        \* the statement of main()
  running,   \* workers that have been started and not ended
  left,      \* threads_ after run(): workers it did not join
  dir,       \* data_dir: "unset", "desired" or "current"
  born,      \* lines begun before this process
  kills

mainVars == <<at, running, left, dir>>
vars == <<loggerVars, mainVars, born, kills>>

Init ==
  /\ LoggerInit
  /\ at = "init" /\ running = {} /\ left = {} /\ dir = "unset"
  /\ born = {0} /\ kills = 0

Main(from, to) == process = "running" /\ call["main"].step = "idle" /\ at = from /\ at' = to

-----------------------------------------------------------------------------
(* main() *)

MakeLogger == Main("init", "starting") /\ InitLogger /\ UNCHANGED <<running, left, dir>>

Report(from, level, to) ==
  Main(from, to) /\ BeginLog("main", level) /\ UNCHANGED <<running, left, dir>>

(* ensure_writable_data_dir: a probe file in the desired directory, or a   *)
(* warning and the current directory.                                      *)
Probe ==
  \/ /\ Main("probe", "using")
     /\ dir' = "desired"
     /\ UNCHANGED <<loggerVars, running, left>>
  \/ /\ Main("probe", "using") /\ BeginLog("main", "Warn")
     /\ dir' = "current"
     /\ UNCHANGED <<running, left>>

(* run(): it starts every thread, or only the first before it fails.       *)
StartRun ==
  /\ Main("run", "join")
  /\ running' \in {Workers, {"estop"}, {}}
  /\ left' = running'
  /\ UNCHANGED <<loggerVars, dir>>

JoinRun_Detached ==   \* mutant: returns without waiting for its threads
  /\ Main("join", "report")
  /\ left' = {}
  /\ UNCHANGED <<loggerVars, running, dir>>

(* A run that started every thread joins them all; one whose calibration   *)
(* failed joins none.                                                      *)
JoinRun ==
  /\ Main("join", "report")
  /\ IF left = Workers THEN running = {} /\ left' = {} ELSE UNCHANGED left
  /\ UNCHANGED <<loggerVars, running, dir>>

(* The logger goes before the core does, which is a local of main.         *)
ShutdownLogger ==
  Main("shutdown", "flush") /\ BeginShutdown("main") /\ UNCHANGED <<running, left, dir>>

FlushLogger ==
  /\ DestructorFlush("main")
  /\ Main("flush", IF life' = "dead" THEN "return" ELSE "flush")
  /\ UNCHANGED <<running, left, dir>>

(* ~UgvCore: destroying a joinable thread calls std::terminate.            *)
ReturnFromMain ==
  /\ Main("return", "done")
  /\ process' = IF left = {} THEN "exited" ELSE "terminated"
  /\ UNCHANGED <<life, flushAlways, gmu, mu, callVars, fileVars, running, left, dir>>

MainStep ==
  \/ MakeLogger \/ Report("starting", "Info", "probe") \/ Probe
  \/ Report("using", "Info", "run") \/ StartRun \/ JoinRun
  \/ Report("report", "Info", "shutdown") \/ ShutdownLogger \/ FlushLogger
  \/ ReturnFromMain

-----------------------------------------------------------------------------
WorkerLogs(t) ==
  /\ t \in running
  /\ \E level \in WorkerLog : BeginLog(t, level)
  /\ UNCHANGED mainVars

WorkerEnds(t) ==
  /\ t \in running /\ At(t, "idle")
  /\ running' = running \ {t}
  /\ UNCHANGED <<loggerVars, at, left, dir>>

ThreadStep(t) ==
  \/ LogStep(t) /\ UNCHANGED mainVars
  \/ IF t = "main" THEN MainStep ELSE WorkerEnds(t)

Kill ==
  /\ kills < MaxKills /\ kills' = kills + 1
  /\ KillProcess /\ UNCHANGED <<mainVars, born>>

Start ==
  /\ NewProcess
  /\ at' = "init" /\ running' = {} /\ left' = {} /\ dir' = "unset"
  /\ born' = born \cup {lines}
  /\ UNCHANGED kills

Next ==
  \/ (\E t \in Threads : ThreadStep(t)) /\ UNCHANGED <<born, kills>>
  \/ (\E t \in Workers : WorkerLogs(t)) /\ UNCHANGED <<born, kills>>
  \/ (\E t \in Threads : SpillOnWrite(t) /\ UNCHANGED mainVars) /\ UNCHANGED <<born, kills>>
  \/ Kill \/ Start

Spec == Init /\ [][Next]_vars

(* Every thread that can go on does; nothing makes a worker log.           *)
FairSpec ==
  Spec /\ \A t \in Threads :
            WF_vars(ThreadStep(t) /\ UNCHANGED <<born, kills>>)

-----------------------------------------------------------------------------
(* Properties *)

TypeOK ==
  /\ process \in {"running", "killed", "exited", "terminated", "undefined"}
  /\ life \in {"none", "alive", "dead"} /\ flushAlways \in BOOLEAN
  /\ gmu \in {"none", "main"} /\ mu \in Threads \cup {"none"}
  /\ lines \in 0..MaxLines /\ returned \subseteq 1..lines /\ born \subseteq 0..lines
  /\ \A t \in Threads : call[t].line \in 0..lines
  /\ at \in {"init", "starting", "probe", "using", "run", "join", "report",
             "shutdown", "flush", "return", "done"}
  /\ running \subseteq Workers /\ left \subseteq Workers
  /\ at \notin {"init", "starting", "probe"} => dir # "unset"

File == disk \o buffer
IsHead(token) == token[2] = "head"
Heads == {LineHead(l) : l \in 1..MaxLines}
LinesOf(file) == LET heads == Kept(file, Heads)
                 IN [k \in 1..Len(heads) |-> heads[k][1]]

(* robot.log is a LogFile: it only grows, from one process to the next,    *)
(* and where flush_always is set, or the process has exited, no crash      *)
(* loses a line whose log() has returned.                                  *)
Promised == IF flushAlways THEN returned ELSE {}
Journal == INSTANCE LogFile WITH
  Lines <- 1..MaxLines, lines <- LinesOf(File), promised <- Promised
IsAJournal == Journal!Spec

(* "Atomic-per-line output": a line's head is followed by its tail,        *)
(* whatever the threads do, except where a process was killed: there the   *)
(* next line is one of another process, or the file ends.                  *)
Process(l) == Cardinality({b \in born : b < l})
LinesWhole ==
  \A k \in 1..Len(File) :
    \/ ~IsHead(File[k])
    \/ k = Len(File)
    \/ File[k + 1] = LineTail(File[k][1])
    \/ Process(File[k + 1][1]) > Process(File[k][1])

(* The logger is destroyed before the core, yet no thread uses it after,   *)
(* or finds it gone, unless run() returned without joining its threads.    *)
TeardownSafe ==
  /\ process = "undefined" => left # {}
  /\ process = "exited" => left = {} /\ running = {}
  /\ \A t \in Workers : call[t].step = "get" /\ life = "dead" => left # {}

(* What a process logged is on the disk after its clean exit, flush_always *)
(* or not.                                                                 *)
ExitComplete ==
  process = "exited" =>
    \A l \in returned : (\A b \in born : b < l) =>
      \E k \in 2..Len(disk) : disk[k - 1] = LineHead(l) /\ disk[k] = LineTail(l)

(* log() returns, unless a Fatal line has blocked a thread that holds mu_, *)
(* or the process is over.                                                 *)
LogReturns ==
  \A t \in Threads :
    call[t].step # "idle" ~>
      \/ call[t].step = "idle" \/ process # "running"
      \/ \E u \in Threads : call[u].step = "stuck"
=============================================================================
