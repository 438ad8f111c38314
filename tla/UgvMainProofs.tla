---------------------------- MODULE UgvMainProofs ----------------------------
(***************************************************************************)
(* The logger under main(), for any number of threads, lines and kills: no *)
(* line of robot.log is broken up by another one of the same process, and  *)
(* no thread uses the logger once it is gone unless run() left threads     *)
(* behind.  What a step does to the calls of log() and to the file comes   *)
(* in nine kinds (StepKinds), whatever main() and the workers are at.      *)
(***************************************************************************)
EXTENDS UgvMain, DataLemmas, FiniteSetTheorems

Steps == {"idle", "get", "filter", "lock", "head", "tail", "flush", "relock", "stuck", "unlock"}
Holding == {"head", "tail", "flush", "relock", "stuck", "unlock"}
Calls == [step : Steps, level : DOMAIN Level, line : Nat]
Tokens == Nat \X {"head", "tail"}

-----------------------------------------------------------------------------
(* The kinds of steps *)

AfterLog ==
  {<<"get", "filter">>, <<"filter", "idle">>, <<"filter", "lock">>, <<"flush", "unlock">>,
   <<"flush", "relock">>, <<"relock", "stuck">>}

Advances(t) ==
  /\ \E move \in AfterLog :
       At(t, move[1]) /\ Step(t, move[2]) /\ (move[1] = "flush" => buffer = <<>>)
  /\ UNCHANGED <<process, mu, lines, returned, fileVars, born>>

Begins(t) == (\E level \in DOMAIN Level : BeginLog(t, level)) /\ UNCHANGED born
Locks(t) == LockLine(t) /\ UNCHANGED born
Writes(t) == WriteLine(t) /\ UNCHANGED born
Returns(t) == ReturnLog(t) /\ UNCHANGED born
Spills == Spill /\ UNCHANGED born
Rests ==
  /\ \/ UNCHANGED process
     \/ process = "running" /\ process' \in {"exited", "terminated", "undefined"}
  /\ UNCHANGED <<callVars, fileVars, mu, born>>

LEMMA LevelsOf == DOMAIN Level = {"Trace", "Debug", "Info", "Warn", "Error", "Fatal"}
BY DEF Level

LEMMA ThreadsOf == "main" \in Threads /\ Workers \subseteq Threads /\ "none" \notin Threads
BY MainAssumption

LEMMA LogStepKinds ==
  ASSUME NEW t \in Threads, LogStep(t), UNCHANGED born
  PROVE  Advances(t) \/ Locks(t) \/ Writes(t) \/ Returns(t) \/ Spills \/ Rests
<1>1. CASE GetLogger(t) \/ UseDead(t)
  BY <1>1 DEF GetLogger, UseDead, Advances, AfterLog, Rests, callVars, Step, At
<1>2. CASE Filter(t)
  BY <1>2 DEF Filter, Advances, AfterLog
<1>3. CASE LockLine(t) \/ WriteLine(t) \/ ReturnLog(t)
  BY <1>3 DEF Locks, Writes, Returns
<1>4. CASE FlushLine(t)
  BY <1>4 DEF FlushLine, Spills, Advances, AfterLog
<1>5. CASE LockAgain(t)
  BY <1>5 DEF LockAgain, Advances, AfterLog, Rests, callVars, At
<1> QED BY <1>1, <1>2, <1>3, <1>4, <1>5 DEF LogStep

LEMMA MainStepKinds ==
  ASSUME MainStep, UNCHANGED born
  PROVE  Begins("main") \/ Spills \/ Rests
<1>1. CASE MakeLogger
  BY <1>1 DEF MakeLogger, InitLogger, Main, Rests
<1>2. ASSUME NEW from, NEW to, Report(from, "Info", to) PROVE Begins("main")
  BY <1>2, LevelsOf DEF Report, Begins
<1>3. CASE Probe
  BY <1>3, LevelsOf DEF Probe, Begins, Rests, loggerVars
<1>4. CASE StartRun \/ JoinRun
  BY <1>4 DEF StartRun, JoinRun, Rests, loggerVars
<1>5. CASE ShutdownLogger
  BY <1>5 DEF ShutdownLogger, BeginShutdown, Rests
<1>6. CASE FlushLogger
  BY <1>6 DEF FlushLogger, DestructorFlush, Spills, Rests
<1>7. CASE ReturnFromMain
  BY <1>7 DEF ReturnFromMain, Main, Rests
<1> QED BY <1>1, <1>2, <1>3, <1>4, <1>5, <1>6, <1>7 DEF MainStep

LEMMA StepKinds ==
  ASSUME [Next]_vars
  PROVE  \/ \E t \in Threads : Advances(t) \/ Begins(t) \/ Locks(t) \/ Writes(t) \/ Returns(t)
         \/ Spills \/ Rests \/ Kill \/ Start
<1>1. ASSUME NEW t \in Threads, ThreadStep(t), UNCHANGED <<born, kills>>
      PROVE  Advances(t) \/ Begins(t) \/ Locks(t) \/ Writes(t) \/ Returns(t) \/ Spills \/ Rests
  <2>1. CASE LogStep(t)
    BY <1>1, <2>1, LogStepKinds
  <2>2. CASE t = "main" /\ MainStep
    BY <1>1, <2>2, MainStepKinds
  <2>3. CASE WorkerEnds(t)
    BY <1>1, <2>3 DEF WorkerEnds, loggerVars, Rests
  <2> QED BY <1>1, <2>1, <2>2, <2>3 DEF ThreadStep
<1>2. ASSUME NEW t \in Workers, WorkerLogs(t), UNCHANGED <<born, kills>>
      PROVE  t \in Threads /\ Begins(t)
  BY <1>2, MainAssumption DEF WorkerLogs, Begins
<1>3. ASSUME NEW t \in Threads, SpillOnWrite(t), UNCHANGED <<born, kills>>
      PROVE  Spills
  BY <1>3 DEF SpillOnWrite, Spills
<1>4. CASE UNCHANGED vars
  BY <1>4 DEF vars, loggerVars, Rests
<1> QED BY <1>1, <1>2, <1>3, <1>4 DEF Next

-----------------------------------------------------------------------------
(* Types of the calls and of the file *)

CallsOK ==
  /\ call \in [Threads -> Calls] /\ lines \in 0..MaxLines
  /\ returned \subseteq 1..lines /\ born \subseteq 0..lines
  /\ mu \in Threads \cup {"none"}
  /\ process \in {"running", "killed", "exited", "terminated", "undefined"}
  /\ \A t \in Threads :
       call[t].line <= lines /\ (call[t].step # "idle" => call[t].line >= 1)

FileOK ==
  /\ buffer \in Seq(Tokens) /\ disk \in Seq(Tokens)
  /\ \A k \in 1..Len(File) : File[k][1] <= lines

LEMMA CallsInitially == Init => CallsOK /\ FileOK
<1> SUFFICES ASSUME Init PROVE CallsOK /\ FileOK
  OBVIOUS
<1>1. NoCall \in Calls /\ NoCall.step = "idle" /\ NoCall.line = 0
  BY LevelsOf DEF NoCall, Calls, Steps
<1>2. CallsOK
  BY <1>1, LoggerAssumption DEF Init, LoggerInit, CallsOK
<1>3. <<>> \in Seq(Tokens) /\ File = <<>>
  BY DEF Init, LoggerInit, File
<1> QED BY <1>2, <1>3 DEF Init, LoggerInit, FileOK

(* A step of one thread changes no call of another.                        *)
LEMMA StepChanges ==
  ASSUME CallsOK, NEW t \in Threads, NEW to \in Steps, Step(t, to)
  PROVE  /\ call' \in [Threads -> Calls]
         /\ call'[t].step = to /\ call'[t].line = call[t].line
         /\ \A u \in Threads : u # t => call'[u] = call[u]
BY DEF CallsOK, Step, Calls

LEMMA StepTypes ==
  ASSUME CallsOK, NEW t \in Threads, NEW to \in Steps, Step(t, to),
         call[t].step # "idle", lines' = lines
  PROVE  /\ call' \in [Threads -> Calls]
         /\ \A u \in Threads :
              call'[u].line <= lines' /\ (call'[u].step # "idle" => call'[u].line >= 1)
<1>1. /\ call' \in [Threads -> Calls] /\ call'[t].line = call[t].line
      /\ \A u \in Threads : u # t => call'[u] = call[u]
  BY StepChanges
<1>2. \A u \in Threads : call[u].line <= lines /\ (call[u].step # "idle" => call[u].line >= 1)
  BY DEF CallsOK
<1>3. ASSUME NEW u \in Threads
      PROVE  call'[u].line <= lines' /\ (call'[u].step # "idle" => call'[u].line >= 1)
  <2>1. CASE u = t
    BY <1>1, <1>2, <2>1
  <2>2. CASE u # t
    BY <1>1, <1>2, <2>2
  <2> QED BY <2>1, <2>2
<1> QED BY <1>1, <1>3

LEMMA CallsKept ==
  ASSUME CallsOK, [Next]_vars
  PROVE  CallsOK'
<1>1. ASSUME NEW t \in Threads, Advances(t) PROVE CallsOK'
  <2>1. PICK move \in AfterLog : At(t, move[1]) /\ Step(t, move[2])
    BY <1>1 DEF Advances
  <2>2. move[2] \in Steps /\ move[1] # "idle"
    BY DEF AfterLog, Steps
  <2>3. UNCHANGED <<process, mu, lines, returned, born>>
    BY <1>1 DEF Advances
  <2>4. /\ call' \in [Threads -> Calls]
        /\ \A u \in Threads :
             call'[u].line <= lines' /\ (call'[u].step # "idle" => call'[u].line >= 1)
    BY <2>1, <2>2, <2>3, StepTypes DEF At
  <2> QED BY <2>3, <2>4 DEF CallsOK
<1>2. ASSUME NEW t \in Threads, Begins(t) PROVE CallsOK'
  <2>1. PICK level \in DOMAIN Level : BeginLog(t, level)
    BY <1>2 DEF Begins
  <2>2. lines \in Nat /\ lines' = lines + 1 /\ lines' \in 0..MaxLines
        /\ UNCHANGED <<process, mu, returned, born>>
    BY <1>2, <2>1, LoggerAssumption DEF Begins, BeginLog, CallsOK
  <2>3. [step |-> "get", level |-> level, line |-> lines + 1] \in Calls
    BY <2>2 DEF Calls, Steps
  <2>4. call' = [call EXCEPT ![t] = [step |-> "get", level |-> level, line |-> lines + 1]]
    BY <2>1 DEF BeginLog
  <2>5. call' \in [Threads -> Calls]
    BY <2>3, <2>4 DEF CallsOK
  <2>6. ASSUME NEW u \in Threads
        PROVE  call'[u].line <= lines' /\ (call'[u].step # "idle" => call'[u].line >= 1)
    <3>1. CASE u = t
      <4>1. call'[t] = [step |-> "get", level |-> level, line |-> lines + 1]
        BY <2>4 DEF CallsOK
      <4> QED BY <2>2, <3>1, <4>1
    <3>2. CASE u # t
      <4>1. call'[u] = call[u] /\ call[u] \in Calls
        BY <2>4, <3>2 DEF CallsOK
      <4> QED BY <2>2, <4>1 DEF CallsOK, Calls
    <3> QED BY <3>1, <3>2
  <2> QED BY <2>2, <2>5, <2>6 DEF CallsOK
<1>3. ASSUME NEW t \in Threads, Locks(t) PROVE CallsOK'
  <2>1. Step(t, "head") /\ call[t].step = "lock" /\ mu' = t /\ UNCHANGED <<process, lines, returned, born>>
    BY <1>3 DEF Locks, LockLine, At
  <2> QED BY <2>1, StepTypes DEF CallsOK, Steps
<1>4. ASSUME NEW t \in Threads, Writes(t) PROVE CallsOK'
  <2>1. UNCHANGED <<process, mu, lines, returned, born>>
    BY <1>4 DEF Writes, WriteLine
  <2>2. \E to \in Steps : Step(t, to) /\ call[t].step # "idle"
    BY <1>4 DEF Writes, WriteLine, At, Steps
  <2> QED BY <2>1, <2>2, StepTypes DEF CallsOK
<1>5. ASSUME NEW t \in Threads, Returns(t) PROVE CallsOK'
  <2>1. Step(t, "idle") /\ call[t].step = "unlock" /\ mu' = "none" /\ UNCHANGED <<process, lines, born>>
        /\ returned' = returned \cup {call[t].line}
    BY <1>5 DEF Returns, ReturnLog, At
  <2>2. call[t].line \in 1..lines
    BY <2>1 DEF CallsOK, Calls
  <2> QED BY <2>1, <2>2, StepTypes DEF CallsOK, Steps
<1>6. CASE Spills \/ Rests
  BY <1>6 DEF Spills, Spill, Rests, CallsOK, callVars
<1>7. CASE Kill
  BY <1>7 DEF Kill, KillProcess, CallsOK, callVars
<1>8. CASE Start
  <2>1. NoCall \in Calls /\ NoCall.step = "idle" /\ NoCall.line = 0
    BY LevelsOf DEF NoCall, Calls, Steps
  <2>2. /\ call' = [t \in Threads |-> NoCall] /\ mu' = "none" /\ process' = "running"
        /\ born' = born \cup {lines} /\ UNCHANGED <<lines, returned>>
    BY <1>8 DEF Start, NewProcess
  <2> QED BY <2>1, <2>2 DEF CallsOK
<1> QED BY <1>1, <1>2, <1>3, <1>4, <1>5, <1>6, <1>7, <1>8, StepKinds

-----------------------------------------------------------------------------
(* Types of main() and of the logger's object *)

ObjectOK ==
  /\ life \in {"none", "alive", "dead"} /\ flushAlways \in BOOLEAN
  /\ gmu \in {"none", "main"}
MainOK ==
  /\ at \in {"init", "starting", "probe", "using", "run", "join", "report",
             "shutdown", "flush", "return", "done"}
  /\ running \subseteq Workers /\ left \subseteq Workers
  /\ at \notin {"init", "starting", "probe"} => dir # "unset"

LEMMA MainStepTypes ==
  ASSUME ObjectOK, MainOK, MainStep
  PROVE  ObjectOK' /\ MainOK'
<1>1. CASE MakeLogger
  BY <1>1 DEF MakeLogger, Main, InitLogger, ObjectOK, MainOK
<1>2. ASSUME NEW from, NEW to, Report(from, "Info", to), to \in {"probe", "run", "shutdown"},
             to = "probe" \/ from \notin {"init", "starting", "probe"}
      PROVE  ObjectOK' /\ MainOK'
  BY <1>2 DEF Report, Main, BeginLog, ObjectOK, MainOK
<1>3. CASE Probe
  BY <1>3 DEF Probe, Main, BeginLog, loggerVars, ObjectOK, MainOK
<1>4. CASE StartRun
  BY <1>4, MainAssumption DEF StartRun, Main, loggerVars, ObjectOK, MainOK
<1>5. CASE JoinRun
  BY <1>5 DEF JoinRun, Main, loggerVars, ObjectOK, MainOK
<1>6. CASE ShutdownLogger
  BY <1>6 DEF ShutdownLogger, Main, BeginShutdown, ObjectOK, MainOK
<1>7. CASE FlushLogger
  <2>1. /\ at = "flush" /\ at' \in {"flush", "return"} /\ UNCHANGED <<running, left, dir, flushAlways>>
        /\ life' \in {life, "dead"} /\ gmu' \in {gmu, "none"}
    BY <1>7 DEF FlushLogger, Main, DestructorFlush, Spill
  <2> QED BY <2>1 DEF ObjectOK, MainOK
<1>8. CASE ReturnFromMain
  BY <1>8 DEF ReturnFromMain, Main, ObjectOK, MainOK
<1> QED BY <1>1, <1>2, <1>3, <1>4, <1>5, <1>6, <1>7, <1>8 DEF MainStep

LEMMA MainTypesKept ==
  ASSUME ObjectOK, MainOK, [Next]_vars
  PROVE  ObjectOK' /\ MainOK'
<1>1. ASSUME UNCHANGED <<life, flushAlways, gmu, at, left, dir>>, running' \subseteq running
      PROVE  ObjectOK' /\ MainOK'
  BY <1>1 DEF ObjectOK, MainOK
<1>2. ASSUME NEW t \in Threads, LogStep(t), UNCHANGED mainVars PROVE ObjectOK' /\ MainOK'
  <2>1. UNCHANGED <<life, flushAlways, gmu>>
    BY <1>2 DEF LogStep, GetLogger, UseDead, Filter, LockLine, WriteLine, FlushLine, Spill,
                LockAgain, ReturnLog
  <2> QED BY <1>1, <1>2, <2>1 DEF mainVars
<1>3. ASSUME NEW t \in Threads, WorkerEnds(t) PROVE ObjectOK' /\ MainOK'
  BY <1>1, <1>3 DEF WorkerEnds, loggerVars
<1>4. ASSUME NEW t \in Threads, ThreadStep(t) PROVE ObjectOK' /\ MainOK'
  BY <1>2, <1>3, <1>4, MainStepTypes DEF ThreadStep
<1>5. ASSUME NEW t \in Workers, WorkerLogs(t) PROVE ObjectOK' /\ MainOK'
  BY <1>1, <1>5 DEF WorkerLogs, BeginLog, mainVars
<1>6. ASSUME NEW t \in Threads, SpillOnWrite(t), UNCHANGED mainVars PROVE ObjectOK' /\ MainOK'
  BY <1>1, <1>6 DEF SpillOnWrite, Spill, mainVars
<1>7. CASE Kill
  BY <1>1, <1>7 DEF Kill, KillProcess, mainVars
<1>8. CASE Start
  BY <1>8 DEF Start, NewProcess, ObjectOK, MainOK
<1>9. CASE UNCHANGED vars
  BY <1>1, <1>9 DEF vars, loggerVars, mainVars
<1> QED BY <1>4, <1>5, <1>6, <1>7, <1>8, <1>9 DEF Next

(* Every variable of UgvMain keeps its type.                               *)
THEOREM MainTypes == Spec => []TypeOK
<1>1. Init => CallsOK /\ ObjectOK /\ MainOK
  BY CallsInitially DEF Init, LoggerInit, ObjectOK, MainOK
<1>2. CallsOK /\ ObjectOK /\ MainOK /\ [Next]_vars => (CallsOK /\ ObjectOK /\ MainOK)'
  BY CallsKept, MainTypesKept
<1>3. CallsOK /\ ObjectOK /\ MainOK => TypeOK
  <2> SUFFICES ASSUME CallsOK, ObjectOK, MainOK PROVE TypeOK
    OBVIOUS
  <2>1. ASSUME NEW t \in Threads PROVE call[t].line \in 0..lines
    <3>1. call[t] \in Calls /\ call[t].line <= lines /\ lines \in Nat
      BY LoggerAssumption DEF CallsOK
    <3> QED BY <3>1 DEF Calls
  <2> QED BY <2>1 DEF CallsOK, ObjectOK, MainOK, TypeOK
<1> QED BY <1>1, <1>2, <1>3, PTL DEF Spec

-----------------------------------------------------------------------------
(* What a step does to the file *)

LEMMA FileOf ==
  ASSUME FileOK
  PROVE  File \in Seq(Tokens) /\ Len(File) \in Nat
BY ConcatProperties DEF FileOK, File

(* The stream moves what it has buffered, and changes nothing in the file. *)
LEMMA SpillFile ==
  ASSUME FileOK, Spill
  PROVE  File' = File /\ buffer' \in Seq(Tokens) /\ disk' \in Seq(Tokens)
<1>1. /\ buffer \in Seq(Tokens) /\ disk \in Seq(Tokens) /\ buffer # <<>>
      /\ disk' = Append(disk, Head(buffer)) /\ buffer' = Tail(buffer)
  BY DEF FileOK, Spill
<1>2. Head(buffer) \in Tokens /\ Tail(buffer) \in Seq(Tokens)
  BY <1>1, HeadTailProperties
<1>3. << Head(buffer) >> \in Seq(Tokens) /\ disk' = disk \o << Head(buffer) >>
  BY <1>1, <1>2, AppendIsConcat
<1>4. buffer = << Head(buffer) >> \o Tail(buffer)
  <2>1. << Head(buffer) >> \o Tail(buffer) \in Seq(Tokens)
        /\ Len(<< Head(buffer) >> \o Tail(buffer)) = 1 + Len(Tail(buffer))
        /\ \A k \in 1..(1 + Len(Tail(buffer))) :
             (<< Head(buffer) >> \o Tail(buffer))[k] = IF k <= 1 THEN Head(buffer) ELSE Tail(buffer)[k - 1]
    BY <1>2, <1>3, ConcatProperties
  <2>2. Len(buffer) \in Nat /\ Len(Tail(buffer)) = Len(buffer) - 1
        /\ \A k \in 1..Len(Tail(buffer)) : Tail(buffer)[k] = buffer[k + 1]
        /\ Head(buffer) = buffer[1]
    BY <1>1, HeadTailProperties
  <2> QED BY <1>1, <2>1, <2>2, SeqEqual
<1>5. disk \o (<< Head(buffer) >> \o Tail(buffer)) = (disk \o << Head(buffer) >>) \o Tail(buffer)
  BY <1>1, <1>2, <1>3, ConcatAssociative
<1>6. disk' \in Seq(Tokens)
  BY <1>1, <1>2, AppendProperties
<1> QED BY <1>1, <1>2, <1>3, <1>4, <1>5, <1>6 DEF File

LEMMA WriteFile ==
  ASSUME FileOK, NEW token \in Tokens, buffer' = Append(buffer, token), UNCHANGED disk
  PROVE  /\ buffer' \in Seq(Tokens) /\ Len(File') = Len(File) + 1
         /\ \A k \in 1..(Len(File) + 1) : File'[k] = IF k <= Len(File) THEN File[k] ELSE token
<1>1. buffer \in Seq(Tokens) /\ disk \in Seq(Tokens) /\ << token >> \in Seq(Tokens)
      /\ buffer' = buffer \o << token >>
  BY AppendIsConcat DEF FileOK
<1>2. (disk \o buffer) \o << token >> = disk \o (buffer \o << token >>)
  BY <1>1, ConcatAssociative
<1>3. File' = File \o << token >> /\ buffer' \in Seq(Tokens)
  BY <1>1, <1>2, ConcatProperties DEF File
<1>4. File \in Seq(Tokens) /\ Len(<< token >>) = 1 /\ << token >>[1] = token
  BY FileOf
<1> QED BY <1>1, <1>3, <1>4, ConcatProperties, SMTT(60)

LEMMA KillFile ==
  ASSUME FileOK, Kill
  PROVE  /\ buffer' \in Seq(Tokens) /\ disk' \in Seq(Tokens)
         /\ Len(File') \in 0..Len(File) /\ \A k \in 1..Len(File') : File'[k] = File[k]
<1>1. buffer \in Seq(Tokens) /\ disk \in Seq(Tokens) /\ buffer' = <<>> /\ disk' = disk
      /\ Len(buffer) \in Nat /\ Len(disk) \in Nat
  BY DEF FileOK, Kill, KillProcess
<1>2. File' = disk /\ <<>> \in Seq(Tokens)
  BY <1>1, ConcatEmptySeq DEF File
<1>3. Len(File) = Len(disk) + Len(buffer)
      /\ \A k \in 1..(Len(disk) + Len(buffer)) : File[k] = IF k <= Len(disk) THEN disk[k] ELSE buffer[k - Len(disk)]
  BY <1>1, ConcatProperties DEF File
<1> QED BY <1>1, <1>2, <1>3

LEMMA FileKept ==
  ASSUME CallsOK, FileOK, [Next]_vars
  PROVE  FileOK'
<1>1. lines \in Nat /\ Len(File) \in Nat
  BY FileOf, LoggerAssumption DEF CallsOK
<1>2. ASSUME NEW t \in Threads, Writes(t) PROVE FileOK'
  <2>1. PICK kind \in {"head", "tail"} : buffer' = Append(buffer, <<call[t].line, kind>>)
    BY <1>2 DEF Writes, WriteLine, LineHead, LineTail
  <2>2. UNCHANGED <<disk, lines>> /\ call[t].line \in Nat /\ call[t].line <= lines
    BY <1>2 DEF Writes, WriteLine, CallsOK, Calls
  <2> DEFINE token == <<call[t].line, kind>>
  <2>3. token \in Tokens /\ buffer' = Append(buffer, token) /\ token[1] = call[t].line
    BY <2>1, <2>2 DEF Tokens
  <2> HIDE DEF token
  <2>4. /\ buffer' \in Seq(Tokens) /\ Len(File') = Len(File) + 1
        /\ \A k \in 1..(Len(File) + 1) : File'[k] = IF k <= Len(File) THEN File[k] ELSE token
    BY <2>2, <2>3, WriteFile
  <2>5. ASSUME NEW k \in 1..Len(File') PROVE File'[k][1] <= lines'
    <3>1. CASE k <= Len(File)
      <4>1. k \in 1..Len(File)
        BY <1>1, <2>4, <3>1
      <4>2. File'[k] = File[k] /\ File[k][1] <= lines
        BY <1>1, <2>4, <3>1, <4>1 DEF FileOK
      <4> QED BY <2>2, <4>2
    <3>2. CASE ~(k <= Len(File))
      BY <1>1, <2>2, <2>3, <2>4, <3>2
    <3> QED BY <3>1, <3>2
  <2> QED BY <2>2, <2>4, <2>5 DEF FileOK
<1>3. CASE Spills
  <2>1. UNCHANGED lines
    BY <1>3 DEF Spills, Spill, callVars
  <2> QED BY <1>3, <2>1, SpillFile DEF Spills, FileOK
<1>4. CASE Kill
  <2>1. UNCHANGED lines
    BY <1>4 DEF Kill, KillProcess, callVars
  <2> QED BY <1>1, <1>4, <2>1, KillFile DEF FileOK
<1>5. ASSUME UNCHANGED fileVars, lines' \in {lines, lines + 1} PROVE FileOK'
  <2>1. ASSUME NEW k \in 1..Len(File) PROVE File[k][1] <= lines'
    <3>1. File[k] \in Tokens
      BY FileOf, ElementOfSeq
    <3>2. File[k][1] \in Nat
      BY <3>1 DEF Tokens
    <3> QED BY <1>1, <1>5, <3>2 DEF FileOK
  <2>2. File' = File
    BY <1>5 DEF File, fileVars
  <2> QED BY <1>5, <2>1, <2>2 DEF FileOK, fileVars
<1>6. ASSUME NEW t \in Threads, Advances(t) \/ Begins(t) \/ Locks(t) \/ Returns(t)
      PROVE  FileOK'
  BY <1>5, <1>6 DEF Advances, Begins, BeginLog, Locks, LockLine, Returns, ReturnLog
<1>7. CASE Rests
  BY <1>5, <1>7 DEF Rests, callVars
<1>8. CASE Start
  BY <1>5, <1>8 DEF Start, NewProcess
<1> QED BY <1>2, <1>3, <1>4, <1>6, <1>7, <1>8, StepKinds

-----------------------------------------------------------------------------
(* Whole lines *)

Current(l) == \A b \in born : b < l

(* mu_ is held by the one thread that is between its lock and its unlock.  *)
OneHolds == \A t \in Threads : call[t].step \in Holding => mu = t

CallsAreCurrent == \A t \in Threads : call[t].step # "idle" => Current(call[t].line)

(* A thread about to write a tail has just written the head; and a head of *)
(* this process that ends the file is one whose tail is about to come.     *)
TailFollows ==
  \A t \in Threads : call[t].step = "tail" =>
    Len(File) > 0 /\ File[Len(File)] = LineHead(call[t].line)
HeadIsHeld ==
  Len(File) > 0 /\ IsHead(File[Len(File)]) /\ Current(File[Len(File)][1]) =>
    \E t \in Threads : call[t].step = "tail"

Together == OneHolds /\ CallsAreCurrent /\ TailFollows /\ HeadIsHeld

LinesInv == CallsOK /\ FileOK /\ (process = "running" => Together) /\ LinesWhole

(* A line of this process has a later number than one of an earlier one.   *)
LEMMA LaterProcess ==
  ASSUME CallsOK, NEW l \in Nat, NEW m \in Nat, ~Current(l), Current(m)
  PROVE  Process(m) > Process(l)
<1> DEFINE before == {b \in born : b < l}
           all == {b \in born : b < m}
<1>1. lines \in Nat /\ born \subseteq 0..lines
  BY LoggerAssumption DEF CallsOK
<1>2. PICK b \in born : ~(b < l) /\ b < m
  BY DEF Current
<1>3. IsFiniteSet(all)
  <2>1. IsFiniteSet(0..lines)
    BY <1>1, FS_Interval
  <2> QED BY <1>1, <2>1, FS_Subset
<1>4. before \subseteq all /\ b \in all /\ b \notin before
  BY <1>1, <1>2 DEF Current
<1> HIDE DEF before, all
<1>5. /\ Cardinality(before) <= Cardinality(all) /\ (Cardinality(all) = Cardinality(before) => all = before)
      /\ IsFiniteSet(before)
  BY <1>3, <1>4, FS_Subset
<1>6. Cardinality(before) \in Nat /\ Cardinality(all) \in Nat
  BY <1>3, <1>5, FS_CardinalityType
<1>7. Cardinality(before) < Cardinality(all)
  BY <1>4, <1>5, <1>6
<1> QED BY <1>6, <1>7 DEF Process, before, all

ProcessIn(starts, l) == Cardinality({b \in starts : b < l})

(* Lines keep their process: a new one begins after all of them.           *)
LEMMA SameProcess ==
  ASSUME CallsOK, NEW l \in Nat, l <= lines, NEW starts \in {born, born \cup {lines}}
  PROVE  ProcessIn(starts, l) = Process(l)
<1>1. {b \in starts : b < l} = {b \in born : b < l}
  BY LoggerAssumption DEF CallsOK
<1> QED BY <1>1 DEF Process, ProcessIn

(* What stands whole in the file stays so when the file is cut.            *)
LEMMA LinesWholeKept ==
  ASSUME CallsOK, FileOK, LinesWhole, born' \in {born, born \cup {lines}},
         NEW k \in Nat, 1 <= k, k < Len(File)
  PROVE  \/ ~IsHead(File[k])
         \/ File[k + 1] = LineTail(File[k][1])
         \/ ProcessIn(born', File[k + 1][1]) > ProcessIn(born', File[k][1])
<1>1. Len(File) \in Nat /\ File \in Seq(Tokens)
  BY FileOf
<1>2. k \in 1..Len(File) /\ k + 1 \in 1..Len(File) /\ k # Len(File)
  BY <1>1
<1>3. /\ File[k][1] \in Nat /\ File[k][1] <= lines
      /\ File[k + 1][1] \in Nat /\ File[k + 1][1] <= lines
  <2>1. File[k] \in Tokens /\ File[k + 1] \in Tokens
    BY <1>1, <1>2, ElementOfSeq
  <2> QED BY <1>2, <2>1 DEF Tokens, FileOK
<1>4. \/ ~IsHead(File[k])
      \/ File[k + 1] = LineTail(File[k][1])
      \/ Process(File[k + 1][1]) > Process(File[k][1])
  BY <1>2 DEF LinesWhole
<1>5. ProcessIn(born', File[k][1]) = Process(File[k][1])
  BY <1>3, SameProcess
<1>6. ProcessIn(born', File[k + 1][1]) = Process(File[k + 1][1])
  BY <1>3, SameProcess
<1> QED BY <1>4, <1>5, <1>6, Zenon

LEMMA LinesWholeNext ==
  ASSUME \A k \in 1..Len(File') :
           \/ ~IsHead(File'[k])
           \/ k = Len(File')
           \/ File'[k + 1] = LineTail(File'[k][1])
           \/ ProcessIn(born', File'[k + 1][1]) > ProcessIn(born', File'[k][1])
  PROVE  LinesWhole'
BY Zenon DEF LinesWhole, IsHead, LineTail, Process, ProcessIn

(* A file that is cut, or left as it is.                                   *)
LEMMA LinesWholeCut ==
  ASSUME CallsOK, FileOK, LinesWhole, born' \in {born, born \cup {lines}},
         Len(File') \in 0..Len(File), \A k \in 1..Len(File') : File'[k] = File[k]
  PROVE  LinesWhole'
<1>1. Len(File) \in Nat /\ Len(File') \in Nat /\ Len(File') <= Len(File)
  BY FileOf
<1>2. ASSUME NEW k \in 1..Len(File'), k # Len(File')
      PROVE  \/ ~IsHead(File'[k])
             \/ File'[k + 1] = LineTail(File'[k][1])
             \/ ProcessIn(born', File'[k + 1][1]) > ProcessIn(born', File'[k][1])
  <2>1. k \in Nat /\ 1 <= k /\ k < Len(File) /\ k + 1 \in 1..Len(File')
    BY <1>1, <1>2
  <2>2. File'[k] = File[k] /\ File'[k + 1] = File[k + 1]
    BY <2>1
  <2>3. \/ ~IsHead(File[k])
        \/ File[k + 1] = LineTail(File[k][1])
        \/ ProcessIn(born', File[k + 1][1]) > ProcessIn(born', File[k][1])
    BY <2>1, LinesWholeKept
  <2> QED BY <2>2, <2>3, Zenon
<1> QED BY <1>2, LinesWholeNext

(* A token that follows the last one as it should.                         *)
LEMMA LinesWholeGrows ==
  ASSUME CallsOK, FileOK, LinesWhole, UNCHANGED born,
         NEW token, Len(File') = Len(File) + 1,
         \A k \in 1..(Len(File) + 1) : File'[k] = IF k <= Len(File) THEN File[k] ELSE token,
         Len(File) > 0 /\ IsHead(File[Len(File)]) =>
           \/ token = LineTail(File[Len(File)][1])
           \/ Process(token[1]) > Process(File[Len(File)][1])
  PROVE  LinesWhole'
<1> DEFINE n == Len(File)
<1>1. n \in Nat
  BY FileOf
<1>2. ASSUME NEW k \in 1..n
      PROVE  \/ ~IsHead(File'[k])
             \/ File'[k + 1] = LineTail(File'[k][1])
             \/ ProcessIn(born', File'[k + 1][1]) > ProcessIn(born', File'[k][1])
  <2>1. CASE k = n
    <3>1. n > 0 /\ n \in 1..(n + 1) /\ n + 1 \in 1..(n + 1) /\ n <= n /\ ~(n + 1 <= n)
      BY <1>1, <1>2, <2>1
    <3>2. File'[n] = File[n] /\ File'[n + 1] = token
      BY <3>1
    <3>3. \A l : ProcessIn(born', l) = Process(l)
      BY DEF ProcessIn, Process
    <3> HIDE DEF n
    <3>4. \/ ~IsHead(File[n]) \/ token = LineTail(File[n][1]) \/ Process(token[1]) > Process(File[n][1])
      BY <3>1 DEF n
    <3> QED BY <2>1, <3>2, <3>3, <3>4, Zenon
  <2>2. CASE k # n
    <3>1. k \in Nat /\ 1 <= k /\ k < n /\ k \in 1..(n + 1) /\ k + 1 \in 1..(n + 1) /\ k <= n /\ k + 1 <= n
      BY <1>1, <1>2, <2>2
    <3>2. File'[k] = File[k] /\ File'[k + 1] = File[k + 1]
      BY <3>1
    <3>3. \/ ~IsHead(File[k])
          \/ File[k + 1] = LineTail(File[k][1])
          \/ ProcessIn(born', File[k + 1][1]) > ProcessIn(born', File[k][1])
      BY <3>1, LinesWholeKept
    <3> QED BY <3>2, <3>3, Zenon
  <2> QED BY <2>1, <2>2
<1>3. \A k \in 1..Len(File') : k \in 1..n \/ k = Len(File')
  BY <1>1
<1> QED BY <1>2, <1>3, LinesWholeNext, Zenon

(* A step of one thread that writes nothing, and neither comes from nor    *)
(* goes to the tail of a line.                                             *)
LEMMA MoveTogether ==
  ASSUME CallsOK, Together, NEW t \in Threads, NEW record,
         call' = [call EXCEPT ![t] = record], UNCHANGED <<born, fileVars>>,
         call[t].step # "tail", record.step # "tail",
         record.step # "idle" => Current(record.line),
         record.step \in Holding => mu' = t,
         \A u \in Threads : u # t /\ call[u].step \in Holding => mu' = u
  PROVE  Together'
<1>1. call'[t] = record /\ \A u \in Threads : u # t => call'[u] = call[u]
  BY DEF CallsOK
<1>2. File' = File
  BY DEF File, fileVars
<1>3. OneHolds'
  BY <1>1 DEF OneHolds
<1>4. CallsAreCurrent'
  BY <1>1 DEF CallsAreCurrent, Current, Together
<1>5. TailFollows'
  BY <1>1, <1>2 DEF TailFollows, LineHead, Together
<1>6. HeadIsHeld'
  <2> SUFFICES ASSUME Len(File) > 0, IsHead(File[Len(File)]), Current(File[Len(File)][1])
               PROVE  \E u \in Threads : call'[u].step = "tail"
    BY <1>2 DEF HeadIsHeld, IsHead, Current
  <2>1. PICK u \in Threads : call[u].step = "tail"
    BY DEF Together, HeadIsHeld
  <2> QED BY <1>1, <2>1
<1> QED BY <1>3, <1>4, <1>5, <1>6 DEF Together

LEMMA WriteTogether ==
  ASSUME CallsOK, FileOK, Together, NEW t \in Threads, Writes(t)
  PROVE  Together'
<1>1. PICK to \in Holding, kind \in {"head", "tail"} :
        /\ call[t].step = kind /\ Step(t, to) /\ (to = "tail" <=> kind = "head")
        /\ buffer' = Append(buffer, <<call[t].line, kind>>)
  BY DEF Writes, WriteLine, At, LineHead, LineTail, Holding
<1>2. UNCHANGED <<disk, mu, born, lines>> /\ call[t].line \in Nat
  BY DEF Writes, WriteLine, CallsOK, Calls
<1> DEFINE token == <<call[t].line, kind>>
<1>3. token \in Tokens
  BY <1>2 DEF Tokens
<1>4. /\ Len(File') = Len(File) + 1 /\ Len(File) \in Nat
      /\ File'[Len(File) + 1] = token
  <2>1. token \in Tokens /\ buffer' = Append(buffer, token) /\ disk' = disk
    BY <1>1, <1>2, <1>3
  <2> HIDE DEF token
  <2>2. Len(File) \in Nat /\ Len(File') = Len(File) + 1
        /\ \A k \in 1..(Len(File) + 1) : File'[k] = IF k <= Len(File) THEN File[k] ELSE token
    BY <2>1, WriteFile, FileOf
  <2> QED BY <2>2
<1>5. Len(File') > 0 /\ File'[Len(File')] = <<call[t].line, kind>>
  BY <1>4
<1>6. /\ call'[t].step = to /\ call'[t].line = call[t].line
      /\ \A u \in Threads : u # t => call'[u] = call[u]
  BY <1>1, StepChanges DEF Steps, Holding
<1>7. mu = t /\ \A u \in Threads : call[u].step \in Holding => u = t
  BY <1>1 DEF Together, OneHolds, Holding
<1>8. OneHolds'
  BY <1>2, <1>6, <1>7 DEF OneHolds
<1>9. CallsAreCurrent'
  BY <1>1, <1>2, <1>6 DEF CallsAreCurrent, Current, Together
<1>10. \A u \in Threads : call'[u].step = "tail" => u = t /\ kind = "head"
  BY <1>1, <1>6, <1>7 DEF Holding
<1>11. TailFollows'
  BY <1>5, <1>6, <1>10 DEF TailFollows, LineHead
<1>12. HeadIsHeld'
  BY <1>1, <1>5, <1>6 DEF HeadIsHeld, IsHead
<1> QED BY <1>8, <1>9, <1>11, <1>12 DEF Together

(* While the process runs, whichever step is taken.                        *)
LEMMA TogetherKept ==
  ASSUME CallsOK, FileOK, Together, [Next]_vars, process = "running", process' = "running"
  PROVE  Together'
<1>1. ASSUME NEW t \in Threads, Advances(t) PROVE Together'
  <2>1. PICK move \in AfterLog : At(t, move[1]) /\ Step(t, move[2])
    BY <1>1 DEF Advances
  <2>2. /\ move[1] \notin {"tail", "idle"} /\ move[2] # "tail"
        /\ (move[2] \in Holding => move[1] \in Holding)
    BY DEF AfterLog, Holding
  <2>3. UNCHANGED <<mu, born, fileVars>>
    BY <1>1 DEF Advances
  <2> DEFINE record == [call[t] EXCEPT !.step = move[2]]
  <2>4. call' = [call EXCEPT ![t] = record] /\ record.step = move[2] /\ record.line = call[t].line
    BY <2>1 DEF Step, CallsOK, Calls
  <2> HIDE DEF record
  <2>5. call[t].step = move[1] /\ Current(call[t].line)
    BY <2>1, <2>2 DEF At, Together, CallsAreCurrent
  <2>6. /\ record.step \in Holding => mu' = t
        /\ \A u \in Threads : u # t /\ call[u].step \in Holding => mu' = u
    BY <2>2, <2>3, <2>4, <2>5 DEF Together, OneHolds
  <2> QED BY <2>2, <2>3, <2>4, <2>5, <2>6, MoveTogether
<1>2. ASSUME NEW t \in Threads, Begins(t) PROVE Together'
  <2>1. PICK level \in DOMAIN Level : BeginLog(t, level)
    BY <1>2 DEF Begins
  <2> DEFINE record == [step |-> "get", level |-> level, line |-> lines + 1]
  <2>2. call' = [call EXCEPT ![t] = record] /\ record.step = "get" /\ record.line = lines + 1
        /\ call[t].step = "idle" /\ UNCHANGED <<mu, born, fileVars>>
    BY <1>2, <2>1 DEF Begins, BeginLog, At
  <2> HIDE DEF record
  <2>3. Current(lines + 1)
    BY LoggerAssumption DEF Current, CallsOK
  <2>4. record.step \notin Holding
    BY <2>2 DEF Holding
  <2> QED BY <2>2, <2>3, <2>4, MoveTogether DEF Together, OneHolds
<1>3. ASSUME NEW t \in Threads, Locks(t) \/ Returns(t) PROVE Together'
  <2>1. PICK to \in {"head", "idle"} :
          /\ Step(t, to) /\ call[t].step \in {"lock", "unlock"} /\ UNCHANGED <<born, fileVars>>
          /\ (to = "head" => mu = "none" /\ mu' = t)
          /\ (to = "idle" => call[t].step = "unlock")
    BY <1>3 DEF Locks, LockLine, Returns, ReturnLog, At
  <2> DEFINE record == [call[t] EXCEPT !.step = to]
  <2>2. call' = [call EXCEPT ![t] = record] /\ record.step = to /\ record.line = call[t].line
    BY <2>1 DEF Step, CallsOK, Calls
  <2> HIDE DEF record
  <2>3. Current(call[t].line)
    BY <2>1 DEF Together, CallsAreCurrent
  <2>4. to \in Holding => mu' = t
    BY <2>1 DEF Holding
  <2>5. \A u \in Threads : u # t => call[u].step \notin Holding
    BY <2>1, ThreadsOf DEF Together, OneHolds, Holding
  <2> QED BY <2>1, <2>2, <2>3, <2>4, <2>5, MoveTogether
<1>4. ASSUME NEW t \in Threads, Writes(t) PROVE Together'
  BY <1>4, WriteTogether
<1>5. ASSUME File' = File, UNCHANGED <<call, mu, born>> PROVE Together'
  BY <1>5 DEF Together, OneHolds, CallsAreCurrent, TailFollows, HeadIsHeld, Current,
              LineHead, IsHead
<1>6. CASE Spills
  BY <1>5, <1>6, SpillFile DEF Spills, Spill, callVars
<1>7. CASE Rests
  BY <1>5, <1>7 DEF Rests, File, callVars, fileVars
<1>8. ~Kill /\ ~Start
  BY DEF Kill, KillProcess, Start, NewProcess
<1> QED BY <1>1, <1>2, <1>3, <1>4, <1>6, <1>7, <1>8, StepKinds

(* A new process has written nothing yet.                                  *)
LEMMA StartTogether ==
  ASSUME CallsOK, FileOK, Start
  PROVE  Together'
<1>1. /\ call' = [t \in Threads |-> NoCall] /\ born' = born \cup {lines} /\ File' = File
  BY DEF Start, NewProcess, File, fileVars
<1>2. \A t \in Threads : call'[t].step = "idle"
  BY <1>1 DEF NoCall
<1>3. OneHolds' /\ CallsAreCurrent' /\ TailFollows'
  BY <1>2 DEF OneHolds, CallsAreCurrent, TailFollows, Holding
<1>4. ASSUME Len(File) > 0 PROVE ~Current(File[Len(File)][1])'
  <2>1. Len(File) \in 1..Len(File) /\ File[Len(File)] \in Tokens
    BY <1>4, FileOf, ElementOfSeq
  <2>2. File[Len(File)][1] <= lines /\ File[Len(File)][1] \in Nat /\ lines \in Nat
    BY <2>1, LoggerAssumption DEF FileOK, CallsOK, Tokens
  <2>3. ~(lines < File[Len(File)][1])
    BY <2>2
  <2> QED BY <1>1, <2>3 DEF Current
<1>5. HeadIsHeld'
  BY <1>1, <1>4 DEF HeadIsHeld
<1> QED BY <1>3, <1>5 DEF Together

LEMMA LinesKept ==
  ASSUME LinesInv, [Next]_vars
  PROVE  LinesInv'
<1>1. CallsOK /\ FileOK /\ LinesWhole /\ (process = "running" => Together)
  BY DEF LinesInv
<1>2. CallsOK' /\ FileOK'
  BY <1>1, CallsKept, FileKept
<1>3. process' = "running" => Together'
  <2>1. CASE process = "running"
    BY <1>1, <2>1, TogetherKept
  <2>2. CASE Start
    BY <1>1, <2>2, StartTogether
  <2>3. ASSUME process # "running", ~Start PROVE process' # "running"
    <3>1. ASSUME NEW t \in Threads
          PROVE  ~Advances(t) /\ ~Begins(t) /\ ~Locks(t) /\ ~Writes(t) /\ ~Returns(t)
      BY <2>3 DEF Advances, Begins, BeginLog, Locks, LockLine, Writes, WriteLine, Returns,
                  ReturnLog, At
    <3>2. ~Kill
      BY <2>3 DEF Kill, KillProcess
    <3>3. CASE Spills \/ Rests
      BY <2>3, <3>3 DEF Spills, Spill, Rests
    <3> QED BY <2>3, <3>1, <3>2, <3>3, StepKinds
  <2> QED BY <2>1, <2>2, <2>3
<1>4. LinesWhole'
  <2>1. ASSUME NEW t \in Threads, Writes(t) PROVE LinesWhole'
    <3>1. PICK kind \in {"head", "tail"} :
            call[t].step = kind /\ buffer' = Append(buffer, <<call[t].line, kind>>)
      BY <2>1 DEF Writes, WriteLine, At, LineHead, LineTail
    <3>2. UNCHANGED <<disk, born>> /\ call[t].line \in Nat /\ process = "running"
      BY <1>1, <2>1 DEF Writes, WriteLine, At, CallsOK, Calls
    <3>3. Together /\ Current(call[t].line)
      BY <1>1, <3>1, <3>2 DEF Together, CallsAreCurrent
    <3> DEFINE token == <<call[t].line, kind>>
    <3>4. token \in Tokens
      BY <3>2 DEF Tokens
    <3>5. ASSUME Len(File) > 0, IsHead(File[Len(File)])
          PROVE  \/ token = LineTail(File[Len(File)][1])
                 \/ Process(token[1]) > Process(File[Len(File)][1])
      <4>1. CASE kind = "tail"
        BY <3>1, <3>3, <4>1 DEF Together, TailFollows, LineHead, LineTail
      <4>2. CASE kind = "head"
        <5>1. ASSUME NEW u \in Threads PROVE call[u].step # "tail"
          BY <3>1, <3>3, <4>2 DEF Together, OneHolds, Holding
        <5>2. ~Current(File[Len(File)][1])
          BY <3>3, <3>5, <5>1 DEF Together, HeadIsHeld
        <5>3. File[Len(File)][1] \in Nat
          <6>1. Len(File) \in 1..Len(File) /\ File[Len(File)] \in Tokens
            BY <1>1, <3>5, FileOf, ElementOfSeq
          <6> QED BY <6>1 DEF Tokens
        <5>4. Process(call[t].line) > Process(File[Len(File)][1])
          BY <1>1, <3>2, <3>3, <5>2, <5>3, LaterProcess
        <5> QED BY <5>4
      <4> QED BY <4>1, <4>2
    <3>6. token \in Tokens /\ buffer' = Append(buffer, token) /\ disk' = disk
      BY <3>1, <3>2, <3>4
    <3> HIDE DEF token
    <3>7. /\ Len(File') = Len(File) + 1
          /\ \A k \in 1..(Len(File) + 1) : File'[k] = IF k <= Len(File) THEN File[k] ELSE token
      BY <1>1, <3>6, WriteFile
    <3>8. UNCHANGED born
      BY <3>2
    <3> QED BY <1>1, <3>5, <3>7, <3>8, LinesWholeGrows
  <2>2. ASSUME File' = File, born' \in {born, born \cup {lines}} PROVE LinesWhole'
    BY <1>1, <2>2, FileOf, LinesWholeCut
  <2>3. CASE Spills
    BY <1>1, <2>2, <2>3, SpillFile DEF Spills
  <2>4. CASE Kill
    BY <1>1, <2>4, KillFile, LinesWholeCut DEF Kill
  <2>5. ASSUME UNCHANGED fileVars, born' \in {born, born \cup {lines}} PROVE LinesWhole'
    BY <2>2, <2>5 DEF File, fileVars
  <2>6. CASE Start \/ Rests
    BY <2>5, <2>6 DEF Start, NewProcess, Rests
  <2>7. ASSUME NEW t \in Threads, Advances(t) \/ Begins(t) \/ Locks(t) \/ Returns(t)
        PROVE  LinesWhole'
    BY <2>5, <2>7 DEF Advances, Begins, BeginLog, Locks, LockLine, Returns, ReturnLog
  <2> QED BY <2>1, <2>3, <2>4, <2>6, <2>7, StepKinds
<1> QED BY <1>2, <1>3, <1>4 DEF LinesInv

LEMMA LinesInitially == Init => LinesInv
<1> SUFFICES ASSUME Init PROVE LinesInv
  OBVIOUS
<1>1. CallsOK /\ FileOK /\ File = <<>> /\ Len(File) = 0
  BY CallsInitially DEF Init, LoggerInit, File
<1>2. \A t \in Threads : call[t].step = "idle"
  BY DEF Init, LoggerInit, NoCall
<1>3. Together
  BY <1>1, <1>2 DEF Together, OneHolds, CallsAreCurrent, TailFollows, HeadIsHeld, Holding
<1>4. LinesWhole
  BY <1>1 DEF LinesWhole
<1> QED BY <1>1, <1>3, <1>4 DEF LinesInv

(* However many threads log, and wherever the process is killed, no line   *)
(* of robot.log is broken up by another line of the same process.          *)
THEOREM LinesWholeHolds == Spec => []LinesWhole
<1>1. LinesInv /\ [Next]_vars => LinesInv'
  BY LinesKept
<1>2. LinesInv => LinesWhole
  BY DEF LinesInv
<1> QED BY <1>1, <1>2, LinesInitially, PTL DEF Spec

-----------------------------------------------------------------------------
(* The logger is gone before the threads that run() left *)

Early == {"init", "starting", "probe", "using", "run"}

Owned ==
  /\ running \subseteq left /\ left \subseteq Workers
  /\ at \in Early => left = {}
  /\ \A t \in Workers : call[t].step # "idle" => t \in running
  /\ life = "dead" => at \in {"return", "done"} /\ call["main"].step = "idle"
  /\ process = "undefined" => left # {}
  /\ process = "exited" => left = {}

OwnedInv == CallsOK /\ Owned

(* No step of log() starts a call; only a use of the dead logger is        *)
(* undefined, and only by a thread that is in a call.                      *)
LEMMA LogStepEffects ==
  ASSUME CallsOK, NEW t \in Threads, LogStep(t)
  PROVE  /\ UNCHANGED life /\ process = "running"
         /\ \A u \in Threads : call[u].step = "idle" => call'[u].step = "idle"
         /\ \/ process' \in {"running", "terminated"}
            \/ process' = "undefined" /\ life = "dead" /\ call[t].step # "idle"
<1>1. ASSUME NEW from, NEW to, from # "idle", At(t, from), Step(t, to)
      PROVE  /\ process = "running"
             /\ \A u \in Threads : call[u].step = "idle" => call'[u].step = "idle"
  <2>1. \A u \in Threads : u # t => call'[u] = call[u]
    BY <1>1 DEF CallsOK, Step
  <2> QED BY <1>1, <2>1 DEF At
<1>2. CASE GetLogger(t)
  BY <1>1, <1>2 DEF GetLogger, At
<1>3. CASE UseDead(t)
  BY <1>3 DEF UseDead, callVars
<1>4. CASE Filter(t)
  BY <1>1, <1>4 DEF Filter, At
<1>5. CASE LockLine(t)
  BY <1>1, <1>5 DEF LockLine, At
<1>6. CASE WriteLine(t)
  <2>1. process = "running" /\ UNCHANGED <<process, life>>
    BY <1>6 DEF WriteLine, At
  <2>2. \E from \in {"head", "tail"}, to \in Steps : At(t, from) /\ Step(t, to)
    BY <1>6 DEF WriteLine, Steps
  <2> QED BY <1>1, <2>1, <2>2
<1>7. CASE FlushLine(t)
  <2>1. At(t, "flush") /\ UNCHANGED <<process, life>>
    BY <1>7 DEF FlushLine, Spill
  <2>2. CASE UNCHANGED call
    BY <2>1, <2>2 DEF At
  <2>3. CASE \E to \in Steps : Step(t, to)
    BY <1>1, <2>1, <2>3 DEF At
  <2> QED BY <1>7, <2>2, <2>3 DEF FlushLine, Spill, callVars, Steps
<1>8. CASE LockAgain(t)
  BY <1>1, <1>8 DEF LockAgain, At
<1>9. CASE ReturnLog(t)
  BY <1>1, <1>9 DEF ReturnLog, At
<1> QED BY <1>2, <1>3, <1>4, <1>5, <1>6, <1>7, <1>8, <1>9 DEF LogStep

LEMMA BeginLogEffects ==
  ASSUME CallsOK, NEW t \in Threads, NEW level, BeginLog(t, level)
  PROVE  /\ UNCHANGED <<process, life>> /\ process = "running"
         /\ \A u \in Threads : u # t => call'[u] = call[u]
BY DEF CallsOK, BeginLog, At

LEMMA OwnedKept ==
  ASSUME CallsOK, Owned, [Next]_vars
  PROVE  Owned'
<1>1. ASSUME UNCHANGED <<process, life, call, mainVars>> PROVE Owned'
  BY <1>1 DEF Owned, mainVars
<1>2. ASSUME NEW t \in Threads, LogStep(t), UNCHANGED mainVars PROVE Owned'
  <2>1. /\ UNCHANGED <<life, at, running, left>>
        /\ \A u \in Threads : call[u].step = "idle" => call'[u].step = "idle"
        /\ \/ process' \in {"running", "terminated"}
           \/ process' = "undefined" /\ life = "dead" /\ call[t].step # "idle"
    BY <1>2, LogStepEffects DEF mainVars
  <2>2. life = "dead" /\ call[t].step # "idle" => left # {}
    BY MainAssumption DEF Owned
  <2> QED BY <2>1, <2>2, MainAssumption DEF Owned
<1>3. ASSUME MainStep PROVE Owned'
  <2>1. CASE MakeLogger
    BY <2>1 DEF MakeLogger, Main, InitLogger, callVars, Owned, Early
  <2>2. ASSUME NEW from \in {"starting", "using", "report"}, NEW to,
               <<from, to>> \in {<<"starting", "probe">>, <<"using", "run">>, <<"report", "shutdown">>},
               Report(from, "Info", to)
        PROVE  Owned'
    <3>1. /\ at = from /\ at' = to /\ UNCHANGED <<running, left, process, life>>
          /\ \A u \in Threads : u # "main" => call'[u] = call[u]
      BY <2>2, BeginLogEffects, ThreadsOf DEF Report, Main
    <3>2. (to \in Early => from \in Early) /\ from \notin {"return", "done"}
      BY <2>2 DEF Early
    <3> QED BY <3>1, <3>2, MainAssumption DEF Owned
  <2>3. CASE Probe
    <3>1. /\ at = "probe" /\ at' = "using" /\ UNCHANGED <<running, left, process, life>>
          /\ \A u \in Threads : u # "main" => call'[u] = call[u]
      BY <2>3, BeginLogEffects, ThreadsOf DEF Probe, Main, loggerVars, callVars
    <3> QED BY <3>1, MainAssumption DEF Owned, Early
  <2>4. CASE StartRun
    <3>1. /\ at = "run" /\ at' = "join" /\ running' = left' /\ left' \subseteq Workers
          /\ process = "running" /\ UNCHANGED <<process, life, call>>
      BY <2>4, MainAssumption DEF StartRun, Main, loggerVars, callVars
    <3> QED BY <3>1 DEF Owned, Early
  <2>5. CASE JoinRun
    <3>1. /\ at = "join" /\ at' = "report" /\ UNCHANGED <<running, process, life, call>>
          /\ process = "running" /\ (left' = left \/ (running = {} /\ left' = {}))
      BY <2>5 DEF JoinRun, Main, loggerVars, callVars
    <3> QED BY <3>1 DEF Owned, Early
  <2>6. CASE ShutdownLogger
    <3>1. /\ at = "shutdown" /\ at' = "flush" /\ UNCHANGED <<running, left, process, life, call>>
      BY <2>6 DEF ShutdownLogger, BeginShutdown, Main, callVars
    <3> QED BY <3>1 DEF Owned, Early
  <2>7. CASE FlushLogger
    <3>1. /\ at = "flush" /\ at' = (IF life' = "dead" THEN "return" ELSE "flush")
          /\ call["main"].step = "idle" /\ UNCHANGED <<running, left, process, call>>
      BY <2>7 DEF FlushLogger, DestructorFlush, Main, Spill, callVars
    <3> QED BY <3>1 DEF Owned, Early
  <2>8. CASE ReturnFromMain
    <3>1. /\ at = "return" /\ at' = "done" /\ UNCHANGED <<running, left, life, call>>
          /\ process' = IF left = {} THEN "exited" ELSE "terminated"
      BY <2>8 DEF ReturnFromMain, Main, callVars
    <3> QED BY <3>1 DEF Owned, Early
  <2> QED BY <1>3, <2>1, <2>2, <2>3, <2>4, <2>5, <2>6, <2>7, <2>8 DEF MainStep
<1>4. ASSUME NEW t \in Threads, t # "main", WorkerEnds(t) PROVE Owned'
  <2>1. /\ running' = running \ {t} /\ call[t].step = "idle" /\ process = "running"
        /\ UNCHANGED <<process, life, call, at, left>>
    BY <1>4 DEF WorkerEnds, At, loggerVars, callVars
  <2> QED BY <2>1 DEF Owned
<1>5. ASSUME NEW t \in Workers, WorkerLogs(t) PROVE Owned'
  <2>1. /\ t \in running /\ t # "main" /\ UNCHANGED <<process, life, at, running, left>>
        /\ \A u \in Threads : u # t => call'[u] = call[u]
    BY <1>5, BeginLogEffects, MainAssumption DEF WorkerLogs, mainVars
  <2> QED BY <2>1, MainAssumption DEF Owned
<1>6. ASSUME NEW t \in Threads, SpillOnWrite(t), UNCHANGED mainVars PROVE Owned'
  BY <1>1, <1>6 DEF SpillOnWrite, Spill, callVars
<1>7. CASE Kill
  BY <1>7 DEF Kill, KillProcess, callVars, mainVars, Owned
<1>8. CASE Start
  <2>1. /\ call' = [t \in Threads |-> NoCall] /\ process' = "running" /\ life' = "none"
        /\ running' = {} /\ left' = {}
    BY <1>8 DEF Start, NewProcess
  <2>2. \A t \in Workers : call'[t].step = "idle"
    BY <2>1, MainAssumption DEF NoCall
  <2> QED BY <2>1, <2>2 DEF Owned
<1>9. CASE UNCHANGED vars
  BY <1>1, <1>9 DEF vars, loggerVars, callVars
<1>10. ASSUME NEW t \in Threads, ThreadStep(t) PROVE Owned'
  BY <1>2, <1>3, <1>4, <1>10 DEF ThreadStep
<1> QED BY <1>5, <1>6, <1>7, <1>8, <1>9, <1>10 DEF Next

(* Whatever run() does and whenever its threads log, the logger that main  *)
(* destroys first is used after its end only by threads run() left behind, *)
(* and a process that exits has none.                                      *)
THEOREM TeardownSafeHolds == Spec => []TeardownSafe
<1>1. Init => OwnedInv
  <2> SUFFICES ASSUME Init PROVE Owned
    BY CallsInitially DEF OwnedInv
  <2>1. \A t \in Threads : call[t].step = "idle"
    BY DEF Init, LoggerInit, NoCall
  <2> QED BY <2>1, MainAssumption DEF Init, LoggerInit, Owned, Early
<1>2. OwnedInv /\ [Next]_vars => OwnedInv'
  BY CallsKept, OwnedKept DEF OwnedInv
<1>3. OwnedInv => TeardownSafe
  BY DEF OwnedInv, Owned, TeardownSafe
<1> QED BY <1>1, <1>2, <1>3, PTL DEF Spec

-----------------------------------------------------------------------------
(* After a clean exit the file is complete *)

StandsIn(file, l) ==
  \E k \in 2..Len(file) : file[k - 1] = LineHead(l) /\ file[k] = LineTail(l)

Written == {"flush", "relock", "stuck", "unlock"}

(* A line of this process is in the file once its tail is written.         *)
AllStand ==
  /\ \A l \in returned : Current(l) => StandsIn(File, l)
  /\ \A t \in Threads : call[t].step \in Written => StandsIn(File, call[t].line)

(* main() returns after the logger is gone, which left nothing buffered.   *)
Gone ==
  /\ at \in {"return", "done"} => life = "dead"
  /\ life = "dead" => buffer = <<>>
  /\ process = "exited" => at = "done"

ExitInv == LinesInv /\ Owned /\ (process # "killed" => AllStand) /\ Gone

LEMMA StandsKept ==
  ASSUME FileOK, NEW l, StandsIn(File, l), Len(File') \in Nat, Len(File') >= Len(File),
         \A k \in 1..Len(File) : File'[k] = File[k]
  PROVE  StandsIn(File', l)
<1>1. PICK k \in 2..Len(File) : File[k - 1] = LineHead(l) /\ File[k] = LineTail(l)
  BY DEF StandsIn
<1>2. k \in 2..Len(File') /\ k \in 1..Len(File) /\ k - 1 \in 1..Len(File)
  BY FileOf
<1>3. File'[k - 1] = LineHead(l) /\ File'[k] = LineTail(l)
  BY <1>1, <1>2
<1> QED BY <1>2, <1>3 DEF StandsIn, LineHead, LineTail

(* A step that takes nothing from the file and nobody out of a line.       *)
LEMMA StandKept ==
  ASSUME FileOK, AllStand, UNCHANGED born,
         Len(File') \in Nat, Len(File') >= Len(File),
         \A k \in 1..Len(File) : File'[k] = File[k],
         \A l \in returned' : l \in returned \/ StandsIn(File', l),
         \A t \in Threads : call'[t].step \in Written =>
           \/ call[t].step \in Written /\ call'[t].line = call[t].line
           \/ StandsIn(File', call'[t].line)
  PROVE  AllStand'
<1>1. \A l : StandsIn(File, l) => StandsIn(File', l)
  BY StandsKept
<1>2. ASSUME NEW l \in returned', Current(l)' PROVE StandsIn(File', l)
  BY <1>1, <1>2 DEF AllStand, Current
<1>3. ASSUME NEW t \in Threads, call'[t].step \in Written PROVE StandsIn(File', call'[t].line)
  BY <1>1, <1>3 DEF AllStand
<1> QED BY <1>2, <1>3 DEF AllStand

LEMMA WriteStands ==
  ASSUME CallsOK, FileOK, Together, AllStand, NEW t \in Threads, Writes(t)
  PROVE  AllStand'
<1>1. PICK to \in Holding, kind \in {"head", "tail"} :
        /\ call[t].step = kind /\ Step(t, to) /\ (to = "tail" <=> kind = "head")
        /\ buffer' = Append(buffer, <<call[t].line, kind>>)
  BY DEF Writes, WriteLine, At, LineHead, LineTail, Holding
<1>2. UNCHANGED <<disk, mu, born, lines, returned>> /\ call[t].line \in Nat
  BY DEF Writes, WriteLine, CallsOK, Calls
<1> DEFINE token == <<call[t].line, kind>>
<1>3. token \in Tokens /\ buffer' = Append(buffer, token) /\ disk' = disk
  BY <1>1, <1>2 DEF Tokens
<1> HIDE DEF token
<1>4. Len(File) \in Nat /\ Len(File') = Len(File) + 1
      /\ \A k \in 1..(Len(File) + 1) : File'[k] = IF k <= Len(File) THEN File[k] ELSE token
  BY <1>3, WriteFile, FileOf
<1>5. /\ call'[t].step = to /\ call'[t].line = call[t].line
      /\ \A u \in Threads : u # t => call'[u] = call[u]
  BY <1>1, StepChanges DEF Steps, Holding
<1>6. ASSUME kind = "tail" PROVE StandsIn(File', call[t].line)
  <2>1. Len(File) > 0 /\ File[Len(File)] = LineHead(call[t].line)
    BY <1>1, <1>6 DEF Together, TailFollows
  <2>2. Len(File) + 1 \in 2..Len(File') /\ (Len(File) + 1) - 1 = Len(File)
    BY <1>4, <2>1
  <2>3. File'[Len(File)] = LineHead(call[t].line) /\ File'[Len(File) + 1] = token
    BY <1>4, <2>1
  <2>4. token = LineTail(call[t].line)
    BY <1>6 DEF token, LineTail
  <2>5. \E k \in 2..Len(File') : File'[k - 1] = LineHead(call[t].line) /\ File'[k] = LineTail(call[t].line)
    BY <2>2, <2>3, <2>4
  <2> QED BY <1>5, <2>5 DEF StandsIn, LineHead, LineTail
<1>7. \A u \in Threads : call'[u].step \in Written =>
           \/ call[u].step \in Written /\ call'[u].line = call[u].line
           \/ StandsIn(File', call'[u].line)
  <2>1. to \in Written => kind = "tail"
    BY <1>1 DEF Written
  <2>2. kind = "tail" => StandsIn(File', call'[t].line)
    BY <1>5, <1>6 DEF StandsIn, LineHead, LineTail
  <2> QED BY <1>5, <2>1, <2>2
<1>8. \A k \in 1..Len(File) : File'[k] = File[k]
  BY <1>4
<1>9. Len(File') \in Nat /\ Len(File') >= Len(File)
  BY <1>4
<1> QED BY <1>2, <1>7, <1>8, <1>9, StandKept

LEMMA AllStandKept ==
  ASSUME LinesInv, process # "killed" => AllStand, [Next]_vars, process' # "killed"
  PROVE  AllStand'
<1>1. CallsOK /\ FileOK /\ (process = "running" => Together)
  BY DEF LinesInv
<1>2. ASSUME UNCHANGED <<fileVars, born>>, process # "killed",
             \A l \in returned' : l \in returned \/ StandsIn(File, l),
             \A t \in Threads : call'[t].step \in Written =>
               call[t].step \in Written /\ call'[t].line = call[t].line
      PROVE  AllStand'
  <2>1. File' = File /\ Len(File) \in Nat
    BY <1>1, <1>2, FileOf DEF File, fileVars
  <2>2. \A l : StandsIn(File, l) => StandsIn(File', l)
    BY <2>1 DEF StandsIn, LineHead, LineTail
  <2> QED BY <1>1, <1>2, <2>1, <2>2, StandKept
<1>3. ASSUME NEW t \in Threads, Advances(t) PROVE AllStand'
  <2>1. PICK move \in AfterLog : At(t, move[1]) /\ Step(t, move[2])
    BY <1>3 DEF Advances
  <2>2. move[2] \in Steps /\ (move[2] \in Written => move[1] \in Written)
    BY DEF AfterLog, Steps, Written
  <2>3. /\ call'[t].step = move[2] /\ call'[t].line = call[t].line /\ call[t].step = move[1]
        /\ \A u \in Threads : u # t => call'[u] = call[u]
    BY <1>1, <2>1, <2>2, StepChanges DEF At
  <2>4. UNCHANGED <<fileVars, born, returned>> /\ process = "running"
    BY <1>3, <2>1 DEF Advances, At
  <2>5. \A u \in Threads : call'[u].step \in Written =>
           call[u].step \in Written /\ call'[u].line = call[u].line
    BY <2>2, <2>3
  <2> QED BY <1>2, <2>4, <2>5
<1>4. ASSUME NEW t \in Threads, Begins(t) PROVE AllStand'
  <2>1. PICK level \in DOMAIN Level : BeginLog(t, level)
    BY <1>4 DEF Begins
  <2>2. /\ call' = [call EXCEPT ![t] = [step |-> "get", level |-> level, line |-> lines + 1]]
        /\ process = "running" /\ UNCHANGED <<fileVars, born, returned>>
    BY <1>4, <2>1 DEF Begins, BeginLog, At
  <2>3. \A u \in Threads : call'[u].step \in Written => call'[u] = call[u]
    BY <1>1, <2>2 DEF CallsOK, Written
  <2>4. \A u \in Threads : call'[u].step \in Written =>
           call[u].step \in Written /\ call'[u].line = call[u].line
    BY <2>3
  <2> QED BY <1>2, <2>2, <2>4
<1>5. ASSUME NEW t \in Threads, Locks(t) \/ Returns(t) PROVE AllStand'
  <2>1. PICK to \in {"head", "idle"} :
          /\ Step(t, to) /\ process = "running" /\ UNCHANGED <<fileVars, born>>
          /\ \/ UNCHANGED returned
             \/ call[t].step = "unlock" /\ returned' = returned \cup {call[t].line}
    BY <1>5 DEF Locks, LockLine, Returns, ReturnLog, At
  <2>2. /\ call'[t].step = to /\ call'[t].line = call[t].line
        /\ \A u \in Threads : u # t => call'[u] = call[u]
    BY <1>1, <2>1, StepChanges DEF Steps
  <2>3. \A l \in returned' : l \in returned \/ StandsIn(File, l)
    BY <2>1 DEF AllStand, Written
  <2>4. \A u \in Threads : call'[u].step \in Written =>
           call[u].step \in Written /\ call'[u].line = call[u].line
    BY <2>2 DEF Written
  <2> QED BY <1>2, <2>1, <2>3, <2>4
<1>6. ASSUME NEW t \in Threads, Writes(t) PROVE AllStand'
  <2>1. process = "running"
    BY <1>6 DEF Writes, WriteLine, At
  <2> QED BY <1>1, <1>6, <2>1, WriteStands
<1>7. CASE Spills
  <2>1. File' = File /\ Len(File) \in Nat /\ UNCHANGED <<process, call, returned, born>>
    BY <1>1, <1>7, SpillFile, FileOf DEF Spills, Spill, callVars
  <2> QED BY <1>1, <2>1, StandKept
<1>8. CASE Rests
  BY <1>2, <1>8 DEF Rests, callVars
<1>9. CASE Start
  <2>1. /\ call' = [t \in Threads |-> NoCall] /\ born' = born \cup {lines} /\ UNCHANGED returned
    BY <1>9 DEF Start, NewProcess
  <2>2. \A t \in Threads : call'[t].step = "idle"
    BY <2>1 DEF NoCall
  <2>3. \A l \in returned : ~(lines < l)
    BY <1>1, LoggerAssumption DEF CallsOK
  <2>4. \A l \in returned' : ~Current(l)'
    BY <2>1, <2>3 DEF Current
  <2> QED BY <2>2, <2>4 DEF AllStand, Written
<1>10. ~Kill
  BY DEF Kill, KillProcess
<1> QED BY <1>3, <1>4, <1>5, <1>6, <1>7, <1>8, <1>9, <1>10, StepKinds

LEMMA GoneKept ==
  ASSUME CallsOK, FileOK, Owned, Gone, [Next]_vars
  PROVE  Gone'
<1>1. buffer = <<>> => ~Spill
  BY DEF Spill
<1>2. ASSUME UNCHANGED <<at, life>>, process' # "exited",
             buffer' = buffer \/ life # "dead" \/ Spill
      PROVE  Gone'
  BY <1>1, <1>2 DEF Gone
<1>3. ASSUME NEW t \in Threads, LogStep(t), UNCHANGED mainVars PROVE Gone'
  <2>1. UNCHANGED <<at, life>> /\ process' # "exited"
    BY <1>3, LogStepEffects DEF mainVars
  <2>2. buffer' = buffer \/ life # "dead" \/ Spill
    BY <1>3 DEF LogStep, GetLogger, UseDead, Filter, LockLine, WriteLine, FlushLine,
                LockAgain, ReturnLog, fileVars
  <2> QED BY <1>2, <2>1, <2>2
<1>4. ASSUME MainStep PROVE Gone'
  <2>1. CASE MakeLogger
    BY <2>1 DEF MakeLogger, Main, InitLogger, Gone, fileVars
  <2>2. ASSUME NEW from, NEW to, to \in {"probe", "run", "shutdown"}, Report(from, "Info", to)
        PROVE  Gone'
    BY <2>2 DEF Report, Main, BeginLog, Gone, fileVars
  <2>3. CASE Probe
    BY <2>3 DEF Probe, Main, BeginLog, Gone, loggerVars, fileVars
  <2>4. CASE StartRun \/ JoinRun
    BY <2>4 DEF StartRun, JoinRun, Main, Gone, loggerVars, fileVars
  <2>5. CASE ShutdownLogger
    BY <2>5 DEF ShutdownLogger, BeginShutdown, Main, Gone, fileVars
  <2>6. CASE FlushLogger
    <3>1. /\ at' = (IF life' = "dead" THEN "return" ELSE "flush") /\ at = "flush"
          /\ process = "running" /\ UNCHANGED process
          /\ \/ UNCHANGED life
             \/ buffer' = <<>>
          /\ life = "alive"
      BY <2>6 DEF FlushLogger, DestructorFlush, Main, Spill, fileVars
    <3> QED BY <3>1 DEF Gone
  <2>7. CASE ReturnFromMain
    BY <2>7 DEF ReturnFromMain, Main, Gone, fileVars
  <2> QED BY <1>4, <2>1, <2>2, <2>3, <2>4, <2>5, <2>6, <2>7 DEF MainStep
<1>5. ASSUME NEW t \in Threads, WorkerEnds(t) PROVE Gone'
  BY <1>5 DEF WorkerEnds, Gone, loggerVars, fileVars
<1>6. ASSUME NEW t \in Workers, WorkerLogs(t) PROVE Gone'
  BY <1>6 DEF WorkerLogs, BeginLog, At, Gone, mainVars, fileVars
<1>7. ASSUME NEW t \in Threads, SpillOnWrite(t), UNCHANGED mainVars PROVE Gone'
  BY <1>2, <1>7 DEF SpillOnWrite, Spill, mainVars
<1>8. CASE Kill \/ Start
  BY <1>8 DEF Kill, KillProcess, Start, NewProcess, Gone, mainVars
<1>9. CASE UNCHANGED vars
  BY <1>9 DEF vars, loggerVars, mainVars, fileVars, Gone
<1>10. ASSUME NEW t \in Threads, ThreadStep(t) PROVE Gone'
  BY <1>3, <1>4, <1>5, <1>10 DEF ThreadStep
<1> QED BY <1>6, <1>7, <1>8, <1>9, <1>10 DEF Next

LEMMA ExitInvHolds == Spec => []ExitInv
<1>1. Init => Owned /\ Gone /\ AllStand
  <2> SUFFICES ASSUME Init PROVE Owned /\ Gone /\ AllStand
    OBVIOUS
  <2>1. \A t \in Threads : call[t].step = "idle"
    BY DEF Init, LoggerInit, NoCall
  <2>2. Owned
    BY <2>1, MainAssumption DEF Init, LoggerInit, Owned, Early
  <2> QED BY <2>1, <2>2 DEF Init, LoggerInit, Gone, AllStand, Written
<1>2. Init => ExitInv
  BY <1>1, LinesInitially DEF ExitInv
<1>3. ExitInv /\ [Next]_vars => ExitInv'
  BY LinesKept, OwnedKept, GoneKept, AllStandKept DEF ExitInv, LinesInv
<1> QED BY <1>2, <1>3, PTL DEF Spec

(* After an exit that joined every thread, each line the process logged is *)
(* on the disk, whether or not the logger flushes every line.              *)
THEOREM ExitCompleteHolds == Spec => []ExitComplete
<1>1. ExitInv => ExitComplete
  <2> SUFFICES ASSUME ExitInv, process = "exited", NEW l \in returned, Current(l)
               PROVE  \E k \in 2..Len(disk) : disk[k - 1] = LineHead(l) /\ disk[k] = LineTail(l)
    BY DEF ExitComplete, Current
  <2>1. buffer = <<>> /\ disk \in Seq(Tokens) /\ StandsIn(File, l)
    BY DEF ExitInv, Gone, AllStand, LinesInv, FileOK
  <2>2. File = disk
    BY <2>1, ConcatEmptySeq DEF File
  <2> QED BY <2>1, <2>2 DEF StandsIn
<1> QED BY <1>1, ExitInvHolds, PTL

-----------------------------------------------------------------------------
(* robot.log is a LogFile *)

HeadIn(file, l) == \E k \in 1..Len(file) : file[k] = LineHead(l)

(* With flush_always a line is on the disk before its log() returns.       *)
Saved ==
  flushAlways =>
    /\ \A l \in returned : HeadIn(disk, l)
    /\ \A t \in Threads : call[t].step = "unlock" => HeadIn(disk, call[t].line)

JournalInv == ExitInv /\ Saved

LEMMA FlushAlwaysFixed ==
  ASSUME [Next]_vars
  PROVE  flushAlways' = flushAlways
<1>1. ASSUME NEW t \in Threads, LogStep(t) PROVE flushAlways' = flushAlways
  BY <1>1 DEF LogStep, GetLogger, UseDead, Filter, LockLine, WriteLine, FlushLine, Spill,
              LockAgain, ReturnLog
<1>2. ASSUME MainStep PROVE flushAlways' = flushAlways
  BY <1>2 DEF MainStep, MakeLogger, InitLogger, Report, BeginLog, Probe, StartRun, JoinRun,
              ShutdownLogger, BeginShutdown, FlushLogger, DestructorFlush, Spill,
              ReturnFromMain, loggerVars
<1>3. ASSUME NEW t \in Workers, WorkerEnds(t) \/ WorkerLogs(t) PROVE flushAlways' = flushAlways
  BY <1>3 DEF WorkerEnds, WorkerLogs, BeginLog, loggerVars
<1>4. ASSUME NEW t \in Threads, ThreadStep(t) PROVE flushAlways' = flushAlways
  BY <1>1, <1>2, <1>4 DEF ThreadStep, WorkerEnds, loggerVars
<1>5. ASSUME NEW t \in Threads, SpillOnWrite(t) PROVE flushAlways' = flushAlways
  BY <1>5 DEF SpillOnWrite, Spill
<1>6. CASE Kill \/ Start
  BY <1>6 DEF Kill, KillProcess, Start, NewProcess
<1>7. CASE UNCHANGED vars
  BY <1>7 DEF vars, loggerVars
<1> QED BY <1>3, <1>4, <1>5, <1>6, <1>7 DEF Next

LEMMA SavedStep ==
  ASSUME Saved, UNCHANGED flushAlways,
         \A l : HeadIn(disk, l) => HeadIn(disk', l),
         \A l \in returned' : l \in returned \/ (flushAlways => HeadIn(disk', l)),
         \A t \in Threads : call'[t].step = "unlock" =>
           \/ call[t].step = "unlock" /\ call'[t].line = call[t].line
           \/ flushAlways => HeadIn(disk', call'[t].line)
  PROVE  Saved'
BY DEF Saved, HeadIn, LineHead

LEMMA SavedKept ==
  ASSUME ExitInv, Saved, [Next]_vars
  PROVE  Saved'
<1>1. CallsOK /\ FileOK /\ flushAlways' = flushAlways
  BY FlushAlwaysFixed DEF ExitInv, LinesInv
<1>2. ASSUME disk' = disk,
             \A l \in returned' : l \in returned \/ (flushAlways => HeadIn(disk, l)),
             \A t \in Threads : call'[t].step = "unlock" =>
               \/ call[t].step = "unlock" /\ call'[t].line = call[t].line
               \/ flushAlways => HeadIn(disk, call'[t].line)
      PROVE  Saved'
  BY <1>1, <1>2, SavedStep DEF HeadIn, LineHead
<1>3. ASSUME NEW t \in Threads, Advances(t) PROVE Saved'
  <2>1. PICK move \in AfterLog :
          At(t, move[1]) /\ Step(t, move[2]) /\ (move[1] = "flush" => buffer = <<>>)
    BY <1>3 DEF Advances
  <2>2. move[2] \in Steps /\ (move[2] = "unlock" => move[1] = "flush")
    BY DEF AfterLog, Steps
  <2>3. /\ call'[t].step = move[2] /\ call'[t].line = call[t].line /\ call[t].step = move[1]
        /\ \A u \in Threads : u # t => call'[u] = call[u]
    BY <1>1, <2>1, <2>2, StepChanges DEF At
  <2>4. UNCHANGED <<disk, returned>> /\ process = "running"
    BY <1>3, <2>1 DEF Advances, At, fileVars
  <2>5. ASSUME move[2] = "unlock" PROVE HeadIn(disk, call[t].line)
    <3>1. StandsIn(File, call[t].line)
      BY <2>2, <2>3, <2>4, <2>5 DEF ExitInv, AllStand, Written
    <3>2. File = disk
      BY <1>1, <2>1, <2>2, <2>5, ConcatEmptySeq DEF FileOK, File
    <3>3. \A k \in 2..Len(disk) : k - 1 \in 1..Len(disk)
      BY <1>1 DEF FileOK
    <3> QED BY <3>1, <3>2, <3>3 DEF StandsIn, HeadIn
  <2> QED BY <1>2, <2>3, <2>4, <2>5
<1>4. ASSUME NEW t \in Threads, Begins(t) PROVE Saved'
  <2>1. PICK level \in DOMAIN Level : BeginLog(t, level)
    BY <1>4 DEF Begins
  <2>2. /\ call' = [call EXCEPT ![t] = [step |-> "get", level |-> level, line |-> lines + 1]]
        /\ UNCHANGED <<disk, returned>>
    BY <2>1 DEF BeginLog, fileVars
  <2>3. \A u \in Threads : call'[u].step = "unlock" => call'[u] = call[u]
    BY <1>1, <2>2 DEF CallsOK
  <2> QED BY <1>2, <2>2, <2>3
<1>5. ASSUME NEW t \in Threads, Locks(t) \/ Returns(t) PROVE Saved'
  <2>1. PICK to \in {"head", "idle"} :
          /\ Step(t, to) /\ disk' = disk
          /\ \/ UNCHANGED returned
             \/ call[t].step = "unlock" /\ returned' = returned \cup {call[t].line}
    BY <1>5 DEF Locks, LockLine, Returns, ReturnLog, At, fileVars
  <2>2. /\ call'[t].step = to /\ call'[t].line = call[t].line
        /\ \A u \in Threads : u # t => call'[u] = call[u]
    BY <1>1, <2>1, StepChanges DEF Steps
  <2>3. \A l \in returned' : l \in returned \/ (flushAlways => HeadIn(disk, l))
    BY <2>1 DEF Saved
  <2>4. \A u \in Threads : call'[u].step = "unlock" => call'[u] = call[u]
    BY <2>2
  <2> QED BY <1>2, <2>1, <2>3, <2>4
<1>6. ASSUME NEW t \in Threads, Writes(t) PROVE Saved'
  <2>1. PICK to \in {"tail", "flush", "unlock"} :
          Step(t, to) /\ (flushAlways => to # "unlock") /\ UNCHANGED <<disk, returned>>
    BY <1>6 DEF Writes, WriteLine
  <2>2. /\ call'[t].step = to
        /\ \A u \in Threads : u # t => call'[u] = call[u]
    BY <1>1, <2>1, StepChanges DEF Steps
  <2>3. \A u \in Threads : call'[u].step = "unlock" => ~flushAlways \/ call'[u] = call[u]
    BY <2>1, <2>2
  <2> QED BY <1>2, <2>1, <2>3
<1>7. CASE Spills
  <2>1. /\ UNCHANGED <<call, returned>> /\ disk \in Seq(Tokens)
        /\ \E token \in Tokens : disk' = Append(disk, token)
    <3>1. buffer \in Seq(Tokens) /\ buffer # <<>> /\ disk' = Append(disk, Head(buffer))
      BY <1>1, <1>7 DEF FileOK, Spills, Spill
    <3> QED BY <1>1, <1>7, <3>1, HeadTailProperties DEF Spills, Spill, callVars, FileOK
  <2>2. ASSUME NEW l, HeadIn(disk, l) PROVE HeadIn(disk', l)
    <3>1. PICK k \in 1..Len(disk) : disk[k] = LineHead(l)
      BY <2>2 DEF HeadIn
    <3>2. k \in 1..Len(disk') /\ disk'[k] = disk[k]
      BY <2>1, AppendProperties
    <3> QED BY <3>1, <3>2 DEF HeadIn
  <2> QED BY <1>1, <2>1, <2>2, SavedStep
<1>8. CASE Rests
  BY <1>2, <1>8 DEF Rests, callVars, fileVars
<1>9. CASE Kill
  BY <1>2, <1>9 DEF Kill, KillProcess, callVars
<1>10. CASE Start
  <2>1. call' = [t \in Threads |-> NoCall] /\ UNCHANGED <<disk, returned>>
    BY <1>10 DEF Start, NewProcess, fileVars
  <2>2. \A t \in Threads : call'[t].step # "unlock"
    BY <2>1 DEF NoCall
  <2> QED BY <1>2, <2>1, <2>2
<1> QED BY <1>3, <1>4, <1>5, <1>6, <1>7, <1>8, <1>9, <1>10, StepKinds

LEMMA LinesOfType ==
  ASSUME NEW f \in Seq(Tokens)
  PROVE  /\ LinesOf(f) \in Seq(1..MaxLines) /\ Kept(f, Heads) \in Seq(Heads)
         /\ Len(LinesOf(f)) = Len(Kept(f, Heads))
         /\ \A k \in 1..Len(LinesOf(f)) : LinesOf(f)[k] = Kept(f, Heads)[k][1]
<1> DEFINE h == Kept(f, Heads)
<1>1. h \in Seq(Heads)
  BY KeptType
<1>2. LinesOf(f) = [k \in 1..Len(h) |-> h[k][1]]
  BY DEF LinesOf
<1>3. \A e \in Heads : e[1] \in 1..MaxLines
  BY DEF Heads, LineHead
<1> HIDE DEF h
<1>4. \A k \in 1..Len(h) : h[k][1] \in 1..MaxLines
  BY <1>1, <1>3, ElementOfSeq
<1>5. Len(h) \in Nat
  BY <1>1
<1> QED BY <1>1, <1>2, <1>4, <1>5 DEF h

(* One more token is a new line if it is the head of one.                  *)
LEMMA LinesOfGrows ==
  ASSUME NEW f \in Seq(Tokens), NEW g \in Seq(Tokens), NEW token,
         Len(g) = Len(f) + 1,
         \A k \in 1..(Len(f) + 1) : g[k] = IF k <= Len(f) THEN f[k] ELSE token
  PROVE  LinesOf(g) = IF token \in Heads THEN Append(LinesOf(f), token[1]) ELSE LinesOf(f)
<1>1. Kept(g, Heads) = IF token \in Heads THEN Append(Kept(f, Heads), token) ELSE Kept(f, Heads)
  BY KeptGrows
<1>2. CASE token \in Heads
  <2> DEFINE h == Kept(f, Heads)
             a == LinesOf(f)
             b == LinesOf(g)
  <2>1. /\ h \in Seq(Heads) /\ a \in Seq(1..MaxLines) /\ b \in Seq(1..MaxLines)
        /\ Len(a) = Len(h) /\ \A k \in 1..Len(a) : a[k] = h[k][1]
        /\ Len(b) = Len(Append(h, token)) /\ \A k \in 1..Len(b) : b[k] = Append(h, token)[k][1]
    BY <1>1, <1>2, LinesOfType
  <2>2. token[1] \in 1..MaxLines
    BY <1>2 DEF Heads, LineHead
  <2> HIDE DEF h, a, b
  <2>3. Len(h) \in Nat /\ Len(Append(h, token)) = Len(h) + 1
        /\ \A k \in 1..Len(h) : Append(h, token)[k] = h[k]
        /\ Append(h, token)[Len(h) + 1] = token
    BY <1>2, <2>1
  <2>4. Append(a, token[1]) \in Seq(1..MaxLines) /\ Len(Append(a, token[1])) = Len(a) + 1
        /\ \A k \in 1..Len(a) : Append(a, token[1])[k] = a[k]
        /\ Append(a, token[1])[Len(a) + 1] = token[1]
    BY <2>1, <2>2
  <2>5. \A k \in 1..(Len(h) + 1) : k \in 1..Len(h) \/ k = Len(h) + 1
    BY <2>3
  <2>6. \A k \in 1..Len(b) : b[k] = Append(a, token[1])[k]
    BY <2>1, <2>3, <2>4, <2>5
  <2>7. b = Append(a, token[1])
    BY <2>1, <2>3, <2>4, <2>6, SeqEqual
  <2> QED BY <1>2, <2>7 DEF a, b
<1>3. CASE token \notin Heads
  BY <1>1, <1>3 DEF LinesOf
<1> QED BY <1>2, <1>3

LEMMA LinesOfCut ==
  ASSUME NEW f \in Seq(Tokens), NEW g \in Seq(Tokens),
         Len(g) <= Len(f), \A k \in 1..Len(g) : g[k] = f[k]
  PROVE  Leads(LinesOf(g), LinesOf(f))
<1>1. Leads(Kept(g, Heads), Kept(f, Heads))
  BY KeptCut
<1> DEFINE hf == Kept(f, Heads)
           hg == Kept(g, Heads)
           lf == LinesOf(f)
           lg == LinesOf(g)
<1>2. /\ lf \in Seq(1..MaxLines) /\ Len(lf) = Len(hf) /\ \A k \in 1..Len(lf) : lf[k] = hf[k][1]
      /\ lg \in Seq(1..MaxLines) /\ Len(lg) = Len(hg) /\ \A k \in 1..Len(lg) : lg[k] = hg[k][1]
  BY LinesOfType
<1> HIDE DEF hf, hg, lf, lg
<1>3. Len(hg) <= Len(hf) /\ \A k \in 1..Len(hg) : hg[k] = hf[k]
  BY <1>1 DEF Leads, hf, hg
<1>4. Len(lf) \in Nat /\ Len(lg) \in Nat
  BY <1>2
<1>5. Leads(lg, lf)
  BY <1>2, <1>3, <1>4 DEF Leads
<1> QED BY <1>5 DEF lf, lg

LEMMA LinesOfHas ==
  ASSUME NEW f \in Seq(Tokens), NEW l \in 1..MaxLines, HeadIn(f, l)
  PROVE  \E k \in 1..Len(LinesOf(f)) : LinesOf(f)[k] = l
<1>1. PICK i \in 1..Len(f) : f[i] = LineHead(l)
  BY DEF HeadIn
<1>2. LineHead(l) \in Heads /\ LineHead(l)[1] = l
  BY DEF Heads, LineHead
<1>3. PICK j \in 1..Len(Kept(f, Heads)) : Kept(f, Heads)[j] = f[i]
  BY <1>1, <1>2, KeptHas
<1>4. j \in 1..Len(LinesOf(f)) /\ LinesOf(f)[j] = f[i][1]
  BY <1>3, LinesOfType
<1> QED BY <1>1, <1>2, <1>4

(* What is promised is on the disk, so among the lines of any file that    *)
(* begins with it.                                                         *)
LEMMA PromisedStands ==
  ASSUME CallsOK, Saved, NEW l \in Promised
  PROVE  l \in 1..MaxLines /\ HeadIn(disk, l)
<1>1. flushAlways /\ l \in returned /\ HeadIn(disk, l)
  BY DEF Promised, Saved
<1>2. lines \in Nat /\ lines <= MaxLines /\ MaxLines \in Nat /\ l \in 1..lines
  BY <1>1, LoggerAssumption DEF CallsOK
<1> QED BY <1>1, <1>2

LEMMA DiskStands ==
  ASSUME FileOK, NEW l, HeadIn(disk, l)
  PROVE  HeadIn(File, l)
<1>1. PICK k \in 1..Len(disk) : disk[k] = LineHead(l)
  BY DEF HeadIn
<1>2. disk \in Seq(Tokens) /\ buffer \in Seq(Tokens) /\ Len(disk) \in Nat /\ Len(buffer) \in Nat
  BY DEF FileOK
<1>3. Len(File) = Len(disk) + Len(buffer)
      /\ \A i \in 1..(Len(disk) + Len(buffer)) :
           File[i] = IF i <= Len(disk) THEN disk[i] ELSE buffer[i - Len(disk)]
  BY <1>2, ConcatProperties DEF File
<1>4. k \in 1..Len(File) /\ File[k] = disk[k]
  BY <1>2, <1>3
<1> QED BY <1>1, <1>4 DEF HeadIn

LEMMA JournalStep ==
  ASSUME JournalInv, JournalInv', [Next]_vars
  PROVE  [Journal!Next]_<<LinesOf(File), Promised>>
<1>1. /\ CallsOK /\ FileOK /\ Saved /\ CallsOK' /\ FileOK' /\ Saved'
      /\ File \in Seq(Tokens) /\ File' \in Seq(Tokens) /\ flushAlways' = flushAlways
  BY FileOf, FlushAlwaysFixed, ConcatProperties DEF JournalInv, ExitInv, LinesInv, FileOK, File
<1>2. ASSUME File' = File, returned' = returned
      PROVE  UNCHANGED <<LinesOf(File), Promised>>
  BY <1>1, <1>2 DEF Promised, LinesOf
<1>3. ASSUME NEW t \in Threads, Advances(t) \/ Begins(t) \/ Locks(t)
      PROVE  UNCHANGED <<LinesOf(File), Promised>>
  BY <1>2, <1>3 DEF Advances, Begins, BeginLog, Locks, LockLine, File, fileVars
<1>4. CASE Spills
  BY <1>1, <1>2, <1>4, SpillFile DEF Spills, Spill, callVars
<1>5. CASE Rests \/ Start
  BY <1>2, <1>5 DEF Rests, Start, NewProcess, callVars, fileVars, File
<1>6. ASSUME NEW t \in Threads, Returns(t)
      PROVE  Journal!Promise
  <2>1. File' = File /\ returned \subseteq returned'
    BY <1>6 DEF Returns, ReturnLog, fileVars, File
  <2>2. LinesOf(File)' = LinesOf(File) /\ Promised \subseteq Promised'
    BY <1>1, <2>1 DEF LinesOf, Promised
  <2>3. ASSUME NEW l \in Promised' PROVE \E k \in 1..Len(LinesOf(File)) : LinesOf(File)[k] = l
    <3>1. l \in 1..MaxLines /\ HeadIn(File, l)
      <4>1. disk' = disk
        BY <1>6 DEF Returns, ReturnLog, fileVars
      <4>2. flushAlways' /\ l \in returned' /\ HeadIn(disk', l)
        BY <1>1, <2>3 DEF Promised, Saved, HeadIn, LineHead
      <4>3. HeadIn(File, l)
        BY <1>1, <4>1, <4>2, DiskStands
      <4>4. lines' \in Nat /\ lines' <= MaxLines /\ MaxLines \in Nat /\ l \in 1..lines'
        BY <1>1, <4>2, LoggerAssumption DEF CallsOK
      <4> QED BY <4>3, <4>4
    <3> QED BY <1>1, <3>1, LinesOfHas
  <2> QED BY <2>2, <2>3 DEF Journal!Promise
<1>7. ASSUME NEW t \in Threads, Writes(t)
      PROVE  [Journal!Next]_<<LinesOf(File), Promised>>
  <2>1. PICK kind \in {"head", "tail"} :
          call[t].step = kind /\ buffer' = Append(buffer, <<call[t].line, kind>>)
    BY <1>7 DEF Writes, WriteLine, At, LineHead, LineTail
  <2>2. UNCHANGED <<disk, returned>> /\ call[t].line \in 1..MaxLines /\ call[t].line \in Nat
    <3>1. call[t].line \in Nat /\ call[t].line <= lines /\ call[t].line >= 1
      BY <1>1, <2>1 DEF CallsOK, Calls
    <3>2. lines \in Nat /\ lines <= MaxLines /\ MaxLines \in Nat
      BY <1>1, LoggerAssumption DEF CallsOK
    <3> QED BY <1>7, <3>1, <3>2 DEF Writes, WriteLine
  <2> DEFINE token == <<call[t].line, kind>>
  <2>3. token \in Tokens /\ buffer' = Append(buffer, token) /\ disk' = disk
    BY <2>1, <2>2 DEF Tokens
  <2>4. token[1] = call[t].line /\ (token \in Heads <=> kind = "head")
    BY <2>2 DEF Heads, LineHead
  <2> HIDE DEF token
  <2>5. LinesOf(File') = IF token \in Heads THEN Append(LinesOf(File), token[1]) ELSE LinesOf(File)
    <3>1. /\ Len(File') = Len(File) + 1
          /\ \A k \in 1..(Len(File) + 1) : File'[k] = IF k <= Len(File) THEN File[k] ELSE token
      BY <1>1, <2>3, WriteFile
    <3> QED BY <1>1, <3>1, LinesOfGrows
  <2>6. LinesOf(File)' = LinesOf(File') /\ Promised' = Promised
    BY <1>1, <2>2 DEF LinesOf, Promised, Heads, LineHead
  <2>7. CASE kind = "head"
    <3>1. Journal!Write(call[t].line)
      BY <2>4, <2>5, <2>6, <2>7 DEF Journal!Write
    <3> QED BY <2>2, <3>1 DEF Journal!Next
  <2>8. CASE kind = "tail"
    BY <2>4, <2>5, <2>6, <2>8
  <2> QED BY <2>7, <2>8
<1>8. CASE Kill
  <2>1. Len(File') <= Len(File) /\ (\A k \in 1..Len(File') : File'[k] = File[k]) /\ Len(File') \in Nat
    BY <1>1, <1>8, KillFile, FileOf
  <2>2. Leads(LinesOf(File'), LinesOf(File))
    BY <1>1, <2>1, LinesOfCut
  <2>3. LinesOf(File) \in Seq(1..MaxLines) /\ LinesOf(File') \in Seq(1..MaxLines)
    BY <1>1, LinesOfType
  <2> DEFINE n == Len(LinesOf(File'))
  <2>4. n \in 0..Len(LinesOf(File)) /\ LinesOf(File') = SubSeq(LinesOf(File), 1, n)
    BY <2>2, <2>3, LeadsCut
  <2>5. Promised' = Promised
    BY <1>1, <1>8 DEF Promised, Kill, KillProcess, callVars
  <2>6. ASSUME NEW l \in Promised PROVE \E k \in 1..n : LinesOf(File)[k] = l
    <3>1. l \in 1..MaxLines /\ HeadIn(disk, l) /\ File' = disk
      <4>1. disk' = disk /\ buffer' = <<>> /\ disk \in Seq(Tokens)
        BY <1>1, <1>8 DEF Kill, KillProcess, FileOK
      <4> QED BY <1>1, <2>6, <4>1, PromisedStands, ConcatEmptySeq DEF File
    <3>2. PICK k \in 1..Len(LinesOf(File')) : LinesOf(File')[k] = l
      BY <1>1, <3>1, LinesOfHas
    <3> QED BY <2>2, <3>2 DEF Leads
  <2>7. LinesOf(File)' = LinesOf(File')
    BY DEF LinesOf, Heads, LineHead
  <2> HIDE DEF n
  <2> QED BY <2>4, <2>5, <2>6, <2>7 DEF Journal!Next, Journal!Crash
<1> QED BY <1>3, <1>4, <1>5, <1>6, <1>7, <1>8, StepKinds DEF Journal!Next

(* robot.log is what LogFile promises: it only grows, from one process to  *)
(* the next, and with flush_always no kill loses a line whose log() has    *)
(* returned; for any number of threads, lines and kills.                   *)
THEOREM FileIsAJournal == Spec => IsAJournal
<1>1. Init => Saved
  <2> SUFFICES ASSUME Init PROVE Saved
    OBVIOUS
  <2>1. returned = {} /\ \A t \in Threads : call[t].step = "idle"
    BY DEF Init, LoggerInit, NoCall
  <2> QED BY <2>1 DEF Saved
<1>2. ExitInv /\ Saved /\ [Next]_vars => Saved'
  BY SavedKept
<1>3. Init => Journal!Init
  <2> SUFFICES ASSUME Init PROVE LinesOf(File) = <<>> /\ Promised = {}
    BY DEF Journal!Init
  <2>1. File = <<>> /\ returned = {}
    BY DEF Init, LoggerInit, File
  <2>2. Kept(<<>>, Heads) = <<>>
    BY KeptNone
  <2>3. LinesOf(File) = <<>>
    BY <2>1, <2>2 DEF LinesOf
  <2> QED BY <2>1, <2>3 DEF Promised
<1>4. JournalInv /\ JournalInv' /\ [Next]_vars => [Journal!Next]_<<LinesOf(File), Promised>>
  BY JournalStep
<1>5. ExitInv /\ Saved <=> JournalInv
  BY DEF JournalInv
<1> QED BY <1>1, <1>2, <1>3, <1>4, <1>5, ExitInvHolds, PTL DEF Spec, IsAJournal, Journal!Spec
=============================================================================
