---------------------------- MODULE CommandBridge ----------------------------
(***************************************************************************)
(* The two files between the clients of the Rust API and the core:         *)
(* commands.in, which Iceoryx2Transport::send_command appends to and       *)
(* Iceoryx2Bridge::pump_rx reads; telemetry.out, which the control and     *)
(* sensor threads append to and Iceoryx2Transport::drain_lines reads.      *)
(*                                                                         *)
(* A file is a sequence of tokens.  One write is atomic; writeln! makes    *)
(* two, the line and its newline.  The first byte of a command line is a   *)
(* token of its own, because a reader can step over it.                    *)
(***************************************************************************)
EXTENDS Naturals, Sequences, FiniteSets, Filter

CONSTANTS
  Clients,
  Commands,         \* ids; each is sent once
  Empty,            \* the commands with an empty payload
  Stopping,         \* those whose handler asks for the end of the process
  Timed,            \* those with a time to live
  Wedging,          \* those whose handler may never return
  MaxQueue,         \* CommandRouterConfig.max_queue
  MaxBatch,         \* max_n of process_some in control_thread
  LongFrames,       \* whether a T line is longer than the stream's buffer
  MaxFrames,        \* bound: telemetry frames
  MaxRestarts,      \* bound: restarts of the core
  MaxClientFaults,  \* bound: clients that die, or cannot write a newline
  Unpublishable     \* bound: commands whose result may fail to be written

ASSUME BridgeAssumption ==
  /\ "none" \notin Commands
  /\ Empty \subseteq Commands /\ Stopping \subseteq Commands
  /\ Timed \subseteq Commands /\ Wedging \subseteq Commands
  /\ MaxQueue \in Nat \ {0} /\ MaxBatch \in Nat \ {0} /\ MaxFrames \in Nat
  /\ LongFrames \in BOOLEAN
  /\ MaxRestarts \in Nat /\ MaxClientFaults \in Nat /\ Unpublishable \subseteq Commands

VARIABLES
  commandsIn,       \* commands.in
  telemetryOut,     \* telemetry.out
  sent,             \* the commands written, in order
  sending,          \* the command whose newline a client has yet to write
  offset,           \* command_offset_
  parsed,           \* the commands pump_rx got, in this life of the core
  q,                \* the router's queue
  batch,            \* iterations process_some may still do
  stoppedBy,        \* the command that asked this life to end, or NoCommand
  up,               \* whether the core runs
  stale,            \* commands whose time to live has passed
  unpublished,      \* commands whose result could not be written, ever
  framing,          \* whether the sensor thread has written half a T line
  frames,
  telemetryOffset,  \* telemetry_offset of each client
  results,          \* the results each client has polled
  restarts, faults

clientVars == <<sending, telemetryOffset, results, faults>>
runVars    == <<batch, stoppedBy, up, stale, unpublished>>
coreVars   == <<offset, parsed, q, runVars, restarts>>
frameVars  == <<framing, frames>>
vars == <<commandsIn, telemetryOut, sent, clientVars, coreVars, frameVars>>

NoCommand == "none"

Newline == <<"newline">>
First(c) == <<c, "first">>
Rest(c)  == <<c, "rest">>

Init ==
  /\ commandsIn = <<>> /\ telemetryOut = <<>> /\ sent = <<>>
  /\ sending = [k \in Clients |-> NoCommand]
  /\ offset = 0 /\ parsed = <<>> /\ q = <<>>
  /\ batch = 0 /\ stoppedBy = NoCommand /\ up = TRUE
  /\ stale = {} /\ unpublished = {}
  /\ framing = FALSE /\ frames = 0
  /\ telemetryOffset = [k \in Clients |-> 0]
  /\ results = [k \in Clients |-> <<>>]
  /\ restarts = 0 /\ faults = 0

(* The tokens of a file from an offset up to the newline, or to the end.   *)
LineAt(file, from) ==
  LET ends == {i \in (from + 1)..Len(file) : file[i] = Newline} IN
  SubSeq(file, from + 1,
         IF ends = {} THEN Len(file)
         ELSE (CHOOSE i \in ends : \A j \in ends : i <= j) - 1)

-----------------------------------------------------------------------------
(* Clients. *)

Sent == {sent[i] : i \in 1..Len(sent)}

(* send_command: writeln! writes the line ...                              *)
BeginSend(k, c) ==
  /\ sending[k] = NoCommand /\ c \notin Sent
  /\ commandsIn' = commandsIn \o <<First(c), Rest(c)>>
  /\ sent' = Append(sent, c)
  /\ sending' = [sending EXCEPT ![k] = c]
  /\ UNCHANGED <<telemetryOut, telemetryOffset, results, faults, coreVars, frameVars>>

(* ... and then the newline.                                               *)
EndSend(k) ==
  /\ sending[k] # NoCommand
  /\ commandsIn' = Append(commandsIn, Newline)
  /\ sending' = [sending EXCEPT ![k] = NoCommand]
  /\ UNCHANGED <<telemetryOut, sent, telemetryOffset, results, faults, coreVars, frameVars>>

(* ... which fails: send_command returns the error and the client lives on,*)
(* its line left without a newline.                                        *)
FailSend(k) ==
  /\ sending[k] # NoCommand
  /\ faults < MaxClientFaults /\ faults' = faults + 1
  /\ sending' = [sending EXCEPT ![k] = NoCommand]
  /\ UNCHANGED <<commandsIn, telemetryOut, sent, telemetryOffset, results, coreVars, frameVars>>

(* A client process dies; its successor reads telemetry.out from the start.*)
ClientDies(k) ==
  /\ faults < MaxClientFaults /\ faults' = faults + 1
  /\ sending' = [sending EXCEPT ![k] = NoCommand]
  /\ telemetryOffset' = [telemetryOffset EXCEPT ![k] = 0]
  /\ results' = [results EXCEPT ![k] = <<>>]
  /\ UNCHANGED <<commandsIn, telemetryOut, sent, coreVars, frameVars>>

(* drain_lines: one read_line, which also returns a line that has no       *)
(* newline yet and counts exactly the bytes it read; only a line that is a *)
(* whole R line becomes a result.                                          *)
Took(k, line) ==
  /\ telemetryOffset[k] < Len(telemetryOut)
  /\ results' = IF Len(line) = 1 /\ line[1][1] = "R"
                THEN [results EXCEPT ![k] = Append(@, line[1][2])] ELSE results
  /\ UNCHANGED <<commandsIn, telemetryOut, sent, sending, faults, coreVars, frameVars>>

ReadTelemetry_FramesOnly(k) ==   \* mutant: counts the bytes of T lines only
  LET line == LineAt(telemetryOut, telemetryOffset[k]) IN
  /\ Took(k, line)
  /\ telemetryOffset' = [telemetryOffset EXCEPT ![k] =
       IF line # <<>> /\ line[1][1] = "T" THEN @ + Len(line) ELSE @]

ReadTelemetry(k) ==
  LET line == LineAt(telemetryOut, telemetryOffset[k])
      next == telemetryOffset[k] + Len(line) IN
  /\ Took(k, line)
  /\ telemetryOffset' = [telemetryOffset EXCEPT ![k] =
                           IF next < Len(telemetryOut) THEN next + 1 ELSE next]

ClientStep(k) ==
  \/ (\E c \in Commands : BeginSend(k, c))
  \/ EndSend(k) \/ FailSend(k) \/ ReadTelemetry(k) \/ ClientDies(k)

-----------------------------------------------------------------------------
(* The core. *)

(* pump_rx, one turn of its loop: the line must begin with "C|" and have   *)
(* nine parts, which a line with an empty payload has not; a second        *)
(* command on the line spoils the payload but not the rest.  submit's      *)
(* result is ignored.                                                      *)
Pumped(line) ==
  LET c  == line[1][1]
      ok == /\ Len(line) >= 2
            /\ line[1] = First(c) /\ (c \notin Empty \/ Len(line) > 2) IN
  /\ up /\ offset < Len(commandsIn)
  /\ IF ok
     THEN /\ parsed' = Append(parsed, [cmd |-> c, whole |-> Len(line) = 2])
          /\ q' = IF Len(q) >= MaxQueue THEN q ELSE Append(q, c)
     ELSE UNCHANGED <<parsed, q>>
  /\ UNCHANGED <<commandsIn, telemetryOut, sent, runVars, restarts, clientVars, frameVars>>

ReadLine_KeepPartial ==   \* mutant: moves on only over a newline
  LET line == LineAt(commandsIn, offset) IN
  /\ Pumped(line)
  /\ offset' = IF offset + Len(line) < Len(commandsIn) THEN offset + Len(line) + 1
               ELSE offset

ReadLine_CountCr ==   \* mutant: counts two bytes for the end of a line
  LET line == LineAt(commandsIn, offset) IN
  Pumped(line) /\ offset' = offset + Len(line) + 2

ReadLine ==
  LET line == LineAt(commandsIn, offset) IN
  Pumped(line) /\ offset' = offset + Len(line) + 1

(* control_thread: a batch of process_some, unless stop is requested.      *)
BeginBatch ==
  /\ up /\ batch = 0 /\ stoppedBy = NoCommand
  /\ batch' = MaxBatch
  /\ UNCHANGED <<stoppedBy, up, stale, unpublished, offset, parsed, q, restarts>>
  /\ UNCHANGED <<commandsIn, telemetryOut, sent, clientVars, frameVars>>

EndBatch ==
  /\ up /\ batch > 0 /\ q = <<>>
  /\ batch' = 0
  /\ UNCHANGED <<stoppedBy, up, stale, unpublished, offset, parsed, q, restarts>>
  /\ UNCHANGED <<commandsIn, telemetryOut, sent, clientVars, frameVars>>

(* A command is popped, runs and is answered; one that is stale is answered*)
(* too, without running.  (One whose handler does not return stays at the  *)
(* head of q here.)                                                        *)
Answer(c) ==
  /\ up /\ batch > 0 /\ batch' = batch - 1
  /\ stoppedBy' = IF stoppedBy = NoCommand /\ c \in Stopping \ stale THEN c ELSE stoppedBy
  /\ UNCHANGED <<commandsIn, sent, offset, parsed, up, stale, restarts, clientVars, frameVars>>

(* publish_command_result: one write of an R line, or none when            *)
(* telemetry.out cannot be opened; the control thread ignores which.       *)
PublishResult(c) ==
  \/ /\ telemetryOut' = telemetryOut \o << <<"R", c>>, Newline >>
     /\ UNCHANGED unpublished
  \/ /\ c \in Unpublishable
     /\ unpublished' = unpublished \cup {c}
     /\ UNCHANGED telemetryOut

Execute_SkipStale ==   \* mutant: a command that is stale is only dropped
  /\ q # <<>> /\ Answer(Head(q))
  /\ q' = Tail(q)
  /\ IF Head(q) \in stale THEN UNCHANGED <<telemetryOut, unpublished>>
     ELSE PublishResult(Head(q))

Execute_Back ==   \* mutant: takes the back of the queue
  /\ q # <<>> /\ Answer(q[Len(q)])
  /\ q' = SubSeq(q, 1, Len(q) - 1)
  /\ PublishResult(q[Len(q)])

Execute ==
  /\ q # <<>> /\ Answer(Head(q))
  /\ q' = Tail(q)
  /\ PublishResult(Head(q))

(* The threads leave their loops, main joins them, the process ends; what  *)
(* is queued stays behind.                                                 *)
Exit ==
  /\ up /\ stoppedBy # NoCommand /\ batch = 0
  /\ up' = FALSE
  /\ UNCHANGED <<batch, stoppedBy, stale, unpublished, offset, parsed, q, restarts>>
  /\ UNCHANGED <<commandsIn, telemetryOut, sent, clientVars, frameVars>>

GrowStale ==
  /\ \E c \in Timed \ stale : stale' = stale \cup {c}
  /\ UNCHANGED <<batch, stoppedBy, up, unpublished, offset, parsed, q, restarts>>
  /\ UNCHANGED <<commandsIn, telemetryOut, sent, clientVars, frameVars>>

(* The sensor thread's publish_telemetry: one write, or two for a frame    *)
(* the stream's buffer cannot hold.                                        *)
PublishFrame ==
  /\ up
  /\ \/ /\ ~framing /\ frames < MaxFrames
        /\ frames' = frames + 1
        /\ telemetryOut' = telemetryOut \o
             (IF LongFrames THEN << <<"T">> >> ELSE << <<"T">>, Newline >>)
        /\ framing' = LongFrames
     \/ /\ framing
        /\ telemetryOut' = telemetryOut \o << <<"t">>, Newline >>
        /\ framing' = FALSE
        /\ UNCHANGED frames
  /\ UNCHANGED <<commandsIn, sent, clientVars, coreVars>>

(* A process that ended, or is killed now, is started again: the queue is  *)
(* gone, command_offset_ is 0, and init keeps the files it finds.          *)
Reborn(from) ==
  /\ restarts < MaxRestarts /\ restarts' = restarts + 1
  /\ offset' = from /\ parsed' = <<>> /\ q' = <<>> /\ framing' = FALSE
  /\ batch' = 0 /\ stoppedBy' = NoCommand /\ up' = TRUE
  /\ UNCHANGED <<commandsIn, telemetryOut, sent, stale, unpublished, frames, clientVars>>

Restart_KeepOffset == Reborn(offset)   \* mutant: goes on where it was

Restart == Reborn(0)

Next ==
  \/ \E k \in Clients : ClientStep(k)
  \/ ReadLine \/ BeginBatch \/ Execute \/ EndBatch \/ Exit
  \/ PublishFrame \/ GrowStale \/ Restart

Spec == Init /\ [][Next]_vars

(* The control thread has reached a command whose handler may never return.*)
Wedged == batch > 0 /\ q # <<>> /\ Head(q) \in Wedging \ stale

(* While the core runs and no handler keeps it, io_thread pumps and        *)
(* control_thread drains until a stop is requested, and then it exits; a   *)
(* client that has begun a line ends it, and polls.                        *)
FairSpec ==
  /\ Spec
  /\ WF_vars(~Wedged /\ ReadLine)
  /\ WF_vars(~Wedged /\ (BeginBatch \/ Execute \/ EndBatch \/ Exit))
  /\ \A k \in Clients : WF_vars(EndSend(k)) /\ WF_vars(ReadTelemetry(k))

-----------------------------------------------------------------------------
(* Properties *)

CommandTokens == {Newline} \cup {First(c) : c \in Commands} \cup {Rest(c) : c \in Commands}
TelemetryTokens == {Newline, <<"T">>, <<"t">>} \cup {<<"R", c>> : c \in Commands}

TypeOK ==
  /\ commandsIn \in Seq(CommandTokens) /\ telemetryOut \in Seq(TelemetryTokens)
  /\ sent \in Seq(Commands)
  /\ sending \in [Clients -> Commands \cup {NoCommand}]
  /\ offset \in 0..(Len(commandsIn) + 1)
  /\ parsed \in Seq([cmd : Commands, whole : BOOLEAN])
  /\ q \in Seq(Commands) /\ Len(q) <= MaxQueue
  /\ batch \in 0..MaxBatch /\ stoppedBy \in Stopping \cup {NoCommand}
  /\ up \in BOOLEAN /\ stale \subseteq Timed /\ unpublished \subseteq Unpublishable
  /\ framing \in BOOLEAN
  /\ telemetryOffset \in [Clients -> Nat] /\ results \in [Clients -> Seq(Commands)]
  /\ \A k \in Clients : telemetryOffset[k] <= Len(telemetryOut)

(* With one client that ends every line it begins (it neither dies before  *)
(* the newline nor fails to write it), commands.in is a CommandChannel for *)
(* the commands that have a payload, although pump_rx reads lines whose    *)
(* newline is yet to come.                                                 *)
WithPayload == Commands \ Empty
Delivered == [i \in 1..Len(parsed) |-> parsed[i].cmd]
Channel == INSTANCE CommandChannel WITH
  sent <- Kept(sent, WithPayload), delivered <- Delivered
IsAChannel == Channel!Spec

(* Two writers, one that died or one that could not write its newline can  *)
(* damage a command: but only one whose line was appended right behind     *)
(* another line that had no newline yet is ever lost, and only one with    *)
(* such a line behind it loses its payload.                                *)
PositionOf(c) == CHOOSE i \in 1..Len(commandsIn) : commandsIn[i] = First(c)
Behind(c) == PositionOf(c) > 1 /\ commandsIn[PositionOf(c) - 1] # Newline
Before(c) == Len(commandsIn) > PositionOf(c) + 1 /\ commandsIn[PositionOf(c) + 2] # Newline

DamageNeedsRace ==
  /\ \A c \in Sent \ Empty :
       offset >= PositionOf(c) /\ (\A i \in 1..Len(parsed) : parsed[i].cmd # c) => Behind(c)
  /\ \A i \in 1..Len(parsed) : ~parsed[i].whole => Before(parsed[i].cmd)

(* In one life of the core no command is submitted twice, or without       *)
(* having been sent.                                                       *)
SubmittedOnce ==
  /\ \A i \in 1..Len(parsed) : parsed[i].cmd \in Sent
  /\ \A i, j \in 1..Len(parsed) : parsed[i].cmd = parsed[j].cmd => i = j

(* A client polls the results the core has published, all of them and in   *)
(* order, as far as it has read.                                           *)
ResultsAt == {i \in 1..Len(telemetryOut) : telemetryOut[i][1] = "R"}
UpTo(n) == {i \in ResultsAt : i <= n}
ResultsInOrder ==
  \A k \in Clients :
    /\ Len(results[k]) = Cardinality(UpTo(telemetryOffset[k]))
    /\ \A i \in UpTo(telemetryOffset[k]) :
         results[k][Cardinality(UpTo(i))] = telemetryOut[i][2]

(* Results can be lost between two halves of a long frame, but a client    *)
(* never polls more results of a command than the core has published.      *)
Times(c, s) == Cardinality({i \in 1..Len(s) : s[i] = c})
ResultsAreGenuine ==
  \A k \in Clients, c \in Commands :
    Times(c, results[k]) <= Times(<<"R", c>>, telemetryOut)

(* A command reaches the core.                                             *)
SentDelivered ==
  \A c \in Commands :
    c \in Sent ~> \E i \in 1..Len(parsed) : parsed[i].cmd = c

(* The queue has room for the first max_queue commands of commands.in      *)
(* however fast they are read: after a restart pump_rx reads the whole     *)
(* file in one loop.  A later one may be refused, and nobody is told.      *)
SentAt(c) == CHOOSE i \in 1..Len(sent) : sent[i] = c
Early(c) == Cardinality({i \in 1..(SentAt(c) - 1) : sent[i] \notin Empty}) < MaxQueue

(* Each client polls the answer, an acknowledgement or a rejection, of     *)
(* every command that has a payload and is among the first max_queue, a    *)
(* restart in between or not, unless the core ends, a handler keeps its    *)
(* control thread, or telemetry.out could not be opened for that answer.   *)
PayloadAnswered ==
  \A c \in Commands \ Empty, k \in Clients :
    c \in Sent /\ Early(c) ~>
      \/ \E i \in 1..Len(results[k]) : results[k][i] = c
      \/ ~up \/ Wedged \/ c \in unpublished

(* A core that stops leaves no command in its queue that was sent before   *)
(* the one that stopped it: those it has not answered came later.          *)
LeftBehind ==
  ~up => \A i \in 1..Len(q) : SentAt(q[i]) > SentAt(stoppedBy)

(* commands.in is read again from its start: a Shutdown that has no time   *)
(* to live and is among its first max_queue commands ends not only the life*)
(* it was sent in but every later one that a handler does not keep.        *)
ShutdownRepeats ==
  \A c \in Stopping \ (Timed \cup Empty \cup Wedging) :
    c \in Sent /\ Early(c) /\ up ~> ~up \/ Wedged
=============================================================================
