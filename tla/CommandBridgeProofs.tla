------------------------ MODULE CommandBridgeProofs ------------------------
(***************************************************************************)
(* What the two files keep and lose, for any number of clients and         *)
(* commands, restarts, faults and frames, and any queue and batch bound.   *)
(***************************************************************************)
EXTENDS CommandBridge, DataLemmas, FiniteSetTheorems

(* Where the first byte of command c stands in commands.in.                *)
Placed(p, c) == p \in 1..Len(commandsIn) /\ commandsIn[p] = First(c)
Places == 1..Len(commandsIn)

(* Each command sent has one line in commands.in, and the lines stand in   *)
(* the order in which they were sent.                                      *)
CommandsPlaced ==
  /\ \A c \in Sent : \E p \in Places : Placed(p, c)
  /\ \A c \in Commands, p \in Places :
       Placed(p, c) => c \in Sent /\ p < Len(commandsIn) /\ commandsIn[p + 1] = Rest(c)
  /\ \A c \in Commands, p, r \in Places : Placed(p, c) /\ Placed(r, c) => p = r
  /\ \A i, j \in 1..Len(sent), p, r \in Places :
       i < j /\ Placed(p, sent[i]) /\ Placed(r, sent[j]) => p < r

(* pump_rx stands behind the end of the file only after a line that had no *)
(* newline.                                                                *)
ReadAhead ==
  offset = Len(commandsIn) + 1 =>
    Len(commandsIn) > 0 /\ commandsIn[Len(commandsIn)] # Newline

ParsedBehind ==
  \A i \in 1..Len(parsed) : \E p \in Places : Placed(p, parsed[i].cmd) /\ p <= offset

(* DamageNeedsRace, place by place.                                        *)
LostBehind ==
  \A c \in Sent \ Empty, p \in Places :
    /\ Placed(p, c) /\ p <= offset
    /\ \A i \in 1..Len(parsed) : parsed[i].cmd # c
    => p > 1 /\ commandsIn[p - 1] # Newline
SpoiltBefore ==
  \A i \in 1..Len(parsed), p \in Places :
    ~parsed[i].whole /\ Placed(p, parsed[i].cmd)
    => Len(commandsIn) > p + 1 /\ commandsIn[p + 2] # Newline

(* The queue is in the order of the file, behind the command that stops.   *)
QueuePlaced ==
  /\ \A i \in 1..Len(q) : \E p \in Places : Placed(p, q[i]) /\ p <= offset
  /\ \A i, j \in 1..Len(q), p, r \in Places :
       i < j /\ Placed(p, q[i]) /\ Placed(r, q[j]) => p < r
StopPlaced ==
  /\ ~up => stoppedBy # NoCommand
  /\ stoppedBy # NoCommand =>
       \E p \in Places : /\ Placed(p, stoppedBy) /\ p <= offset
                         /\ \A i \in 1..Len(q), r \in Places : Placed(r, q[i]) => p < r

BridgeInv ==
  /\ CommandsPlaced /\ ReadAhead /\ ParsedBehind /\ SubmittedOnce
  /\ LostBehind /\ SpoiltBefore /\ QueuePlaced /\ StopPlaced

-----------------------------------------------------------------------------
(* Numbers, sequences and tokens *)

LEMMA LeastOf ==
  ASSUME NEW S \in SUBSET Nat, S # {}
  PROVE  \E n \in S : \A m \in S : n <= m
<1>1. PICK R : R = OpToRel(<, Nat)
  OBVIOUS
<1>2. \A x, y \in Nat : <<y, x>> \in R <=> y < x
  BY <1>1 DEF OpToRel
<1>3. IsWellFoundedOn(R, Nat)
  BY <1>1, NatLessThanWellFounded
<1>4. PICK x \in S : \A y \in S : ~ (<<y, x>> \in R)
  BY <1>3, WFMin, Zenon
<1>5. \A m \in S : x <= m
  <2> TAKE m \in S
  <2>1. x \in Nat /\ m \in Nat
    OBVIOUS
  <2>2. ~ (<<m, x>> \in R)
    BY <1>4
  <2>3. ~ (m < x)
    BY <1>2, <2>1, <2>2, Zenon
  <2> QED BY <2>1, <2>3
<1> QED BY <1>5

LEMMA AddTwo ==
  ASSUME NEW S, NEW s \in Seq(S), NEW a \in S, NEW b \in S
  PROVE  /\ s \o <<a, b>> \in Seq(S)
         /\ Len(s \o <<a, b>>) = Len(s) + 2
         /\ \A i \in 1..Len(s) : (s \o <<a, b>>)[i] = s[i]
         /\ (s \o <<a, b>>)[Len(s) + 1] = a
         /\ (s \o <<a, b>>)[Len(s) + 2] = b
<1>1. <<a, b>> \in Seq(S) /\ Len(<<a, b>>) = 2
  OBVIOUS
<1>2. Len(s) \in Nat
  OBVIOUS
<1> QED BY <1>1, <1>2, ConcatProperties

LEMMA AddOne ==
  ASSUME NEW S, NEW s \in Seq(S), NEW a \in S
  PROVE  /\ s \o <<a>> = Append(s, a)
         /\ Append(s, a) \in Seq(S)
         /\ Len(Append(s, a)) = Len(s) + 1
         /\ \A i \in 1..Len(s) : Append(s, a)[i] = s[i]
         /\ Append(s, a)[Len(s) + 1] = a
BY AppendProperties, AppendIsConcat

LEMMA TokensDiffer ==
  \A c, d :
    /\ First(c) # Newline /\ Rest(c) # Newline /\ First(c) # Rest(d)
    /\ First(c) = First(d) => c = d
    /\ Rest(c) # First(d) /\ <<"R", c>> # Newline
    /\ First(c)[1] = c
BY DEF First, Rest, Newline

(* A line goes from an offset up to a newline, or to the end of the file.  *)
Stops(S, file, from, m) ==
  /\ LineAt(file, from) \in Seq(S) /\ Len(LineAt(file, from)) = m - from
  /\ \A i \in 1..(m - from) :
       LineAt(file, from)[i] = file[from + i] /\ file[from + i] # Newline
  /\ m < Len(file) => file[m + 1] = Newline

LEMMA LineAtStops ==
  ASSUME NEW S, NEW file \in Seq(S), NEW from \in Nat, from <= Len(file)
  PROVE  \E m \in from..Len(file) : Stops(S, file, from, m)
<1> DEFINE ends == {i \in (from + 1)..Len(file) : file[i] = Newline}
           least == CHOOSE i \in ends : \A j \in ends : i <= j
           m == IF ends = {} THEN Len(file) ELSE least - 1
<1>1. Len(file) \in Nat
  OBVIOUS
<1>2. LineAt(file, from) = SubSeq(file, from + 1, m)
  BY DEF LineAt
<1>3. m \in from..Len(file) /\ (m < Len(file) => file[m + 1] = Newline)
      /\ \A i \in (from + 1)..m : file[i] # Newline
  <2>1. CASE ends = {}
    BY <1>1, <2>1
  <2>2. CASE ends # {}
    <3>1. ends \in SUBSET Nat
      BY <1>1
    <3>2. \E i \in ends : \A j \in ends : i <= j
      BY <2>2, <3>1, LeastOf
    <3>3. least \in ends /\ \A j \in ends : least <= j
      BY <3>2, Zenon
    <3> HIDE DEF least
    <3> QED BY <1>1, <2>2, <3>3
  <2> QED BY <2>1, <2>2
<1> HIDE DEF ends, m
<1>4. \A i \in (from + 1)..m : file[i] \in S
  BY <1>1, <1>3
<1>5. /\ SubSeq(file, from + 1, m) \in Seq(S)
      /\ Len(SubSeq(file, from + 1, m)) = IF from + 1 <= m THEN m - (from + 1) + 1 ELSE 0
      /\ \A i \in 1..(m - (from + 1) + 1) :
           SubSeq(file, from + 1, m)[i] = file[from + 1 + i - 1]
  BY <1>3, <1>4, SubSeqProperties
<1>6. \A i \in 1..(m - from) : from + i \in (from + 1)..m /\ from + 1 + i - 1 = from + i
  BY <1>1, <1>3
<1> QED BY <1>1, <1>2, <1>3, <1>5, <1>6 DEF Stops
-----------------------------------------------------------------------------
(* Types *)

LEMMA BridgeTypeInit == Init => TypeOK
<1> SUFFICES ASSUME Init PROVE TypeOK
  OBVIOUS
<1> USE BridgeAssumption DEF Init
<1>1. \A S : <<>> \in Seq(S) /\ Len(<<>>) = 0
  OBVIOUS
<1>2. /\ telemetryOffset \in [Clients -> Nat] /\ results \in [Clients -> Seq(Commands)]
      /\ \A k \in Clients : telemetryOffset[k] <= Len(telemetryOut)
  BY <1>1
<1>3. sending \in [Clients -> Commands \cup {NoCommand}]
  OBVIOUS
<1>4. offset \in 0..(Len(commandsIn) + 1) /\ Len(q) <= MaxQueue /\ batch \in 0..MaxBatch
  BY <1>1
<1>5. /\ commandsIn \in Seq(CommandTokens) /\ telemetryOut \in Seq(TelemetryTokens)
      /\ sent \in Seq(Commands) /\ q \in Seq(Commands)
      /\ parsed \in Seq([cmd : Commands, whole : BOOLEAN])
  BY <1>1
<1>6. /\ stoppedBy \in Stopping \cup {NoCommand} /\ up \in BOOLEAN /\ stale \subseteq Timed
      /\ framing \in BOOLEAN
  OBVIOUS
<1> QED BY <1>2, <1>3, <1>4, <1>5, <1>6, Zenon DEF TypeOK

LEMMA ReadLineType == TypeOK /\ ReadLine => TypeOK'
<1> SUFFICES ASSUME TypeOK, ReadLine PROVE TypeOK'
  OBVIOUS
<1> USE BridgeAssumption
<1> DEFINE line == LineAt(commandsIn, offset)
<1>1. /\ Pumped(line) /\ offset' = offset + Len(line) + 1
  BY DEF ReadLine
<1> HIDE DEF line
<1>2. offset \in Nat /\ offset < Len(commandsIn) /\ commandsIn \in Seq(CommandTokens)
      /\ Len(commandsIn) \in Nat
  BY <1>1 DEF Pumped, TypeOK
<1>p. PICK m \in offset..Len(commandsIn) : Stops(CommandTokens, commandsIn, offset, m)
  BY <1>2, LineAtStops
<1>3. line \in Seq(CommandTokens) /\ Len(line) = m - offset
  BY <1>p DEF Stops, line
<1>4. offset' \in 0..(Len(commandsIn) + 1)
  BY <1>1, <1>2, <1>3
<1>5. UNCHANGED <<commandsIn, telemetryOut, sent, batch, stoppedBy, up, stale, unpublished,
                  sending, telemetryOffset, results, framing>>
  BY <1>1 DEF Pumped, runVars, clientVars, frameVars
<1>6. /\ parsed' \in Seq([cmd : Commands, whole : BOOLEAN])
      /\ q' \in Seq(Commands) /\ Len(q') <= MaxQueue
  <2> DEFINE c == line[1][1]
  <2>1. CASE Len(line) >= 2 /\ line[1] = First(c) /\ (c \notin Empty \/ Len(line) > 2)
    <3>1. line[1] \in CommandTokens
      BY <1>3, <2>1
    <3>2. c \in Commands
      BY <2>1, <3>1, TokensDiffer DEF CommandTokens
    <3>3. /\ parsed' = Append(parsed, [cmd |-> c, whole |-> Len(line) = 2])
          /\ q' = IF Len(q) >= MaxQueue THEN q ELSE Append(q, c)
      BY <1>1, <2>1 DEF Pumped
    <3> QED BY <3>2, <3>3 DEF TypeOK
  <2>2. CASE ~ (Len(line) >= 2 /\ line[1] = First(c) /\ (c \notin Empty \/ Len(line) > 2))
    BY <1>1, <2>2 DEF Pumped, TypeOK
  <2> QED BY <2>1, <2>2
<1> QED BY <1>4, <1>5, <1>6 DEF TypeOK

LEMMA ReadTelemetryType ==
  ASSUME TypeOK, NEW k \in Clients, ReadTelemetry(k) PROVE TypeOK'
<1> DEFINE line == LineAt(telemetryOut, telemetryOffset[k])
           next == telemetryOffset[k] + Len(line)
<1>1. /\ Took(k, line)
      /\ telemetryOffset' = [telemetryOffset EXCEPT ![k] =
                               IF next < Len(telemetryOut) THEN next + 1 ELSE next]
  BY DEF ReadTelemetry
<1> HIDE DEF line
<1>2. /\ telemetryOffset[k] \in Nat /\ telemetryOffset[k] < Len(telemetryOut)
      /\ telemetryOut \in Seq(TelemetryTokens) /\ Len(telemetryOut) \in Nat
  BY <1>1 DEF Took, TypeOK
<1>p. PICK m \in telemetryOffset[k]..Len(telemetryOut) :
        Stops(TelemetryTokens, telemetryOut, telemetryOffset[k], m)
  BY <1>2, LineAtStops
<1>3. line \in Seq(TelemetryTokens) /\ Len(line) = m - telemetryOffset[k]
  BY <1>p DEF Stops, line
<1>4. next = m
  BY <1>2, <1>3
<1>5. /\ telemetryOffset' \in [Clients -> Nat]
      /\ \A j \in Clients : telemetryOffset'[j] <= Len(telemetryOut)
  <2>1. telemetryOffset \in [Clients -> Nat]
    BY DEF TypeOK
  <2>2. (IF next < Len(telemetryOut) THEN next + 1 ELSE next) \in 0..Len(telemetryOut)
    BY <1>2, <1>4
  <2>3. telemetryOffset'[k] \in 0..Len(telemetryOut)
    BY <1>1, <2>1, <2>2
  <2>4. \A j \in Clients : j # k => telemetryOffset'[j] = telemetryOffset[j]
    BY <1>1, <2>1
  <2>5. telemetryOffset' \in [Clients -> Nat]
    BY <1>1, <1>2, <2>1, <2>2
  <2>6. \A j \in Clients : telemetryOffset[j] <= Len(telemetryOut)
    BY DEF TypeOK
  <2> QED BY <1>2, <2>3, <2>4, <2>5, <2>6
<1>6. results' \in [Clients -> Seq(Commands)]
  <2>1. CASE Len(line) = 1 /\ line[1][1] = "R"
    <3>0. 1 \in 1..Len(line)
      BY <2>1
    <3>1. line[1] \in TelemetryTokens
      BY <1>3, <3>0, ElementOfSeq, Zenon
    <3>2. line[1][2] \in Commands
      BY <2>1, <3>1 DEF TelemetryTokens, Newline
    <3> QED BY <1>1, <2>1, <3>2 DEF Took, TypeOK
  <2>2. CASE ~ (Len(line) = 1 /\ line[1][1] = "R")
    BY <1>1, <2>2 DEF Took, TypeOK
  <2> QED BY <2>1, <2>2
<1>7. UNCHANGED <<commandsIn, telemetryOut, sent, batch, stoppedBy, up, stale, unpublished,
                  sending, offset, parsed, q, framing>>
  BY <1>1 DEF Took, coreVars, runVars, frameVars
<1> QED BY <1>5, <1>6, <1>7 DEF TypeOK

LEMMA BridgeTypeStep == TypeOK /\ [Next]_vars => TypeOK'
<1> SUFFICES ASSUME TypeOK, [Next]_vars PROVE TypeOK'
  OBVIOUS
<1> USE BridgeAssumption DEF clientVars, runVars, coreVars, frameVars
<1>0. \A c \in Commands :
        /\ First(c) \in CommandTokens /\ Rest(c) \in CommandTokens
        /\ <<"R", c>> \in TelemetryTokens
  BY DEF CommandTokens, TelemetryTokens
<1>n. /\ Newline \in CommandTokens /\ Newline \in TelemetryTokens
      /\ <<"T">> \in TelemetryTokens /\ <<"t">> \in TelemetryTokens
  BY DEF CommandTokens, TelemetryTokens
<1>1. ASSUME NEW k \in Clients, NEW c \in Commands, BeginSend(k, c) PROVE TypeOK'
  <2>1. commandsIn' = commandsIn \o <<First(c), Rest(c)>> /\ commandsIn \in Seq(CommandTokens)
    BY <1>1 DEF BeginSend, TypeOK
  <2>0. First(c) \in CommandTokens /\ Rest(c) \in CommandTokens
    BY <1>0
  <2>2. commandsIn' \in Seq(CommandTokens) /\ Len(commandsIn') = Len(commandsIn) + 2
    BY <2>0, <2>1, AddTwo
  <2>3. offset \in 0..(Len(commandsIn') + 1)
    BY <2>1, <2>2 DEF TypeOK
  <2> QED BY <1>1, <2>2, <2>3, SMTT(60) DEF BeginSend, TypeOK
<1>2. ASSUME NEW k \in Clients, EndSend(k) PROVE TypeOK'
  <2>1. commandsIn' = Append(commandsIn, Newline) /\ commandsIn \in Seq(CommandTokens)
    BY <1>2 DEF EndSend, TypeOK
  <2>2. commandsIn' \in Seq(CommandTokens) /\ Len(commandsIn') = Len(commandsIn) + 1
    BY <1>n, <2>1, AddOne
  <2>3. offset \in 0..(Len(commandsIn') + 1)
    BY <2>1, <2>2 DEF TypeOK
  <2> QED BY <1>2, <2>2, <2>3 DEF EndSend, TypeOK
<1>3. ASSUME NEW k \in Clients, ClientDies(k) PROVE TypeOK'
  BY <1>3 DEF ClientDies, TypeOK
<1>12. ASSUME NEW k \in Clients, FailSend(k) PROVE TypeOK'
  BY <1>12 DEF FailSend, TypeOK
<1>4. CASE BeginBatch
  BY <1>4 DEF BeginBatch, TypeOK
<1>5. CASE EndBatch
  BY <1>5 DEF EndBatch, TypeOK
<1>6. CASE Execute
  <2>1. q # <<>> /\ Answer(Head(q)) /\ q' = Tail(q) /\ q \in Seq(Commands)
    BY <1>6 DEF Execute, TypeOK
  <2>2. Head(q) \in Commands /\ q' \in Seq(Commands) /\ Len(q') = Len(q) - 1
    BY <2>1
  <2>3. PublishResult(Head(q)) /\ telemetryOut \in Seq(TelemetryTokens)
        /\ unpublished' \subseteq Unpublishable
    BY <1>6 DEF Execute, PublishResult, TypeOK
  <2>4. telemetryOut' \in Seq(TelemetryTokens) /\ Len(telemetryOut') >= Len(telemetryOut)
    <3>1. CASE telemetryOut' = telemetryOut \o << <<"R", Head(q)>>, Newline >>
      BY <1>0, <1>n, <2>2, <2>3, <3>1, AddTwo
    <3>2. CASE telemetryOut' = telemetryOut
      BY <2>3, <3>2
    <3> QED BY <2>3, <3>1, <3>2 DEF PublishResult
  <2>5. \A k \in Clients : telemetryOffset[k] <= Len(telemetryOut')
    BY <2>3, <2>4 DEF TypeOK
  <2>6. Len(q') <= MaxQueue
    BY <2>1, <2>2 DEF TypeOK
  <2>7. batch' \in 0..MaxBatch /\ stoppedBy' \in Stopping \cup {NoCommand}
    BY <2>1 DEF Answer, TypeOK
  <2> QED BY <2>1, <2>2, <2>3, <2>4, <2>5, <2>6, <2>7 DEF Answer, TypeOK
<1>7. CASE Exit
  BY <1>7 DEF Exit, TypeOK
<1>8. CASE GrowStale
  BY <1>8 DEF GrowStale, TypeOK
<1>9. CASE PublishFrame
  <2>1. telemetryOut \in Seq(TelemetryTokens) /\ Len(telemetryOut) \in Nat
    BY DEF TypeOK
  <2>2. /\ telemetryOut' \in Seq(TelemetryTokens)
        /\ Len(telemetryOut') >= Len(telemetryOut)
    <3>1. CASE telemetryOut' = telemetryOut \o << <<"T">> >>
      BY <1>9, <1>n, <2>1, <3>1, AddOne
    <3>2. CASE telemetryOut' = telemetryOut \o << <<"T">>, Newline >>
      BY <1>9, <1>n, <2>1, <3>2, AddTwo
    <3>3. CASE telemetryOut' = telemetryOut \o << <<"t">>, Newline >>
      BY <1>9, <1>n, <2>1, <3>3, AddTwo
    <3> QED BY <1>9, <3>1, <3>2, <3>3 DEF PublishFrame
  <2>3. \A k \in Clients : telemetryOffset[k] <= Len(telemetryOut')
    BY <2>1, <2>2 DEF TypeOK
  <2>4. framing' \in BOOLEAN
    BY <1>9 DEF PublishFrame
  <2> QED BY <1>9, <2>2, <2>3, <2>4 DEF PublishFrame, TypeOK
<1>10. CASE Restart
  <2>1. /\ offset' = 0 /\ parsed' = <<>> /\ q' = <<>> /\ framing' = FALSE
        /\ batch' = 0 /\ stoppedBy' = NoCommand /\ up' = TRUE
        /\ UNCHANGED <<commandsIn, telemetryOut, sent, stale, unpublished, clientVars>>
    BY <1>10 DEF Restart, Reborn
  <2>2. /\ q' \in Seq(Commands) /\ Len(q') = 0
        /\ parsed' \in Seq([cmd : Commands, whole : BOOLEAN])
    BY <2>1
  <2>3. offset' \in 0..(Len(commandsIn') + 1) /\ Len(q') <= MaxQueue /\ batch' \in 0..MaxBatch
    BY <2>1, <2>2 DEF TypeOK
  <2>4. UNCHANGED <<commandsIn, telemetryOut, sent, stale, unpublished, sending,
                    telemetryOffset, results>>
    BY <2>1
  <2>5. stoppedBy' \in Stopping \cup {NoCommand} /\ up' \in BOOLEAN /\ framing' \in BOOLEAN
    BY <2>1
  <2> QED BY <2>2, <2>3, <2>4, <2>5 DEF TypeOK
<1>11. CASE UNCHANGED vars
  BY <1>11 DEF vars, TypeOK
<1> QED BY <1>1, <1>2, <1>3, <1>4, <1>5, <1>6, <1>7, <1>8, <1>9, <1>10, <1>11, <1>12,
           ReadLineType, ReadTelemetryType DEF Next, ClientStep

(* Each token is one the code writes, no reader runs ahead of the file by  *)
(* more than the newline it took for granted, and the queue keeps its bound.*)
THEOREM BridgeTypeSafe == Spec => []TypeOK
<1>1. TypeOK /\ [Next]_vars => TypeOK'
  BY BridgeTypeStep
<1> QED BY <1>1, BridgeTypeInit, PTL DEF Spec
-----------------------------------------------------------------------------
(* What the steps do to commands.in and to the reader of it *)

LEMMA BeginSendPlaces ==
  ASSUME TypeOK, NEW k \in Clients, NEW c \in Commands, BeginSend(k, c)
  PROVE  /\ Len(commandsIn) \in Nat /\ Len(commandsIn') = Len(commandsIn) + 2
         /\ \A i \in Places : commandsIn'[i] = commandsIn[i]
         /\ commandsIn'[Len(commandsIn) + 2] = Rest(c)
         /\ \A p, d : Placed(p, d)' <=> Placed(p, d) \/ (p = Len(commandsIn) + 1 /\ d = c)
         /\ sent' = Append(sent, c) /\ Sent' = Sent \cup {c} /\ c \notin Sent
         /\ UNCHANGED <<offset, parsed, q, stoppedBy, up>>
<1>1. /\ commandsIn' = commandsIn \o <<First(c), Rest(c)>> /\ commandsIn \in Seq(CommandTokens)
      /\ sent' = Append(sent, c) /\ sent \in Seq(Commands) /\ c \notin Sent
      /\ UNCHANGED <<offset, parsed, q, stoppedBy, up>>
  BY DEF BeginSend, TypeOK, coreVars, runVars
<1>2. First(c) \in CommandTokens /\ Rest(c) \in CommandTokens
  BY DEF CommandTokens
<1>3. /\ Len(commandsIn') = Len(commandsIn) + 2
      /\ \A i \in 1..Len(commandsIn) : commandsIn'[i] = commandsIn[i]
      /\ commandsIn'[Len(commandsIn) + 1] = First(c)
      /\ commandsIn'[Len(commandsIn) + 2] = Rest(c)
      /\ Len(commandsIn) \in Nat
  BY <1>1, <1>2, AddTwo
<1>4. ASSUME NEW p, NEW d
      PROVE  Placed(p, d)' <=> Placed(p, d) \/ (p = Len(commandsIn) + 1 /\ d = c)
  <2>1. CASE p \in 1..Len(commandsIn)
    BY <1>3, <2>1 DEF Placed
  <2>2. CASE p = Len(commandsIn) + 1
    BY <1>3, <2>2, TokensDiffer DEF Placed
  <2>3. CASE p \notin 1..Len(commandsIn) /\ p # Len(commandsIn) + 1
    BY <1>3, <2>3, TokensDiffer DEF Placed
  <2> QED BY <2>1, <2>2, <2>3
<1>5. Sent' = Sent \cup {c}
  <2>1. /\ Len(sent') = Len(sent) + 1 /\ \A i \in 1..Len(sent) : sent'[i] = sent[i]
        /\ sent'[Len(sent) + 1] = c /\ Len(sent) \in Nat
    BY <1>1, AddOne
  <2> QED BY <2>1 DEF Sent
<1> QED BY <1>1, <1>3, <1>4, <1>5 DEF Places

LEMMA EndSendPlaces ==
  ASSUME TypeOK, NEW k \in Clients, EndSend(k)
  PROVE  /\ Len(commandsIn) \in Nat /\ Len(commandsIn') = Len(commandsIn) + 1
         /\ \A i \in Places : commandsIn'[i] = commandsIn[i]
         /\ \A p, d : Placed(p, d)' <=> Placed(p, d)
         /\ UNCHANGED <<sent, offset, parsed, q, stoppedBy, up>>
<1>1. /\ commandsIn' = Append(commandsIn, Newline) /\ commandsIn \in Seq(CommandTokens)
      /\ UNCHANGED <<sent, offset, parsed, q, stoppedBy, up>>
  BY DEF EndSend, TypeOK, coreVars, runVars
<1>2. /\ Len(commandsIn') = Len(commandsIn) + 1 /\ Len(commandsIn) \in Nat
      /\ \A i \in 1..Len(commandsIn) : commandsIn'[i] = commandsIn[i]
      /\ commandsIn'[Len(commandsIn) + 1] = Newline
  BY <1>1, AddOne DEF CommandTokens
<1>3. ASSUME NEW p, NEW d PROVE Placed(p, d)' <=> Placed(p, d)
  <2>1. CASE p \in 1..Len(commandsIn)
    BY <1>2, <2>1 DEF Placed
  <2>2. CASE p \notin 1..Len(commandsIn)
    BY <1>2, <2>2, TokensDiffer DEF Placed
  <2> QED BY <2>1, <2>2
<1> QED BY <1>1, <1>2, <1>3 DEF Places

(* The line pump_rx takes, up to m: a command with all it needs, or none.  *)
Takes(c, m) == Placed(offset + 1, c) /\ m >= offset + 2 /\ (c \notin Empty \/ m > offset + 2)

LEMMA ReadLinePlaces ==
  ASSUME TypeOK, ReadLine
  PROVE  \E m \in offset..Len(commandsIn) :
           /\ offset < Len(commandsIn) /\ offset' = m + 1
           /\ \A i \in (offset + 1)..m : commandsIn[i] # Newline
           /\ m < Len(commandsIn) => commandsIn[m + 1] = Newline
           /\ UNCHANGED <<commandsIn, sent, stoppedBy, up>>
           /\ \/ UNCHANGED <<parsed, q>> /\ \A c \in Commands : ~Takes(c, m)
              \/ \E c \in Commands :
                   /\ Takes(c, m)
                   /\ parsed' = Append(parsed, [cmd |-> c, whole |-> m = offset + 2])
                   /\ q' = q \/ q' = Append(q, c)
<1> DEFINE line == LineAt(commandsIn, offset)
           c == line[1][1]
           ok == Len(line) >= 2 /\ line[1] = First(c) /\ (c \notin Empty \/ Len(line) > 2)
<1>1. Pumped(line) /\ offset' = offset + Len(line) + 1
  BY DEF ReadLine
<1>2. /\ offset \in Nat /\ offset < Len(commandsIn) /\ commandsIn \in Seq(CommandTokens)
      /\ Len(commandsIn) \in Nat
  BY <1>1 DEF Pumped, TypeOK
<1>3. PICK m \in offset..Len(commandsIn) : Stops(CommandTokens, commandsIn, offset, m)
  BY <1>2, LineAtStops
<1>4. /\ line \in Seq(CommandTokens) /\ Len(line) = m - offset
      /\ \A i \in 1..(m - offset) : line[i] = commandsIn[offset + i] /\ commandsIn[offset + i] # Newline
      /\ m < Len(commandsIn) => commandsIn[m + 1] = Newline
  BY <1>3 DEF Stops
<1>5. /\ UNCHANGED <<commandsIn, sent, stoppedBy, up>>
      /\ IF ok THEN /\ parsed' = Append(parsed, [cmd |-> c, whole |-> Len(line) = 2])
                    /\ q' = IF Len(q) >= MaxQueue THEN q ELSE Append(q, c)
         ELSE UNCHANGED <<parsed, q>>
  BY <1>1 DEF Pumped, runVars
<1> HIDE DEF line
<1>6. \A i \in (offset + 1)..m : commandsIn[i] # Newline
  <2> TAKE i \in (offset + 1)..m
  <2>1. i - offset \in 1..(m - offset) /\ offset + (i - offset) = i
    BY <1>2, <1>3
  <2> QED BY <1>4, <2>1
<1>7. offset' = m + 1
  BY <1>1, <1>2, <1>3, <1>4
<1>8. m >= offset + 1 => line[1] = commandsIn[offset + 1]
  BY <1>2, <1>3, <1>4
<1>9. \/ UNCHANGED <<parsed, q>> /\ \A d \in Commands : ~Takes(d, m)
      \/ \E d \in Commands :
           /\ Takes(d, m)
           /\ parsed' = Append(parsed, [cmd |-> d, whole |-> m = offset + 2])
           /\ q' = q \/ q' = Append(q, d)
  <2>1. CASE ok
    <3>1. line[1] \in CommandTokens
      BY <1>4, <2>1
    <3>2. c \in Commands
      BY <2>1, <3>1, TokensDiffer DEF CommandTokens
    <3>3. (Len(line) = 2) = (m = offset + 2)
      BY <1>2, <1>3, <1>4
    <3>4. Takes(c, m)
      BY <1>2, <1>3, <1>4, <1>8, <2>1 DEF Takes, Placed
    <3> QED BY <1>5, <2>1, <3>2, <3>3, <3>4
  <2>2. CASE ~ok
    <3>1. ASSUME NEW d \in Commands, Takes(d, m) PROVE FALSE
      <4>1. line[1] = First(d) /\ Len(line) >= 2 /\ (d \notin Empty \/ Len(line) > 2)
        BY <1>2, <1>3, <1>4, <1>8, <3>1 DEF Takes, Placed
      <4>2. c = d
        BY <4>1, TokensDiffer
      <4> QED BY <2>2, <4>1, <4>2
    <3> QED BY <1>5, <2>2, <3>1
  <2> QED BY <2>1, <2>2
<1> QED BY <1>2, <1>4, <1>5, <1>6, <1>7, <1>9
-----------------------------------------------------------------------------
(* commands.in: placed once and in order, taken once, lost only in a race  *)

LEMMA BridgeInvInit == Init => BridgeInv
BY DEF Init, BridgeInv, CommandsPlaced, ReadAhead, ParsedBehind, SubmittedOnce, LostBehind,
       SpoiltBefore, QueuePlaced, StopPlaced, Places, Sent, NoCommand

LEMMA BeginSendInv ==
  ASSUME TypeOK, BridgeInv, NEW k \in Clients, NEW c \in Commands, BeginSend(k, c)
  PROVE  BridgeInv'
<1> DEFINE n == Len(commandsIn)
<1>1. /\ n \in Nat /\ Len(commandsIn') = n + 2
      /\ \A i \in Places : commandsIn'[i] = commandsIn[i]
      /\ commandsIn'[n + 2] = Rest(c)
      /\ \A p, d : Placed(p, d)' <=> Placed(p, d) \/ (p = n + 1 /\ d = c)
      /\ sent' = Append(sent, c) /\ Sent' = Sent \cup {c} /\ c \notin Sent
      /\ UNCHANGED <<offset, parsed, q, stoppedBy, up>>
  BY BeginSendPlaces
<1>2. Places = 1..n /\ Places' = Places \cup {n + 1, n + 2}
  BY <1>1 DEF Places
<1>3. \A p \in Places : ~Placed(p, c)
  BY <1>1 DEF BridgeInv, CommandsPlaced
<1>4. \A p, d : Placed(p, d) => p \in Places
  BY DEF Placed, Places
<1>5. offset \in 0..(n + 1)
  BY DEF TypeOK
<1>6. CommandsPlaced'
  <2>1. (\A d \in Sent : \E p \in Places : Placed(p, d))'
    BY <1>1, <1>2 DEF BridgeInv, CommandsPlaced
  <2>2. (\A d \in Commands, p \in Places : Placed(p, d) =>
           d \in Sent /\ p < Len(commandsIn) /\ commandsIn[p + 1] = Rest(d))'
    <3> SUFFICES ASSUME NEW d \in Commands, NEW p \in Places', Placed(p, d)'
                 PROVE  d \in Sent' /\ p < n + 2 /\ commandsIn'[p + 1] = Rest(d)
      BY <1>1
    <3>1. CASE Placed(p, d)
      <4>1. p \in Places /\ d \in Sent /\ p < n /\ commandsIn[p + 1] = Rest(d)
        BY <1>4, <3>1 DEF BridgeInv, CommandsPlaced
      <4> QED BY <1>1, <1>2, <4>1
    <3>2. CASE p = n + 1 /\ d = c
      BY <1>1, <3>2
    <3> QED BY <1>1, <3>1, <3>2
  <2>3. (\A d \in Commands, p, r \in Places : Placed(p, d) /\ Placed(r, d) => p = r)'
    BY <1>1, <1>3, <1>4 DEF BridgeInv, CommandsPlaced
  <2>4. (\A i, j \in 1..Len(sent), p, r \in Places :
           i < j /\ Placed(p, sent[i]) /\ Placed(r, sent[j]) => p < r)'
    <3>0. sent \in Seq(Commands)
      BY DEF TypeOK
    <3>1. /\ Len(sent') = Len(sent) + 1 /\ \A i \in 1..Len(sent) : sent'[i] = sent[i]
          /\ sent'[Len(sent) + 1] = c /\ Len(sent) \in Nat
          /\ \A i \in 1..Len(sent) : sent[i] \in Sent
      BY <1>1, <3>0, AddOne DEF Sent
    <3> SUFFICES ASSUME NEW i \in 1..(Len(sent) + 1), NEW j \in 1..(Len(sent) + 1),
                        NEW p \in Places', NEW r \in Places', i < j,
                        NEW d, d = sent'[i], Placed(p, d)', NEW e, e = sent'[j], Placed(r, e)'
                 PROVE  p < r
      BY <3>1 DEF Placed
    <3>2. i \in 1..Len(sent) /\ d = sent[i] /\ d # c
      BY <1>1, <3>1
    <3>3. Placed(p, sent[i]) /\ p \in Places
      BY <1>1, <1>4, <3>2
    <3>4. CASE j = Len(sent) + 1
      BY <1>1, <1>2, <1>3, <1>4, <3>1, <3>3, <3>4
    <3>5. CASE j \in 1..Len(sent)
      <4>1. e = sent[j] /\ e # c
        BY <1>1, <3>1, <3>5
      <4>2. Placed(r, sent[j]) /\ r \in Places
        BY <1>1, <1>4, <4>1
      <4> QED BY <3>2, <3>3, <3>5, <4>2 DEF BridgeInv, CommandsPlaced
    <3> QED BY <3>1, <3>4, <3>5
  <2> QED BY <2>1, <2>2, <2>3, <2>4 DEF CommandsPlaced
<1>7. ReadAhead'
  BY <1>1, <1>5 DEF ReadAhead
<1>8. ParsedBehind' /\ SubmittedOnce'
  BY <1>1, <1>2 DEF BridgeInv, ParsedBehind, SubmittedOnce
<1>9. LostBehind'
  <2> SUFFICES ASSUME NEW d \in Sent' \ Empty, NEW p \in Places', Placed(p, d)', p <= offset,
                      \A i \in 1..Len(parsed) : parsed[i].cmd # d
               PROVE  p > 1 /\ commandsIn'[p - 1] # Newline
    BY <1>1 DEF LostBehind
  <2>1. CASE Placed(p, d)
    <3>1. p \in Places /\ d \in Sent
      BY <1>1, <1>3, <1>4, <2>1
    <3>2. p > 1 /\ commandsIn[p - 1] # Newline
      BY <2>1, <3>1 DEF BridgeInv, LostBehind
    <3> QED BY <1>1, <1>2, <3>1, <3>2
  <2>2. CASE p = n + 1 /\ d = c
    BY <1>1, <1>2, <1>5, <2>2 DEF BridgeInv, ReadAhead
  <2> QED BY <1>1, <2>1, <2>2
<1>10. SpoiltBefore'
  <2> SUFFICES ASSUME NEW i \in 1..Len(parsed), NEW p \in Places',
                      ~parsed[i].whole, Placed(p, parsed[i].cmd)'
               PROVE  n + 2 > p + 1 /\ commandsIn'[p + 2] # Newline
    BY <1>1 DEF SpoiltBefore
  <2>1. parsed[i].cmd # c
    BY <1>3 DEF BridgeInv, ParsedBehind
  <2>2. Placed(p, parsed[i].cmd) /\ p \in Places
    BY <1>1, <1>4, <2>1
  <2>3. n > p + 1 /\ commandsIn[p + 2] # Newline
    BY <2>2 DEF BridgeInv, SpoiltBefore
  <2> QED BY <1>1, <1>2, <2>2, <2>3, SMTT(60)
<1>11. \A i \in 1..Len(q) : q[i] # c
  BY <1>3 DEF BridgeInv, QueuePlaced
<1>12. QueuePlaced'
  BY <1>1, <1>2, <1>4, <1>11, SMTT(60) DEF BridgeInv, QueuePlaced
<1>13. StopPlaced'
  BY <1>1, <1>2, <1>4, <1>11 DEF BridgeInv, StopPlaced
<1> QED BY <1>6, <1>7, <1>8, <1>9, <1>10, <1>12, <1>13 DEF BridgeInv

LEMMA EndSendInv ==
  ASSUME TypeOK, BridgeInv, NEW k \in Clients, EndSend(k) PROVE BridgeInv'
<1> DEFINE n == Len(commandsIn)
<1>1. /\ n \in Nat /\ Len(commandsIn') = n + 1
      /\ \A i \in Places : commandsIn'[i] = commandsIn[i]
      /\ \A p, d : Placed(p, d)' <=> Placed(p, d)
      /\ UNCHANGED <<sent, offset, parsed, q, stoppedBy, up>>
  BY EndSendPlaces
<1>2. Places = 1..n /\ Places' = Places \cup {n + 1}
  BY <1>1 DEF Places
<1>3. \A p, d : Placed(p, d) => p \in Places
  BY DEF Placed, Places
<1>4. offset \in 0..(n + 1)
  BY DEF TypeOK
<1>5. Sent' = Sent
  BY <1>1 DEF Sent
<1>6. CommandsPlaced'
  <2>1. (\A d \in Commands, p \in Places : Placed(p, d) =>
           d \in Sent /\ p < Len(commandsIn) /\ commandsIn[p + 1] = Rest(d))'
    <3> SUFFICES ASSUME NEW d \in Commands, NEW p \in Places, Placed(p, d)
                 PROVE  d \in Sent /\ p < n + 1 /\ commandsIn'[p + 1] = Rest(d)
      BY <1>1, <1>3, <1>5
    <3>1. d \in Sent /\ p < n /\ commandsIn[p + 1] = Rest(d)
      BY DEF BridgeInv, CommandsPlaced
    <3> QED BY <1>1, <1>2, <3>1
  <2> QED BY <1>1, <1>2, <1>3, <1>5, <2>1 DEF BridgeInv, CommandsPlaced
<1>7. ReadAhead'
  BY <1>1, <1>4 DEF ReadAhead
<1>8. ParsedBehind' /\ SubmittedOnce'
  BY <1>1, <1>2, <1>5 DEF BridgeInv, ParsedBehind, SubmittedOnce
<1>9. LostBehind'
  <2> SUFFICES ASSUME NEW d \in Sent \ Empty, NEW p \in Places, Placed(p, d), p <= offset,
                      \A i \in 1..Len(parsed) : parsed[i].cmd # d
               PROVE  p > 1 /\ commandsIn'[p - 1] # Newline
    BY <1>1, <1>3, <1>5 DEF LostBehind
  <2>1. p > 1 /\ commandsIn[p - 1] # Newline
    BY DEF BridgeInv, LostBehind
  <2> QED BY <1>1, <1>2, <2>1
<1>10. SpoiltBefore'
  <2> SUFFICES ASSUME NEW i \in 1..Len(parsed), NEW p \in Places,
                      ~parsed[i].whole, Placed(p, parsed[i].cmd)
               PROVE  n + 1 > p + 1 /\ commandsIn'[p + 2] # Newline
    BY <1>1, <1>3 DEF SpoiltBefore
  <2>1. n > p + 1 /\ commandsIn[p + 2] # Newline
    BY DEF BridgeInv, SpoiltBefore
  <2> QED BY <1>1, <1>2, <2>1
<1>11. QueuePlaced' /\ StopPlaced'
  BY <1>1, <1>2, <1>3 DEF BridgeInv, QueuePlaced, StopPlaced
<1> QED BY <1>6, <1>7, <1>8, <1>9, <1>10, <1>11 DEF BridgeInv
LEMMA ReadLineInv == TypeOK /\ BridgeInv /\ ReadLine => BridgeInv'
<1> SUFFICES ASSUME TypeOK, BridgeInv, ReadLine PROVE BridgeInv'
  OBVIOUS
<1> DEFINE n == Len(commandsIn)
<1>1. PICK m \in offset..n :
        /\ offset < n /\ offset' = m + 1
        /\ \A i \in (offset + 1)..m : commandsIn[i] # Newline
        /\ m < n => commandsIn[m + 1] = Newline
        /\ UNCHANGED <<commandsIn, sent, stoppedBy, up>>
        /\ \/ UNCHANGED <<parsed, q>> /\ \A c \in Commands : ~Takes(c, m)
           \/ \E c \in Commands :
                /\ Takes(c, m)
                /\ parsed' = Append(parsed, [cmd |-> c, whole |-> m = offset + 2])
                /\ q' = q \/ q' = Append(q, c)
  BY ReadLinePlaces, Zenon
<1>2. n \in Nat /\ offset \in Nat /\ Places = 1..n
  BY DEF TypeOK, Places
<1>3. /\ \A p, d : Placed(p, d)' <=> Placed(p, d)
      /\ Places' = Places /\ Sent' = Sent
  BY <1>1 DEF Placed, Places, Sent
<1>4. \A p, d : Placed(p, d) => p \in Places
  BY DEF Placed, Places
<1>5. CommandsPlaced'
  BY <1>1, <1>3 DEF BridgeInv, CommandsPlaced
<1>6. ReadAhead'
  BY <1>1, <1>2 DEF ReadAhead
(* A whole line of a command that pump_rx meets is taken.                  *)
<1>7. \A d \in Sent \ Empty : Placed(offset + 1, d) => Takes(d, m)
  <2> SUFFICES ASSUME NEW d \in Sent \ Empty, Placed(offset + 1, d) PROVE Takes(d, m)
    OBVIOUS
  <2>1. d \in Commands /\ offset + 1 \in Places
    BY <1>4 DEF TypeOK, Sent
  <2>2. commandsIn[offset + 1] = First(d) /\ commandsIn[(offset + 1) + 1] = Rest(d) /\ offset + 1 < n
    BY <2>1 DEF BridgeInv, CommandsPlaced, Placed
  <2>3. commandsIn[offset + 1] # Newline /\ commandsIn[offset + 2] # Newline
    BY <1>2, <2>2, TokensDiffer
  <2>4. m # offset /\ m # offset + 1
    BY <1>1, <1>2, <2>2, <2>3
  <2> QED BY <1>1, <1>2, <2>4 DEF Takes
<1>8. CASE UNCHANGED <<parsed, q>> /\ \A c \in Commands : ~Takes(c, m)
  <2>1. ParsedBehind' /\ SubmittedOnce' /\ SpoiltBefore'
    BY <1>1, <1>2, <1>3, <1>8 DEF BridgeInv, ParsedBehind, SubmittedOnce, SpoiltBefore
  <2>2. LostBehind'
    <3> SUFFICES ASSUME NEW d \in Sent \ Empty, NEW p \in Places, Placed(p, d), p <= m + 1,
                        \A i \in 1..Len(parsed) : parsed[i].cmd # d
                 PROVE  p > 1 /\ commandsIn[p - 1] # Newline
      BY <1>1, <1>3, <1>8 DEF LostBehind
    <3>1. CASE p <= offset
      BY <3>1 DEF BridgeInv, LostBehind
    <3>2. CASE p = offset + 1
      BY <1>7, <1>8, <3>2 DEF TypeOK, Sent
    <3>3. CASE p > offset + 1
      <4>1. commandsIn[p] # Newline
        BY TokensDiffer DEF Placed
      <4>2. p <= m
        BY <1>1, <1>2, <3>3, <4>1
      <4> QED BY <1>1, <1>2, <3>3, <4>2
    <3> QED BY <1>2, <3>1, <3>2, <3>3
  <2>3. QueuePlaced' /\ StopPlaced'
    BY <1>1, <1>2, <1>3, <1>8 DEF BridgeInv, QueuePlaced, StopPlaced
  <2> QED BY <1>5, <1>6, <2>1, <2>2, <2>3 DEF BridgeInv
<1>9. ASSUME NEW c \in Commands, Takes(c, m),
             parsed' = Append(parsed, [cmd |-> c, whole |-> m = offset + 2]),
             q' = q \/ q' = Append(q, c)
      PROVE  BridgeInv'
  <2>1. /\ Placed(offset + 1, c) /\ m >= offset + 2
        /\ offset + 1 \in Places /\ c \in Sent
    BY <1>4, <1>9 DEF Takes, BridgeInv, CommandsPlaced
  <2>2. \A p \in Places : Placed(p, c) => p = offset + 1
    BY <2>1 DEF BridgeInv, CommandsPlaced
  <2>3. /\ Len(parsed') = Len(parsed) + 1 /\ Len(parsed) \in Nat
        /\ \A i \in 1..Len(parsed) : parsed'[i] = parsed[i]
        /\ parsed'[Len(parsed) + 1] = [cmd |-> c, whole |-> m = offset + 2]
    <3>1. [cmd |-> c, whole |-> m = offset + 2] \in [cmd : Commands, whole : BOOLEAN]
      OBVIOUS
    <3> QED BY <1>9, <3>1, AddOne DEF TypeOK
  <2>4. \A i \in 1..Len(parsed) : parsed[i].cmd # c
    BY <1>2, <2>2 DEF BridgeInv, ParsedBehind
  <2>5. ParsedBehind'
    <3> SUFFICES ASSUME NEW i \in 1..(Len(parsed) + 1)
                 PROVE  \E p \in Places : Placed(p, parsed'[i].cmd) /\ p <= m + 1
      BY <1>1, <1>3, <2>3 DEF ParsedBehind, Placed
    <3>1. CASE i = Len(parsed) + 1
      BY <1>2, <2>1, <2>3, <3>1
    <3>2. CASE i \in 1..Len(parsed)
      BY <1>1, <1>2, <2>3, <3>2 DEF BridgeInv, ParsedBehind
    <3> QED BY <2>3, <3>1, <3>2
  <2>6. SubmittedOnce'
    BY <1>3, <2>1, <2>3, <2>4, SMTT(60) DEF BridgeInv, SubmittedOnce
  <2>7. LostBehind'
    <3> SUFFICES ASSUME NEW d \in Sent \ Empty, NEW p \in Places, Placed(p, d), p <= m + 1,
                        \A i \in 1..Len(parsed') : parsed'[i].cmd # d
                 PROVE  p > 1 /\ commandsIn[p - 1] # Newline
      BY <1>1, <1>3 DEF LostBehind
    <3>1. d # c
      BY <2>3
    <3>2. p # offset + 1
      BY <2>1, <3>1, TokensDiffer DEF Placed
    <3>3. CASE p <= offset
      <4>1. \A i \in 1..Len(parsed) : parsed[i].cmd # d
        BY <2>3
      <4> QED BY <3>3, <4>1 DEF BridgeInv, LostBehind
    <3>4. CASE p > offset + 1
      <4>1. commandsIn[p] # Newline
        BY TokensDiffer DEF Placed
      <4>2. p <= m
        BY <1>1, <1>2, <3>4, <4>1
      <4> QED BY <1>1, <1>2, <3>4, <4>2
    <3> QED BY <1>2, <3>2, <3>3, <3>4
  <2>8. SpoiltBefore'
    <3> SUFFICES ASSUME NEW i \in 1..(Len(parsed) + 1), NEW p \in Places,
                        ~parsed'[i].whole, Placed(p, parsed'[i].cmd)
                 PROVE  n > p + 1 /\ commandsIn[p + 2] # Newline
      BY <1>1, <1>3, <2>3 DEF SpoiltBefore, Placed
    <3>1. CASE i = Len(parsed) + 1
      <4>1. p = offset + 1 /\ m # offset + 2
        <5>1. parsed'[i] = [cmd |-> c, whole |-> m = offset + 2]
          BY <2>3, <3>1, Zenon
        <5>2. p = offset + 1
          BY <2>2, <5>1
        <5>3. m # offset + 2
          <6> DEFINE w == m = offset + 2
          <6>1. parsed'[i].whole = w
            BY <5>1
          <6> HIDE DEF w
          <6>2. ~w
            BY <6>1
          <6> QED BY <6>2 DEF w
        <5> QED BY <5>2, <5>3
      <4> QED BY <1>1, <1>2, <2>1, <4>1
    <3>2. CASE i \in 1..Len(parsed)
      BY <2>3, <3>2 DEF BridgeInv, SpoiltBefore
    <3> QED BY <2>3, <3>1, <3>2
  <2>9. QueuePlaced' /\ StopPlaced'
    <3>1. CASE q' = q
      BY <1>1, <1>2, <1>3, <3>1 DEF BridgeInv, QueuePlaced, StopPlaced
    <3>2. CASE q' = Append(q, c)
      <4>1. /\ Len(q') = Len(q) + 1 /\ Len(q) \in Nat
            /\ \A i \in 1..Len(q) : q'[i] = q[i]
            /\ q'[Len(q) + 1] = c
        BY <3>2, AddOne DEF TypeOK
      <4>2. \A i \in 1..Len(q), p \in Places : Placed(p, q[i]) => p <= offset
        <5> SUFFICES ASSUME NEW i \in 1..Len(q), NEW p \in Places, Placed(p, q[i])
                     PROVE  p <= offset
          OBVIOUS
        <5>1. PICK r \in Places : Placed(r, q[i]) /\ r <= offset
          BY DEF BridgeInv, QueuePlaced
        <5>2. q[i] \in Commands
          BY DEF TypeOK
        <5> QED BY <5>1, <5>2 DEF BridgeInv, CommandsPlaced
      <4>3. QueuePlaced'
        <5>1. (\A i \in 1..Len(q) : \E p \in Places : Placed(p, q[i]) /\ p <= offset)'
          <6> SUFFICES ASSUME NEW i \in 1..(Len(q) + 1)
                       PROVE  \E p \in Places : Placed(p, q'[i]) /\ p <= m + 1
            BY <1>1, <1>3, <4>1 DEF Placed
          <6>1. CASE i = Len(q) + 1
            BY <1>2, <2>1, <4>1, <6>1
          <6>2. CASE i \in 1..Len(q)
            BY <1>1, <1>2, <4>1, <6>2 DEF BridgeInv, QueuePlaced
          <6> QED BY <4>1, <6>1, <6>2
        <5>2. (\A i, j \in 1..Len(q), p, r \in Places :
                 i < j /\ Placed(p, q[i]) /\ Placed(r, q[j]) => p < r)'
          <6> SUFFICES ASSUME NEW i \in 1..(Len(q) + 1), NEW j \in 1..(Len(q) + 1),
                              NEW p \in Places, NEW r \in Places, i < j,
                              Placed(p, q'[i]), Placed(r, q'[j])
                       PROVE  p < r
            BY <1>1, <1>3, <4>1 DEF Placed
          <6>1. i \in 1..Len(q) /\ q'[i] = q[i]
            BY <4>1
          <6>2. CASE j = Len(q) + 1
            BY <1>2, <2>2, <4>1, <4>2, <6>1, <6>2
          <6>3. CASE j \in 1..Len(q)
            BY <4>1, <6>1, <6>3 DEF BridgeInv, QueuePlaced
          <6> QED BY <4>1, <6>2, <6>3
        <5> QED BY <5>1, <5>2 DEF QueuePlaced
      <4>4. StopPlaced'
        <5> SUFFICES ASSUME stoppedBy # NoCommand
                     PROVE  \E p \in Places :
                              /\ Placed(p, stoppedBy) /\ p <= m + 1
                              /\ \A i \in 1..(Len(q) + 1), r \in Places : Placed(r, q'[i]) => p < r
          BY <1>1, <1>3, <4>1 DEF BridgeInv, StopPlaced, Placed
        <5>1. PICK p \in Places :
                /\ Placed(p, stoppedBy) /\ p <= offset
                /\ \A i \in 1..Len(q), r \in Places : Placed(r, q[i]) => p < r
          BY DEF BridgeInv, StopPlaced
        <5>2. \A i \in 1..(Len(q) + 1), r \in Places : Placed(r, q'[i]) => p < r
          BY <1>2, <2>2, <4>1, <5>1
        <5> QED BY <1>1, <1>2, <5>1, <5>2
      <4> QED BY <4>3, <4>4
    <3> QED BY <1>9, <3>1, <3>2
  <2> QED BY <1>5, <1>6, <2>5, <2>6, <2>7, <2>8, <2>9 DEF BridgeInv
<1> QED BY <1>1, <1>8, <1>9
LEMMA ExecuteInv == TypeOK /\ BridgeInv /\ Execute => BridgeInv'
<1> SUFFICES ASSUME TypeOK, BridgeInv, Execute PROVE BridgeInv'
  OBVIOUS
<1>1. /\ q # <<>> /\ q' = Tail(q) /\ q \in Seq(Commands)
      /\ stoppedBy' \in {stoppedBy, Head(q)} /\ (stoppedBy # NoCommand => stoppedBy' = stoppedBy)
      /\ up /\ UNCHANGED <<commandsIn, sent, offset, parsed, up>>
  BY DEF Execute, Answer, TypeOK
<1>2. /\ Len(q) \in Nat \ {0} /\ Len(q') = Len(q) - 1 /\ Head(q) = q[1]
      /\ \A i \in 1..Len(q') : q'[i] = q[i + 1] /\ i + 1 \in 2..Len(q)
  BY <1>1
<1>3. /\ \A p, d : Placed(p, d)' <=> Placed(p, d)
      /\ Places' = Places /\ Sent' = Sent
  BY <1>1 DEF Placed, Places, Sent
<1>4. /\ CommandsPlaced' /\ ReadAhead' /\ ParsedBehind' /\ SubmittedOnce'
      /\ LostBehind' /\ SpoiltBefore'
  BY <1>1, <1>3 DEF BridgeInv, CommandsPlaced, ReadAhead, ParsedBehind, SubmittedOnce,
                    LostBehind, SpoiltBefore
<1>5. QueuePlaced'
  <2>1. (\A i \in 1..Len(q) : \E p \in Places : Placed(p, q[i]) /\ p <= offset)'
    <3> SUFFICES ASSUME NEW i \in 1..Len(q')
                 PROVE  \E p \in Places : Placed(p, q'[i]) /\ p <= offset
      BY <1>1, <1>3 DEF Placed
    <3> QED BY <1>2 DEF BridgeInv, QueuePlaced
  <2>2. (\A i, j \in 1..Len(q), p, r \in Places :
           i < j /\ Placed(p, q[i]) /\ Placed(r, q[j]) => p < r)'
    <3> SUFFICES ASSUME NEW i \in 1..Len(q'), NEW j \in 1..Len(q'), NEW p \in Places,
                        NEW r \in Places, i < j, Placed(p, q'[i]), Placed(r, q'[j])
                 PROVE  p < r
      BY <1>1, <1>3, ZenonT(60) DEF Placed
    <3>1. Placed(p, q[i + 1]) /\ Placed(r, q[j + 1])
      BY <1>2
    <3> QED BY <1>2, <3>1 DEF BridgeInv, QueuePlaced
  <2> QED BY <2>1, <2>2 DEF QueuePlaced
<1>6. StopPlaced'
  <2> SUFFICES ASSUME stoppedBy' # NoCommand
               PROVE  \E p \in Places :
                        /\ Placed(p, stoppedBy') /\ p <= offset
                        /\ \A i \in 1..Len(q'), r \in Places : Placed(r, q'[i]) => p < r
    BY <1>1, <1>3 DEF StopPlaced, Placed
  <2>1. CASE stoppedBy # NoCommand
    <3>1. PICK p \in Places :
            /\ Placed(p, stoppedBy) /\ p <= offset
            /\ \A i \in 1..Len(q), r \in Places : Placed(r, q[i]) => p < r
      BY <2>1 DEF BridgeInv, StopPlaced
    <3>2. \A i \in 1..Len(q'), r \in Places : Placed(r, q'[i]) => p < r
      BY <1>2, <3>1
    <3> QED BY <1>1, <2>1, <3>1, <3>2
  <2>2. CASE stoppedBy = NoCommand
    <3>1. stoppedBy' = q[1] /\ 1 \in 1..Len(q)
      BY <1>1, <1>2, <2>2
    <3>2. PICK p \in Places : Placed(p, q[1]) /\ p <= offset
      BY <3>1 DEF BridgeInv, QueuePlaced
    <3>3. \A i \in 1..Len(q'), r \in Places : Placed(r, q'[i]) => p < r
      <4> SUFFICES ASSUME NEW i \in 1..Len(q'), NEW r \in Places, Placed(r, q'[i]) PROVE p < r
        OBVIOUS
      <4>1. i + 1 \in 1..Len(q) /\ 1 < i + 1 /\ Placed(r, q[i + 1])
        BY <1>2
      <4> QED BY <3>1, <3>2, <4>1 DEF BridgeInv, QueuePlaced
    <3> QED BY <3>1, <3>2, <3>3
  <2> QED BY <2>1, <2>2
<1> QED BY <1>4, <1>5, <1>6 DEF BridgeInv

LEMMA BridgeInvStep == TypeOK /\ BridgeInv /\ [Next]_vars => BridgeInv'
<1> SUFFICES ASSUME TypeOK, BridgeInv, [Next]_vars PROVE BridgeInv'
  OBVIOUS
<1>1. ASSUME UNCHANGED <<commandsIn, sent, offset, parsed, q, stoppedBy>>, ~up' => ~up \/ stoppedBy # NoCommand
      PROVE  BridgeInv'
  <2>1. /\ \A p, d : Placed(p, d)' <=> Placed(p, d)
        /\ Places' = Places /\ Sent' = Sent
    BY <1>1 DEF Placed, Places, Sent
  <2> QED BY <1>1, <2>1 DEF BridgeInv, CommandsPlaced, ReadAhead, ParsedBehind, SubmittedOnce,
                            LostBehind, SpoiltBefore, QueuePlaced, StopPlaced
<1> USE DEF clientVars, runVars, coreVars, frameVars
<1>2. ASSUME NEW k \in Clients, FailSend(k) \/ ClientDies(k) \/ ReadTelemetry(k) PROVE BridgeInv'
  BY <1>1, <1>2 DEF FailSend, ClientDies, ReadTelemetry, Took
<1>3. CASE BeginBatch \/ EndBatch \/ GrowStale \/ PublishFrame
  BY <1>1, <1>3 DEF BeginBatch, EndBatch, GrowStale, PublishFrame
<1>4. CASE Exit
  BY <1>1, <1>4 DEF Exit
<1>5. CASE Restart
  <2>1. /\ offset' = 0 /\ parsed' = <<>> /\ q' = <<>> /\ stoppedBy' = NoCommand /\ up'
        /\ UNCHANGED <<commandsIn, sent>>
    BY <1>5 DEF Restart, Reborn
  <2>2. /\ \A p, d : Placed(p, d)' <=> Placed(p, d)
        /\ Places' = Places /\ Sent' = Sent
    BY <2>1 DEF Placed, Places, Sent
  <2>3. CommandsPlaced' /\ ParsedBehind' /\ SubmittedOnce' /\ SpoiltBefore' /\ QueuePlaced' /\ StopPlaced'
    BY <2>1, <2>2 DEF BridgeInv, CommandsPlaced, ParsedBehind, SubmittedOnce, SpoiltBefore,
                      QueuePlaced, StopPlaced
  <2>4. ReadAhead' /\ LostBehind'
    BY <2>1, <2>2 DEF ReadAhead, LostBehind, Places, TypeOK
  <2> QED BY <2>3, <2>4 DEF BridgeInv
<1>6. CASE UNCHANGED vars
  BY <1>1, <1>6 DEF vars
<1> QED BY <1>2, <1>3, <1>4, <1>5, <1>6, BeginSendInv, EndSendInv, ReadLineInv, ExecuteInv
        DEF Next, ClientStep

LEMMA BridgeInvHolds == Spec => [](TypeOK /\ BridgeInv)
<1>1. TypeOK /\ BridgeInv /\ [Next]_vars => TypeOK' /\ BridgeInv'
  BY BridgeTypeStep, BridgeInvStep
<1> QED BY <1>1, BridgeTypeInit, BridgeInvInit, PTL DEF Spec

(* In one life of the core, no command is submitted twice or invented.     *)
THEOREM SubmittedOnceHolds == Spec => []SubmittedOnce
<1>1. BridgeInv => SubmittedOnce
  BY DEF BridgeInv
<1> QED BY <1>1, BridgeInvHolds, PTL

(* A command that has a payload is lost, or loses it, only where two lines *)
(* ran together.                                                           *)
THEOREM DamageNeedsRaceHolds == Spec => []DamageNeedsRace
<1>1. TypeOK /\ BridgeInv => DamageNeedsRace
  <2> SUFFICES ASSUME TypeOK, BridgeInv PROVE DamageNeedsRace
    OBVIOUS
  <2>1. \A c \in Sent : PositionOf(c) \in Places /\ Placed(PositionOf(c), c)
    <3> SUFFICES ASSUME NEW c \in Sent PROVE PositionOf(c) \in Places /\ Placed(PositionOf(c), c)
      OBVIOUS
    <3>1. \E p \in 1..Len(commandsIn) : commandsIn[p] = First(c)
      BY DEF BridgeInv, CommandsPlaced, Placed, Places
    <3>2. PositionOf(c) \in 1..Len(commandsIn) /\ commandsIn[PositionOf(c)] = First(c)
      BY <3>1, Zenon DEF PositionOf
    <3> QED BY <3>2 DEF Placed, Places
  <2>2. \A c \in Sent \ Empty :
          offset >= PositionOf(c) /\ (\A i \in 1..Len(parsed) : parsed[i].cmd # c) => Behind(c)
    <3> SUFFICES ASSUME NEW c \in Sent \ Empty, offset >= PositionOf(c),
                        \A i \in 1..Len(parsed) : parsed[i].cmd # c
                 PROVE  Behind(c)
      OBVIOUS
    <3> QED BY <2>1 DEF BridgeInv, LostBehind, Behind, Places, TypeOK
  <2>3. \A i \in 1..Len(parsed) : ~parsed[i].whole => Before(parsed[i].cmd)
    <3> SUFFICES ASSUME NEW i \in 1..Len(parsed), ~parsed[i].whole PROVE Before(parsed[i].cmd)
      OBVIOUS
    <3>1. parsed[i].cmd \in Sent
      BY DEF BridgeInv, SubmittedOnce
    <3> QED BY <2>1, <3>1 DEF BridgeInv, SpoiltBefore, Before, Places
  <2> QED BY <2>2, <2>3 DEF DamageNeedsRace
<1> QED BY <1>1, BridgeInvHolds, PTL

(* What a core that stops leaves in its queue was sent after the command   *)
(* that stopped it.                                                        *)
THEOREM LeftBehindHolds == Spec => []LeftBehind
<1>1. TypeOK /\ BridgeInv => LeftBehind
  <2> SUFFICES ASSUME TypeOK, BridgeInv, ~up, NEW i \in 1..Len(q)
               PROVE  SentAt(q[i]) > SentAt(stoppedBy)
    BY DEF LeftBehind
  <2>1. PICK p \in Places :
          /\ Placed(p, stoppedBy)
          /\ \A r \in Places : Placed(r, q[i]) => p < r
    BY DEF BridgeInv, StopPlaced
  <2>2. PICK r \in Places : Placed(r, q[i])
    BY DEF BridgeInv, QueuePlaced
  <2>3. p < r
    BY <2>1, <2>2
  <2>4. stoppedBy \in Commands /\ q[i] \in Commands
    BY BridgeAssumption DEF BridgeInv, StopPlaced, TypeOK
  <2>5. stoppedBy \in Sent /\ q[i] \in Sent
    BY <2>1, <2>2, <2>4 DEF BridgeInv, CommandsPlaced
  <2> DEFINE a == SentAt(stoppedBy)
             b == SentAt(q[i])
  <2>6. a \in 1..Len(sent) /\ sent[a] = stoppedBy
    <3>1. \E k \in 1..Len(sent) : sent[k] = stoppedBy
      BY <2>5 DEF Sent
    <3> QED BY <3>1, Zenon DEF SentAt
  <2>7. b \in 1..Len(sent) /\ sent[b] = q[i]
    <3>1. \E k \in 1..Len(sent) : sent[k] = q[i]
      BY <2>5 DEF Sent
    <3> QED BY <3>1, Zenon DEF SentAt
  <2> HIDE DEF a, b
  <2>8. a # b
    BY <2>1, <2>2, <2>3, <2>4, <2>6, <2>7 DEF BridgeInv, CommandsPlaced, Places
  <2>9. ~(b < a)
    BY <2>1, <2>2, <2>3, <2>6, <2>7 DEF BridgeInv, CommandsPlaced, Places
  <2>10. a \in Int /\ b \in Int
    BY <2>6, <2>7
  <2> QED BY <2>8, <2>9, <2>10 DEF a, b
<1> QED BY <1>1, BridgeInvHolds, PTL

-----------------------------------------------------------------------------
(* What a client polls from telemetry.out: every result in order while     *)
(* each frame is one write, and never an invented one whatever is written. *)

(* Every line of the file is a token and a newline, and every client has   *)
(* read up to a newline.                                                   *)
LinesAreTokens ==
  /\ ~framing
  /\ \A i \in 1..Len(telemetryOut) :
       /\ telemetryOut[i] # Newline => i < Len(telemetryOut) /\ telemetryOut[i + 1] = Newline
       /\ telemetryOut[i] = Newline => i = Len(telemetryOut) \/ telemetryOut[i + 1] # Newline
  /\ Len(telemetryOut) > 0 => telemetryOut[1] # Newline
  /\ \A k \in Clients :
       telemetryOffset[k] = 0 \/ telemetryOut[telemetryOffset[k]] = Newline

(* The results of command c that a client which stands at n has met.       *)
Met(c, n) == {i \in 1..Len(telemetryOut) : i <= n /\ telemetryOut[i] = <<"R", c>>}
NoneInvented ==
  \A k \in Clients, c \in Commands :
    Times(c, results[k]) <= Cardinality(Met(c, telemetryOffset[k]))

-----------------------------------------------------------------------------
(* Steps, seen from telemetry.out *)

(* What a step appends; `more' counts the tokens.                          *)
Grows(more) ==
  /\ Len(telemetryOut) \in Nat /\ Len(telemetryOut') = Len(telemetryOut) + more
  /\ \A i \in 1..Len(telemetryOut) : telemetryOut'[i] = telemetryOut[i]
  /\ UNCHANGED <<telemetryOffset, results>>

LEMMA GrowsByTwo ==
  ASSUME telemetryOut \in Seq(TelemetryTokens),
         NEW a \in TelemetryTokens, NEW b \in TelemetryTokens,
         telemetryOut' = telemetryOut \o <<a, b>>, UNCHANGED <<telemetryOffset, results>>
  PROVE  /\ Grows(2) /\ telemetryOut'[Len(telemetryOut) + 1] = a
         /\ telemetryOut'[Len(telemetryOut) + 2] = b
<1>1. Len(telemetryOut) \in Nat
  OBVIOUS
<1> QED BY <1>1, AddTwo DEF Grows

LEMMA GrowsByOne ==
  ASSUME telemetryOut \in Seq(TelemetryTokens), NEW a \in TelemetryTokens,
         telemetryOut' = telemetryOut \o <<a>>, UNCHANGED <<telemetryOffset, results>>
  PROVE  Grows(1)
<1>1. Len(telemetryOut) \in Nat
  OBVIOUS
<1> QED BY <1>1, AddOne DEF Grows

(* A command is answered and its R line is written.                        *)
ExecuteWrites == Execute /\ telemetryOut' = telemetryOut \o << <<"R", Head(q)>>, Newline >>

LEMMA ExecuteGrows ==
  ASSUME TypeOK, ExecuteWrites
  PROVE  /\ Grows(2) /\ UNCHANGED framing
         /\ telemetryOut'[Len(telemetryOut) + 1] # Newline
         /\ telemetryOut'[Len(telemetryOut) + 2] = Newline
<1>1. /\ telemetryOut' = telemetryOut \o << <<"R", Head(q)>>, Newline >>
      /\ telemetryOut \in Seq(TelemetryTokens) /\ q \in Seq(Commands) /\ q # <<>>
      /\ UNCHANGED <<telemetryOffset, results, framing>>
  BY DEF ExecuteWrites, Execute, Answer, TypeOK, clientVars, frameVars
<1>2. Head(q) \in Commands
  BY <1>1
<1>3. <<"R", Head(q)>> \in TelemetryTokens /\ Newline \in TelemetryTokens
  BY <1>2 DEF TelemetryTokens
<1>4. <<"R", Head(q)>> # Newline
  BY TokensDiffer
<1>5. UNCHANGED <<telemetryOffset, results>> /\ UNCHANGED framing
  BY <1>1
<1>6. /\ Grows(2) /\ telemetryOut'[Len(telemetryOut) + 1] = <<"R", Head(q)>>
      /\ telemetryOut'[Len(telemetryOut) + 2] = Newline
  <2> DEFINE a == <<"R", Head(q)>>
  <2> HIDE DEF a
  <2>1. a \in TelemetryTokens /\ telemetryOut' = telemetryOut \o <<a, Newline>>
    BY <1>1, <1>3 DEF a
  <2>2. Grows(2) /\ telemetryOut'[Len(telemetryOut) + 1] = a
        /\ telemetryOut'[Len(telemetryOut) + 2] = Newline
    BY <1>1, <1>3, <1>5, <2>1, GrowsByTwo
  <2> QED BY <2>2 DEF a
<1> QED BY <1>4, <1>5, <1>6

FrameHead == <<"T">>
FrameTail == <<"t">>

LEMMA PublishFrameGrows ==
  ASSUME TypeOK, PublishFrame
  PROVE  /\ Grows(1) \/ Grows(2)
         /\ ~LongFrames /\ ~framing =>
              /\ Grows(2) /\ ~framing'
              /\ telemetryOut'[Len(telemetryOut) + 1] # Newline
              /\ telemetryOut'[Len(telemetryOut) + 2] = Newline
<1>1. telemetryOut \in Seq(TelemetryTokens) /\ UNCHANGED <<telemetryOffset, results>>
  BY DEF PublishFrame, TypeOK, clientVars
<1>2. /\ FrameHead \in TelemetryTokens /\ FrameTail \in TelemetryTokens
      /\ Newline \in TelemetryTokens /\ FrameHead # Newline
  BY DEF TelemetryTokens, Newline, FrameHead, FrameTail
<1>3. \/ LongFrames /\ telemetryOut' = telemetryOut \o << FrameHead >>
      \/ ~LongFrames /\ telemetryOut' = telemetryOut \o << FrameHead, Newline >> /\ framing' = LongFrames
      \/ framing /\ telemetryOut' = telemetryOut \o << FrameTail, Newline >>
  <2>1. CASE LongFrames
    BY <2>1 DEF PublishFrame, FrameHead, FrameTail
  <2>2. CASE ~LongFrames
    BY <2>2 DEF PublishFrame, FrameHead, FrameTail
  <2> QED BY <2>1, <2>2
<1>4. ASSUME telemetryOut' = telemetryOut \o << FrameHead >> PROVE Grows(1)
  BY <1>1, <1>2, <1>4, GrowsByOne
<1>5. ASSUME telemetryOut' = telemetryOut \o << FrameHead, Newline >>
      PROVE  /\ Grows(2) /\ telemetryOut'[Len(telemetryOut) + 1] # Newline
             /\ telemetryOut'[Len(telemetryOut) + 2] = Newline
  BY <1>1, <1>2, <1>5, GrowsByTwo
<1>6. ASSUME telemetryOut' = telemetryOut \o << FrameTail, Newline >> PROVE Grows(2)
  BY <1>1, <1>2, <1>6, GrowsByTwo
<1>7. Grows(1) \/ Grows(2)
  BY <1>3, <1>4, <1>5, <1>6
<1>8. ~LongFrames /\ ~framing =>
        telemetryOut' = telemetryOut \o << FrameHead, Newline >> /\ ~framing'
  BY <1>3
<1> QED BY <1>5, <1>7, <1>8

(* One read_line of a client, up to m.                                     *)
LEMMA ReadTelemetryTakes ==
  ASSUME TypeOK, NEW k \in Clients, ReadTelemetry(k)
  PROVE  \E m \in telemetryOffset[k]..Len(telemetryOut) :
           LET from == telemetryOffset[k] IN
           /\ from \in Nat /\ Len(telemetryOut) \in Nat /\ from < Len(telemetryOut)
           /\ \A i \in (from + 1)..m : telemetryOut[i] # Newline
           /\ m < Len(telemetryOut) => telemetryOut[m + 1] = Newline
           /\ telemetryOffset' = [telemetryOffset EXCEPT ![k] =
                                    IF m < Len(telemetryOut) THEN m + 1 ELSE m]
           /\ results' = IF m = from + 1 /\ telemetryOut[from + 1][1] = "R"
                         THEN [results EXCEPT ![k] = Append(@, telemetryOut[from + 1][2])]
                         ELSE results
           /\ UNCHANGED <<telemetryOut, framing>>
<1> DEFINE from == telemetryOffset[k]
           line == LineAt(telemetryOut, from)
           next == from + Len(line)
<1>1. /\ Took(k, line)
      /\ telemetryOffset' = [telemetryOffset EXCEPT ![k] =
                               IF next < Len(telemetryOut) THEN next + 1 ELSE next]
  BY DEF ReadTelemetry
<1>2. /\ from \in Nat /\ from < Len(telemetryOut)
      /\ telemetryOut \in Seq(TelemetryTokens) /\ Len(telemetryOut) \in Nat
  BY <1>1 DEF Took, TypeOK
<1>3. PICK m \in from..Len(telemetryOut) : Stops(TelemetryTokens, telemetryOut, from, m)
  BY <1>2, LineAtStops
<1>4. /\ line \in Seq(TelemetryTokens) /\ Len(line) = m - from
      /\ \A i \in 1..(m - from) : line[i] = telemetryOut[from + i] /\ telemetryOut[from + i] # Newline
      /\ m < Len(telemetryOut) => telemetryOut[m + 1] = Newline
  BY <1>3 DEF Stops
<1>5. /\ results' = IF Len(line) = 1 /\ line[1][1] = "R"
                    THEN [results EXCEPT ![k] = Append(@, line[1][2])] ELSE results
      /\ UNCHANGED <<telemetryOut, framing>>
  BY <1>1 DEF Took, frameVars
<1> HIDE DEF line
<1>6. next = m
  BY <1>2, <1>3, <1>4
<1>7. \A i \in (from + 1)..m : telemetryOut[i] # Newline
  <2> TAKE i \in (from + 1)..m
  <2>1. i - from \in 1..(m - from) /\ from + (i - from) = i
    BY <1>2, <1>3
  <2> QED BY <1>4, <2>1
<1>8. (Len(line) = 1) = (m = from + 1)
  BY <1>2, <1>3, <1>4
<1>9. m = from + 1 => line[1] = telemetryOut[from + 1]
  BY <1>2, <1>3, <1>4
<1> QED BY <1>1, <1>2, <1>4, <1>5, <1>6, <1>7, <1>8, <1>9

(* Every other step leaves the file, its readers and the frames alone.     *)
OtherStep == UNCHANGED <<telemetryOut, telemetryOffset, results>> /\ framing' \in {framing, FALSE}

LEMMA TelemetrySteps ==
  ASSUME [Next]_vars
  PROVE  \/ ExecuteWrites \/ PublishFrame \/ OtherStep
         \/ \E k \in Clients : ReadTelemetry(k) \/ ClientDies(k)
<1> USE DEF clientVars, runVars, coreVars, frameVars, OtherStep
<1>0. CASE Execute
  BY <1>0 DEF Execute, ExecuteWrites, PublishResult, Answer
<1>1. ASSUME NEW k \in Clients, (\E c \in Commands : BeginSend(k, c)) \/ EndSend(k) \/ FailSend(k)
      PROVE  OtherStep
  BY <1>1 DEF BeginSend, EndSend, FailSend
<1>2. ASSUME ReadLine \/ BeginBatch \/ EndBatch \/ Exit \/ GrowStale PROVE OtherStep
  BY <1>2 DEF ReadLine, Pumped, BeginBatch, EndBatch, Exit, GrowStale
<1>3. ASSUME Restart PROVE OtherStep
  BY <1>3 DEF Restart, Reborn
<1>4. ASSUME UNCHANGED vars PROVE OtherStep
  BY <1>4 DEF vars
<1> QED BY <1>0, <1>1, <1>2, <1>3, <1>4 DEF Next, ClientStep
-----------------------------------------------------------------------------
(* No result is invented *)

LEMMA TimesFinite ==
  ASSUME NEW c, NEW s \in Seq(Commands)
  PROVE  /\ IsFiniteSet({i \in 1..Len(s) : s[i] = c}) /\ Times(c, s) \in Nat
         /\ Times(c, <<>>) = 0
<1>1. Len(s) \in Nat /\ IsFiniteSet(1..Len(s))
  BY FS_Interval
<1>2. IsFiniteSet({i \in 1..Len(s) : s[i] = c})
  BY <1>1, FS_Subset
<1>3. {i \in 1..Len(<<>>) : <<>>[i] = c} = {}
  OBVIOUS
<1> QED BY <1>2, <1>3, FS_CardinalityType, FS_EmptySet DEF Times

LEMMA TimesAppend ==
  ASSUME NEW c, NEW s \in Seq(Commands), NEW d \in Commands
  PROVE  Times(c, Append(s, d)) = IF c = d THEN Times(c, s) + 1 ELSE Times(c, s)
<1> DEFINE t == Append(s, d)
           old == {i \in 1..Len(s) : s[i] = c}
           new == {i \in 1..Len(t) : t[i] = c}
<1>1. /\ Len(t) = Len(s) + 1 /\ Len(s) \in Nat
      /\ \A i \in 1..Len(s) : t[i] = s[i]
      /\ t[Len(s) + 1] = d
  BY AddOne
<1> HIDE DEF t
<1>2. IsFiniteSet(old)
  BY TimesFinite
<1>3. CASE c = d
  <2>1. new = old \cup {Len(s) + 1} /\ Len(s) + 1 \notin old
    BY <1>1, <1>3
  <2>2. Cardinality(new) = Cardinality(old) + 1
    BY <1>2, <2>1, FS_AddElement
  <2> QED BY <1>3, <2>2 DEF Times, t
<1>4. CASE c # d
  <2>1. new = old
    BY <1>1, <1>4
  <2> QED BY <1>4, <2>1 DEF Times, t
<1> QED BY <1>3, <1>4

LEMMA MetFinite ==
  ASSUME TypeOK, NEW c, NEW n
  PROVE  IsFiniteSet(Met(c, n)) /\ Cardinality(Met(c, n)) \in Nat
<1>1. Len(telemetryOut) \in Nat /\ IsFiniteSet(1..Len(telemetryOut))
  BY FS_Interval DEF TypeOK
<1>2. Met(c, n) \in SUBSET (1..Len(telemetryOut))
  BY DEF Met
<1> QED BY <1>1, <1>2, FS_Subset, FS_CardinalityType

LEMMA NoneInventedGrows ==
  ASSUME TypeOK, NoneInvented, Grows(1) \/ Grows(2) PROVE NoneInvented'
<1> SUFFICES ASSUME NEW k \in Clients, NEW c \in Commands
             PROVE  Times(c, results'[k]) <= Cardinality(Met(c, telemetryOffset[k])')
  BY DEF NoneInvented, Grows
<1>1. telemetryOffset[k] \in Nat /\ telemetryOffset[k] <= Len(telemetryOut)
  BY DEF TypeOK
<1>2. Met(c, telemetryOffset[k])' = Met(c, telemetryOffset[k])
  BY <1>1 DEF Met, Grows
<1> QED BY <1>2 DEF NoneInvented, Grows

LEMMA NoneInventedRead ==
  ASSUME TypeOK, NoneInvented, NEW k \in Clients, ReadTelemetry(k) PROVE NoneInvented'
<1> DEFINE from == telemetryOffset[k]
<1>1. PICK m \in from..Len(telemetryOut) :
        /\ from \in Nat /\ Len(telemetryOut) \in Nat /\ from < Len(telemetryOut)
        /\ telemetryOffset' = [telemetryOffset EXCEPT ![k] =
                                 IF m < Len(telemetryOut) THEN m + 1 ELSE m]
        /\ results' = IF m = from + 1 /\ telemetryOut[from + 1][1] = "R"
                      THEN [results EXCEPT ![k] = Append(@, telemetryOut[from + 1][2])]
                      ELSE results
        /\ UNCHANGED telemetryOut
  BY ReadTelemetryTakes
<1>2. /\ results \in [Clients -> Seq(Commands)] /\ telemetryOffset \in [Clients -> Nat]
      /\ telemetryOut \in Seq(TelemetryTokens)
  BY DEF TypeOK
<1>3. \A c, n : Met(c, n)' = Met(c, n)
  BY <1>1 DEF Met
<1>4. telemetryOffset'[k] \in from..Len(telemetryOut) /\ telemetryOffset'[k] >= m
  BY <1>1, <1>2
<1> SUFFICES ASSUME NEW j \in Clients, NEW c \in Commands
             PROVE  Times(c, results'[j]) <= Cardinality(Met(c, telemetryOffset'[j]))
  BY <1>3 DEF NoneInvented
<1>5. CASE j # k
  <2>1. results'[j] = results[j] /\ telemetryOffset'[j] = telemetryOffset[j]
    BY <1>1, <1>2, <1>5
  <2> QED BY <2>1 DEF NoneInvented
<1>6. CASE j = k
  <2> DEFINE old == Met(c, from)
             new == Met(c, telemetryOffset'[k])
  <2>1. old \subseteq new
    BY <1>1, <1>4 DEF Met
  <2>2. IsFiniteSet(old) /\ IsFiniteSet(new) /\ Cardinality(old) \in Nat /\ Cardinality(new) \in Nat
    BY MetFinite
  <2>3. Times(c, results[k]) <= Cardinality(old) /\ Times(c, results[k]) \in Nat
    BY <1>2, TimesFinite DEF NoneInvented
  <2> HIDE DEF old, new
  <2>4. Cardinality(old) <= Cardinality(new)
    BY <2>1, <2>2, FS_Subset
  <2>5. CASE m = from + 1 /\ telemetryOut[from + 1][1] = "R"
    <3>1. PICK d \in Commands : telemetryOut[from + 1] = <<"R", d>>
      <4>1. telemetryOut[from + 1] \in TelemetryTokens
        BY <1>1, <1>2, <2>5, ElementOfSeq
      <4> QED BY <2>5, <4>1 DEF TelemetryTokens, Newline
    <3>2. results'[k] = Append(results[k], d)
      BY <1>1, <1>2, <2>5, <3>1
    <3>3. Times(c, results'[k]) = IF c = d THEN Times(c, results[k]) + 1 ELSE Times(c, results[k])
      BY <1>2, <3>2, TimesAppend
    <3>4. CASE c = d
      <4>1. from + 1 \in new /\ from + 1 \notin old
        BY <1>1, <1>4, <2>5, <3>1, <3>4 DEF Met, old, new
      <4>2. old \cup {from + 1} \in SUBSET new
        BY <2>1, <4>1
      <4>3. Cardinality(old \cup {from + 1}) = Cardinality(old) + 1
        BY <2>2, <4>1, FS_AddElement
      <4>4. Cardinality(old \cup {from + 1}) <= Cardinality(new)
        BY <2>2, <4>2, FS_Subset
      <4> QED BY <1>6, <2>2, <2>3, <3>3, <3>4, <4>3, <4>4 DEF new
    <3>5. CASE c # d
      BY <1>6, <2>2, <2>3, <2>4, <3>3, <3>5 DEF new
    <3> QED BY <3>4, <3>5
  <2>6. CASE ~ (m = from + 1 /\ telemetryOut[from + 1][1] = "R")
    <3>1. results'[k] = results[k]
      BY <1>1, <2>6
    <3> QED BY <1>6, <2>2, <2>3, <2>4, <3>1 DEF new
  <2> QED BY <2>5, <2>6
<1> QED BY <1>5, <1>6

LEMMA NoneInventedStep == TypeOK /\ NoneInvented /\ [Next]_vars => NoneInvented'
<1> SUFFICES ASSUME TypeOK, NoneInvented, [Next]_vars PROVE NoneInvented'
  OBVIOUS
<1>1. CASE OtherStep
  BY <1>1 DEF OtherStep, NoneInvented, Met
<1>2. ASSUME NEW k \in Clients, ClientDies(k) PROVE NoneInvented'
  <2>1. /\ results' = [results EXCEPT ![k] = <<>>] /\ UNCHANGED telemetryOut
        /\ telemetryOffset' = [telemetryOffset EXCEPT ![k] = 0]
        /\ results \in [Clients -> Seq(Commands)] /\ telemetryOffset \in [Clients -> Nat]
    BY <1>2 DEF ClientDies, TypeOK
  <2>2. \A c, n : Met(c, n)' = Met(c, n)
    BY <2>1 DEF Met
  <2> SUFFICES ASSUME NEW j \in Clients, NEW c \in Commands
               PROVE  Times(c, results'[j]) <= Cardinality(Met(c, telemetryOffset'[j]))
    BY <2>2 DEF NoneInvented
  <2>3. CASE j # k
    <3>1. results'[j] = results[j] /\ telemetryOffset'[j] = telemetryOffset[j]
      BY <2>1, <2>3
    <3> QED BY <3>1 DEF NoneInvented
  <2>4. CASE j = k
    <3>1. Times(c, results'[j]) = 0
      BY <2>1, <2>4, TimesFinite
    <3> QED BY <3>1, MetFinite
  <2> QED BY <2>3, <2>4
<1> QED BY <1>1, <1>2, TelemetrySteps, ExecuteGrows, PublishFrameGrows, NoneInventedGrows,
           NoneInventedRead

(* Whatever is written to the file, and whoever dies: no client polls more *)
(* results of a command than the core has published of it.                 *)
THEOREM ResultsAreGenuineHolds == Spec => []ResultsAreGenuine
<1>1. Init => NoneInvented
  <2> SUFFICES ASSUME Init PROVE NoneInvented
    OBVIOUS
  <2>1. \A k \in Clients, c \in Commands : Times(c, results[k]) = 0
    <3>1. <<>> \in Seq(Commands)
      OBVIOUS
    <3>2. \A c : Times(c, <<>>) = 0
      BY <3>1, TimesFinite
    <3> QED BY <3>2 DEF Init
  <2> QED BY <2>1, BridgeTypeInit, MetFinite DEF NoneInvented
<1>2. TypeOK /\ NoneInvented => ResultsAreGenuine
  <2> SUFFICES ASSUME TypeOK, NoneInvented, NEW k \in Clients, NEW c \in Commands
               PROVE  Times(c, results[k]) <= Times(<<"R", c>>, telemetryOut)
    BY DEF ResultsAreGenuine
  <2> DEFINE met == Met(c, telemetryOffset[k])
             all == {i \in 1..Len(telemetryOut) : telemetryOut[i] = <<"R", c>>}
  <2>1. met \in SUBSET all
    BY DEF Met
  <2>2. IsFiniteSet(all)
    <3>0. Len(telemetryOut) \in Nat
      BY DEF TypeOK
    <3>1. IsFiniteSet(1..Len(telemetryOut)) /\ all \in SUBSET (1..Len(telemetryOut))
      BY <3>0, FS_Interval
    <3> QED BY <3>1, FS_Subset
  <2>3. Cardinality(met) <= Cardinality(all) /\ Cardinality(all) \in Nat /\ Cardinality(met) \in Nat
    BY <2>1, <2>2, FS_Subset, FS_CardinalityType
  <2>4. Times(c, results[k]) \in Nat /\ Times(c, results[k]) <= Cardinality(met)
    BY TimesFinite DEF NoneInvented, TypeOK
  <2>5. Times(<<"R", c>>, telemetryOut) = Cardinality(all)
    BY DEF Times
  <2> QED BY <2>3, <2>4, <2>5
<1>3. TypeOK /\ NoneInvented /\ [Next]_vars => (TypeOK /\ NoneInvented)'
  BY BridgeTypeStep, NoneInventedStep
<1> QED BY <1>1, <1>2, <1>3, BridgeTypeInit, PTL DEF Spec
-----------------------------------------------------------------------------
(* Every result is polled, in order, when a frame is one write *)

LEMMA LinesAreTokensStep ==
  ASSUME ~LongFrames, TypeOK, LinesAreTokens, [Next]_vars PROVE LinesAreTokens'
<1> DEFINE n == Len(telemetryOut)
<1>1. ASSUME Grows(2), ~framing', telemetryOut'[n + 1] # Newline, telemetryOut'[n + 2] = Newline
      PROVE  LinesAreTokens'
  <2>1. /\ n \in Nat /\ Len(telemetryOut') = n + 2 /\ UNCHANGED <<telemetryOffset>>
        /\ \A i \in 1..n : telemetryOut'[i] = telemetryOut[i]
    BY <1>1 DEF Grows
  <2>2. n > 0 => telemetryOut[n] = Newline
    BY <2>1 DEF LinesAreTokens
  <2>3. \A i \in 1..(n + 2) :
          /\ telemetryOut'[i] # Newline => i < n + 2 /\ telemetryOut'[i + 1] = Newline
          /\ telemetryOut'[i] = Newline => i = n + 2 \/ telemetryOut'[i + 1] # Newline
    <3> SUFFICES ASSUME NEW i \in 1..(n + 2)
                 PROVE  /\ telemetryOut'[i] # Newline => i < n + 2 /\ telemetryOut'[i + 1] = Newline
                        /\ telemetryOut'[i] = Newline => i = n + 2 \/ telemetryOut'[i + 1] # Newline
      OBVIOUS
    <3>1. CASE i \in 1..(n - 1)
      <4>1. i \in 1..n /\ i + 1 \in 1..n
        BY <2>1, <3>1
      <4> QED BY <2>1, <3>1, <4>1 DEF LinesAreTokens
    <3>2. CASE i = n
      <4>1. n > 0 /\ telemetryOut'[i] = Newline
        BY <2>1, <2>2, <3>2
      <4> QED BY <1>1, <3>2, <4>1
    <3>3. CASE i = n + 1 \/ i = n + 2
      BY <1>1, <2>1, <3>3
    <3> QED BY <2>1, <3>1, <3>2, <3>3
  <2>4. telemetryOut'[1] # Newline
    <3>1. CASE n = 0
      BY <1>1, <3>1
    <3>2. CASE n > 0
      BY <2>1, <3>2 DEF LinesAreTokens
    <3> QED BY <2>1, <3>1, <3>2
  <2>5. \A k \in Clients : telemetryOffset'[k] = 0 \/ telemetryOut'[telemetryOffset'[k]] = Newline
    BY <2>1 DEF LinesAreTokens, TypeOK
  <2> QED BY <1>1, <2>1, <2>3, <2>4, <2>5 DEF LinesAreTokens
<1>2. CASE ExecuteWrites
  BY <1>1, <1>2, ExecuteGrows DEF LinesAreTokens
<1>3. CASE PublishFrame
  BY <1>1, <1>3, PublishFrameGrows DEF LinesAreTokens
<1>4. CASE OtherStep
  <2>1. ~framing
    BY DEF LinesAreTokens
  <2>2. framing' \in {framing, FALSE} /\ UNCHANGED <<telemetryOut, telemetryOffset>>
    BY <1>4 DEF OtherStep
  <2>3. ~framing'
    BY <2>1, <2>2, Zenon
  <2> QED BY <2>2, <2>3 DEF LinesAreTokens
<1>5. ASSUME NEW k \in Clients, ClientDies(k) PROVE LinesAreTokens'
  BY <1>5 DEF ClientDies, LinesAreTokens, frameVars, TypeOK
<1>6. ASSUME NEW k \in Clients, ReadTelemetry(k) PROVE LinesAreTokens'
  <2> DEFINE from == telemetryOffset[k]
  <2>1. PICK m \in from..n :
          /\ from \in Nat /\ n \in Nat /\ from < n
          /\ \A i \in (from + 1)..m : telemetryOut[i] # Newline
          /\ m < n => telemetryOut[m + 1] = Newline
          /\ telemetryOffset' = [telemetryOffset EXCEPT ![k] = IF m < n THEN m + 1 ELSE m]
          /\ UNCHANGED <<telemetryOut, framing>>
    BY <1>6, ReadTelemetryTakes
  <2>2. m < n
    BY <2>1 DEF LinesAreTokens
  <2>3. \A j \in Clients : telemetryOffset'[j] = 0 \/ telemetryOut[telemetryOffset'[j]] = Newline
    BY <2>1, <2>2 DEF LinesAreTokens, TypeOK
  <2> QED BY <2>1, <2>3 DEF LinesAreTokens
<1> QED BY <1>2, <1>3, <1>4, <1>5, <1>6, TelemetrySteps

LEMMA UpToFinite ==
  ASSUME TypeOK, NEW n
  PROVE  IsFiniteSet(UpTo(n)) /\ Cardinality(UpTo(n)) \in Nat
<1>1. Len(telemetryOut) \in Nat /\ IsFiniteSet(1..Len(telemetryOut))
  BY FS_Interval DEF TypeOK
<1>2. UpTo(n) \in SUBSET (1..Len(telemetryOut))
  BY DEF UpTo, ResultsAt
<1> QED BY <1>1, <1>2, FS_Subset, FS_CardinalityType

LEMMA ResultsInOrderGrows ==
  ASSUME TypeOK, ResultsInOrder, Grows(2) PROVE ResultsInOrder'
<1>1. \A n \in Nat : n <= Len(telemetryOut) => UpTo(n)' = UpTo(n)
  BY DEF UpTo, ResultsAt, Grows
<1> SUFFICES ASSUME NEW k \in Clients
             PROVE  /\ Len(results'[k]) = Cardinality(UpTo(telemetryOffset[k])')
                    /\ \A i \in UpTo(telemetryOffset[k])' :
                         results'[k][Cardinality(UpTo(i)')] = telemetryOut'[i][2]
  BY DEF ResultsInOrder, Grows, UpTo, ResultsAt
<1>2. telemetryOffset[k] \in Nat /\ telemetryOffset[k] <= Len(telemetryOut)
  BY DEF TypeOK
<1>3. UpTo(telemetryOffset[k])' = UpTo(telemetryOffset[k])
  BY <1>1, <1>2 DEF Grows
<1>4. \A i \in UpTo(telemetryOffset[k]) :
        i \in 1..Len(telemetryOut) /\ UpTo(i)' = UpTo(i) /\ telemetryOut'[i] = telemetryOut[i]
  BY <1>1 DEF UpTo, ResultsAt, Grows
<1> QED BY <1>3, <1>4 DEF ResultsInOrder, Grows

LEMMA ResultsInOrderRead ==
  ASSUME TypeOK, LinesAreTokens, ResultsInOrder, NEW k \in Clients, ReadTelemetry(k)
  PROVE  ResultsInOrder'
<1> DEFINE from == telemetryOffset[k]
           n == Len(telemetryOut)
<1>1. PICK m \in from..n :
        /\ from \in Nat /\ n \in Nat /\ from < n
        /\ \A i \in (from + 1)..m : telemetryOut[i] # Newline
        /\ m < n => telemetryOut[m + 1] = Newline
        /\ telemetryOffset' = [telemetryOffset EXCEPT ![k] = IF m < n THEN m + 1 ELSE m]
        /\ results' = IF m = from + 1 /\ telemetryOut[from + 1][1] = "R"
                      THEN [results EXCEPT ![k] = Append(@, telemetryOut[from + 1][2])]
                      ELSE results
        /\ UNCHANGED <<telemetryOut, framing>>
  BY ReadTelemetryTakes
<1>2. telemetryOut[from + 1] # Newline
  BY <1>1 DEF LinesAreTokens
<1>3. from + 1 < n /\ telemetryOut[from + 2] = Newline
  <2>1. from + 1 \in 1..n /\ (from + 1) + 1 = from + 2
    BY <1>1, SMT
  <2>2. \A i \in 1..n : telemetryOut[i] # Newline => i < n /\ telemetryOut[i + 1] = Newline
    BY DEF LinesAreTokens
  <2> HIDE DEF from, n
  <2> QED BY <1>2, <2>1, <2>2, Zenon
<1>4. m = from + 1
  <2>1. m # from
    BY <1>1, <1>2
  <2>2. ~ (from + 2 \in (from + 1)..m)
    BY <1>1, <1>3
  <2> QED BY <1>1, <2>1, <2>2
<1>5. /\ results \in [Clients -> Seq(Commands)] /\ telemetryOffset \in [Clients -> Nat]
      /\ telemetryOut \in Seq(TelemetryTokens)
  BY DEF TypeOK
<1>6. telemetryOffset'[k] = from + 2
  BY <1>1, <1>3, <1>4, <1>5
<1>7. UNCHANGED telemetryOut /\ \A x : UpTo(x)' = UpTo(x)
  BY <1>1 DEF UpTo, ResultsAt
<1> SUFFICES ASSUME NEW j \in Clients
             PROVE  /\ Len(results'[j]) = Cardinality(UpTo(telemetryOffset'[j]))
                    /\ \A i \in UpTo(telemetryOffset'[j]) :
                         results'[j][Cardinality(UpTo(i))] = telemetryOut[i][2]
  BY <1>7 DEF ResultsInOrder
<1>8. CASE j # k
  <2>1. results'[j] = results[j] /\ telemetryOffset'[j] = telemetryOffset[j]
    BY <1>1, <1>5, <1>8
  <2> QED BY <2>1 DEF ResultsInOrder
<1>9. CASE j = k
  <2>1. /\ Len(results[k]) = Cardinality(UpTo(from))
        /\ \A i \in UpTo(from) : results[k][Cardinality(UpTo(i))] = telemetryOut[i][2]
    BY DEF ResultsInOrder
  <2>2. from + 2 \notin ResultsAt
    BY <1>3 DEF ResultsAt, Newline
  <2>3. CASE telemetryOut[from + 1][1] # "R"
    <3>1. UpTo(from + 2) = UpTo(from)
      <4>1. from + 1 \notin ResultsAt
        BY <2>3 DEF ResultsAt
      <4> QED BY <1>1, <2>2, <4>1, SMTT(60) DEF UpTo, ResultsAt
    <3>2. results'[k] = results[k]
      BY <1>1, <2>3
    <3> QED BY <1>6, <1>9, <2>1, <3>1, <3>2
  <2>4. CASE telemetryOut[from + 1][1] = "R"
    <3>1. PICK d \in Commands : telemetryOut[from + 1] = <<"R", d>>
      <4>1. telemetryOut[from + 1] \in TelemetryTokens
        BY <1>1, <1>3, <1>5, ElementOfSeq
      <4> QED BY <2>4, <4>1 DEF TelemetryTokens, Newline
    <3>2. results'[k] = Append(results[k], d)
      BY <1>1, <1>4, <1>5, <2>4, <3>1
    <3>3. /\ Len(results'[k]) = Len(results[k]) + 1 /\ Len(results[k]) \in Nat
          /\ \A i \in 1..Len(results[k]) : results'[k][i] = results[k][i]
          /\ results'[k][Len(results[k]) + 1] = d
      BY <1>5, <3>2, AddOne
    <3>4. from + 1 \in ResultsAt
      BY <1>1, <2>4 DEF ResultsAt
    <3>5. /\ UpTo(from + 2) = UpTo(from) \cup {from + 1} /\ UpTo(from + 1) = UpTo(from) \cup {from + 1}
          /\ from + 1 \notin UpTo(from)
      BY <1>1, <2>2, <3>4, SMTT(60) DEF UpTo, ResultsAt
    <3>6. Cardinality(UpTo(from) \cup {from + 1}) = Cardinality(UpTo(from)) + 1
      BY <3>5, UpToFinite, FS_AddElement
    <3>7. \A i \in UpTo(from) : Cardinality(UpTo(i)) \in 1..Len(results[k])
      <4> SUFFICES ASSUME NEW i \in UpTo(from) PROVE Cardinality(UpTo(i)) \in 1..Len(results[k])
        OBVIOUS
      <4>1. UpTo(i) \in SUBSET UpTo(from) /\ i \in UpTo(i)
        BY <1>1 DEF UpTo, ResultsAt
      <4>2. /\ IsFiniteSet(UpTo(i)) /\ Cardinality(UpTo(i)) \in Nat
            /\ IsFiniteSet(UpTo(from)) /\ Cardinality(UpTo(from)) \in Nat
        BY UpToFinite
      <4>3. Cardinality(UpTo(i)) <= Cardinality(UpTo(from))
        BY <4>1, <4>2, FS_Subset
      <4>4. Cardinality(UpTo(i)) # 0
        BY <4>1, <4>2, FS_EmptySet
      <4> QED BY <2>1, <4>2, <4>3, <4>4
    <3>8. Len(results'[k]) = Cardinality(UpTo(from + 2))
      BY <2>1, <3>3, <3>5, <3>6
    <3>9. \A i \in UpTo(from + 2) : results'[k][Cardinality(UpTo(i))] = telemetryOut[i][2]
      <4> SUFFICES ASSUME NEW i \in UpTo(from + 2)
                   PROVE  results'[k][Cardinality(UpTo(i))] = telemetryOut[i][2]
        OBVIOUS
      <4>1. CASE i = from + 1
        <5>1. Cardinality(UpTo(i)) = Len(results[k]) + 1
          BY <2>1, <3>5, <3>6, <4>1
        <5> QED BY <3>1, <3>3, <4>1, <5>1
      <4>2. CASE i \in UpTo(from)
        BY <2>1, <3>3, <3>7, <4>2
      <4> QED BY <3>5, <4>1, <4>2
    <3> QED BY <1>6, <1>9, <3>8, <3>9
  <2> QED BY <2>3, <2>4
<1> QED BY <1>8, <1>9

LEMMA ResultsInOrderStep ==
  ASSUME ~LongFrames, TypeOK, LinesAreTokens, ResultsInOrder, [Next]_vars PROVE ResultsInOrder'
<1>1. CASE ExecuteWrites \/ PublishFrame
  BY <1>1, ExecuteGrows, PublishFrameGrows, ResultsInOrderGrows DEF LinesAreTokens
<1>2. CASE OtherStep
  BY <1>2 DEF OtherStep, ResultsInOrder, UpTo, ResultsAt
<1>3. ASSUME NEW k \in Clients, ClientDies(k) PROVE ResultsInOrder'
  <2>1. /\ results' = [results EXCEPT ![k] = <<>>] /\ UNCHANGED telemetryOut
        /\ telemetryOffset' = [telemetryOffset EXCEPT ![k] = 0]
        /\ results \in [Clients -> Seq(Commands)] /\ telemetryOffset \in [Clients -> Nat]
    BY <1>3 DEF ClientDies, TypeOK
  <2>2. \A x : UpTo(x)' = UpTo(x)
    BY <2>1 DEF UpTo, ResultsAt
  <2>3. UpTo(0) = {} /\ Cardinality({}) = 0
    BY FS_EmptySet DEF UpTo, ResultsAt
  <2> SUFFICES ASSUME NEW j \in Clients
               PROVE  /\ Len(results'[j]) = Cardinality(UpTo(telemetryOffset'[j]))
                      /\ \A i \in UpTo(telemetryOffset'[j]) :
                           results'[j][Cardinality(UpTo(i))] = telemetryOut[i][2]
    BY <2>1, <2>2 DEF ResultsInOrder
  <2>4. CASE j # k
    <3>1. results'[j] = results[j] /\ telemetryOffset'[j] = telemetryOffset[j]
      BY <2>1, <2>4
    <3> QED BY <3>1 DEF ResultsInOrder
  <2>5. CASE j = k
    <3>1. results'[j] = <<>> /\ telemetryOffset'[j] = 0 /\ Len(<<>>) = 0
      BY <2>1, <2>5
    <3> QED BY <2>3, <3>1
  <2> QED BY <2>4, <2>5
<1> QED BY <1>1, <1>2, <1>3, TelemetrySteps, ResultsInOrderRead

(* As long as a frame is one write, a client polls every result the core   *)
(* published up to where it has read, in the order of publication.         *)
THEOREM ResultsInOrderHolds == ASSUME ~LongFrames PROVE Spec => []ResultsInOrder
<1>1. Init => LinesAreTokens /\ ResultsInOrder
  <2> SUFFICES ASSUME Init PROVE LinesAreTokens /\ ResultsInOrder
    OBVIOUS
  <2>1. \A x : UpTo(x) = {}
    BY DEF Init, UpTo, ResultsAt
  <2>2. Cardinality({}) = 0 /\ Len(<<>>) = 0
    BY FS_EmptySet
  <2>3. ResultsInOrder
    BY <2>1, <2>2 DEF Init, ResultsInOrder
  <2>4. LinesAreTokens
    BY <2>2 DEF Init, LinesAreTokens
  <2> QED BY <2>3, <2>4
<1>2. /\ TypeOK /\ LinesAreTokens /\ ResultsInOrder /\ [Next]_vars
      => (TypeOK /\ LinesAreTokens /\ ResultsInOrder)'
  BY BridgeTypeStep, LinesAreTokensStep, ResultsInOrderStep
<1> QED BY <1>1, <1>2, BridgeTypeInit, PTL DEF Spec
-----------------------------------------------------------------------------
(* commands.in is a CommandChannel for one client that neither dies nor    *)
(* fails to write the newline of a line.                                   *)

OneClient == MaxClientFaults = 0 /\ \E k : Clients = {k}

(* Every command has three tokens in commands.in, but the last one may     *)
(* lack its newline.                                                       *)
Pending == \E k \in Clients : sending[k] # NoCommand
LinesTidy ==
  /\ Len(commandsIn) = IF Pending THEN 3 * Len(sent) - 1 ELSE 3 * Len(sent)
  /\ \A i \in 1..Len(sent) :
       /\ commandsIn[3 * i - 2] = First(sent[i]) /\ commandsIn[3 * i - 1] = Rest(sent[i])
       /\ 3 * i <= Len(commandsIn) => commandsIn[3 * i] = Newline

(* The reader stands behind the line of the m-th command.                  *)
ReadTidy ==
  \E m \in 0..Len(sent) : offset = 3 * m /\ Delivered = KeptTo(sent, WithPayload)[m]

ChannelInv == faults = 0 /\ LinesTidy /\ ReadTidy

LEMMA DeliveredType ==
  ASSUME TypeOK
  PROVE  Delivered \in Seq(Commands) /\ Len(Delivered) = Len(parsed)
<1>1. parsed \in Seq([cmd : Commands, whole : BOOLEAN]) /\ Len(parsed) \in Nat
  BY DEF TypeOK
<1>2. \A i \in 1..Len(parsed) : parsed[i] \in [cmd : Commands, whole : BOOLEAN]
  BY <1>1, ElementOfSeq
<1>3. \A i \in 1..Len(parsed) : parsed[i].cmd \in Commands
  BY <1>2
<1> QED BY <1>1, <1>3 DEF Delivered

LEMMA DeliveredGrows ==
  ASSUME TypeOK, NEW c \in Commands, NEW w \in BOOLEAN,
         parsed' = Append(parsed, [cmd |-> c, whole |-> w])
  PROVE  Delivered' = Append(Delivered, c)
<1> DEFINE e == [cmd |-> c, whole |-> w]
           n == Len(parsed)
<1>1. parsed \in Seq([cmd : Commands, whole : BOOLEAN]) /\ e \in [cmd : Commands, whole : BOOLEAN]
      /\ e.cmd = c /\ n \in Nat
  BY DEF TypeOK
<1>2. Len(parsed') = n + 1 /\ (\A i \in 1..n : parsed'[i] = parsed[i]) /\ parsed'[n + 1] = e
  <2> HIDE DEF e
  <2> QED BY <1>1, AddOne DEF e
<1> HIDE DEF e
<1>3. Delivered \in Seq(Commands) /\ Len(Delivered) = n /\ \A i \in 1..n : Delivered[i] = parsed[i].cmd
  <2>1. Delivered \in Seq(Commands) /\ Len(Delivered) = n
    BY DeliveredType
  <2> QED BY <2>1 DEF Delivered
<1>4. Delivered' = [i \in 1..(n + 1) |-> parsed'[i].cmd]
  BY <1>2 DEF Delivered
<1> DEFINE d == [i \in 1..(n + 1) |-> parsed'[i].cmd]
<1>5. \A i \in 1..(n + 1) : d[i] = IF i = n + 1 THEN c ELSE Delivered[i]
  <2> SUFFICES ASSUME NEW i \in 1..(n + 1) PROVE parsed'[i].cmd = IF i = n + 1 THEN c ELSE Delivered[i]
    OBVIOUS
  <2>1. i = n + 1 \/ i \in 1..n
    BY <1>1
  <2> HIDE DEF n
  <2> QED BY <1>1, <1>2, <1>3, <2>1
<1>6. /\ Append(Delivered, c) \in Seq(Commands) /\ Len(Append(Delivered, c)) = n + 1
      /\ \A i \in 1..(n + 1) : Append(Delivered, c)[i] = IF i = n + 1 THEN c ELSE Delivered[i]
  <2>1. /\ Append(Delivered, c) \in Seq(Commands) /\ Len(Append(Delivered, c)) = Len(Delivered) + 1
        /\ \A i \in 1..Len(Delivered) : Append(Delivered, c)[i] = Delivered[i]
        /\ Append(Delivered, c)[Len(Delivered) + 1] = c
    BY <1>3, AddOne
  <2> QED BY <1>1, <1>3, <2>1
<1>7. d \in Seq(Commands) /\ Len(d) = n + 1
  <2>1. \A i \in 1..(n + 1) : d[i] \in Commands
    <3>1. \A i \in 1..(n + 1) : i = n + 1 \/ i \in 1..Len(Delivered)
      BY <1>1, <1>3
    <3>2. \A i \in 1..Len(Delivered) : Delivered[i] \in Commands
      BY <1>3, ElementOfSeq
    <3> HIDE DEF d
    <3> QED BY <1>5, <3>1, <3>2
  <2> QED BY <1>1, <2>1
<1> HIDE DEF n, d
<1>8. d = Append(Delivered, c)
  BY <1>5, <1>6, <1>7, SeqEqual
<1> QED BY <1>4, <1>8 DEF d

(* Nothing the reader has passed changes when a command is sent.           *)
LEMMA BeginSendTidy ==
  ASSUME TypeOK, OneClient, ChannelInv, NEW k \in Clients, NEW c \in Commands, BeginSend(k, c)
  PROVE  ChannelInv' /\ [Channel!Next]_<<Kept(sent, WithPayload), Delivered>>
<1>1. /\ sending[k] = NoCommand /\ sending' = [sending EXCEPT ![k] = c] /\ faults' = faults
      /\ commandsIn' = commandsIn \o <<First(c), Rest(c)>> /\ sent' = Append(sent, c)
      /\ UNCHANGED <<offset, parsed>>
  BY DEF BeginSend, coreVars
<1>2. /\ commandsIn \in Seq(CommandTokens) /\ sent \in Seq(Commands)
      /\ sending \in [Clients -> Commands \cup {NoCommand}]
  BY DEF TypeOK
<1> DEFINE n == Len(sent)
<1>3. n \in Nat /\ sent' \in Seq(Commands) /\ Len(sent') = n + 1
      /\ (\A i \in 1..n : sent'[i] = sent[i]) /\ sent'[n + 1] = c
  BY <1>1, <1>2, AddOne
<1>4. ~Pending /\ Len(commandsIn) = 3 * n
  BY <1>1 DEF OneClient, ChannelInv, LinesTidy, Pending
<1>5. /\ Len(commandsIn') = 3 * n + 2 /\ \A i \in 1..(3 * n) : commandsIn'[i] = commandsIn[i]
      /\ commandsIn'[3 * n + 1] = First(c) /\ commandsIn'[3 * n + 2] = Rest(c)
  <2>1. First(c) \in CommandTokens /\ Rest(c) \in CommandTokens
    BY DEF CommandTokens
  <2>2. /\ Len(commandsIn') = Len(commandsIn) + 2
        /\ \A i \in 1..Len(commandsIn) : commandsIn'[i] = commandsIn[i]
        /\ commandsIn'[Len(commandsIn) + 1] = First(c)
        /\ commandsIn'[Len(commandsIn) + 2] = Rest(c)
    BY <1>1, <1>2, <2>1, AddTwo
  <2> QED BY <1>4, <2>2
<1> HIDE DEF n
<1>6. ASSUME Pending' PROVE LinesTidy'
  <2>1. Len(commandsIn') = 3 * Len(sent') - 1
    BY <1>3, <1>5
  <2>2. ASSUME NEW i \in 1..(n + 1)
        PROVE  /\ commandsIn'[3 * i - 2] = First(sent'[i]) /\ commandsIn'[3 * i - 1] = Rest(sent'[i])
               /\ 3 * i <= Len(commandsIn') => commandsIn'[3 * i] = Newline
    <3>1. CASE i = n + 1
      <4>1. 3 * i - 2 = 3 * n + 1 /\ 3 * i - 1 = 3 * n + 2 /\ ~(3 * i <= 3 * n + 2)
        BY <1>3, <3>1
      <4> QED BY <1>3, <1>5, <3>1, <4>1
    <3>2. CASE i # n + 1
      <4>1. i \in 1..n /\ 3 * i - 2 \in 1..(3 * n) /\ 3 * i - 1 \in 1..(3 * n) /\ 3 * i \in 1..(3 * n)
        BY <1>3, <3>2
      <4>2. /\ commandsIn[3 * i - 2] = First(sent[i]) /\ commandsIn[3 * i - 1] = Rest(sent[i])
            /\ 3 * i <= Len(commandsIn) => commandsIn[3 * i] = Newline
        BY <4>1 DEF ChannelInv, LinesTidy, n
      <4>3. 3 * i <= Len(commandsIn)
        BY <1>3, <1>4, <4>1
      <4> QED BY <1>3, <1>5, <4>1, <4>2, <4>3
    <3> QED BY <3>1, <3>2
  <2> QED BY <1>3, <1>6, <2>1, <2>2 DEF LinesTidy, First, Rest, Newline
<1>7. Pending'
  <2>1. c # NoCommand
    BY BridgeAssumption DEF NoCommand
  <2> QED BY <1>1, <1>2, <2>1 DEF Pending, NoCommand
<1>8. PICK m \in 0..n : offset = 3 * m /\ Delivered = KeptTo(sent, WithPayload)[m]
  BY DEF ChannelInv, ReadTidy, n
<1>9. KeptTo(sent', WithPayload)[m] = KeptTo(sent, WithPayload)[m]
  <2>1. Filters(KeptTo(sent, WithPayload), sent, WithPayload)
        /\ Filters(KeptTo(sent', WithPayload), sent', WithPayload)
    BY <1>2, <1>3, KeptUnfolds
  <2>2. m \in Nat /\ m <= Len(sent) /\ m <= Len(sent') /\ Len(sent) \in Nat /\ Len(sent') \in Nat
        /\ \A i \in 1..m : sent[i] = sent'[i]
    BY <1>3, <1>8 DEF n
  <2> QED BY <2>1, <2>2, KeptSame
<1>10. Delivered' = Delivered
  BY <1>1 DEF Delivered
<1>11. ReadTidy'
  <2>1. m \in 0..Len(sent') /\ offset' = 3 * m
    BY <1>1, <1>3, <1>8
  <2>2. Delivered' = KeptTo(sent', WithPayload)[m]
    BY <1>8, <1>9, <1>10
  <2> QED BY <2>1, <2>2 DEF ReadTidy, WithPayload
<1>12. Kept(sent', WithPayload) = IF c \in WithPayload THEN Append(Kept(sent, WithPayload), c)
                                  ELSE Kept(sent, WithPayload)
  <2>1. Len(sent') = Len(sent) + 1
        /\ \A i \in 1..(Len(sent) + 1) : sent'[i] = IF i <= Len(sent) THEN sent[i] ELSE c
    BY <1>3 DEF n
  <2>2. PICK s \in Seq(Commands), t \in Seq(Commands) : s = sent /\ t = sent'
    BY <1>2, <1>3
  <2>3. Len(t) = Len(s) + 1 /\ \A i \in 1..(Len(s) + 1) : t[i] = IF i <= Len(s) THEN s[i] ELSE c
    BY <2>1, <2>2
  <2>4. Kept(t, WithPayload) = IF c \in WithPayload THEN Append(Kept(s, WithPayload), c)
                               ELSE Kept(s, WithPayload)
    BY <2>2, <2>3, KeptGrows
  <2> QED BY <2>2, <2>4
<1>13. Kept(sent, WithPayload)' = Kept(sent', WithPayload)
  BY DEF Kept, WithPayload
<1>14. CASE c \in WithPayload
  <2>1. Channel!Send(c)
    BY <1>10, <1>12, <1>13, <1>14 DEF Channel!Send
  <2> QED BY <1>1, <1>6, <1>7, <1>11, <2>1 DEF ChannelInv, Channel!Next
<1>15. CASE c \notin WithPayload
  BY <1>1, <1>6, <1>7, <1>10, <1>11, <1>12, <1>13, <1>15 DEF ChannelInv
<1> QED BY <1>14, <1>15

LEMMA EndSendTidy ==
  ASSUME TypeOK, OneClient, ChannelInv, NEW k \in Clients, EndSend(k)
  PROVE  ChannelInv' /\ [Channel!Next]_<<Kept(sent, WithPayload), Delivered>>
<1>1. /\ sending[k] # NoCommand /\ sending' = [sending EXCEPT ![k] = NoCommand] /\ faults' = faults
      /\ commandsIn' = Append(commandsIn, Newline) /\ UNCHANGED <<sent, offset, parsed>>
  BY DEF EndSend, coreVars
<1>2. /\ commandsIn \in Seq(CommandTokens) /\ Newline \in CommandTokens /\ Len(sent) \in Nat
      /\ Len(commandsIn) \in Nat /\ sending \in [Clients -> Commands \cup {NoCommand}]
  BY DEF TypeOK, CommandTokens
<1>3. Pending /\ ~Pending' /\ Len(commandsIn) = 3 * Len(sent) - 1
  BY <1>1, <1>2 DEF OneClient, ChannelInv, LinesTidy, Pending
<1>4. /\ Len(commandsIn') = Len(commandsIn) + 1
      /\ \A i \in 1..Len(commandsIn) : commandsIn'[i] = commandsIn[i]
      /\ commandsIn'[Len(commandsIn) + 1] = Newline
  BY <1>1, <1>2, AddOne
<1>5. ASSUME NEW i \in 1..Len(sent)
      PROVE  /\ commandsIn'[3 * i - 2] = First(sent[i]) /\ commandsIn'[3 * i - 1] = Rest(sent[i])
             /\ commandsIn'[3 * i] = Newline
  <2>1. 3 * i - 2 \in 1..Len(commandsIn) /\ 3 * i - 1 \in 1..Len(commandsIn)
        /\ (3 * i \in 1..Len(commandsIn) \/ 3 * i = Len(commandsIn) + 1)
    BY <1>2, <1>3
  <2>2. /\ commandsIn[3 * i - 2] = First(sent[i]) /\ commandsIn[3 * i - 1] = Rest(sent[i])
        /\ 3 * i <= Len(commandsIn) => commandsIn[3 * i] = Newline
    BY DEF ChannelInv, LinesTidy
  <2>3. 3 * i \in 1..Len(commandsIn) => 3 * i <= Len(commandsIn)
    BY <1>2
  <2> QED BY <1>4, <2>1, <2>2, <2>3
<1>6. LinesTidy'
  <2>1. Len(commandsIn') = 3 * Len(sent')
    BY <1>1, <1>2, <1>3, <1>4
  <2> QED BY <1>1, <1>3, <1>5, <2>1 DEF LinesTidy, First, Rest, Newline
<1>7. Delivered' = Delivered /\ Kept(sent, WithPayload)' = Kept(sent, WithPayload) /\ ReadTidy'
  BY <1>1 DEF Delivered, Kept, WithPayload, ReadTidy, ChannelInv
<1> QED BY <1>1, <1>6, <1>7 DEF ChannelInv

(* pump_rx takes the line of the next command, whole, although its newline *)
(* may be yet to come.                                                     *)
LEMMA ReadLineTidy ==
  ASSUME TypeOK, OneClient, ChannelInv, ReadLine
  PROVE  ChannelInv' /\ [Channel!Next]_<<Kept(sent, WithPayload), Delivered>>
<1>1. PICK e \in offset..Len(commandsIn) :
         /\ offset < Len(commandsIn) /\ offset' = e + 1
         /\ \A i \in (offset + 1)..e : commandsIn[i] # Newline
         /\ e < Len(commandsIn) => commandsIn[e + 1] = Newline
         /\ UNCHANGED <<commandsIn, sent, stoppedBy, up>>
         /\ \/ UNCHANGED <<parsed, q>> /\ \A c \in Commands : ~Takes(c, e)
            \/ \E c \in Commands :
                 /\ Takes(c, e)
                 /\ parsed' = Append(parsed, [cmd |-> c, whole |-> e = offset + 2])
                 /\ q' = q \/ q' = Append(q, c)
  BY ReadLinePlaces
<1>2. sending' = sending /\ faults' = faults
  BY DEF ReadLine, Pumped, clientVars
<1> DEFINE kept == KeptTo(sent, WithPayload)
           n == Len(sent)
<1>3. /\ n \in Nat /\ Len(commandsIn) \in Nat /\ offset \in Nat /\ sent \in Seq(Commands)
      /\ Filters(kept, sent, WithPayload)
  BY KeptUnfolds DEF TypeOK
<1>4. PICK m \in 0..n : offset = 3 * m /\ Delivered = kept[m]
  BY DEF ChannelInv, ReadTidy
<1> HIDE DEF kept, n
<1>5. Len(commandsIn) \in {3 * n - 1, 3 * n}
  BY DEF ChannelInv, LinesTidy, n
<1>6. m \in Nat /\ m + 1 \in 1..n
  BY <1>1, <1>3, <1>4, <1>5
<1> DEFINE c == sent[m + 1]
<1>7. c \in Commands
  BY <1>3, <1>6, ElementOfSeq DEF n
<1> HIDE DEF c
<1>8. /\ commandsIn[offset + 1] = First(c) /\ commandsIn[offset + 2] = Rest(c)
      /\ offset + 3 <= Len(commandsIn) => commandsIn[offset + 3] = Newline
      /\ offset + 2 <= Len(commandsIn)
  <2>1. /\ commandsIn[3 * (m + 1) - 2] = First(c) /\ commandsIn[3 * (m + 1) - 1] = Rest(c)
        /\ 3 * (m + 1) <= Len(commandsIn) => commandsIn[3 * (m + 1)] = Newline
    BY <1>6 DEF ChannelInv, LinesTidy, n, c
  <2>2. 3 * (m + 1) - 2 = offset + 1 /\ 3 * (m + 1) - 1 = offset + 2 /\ 3 * (m + 1) = offset + 3
    BY <1>4, <1>6
  <2>3. offset + 2 <= Len(commandsIn)
    BY <1>3, <1>4, <1>5, <1>6
  <2> QED BY <2>1, <2>2, <2>3
<1>9. e = offset + 2
  <2>1. e # offset /\ e # offset + 1
    <3>1. First(c) # Newline /\ Rest(c) # Newline
      BY TokensDiffer
    <3>2. (offset + 1) + 1 = offset + 2
      BY <1>3
    <3>3. e \in {offset, offset + 1} => e < Len(commandsIn)
      BY <1>3, <1>8
    <3> QED BY <1>1, <1>8, <3>1, <3>2, <3>3
  <2>2. ~(e >= offset + 3)
    <3> SUFFICES ASSUME e >= offset + 3 PROVE FALSE
      OBVIOUS
    <3>1. offset + 3 \in (offset + 1)..e /\ offset + 3 <= Len(commandsIn)
      BY <1>1, <1>3
    <3> QED BY <1>1, <1>8, <3>1
  <2> QED BY <1>1, <1>3, <2>1, <2>2
<1>10. offset' = 3 * (m + 1)
  BY <1>1, <1>4, <1>6, <1>9
<1>11. \A d \in Commands : Takes(d, e) <=> (d = c /\ d \notin Empty)
  <2> SUFFICES ASSUME NEW d \in Commands PROVE Takes(d, e) <=> (d = c /\ d \notin Empty)
    OBVIOUS
  <2>1. Placed(offset + 1, d) <=> d = c
    <3>1. offset + 1 \in 1..Len(commandsIn)
      BY <1>3, <1>8
    <3> QED BY <1>8, <3>1, TokensDiffer DEF Placed
  <2>2. e >= offset + 2 /\ ~(e > offset + 2)
    BY <1>3, <1>9
  <2> QED BY <2>1, <2>2 DEF Takes
<1>12. kept[m + 1] = IF c \in WithPayload THEN Append(kept[m], c) ELSE kept[m]
  <2>1. m + 1 <= Len(sent)
    BY <1>3, <1>6 DEF n
  <2> QED BY <1>3, <1>6, <2>1 DEF Filters, c
<1>13. Delivered' = kept[m + 1]
  <2>1. CASE c \in Empty
    <3>1. parsed' = parsed
      BY <1>1, <1>11, <2>1
    <3>2. Delivered' = Delivered /\ c \notin WithPayload
      BY <2>1, <3>1 DEF Delivered, WithPayload
    <3> QED BY <1>4, <1>12, <3>2
  <2>2. CASE c \notin Empty
    <3>1. parsed' = Append(parsed, [cmd |-> c, whole |-> e = offset + 2])
      BY <1>1, <1>7, <1>11, <2>2
    <3>2. Delivered' = Append(Delivered, c)
      BY <1>7, <3>1, DeliveredGrows
    <3>3. c \in WithPayload
      BY <1>7, <2>2 DEF WithPayload
    <3> QED BY <1>4, <1>12, <3>2, <3>3
  <2> QED BY <2>1, <2>2
<1>14. ChannelInv'
  <2>1. LinesTidy'
    BY <1>1, <1>2 DEF ChannelInv, LinesTidy, Pending, First, Rest, Newline
  <2>2. ReadTidy'
    <3>1. KeptTo(sent', WithPayload)[m + 1] = kept[m + 1]
      BY <1>1 DEF kept
    <3>2. m + 1 \in 0..Len(sent')
      BY <1>1, <1>3, <1>6 DEF n
    <3> QED BY <1>10, <1>13, <3>1, <3>2 DEF ReadTidy, WithPayload
  <2> QED BY <1>2, <2>1, <2>2 DEF ChannelInv
<1>15. Kept(sent, WithPayload)' = Kept(sent, WithPayload)
  BY <1>1 DEF Kept, WithPayload
<1>16. CASE c \notin WithPayload
  BY <1>4, <1>12, <1>13, <1>14, <1>15, <1>16
<1>17. CASE c \in WithPayload
  <2> DEFINE all == Kept(sent, WithPayload)
  <2>1. all = kept[n]
    BY DEF Kept, kept, n
  <2>2. Leads(kept[m + 1], all)
    <3>1. n \in Nat /\ m + 1 \in Nat /\ n >= m + 1
      BY <1>3, <1>6
    <3> QED BY <1>3, <2>1, <3>1, KeptLeads
  <2>3. kept[m] \in Seq(WithPayload) /\ all \in Seq(WithPayload)
    BY <1>3, <1>6, <2>1 DEF Filters
  <2>4. kept[m + 1] = Append(kept[m], c)
    BY <1>12, <1>17
  <2> HIDE DEF all
  <2> DEFINE l == Len(kept[m])
  <2>5. l \in Nat /\ Len(kept[m + 1]) = l + 1 /\ kept[m + 1][l + 1] = c
    BY <1>17, <2>3, <2>4
  <2>6. l < Len(all) /\ all[l + 1] = c
    <3>1. Len(all) \in Nat
      BY <2>3
    <3> HIDE DEF l
    <3> QED BY <2>2, <2>5, <3>1 DEF Leads
  <2>7. Len(Delivered) = l
    BY <1>4
  <2>8. Channel!Deliver
    BY <1>4, <1>13, <1>15, <2>4, <2>6, <2>7 DEF Channel!Deliver, all
  <2> QED BY <1>14, <2>8 DEF Channel!Next
<1> QED BY <1>16, <1>17

LEMMA ChannelStep ==
  ASSUME TypeOK, OneClient, ChannelInv, [Next]_vars
  PROVE  ChannelInv' /\ [Channel!Next]_<<Kept(sent, WithPayload), Delivered>>
<1>1. ASSUME UNCHANGED <<commandsIn, sent, sending, faults, offset, parsed>>
      PROVE  ChannelInv' /\ [Channel!Next]_<<Kept(sent, WithPayload), Delivered>>
  <2>1. Kept(sent, WithPayload)' = Kept(sent, WithPayload) /\ Delivered' = Delivered
    BY <1>1 DEF Kept, WithPayload, Delivered
  <2>2. ChannelInv'
    BY <1>1, <2>1 DEF ChannelInv, LinesTidy, ReadTidy, Pending, First, Rest, Newline, WithPayload
  <2> QED BY <2>1, <2>2
<1> USE DEF clientVars, runVars, coreVars, frameVars
<1>2. ASSUME NEW k \in Clients, ReadTelemetry(k)
      PROVE  ChannelInv' /\ [Channel!Next]_<<Kept(sent, WithPayload), Delivered>>
  BY <1>1, <1>2 DEF ReadTelemetry, Took
<1>3. ASSUME NEW k \in Clients, ClientDies(k) \/ FailSend(k) PROVE FALSE
  BY <1>3 DEF ClientDies, FailSend, OneClient, ChannelInv
<1>4. CASE BeginBatch \/ EndBatch \/ Exit \/ GrowStale \/ PublishFrame
  BY <1>1, <1>4 DEF BeginBatch, EndBatch, Exit, GrowStale, PublishFrame
<1>5. CASE Execute
  BY <1>1, <1>5 DEF Execute, Answer
<1>6. CASE Restart
  <2>1. /\ offset' = 0 /\ parsed' = <<>> /\ UNCHANGED <<commandsIn, sent, sending, faults>>
    BY <1>6 DEF Restart, Reborn
  <2>2. Delivered' = <<>>
    BY <2>1 DEF Delivered
  <2>3. Kept(sent, WithPayload)' = Kept(sent, WithPayload)
    BY <2>1 DEF Kept, WithPayload
  <2>4. LinesTidy'
    BY <2>1 DEF ChannelInv, LinesTidy, Pending, First, Rest, Newline
  <2>5. ReadTidy'
    <3>1. sent' \in Seq(Commands)
      BY <2>1 DEF TypeOK
    <3>2. Filters(KeptTo(sent', WithPayload), sent', WithPayload)
      BY <3>1, KeptUnfolds
    <3>3. KeptTo(sent', WithPayload)[0] = <<>>
      BY <3>2 DEF Filters
    <3>4. 0 \in 0..Len(sent') /\ offset' = 3 * 0
      BY <2>1, <3>1
    <3> QED BY <2>2, <3>3, <3>4 DEF ReadTidy, WithPayload
  <2>6. Channel!Rewind
    BY <2>2, <2>3 DEF Channel!Rewind
  <2> QED BY <2>1, <2>4, <2>5, <2>6 DEF ChannelInv, Channel!Next
<1>7. CASE UNCHANGED vars
  BY <1>1, <1>7 DEF vars
<1> QED BY <1>2, <1>3, <1>4, <1>5, <1>6, <1>7, BeginSendTidy, EndSendTidy, ReadLineTidy
        DEF Next, ClientStep

(* What one client sends, every command that has a payload reaches the     *)
(* router, once in a life of the core, in order and unchanged, although    *)
(* pump_rx reads lines that are not finished: for any number of commands   *)
(* and restarts.                                                           *)
THEOREM FileIsAChannel == ASSUME OneClient PROVE Spec => IsAChannel
<1>1. Init => ChannelInv
  <2> SUFFICES ASSUME Init PROVE ChannelInv
    OBVIOUS
  <2>1. /\ faults = 0 /\ commandsIn = <<>> /\ sent = <<>> /\ offset = 0 /\ parsed = <<>>
        /\ \A k \in Clients : sending[k] = NoCommand
    BY DEF Init
  <2>2. LinesTidy
    BY <2>1 DEF LinesTidy, Pending
  <2>3. <<>> \in Seq(Commands) /\ 0 \in 0..Len(<<>>) /\ 0 = 3 * 0
    OBVIOUS
  <2>4. Filters(KeptTo(<<>>, WithPayload), <<>>, WithPayload)
    BY <2>3, KeptUnfolds
  <2>5. KeptTo(<<>>, WithPayload)[0] = <<>>
    BY <2>4 DEF Filters
  <2>6. Delivered = <<>>
    BY <2>1 DEF Delivered
  <2>7. ReadTidy
    BY <2>1, <2>3, <2>5, <2>6 DEF ReadTidy
  <2> QED BY <2>1, <2>2, <2>7 DEF ChannelInv
<1>2. TypeOK /\ ChannelInv /\ [Next]_vars
        => ChannelInv' /\ [Channel!Next]_<<Kept(sent, WithPayload), Delivered>>
  BY ChannelStep
<1>3. Init => Channel!Init
  BY KeptNone DEF Init, Delivered, Channel!Init
<1> QED BY <1>1, <1>2, <1>3, BridgeTypeSafe, PTL DEF Spec, IsAChannel, Channel!Spec
=============================================================================
