------------------------ MODULE CommandRouterProofs ------------------------
(***************************************************************************)
(* The router's queue bound, its order and its expiry test, for every      *)
(* number of commands, queue and batch bound, and width of the clock.      *)
(***************************************************************************)
EXTENDS CommandRouter, TLAPS

(* A consumer that reports has a result.                                   *)
HasResult == \A c \in Consumers : at[c] = "reporting" => verdict[c] \in Verdicts

(* Where consumer c is with the commands accepted: those answered, then    *)
(* the one it holds, then the queue.                                       *)
Holding(c) == IF at[c] \in {"running", "reporting"} THEN 1 ELSE 0

InStep(c) ==
  /\ Len(accepted) = Len(answers) + Holding(c) + Len(q)
  /\ \A k \in 1..Len(answers) : answers[k].id = accepted[k].id
  /\ Holding(c) = 1 => held[c] = accepted[Len(answers) + 1]
  /\ \A k \in 1..Len(q) : q[k] = accepted[Len(answers) + Holding(c) + k]

RouterInv == TypeOK /\ HasResult /\ NoLateExecution

-----------------------------------------------------------------------------
LEMMA RouterTypeInit == Init => RouterInv
<1> SUFFICES ASSUME Init PROVE RouterInv
  OBVIOUS
<1> USE RouterAssumption DEF Init, Blank, NoStatus
<1>1. ended \in BOOLEAN
  BY Zenon
<1>2. TypeOK
  BY <1>1, SMT DEF TypeOK
<1>3. HasResult /\ NoLateExecution
  BY DEF HasResult, NoLateExecution
<1> QED BY <1>2, <1>3 DEF RouterInv

LEMMA SubmitType ==
  ASSUME TypeOK, NEW e \in Envelopes, Submit(e) PROVE TypeOK'
<1> USE RouterAssumption DEF TypeOK, producerVars, consumerVars
<1>1. e.id \in {0} \cup 1..MaxSubmits
  BY DEF Envelopes
<1>2. refused' \subseteq 1..MaxSubmits
  BY <1>1 DEF Submit
<1>3. submitted' \in 0..MaxSubmits
  BY DEF Submit
<1>4. CASE Len(q) >= MaxQueue \/ e.id = 0
  BY <1>2, <1>3, <1>4 DEF Submit
<1>5. CASE ~ (Len(q) >= MaxQueue \/ e.id = 0)
  <2>1. q' = Append(q, e) /\ accepted' = Append(accepted, e)
    BY <1>5 DEF Submit
  <2>2. q' \in Seq(Envelopes) /\ Len(q') = Len(q) + 1
    BY <2>1
  <2>3. accepted' \in Seq(Envelopes)
    BY <2>1
  <2>4. Len(q') <= MaxQueue
    BY <1>5, <2>2
  <2>5. UNCHANGED <<clock, handlers, answers, at, now, left, held, verdict, ended>>
    BY DEF Submit
  <2> QED BY <1>2, <1>3, <2>2, <2>3, <2>4, <2>5
<1> QED BY <1>4, <1>5

LEMMA TakeType ==
  ASSUME TypeOK, NEW c \in Consumers, TakeFront(c) PROVE TypeOK'
<1> USE RouterAssumption DEF TypeOK, producerVars, consumerVars
<1>1. q # <<>>
  BY DEF TakeFront, Taken
<1>2. Head(q) \in Envelopes
  BY <1>1
<1>3. q' \in Seq(Envelopes) /\ Len(q') <= MaxQueue
  BY <1>1 DEF TakeFront
<1>4. Judge(Head(q), now[c]) \in Verdicts \cup {"run"}
  BY DEF Judge, Verdicts
<1>5. UNCHANGED <<now, ended, producerVars, answers>>
  BY DEF TakeFront, Taken
<1>6. at' \in [Consumers -> {"idle", "taking", "running", "reporting"}]
  BY DEF TakeFront, Taken
<1>7. held' \in [Consumers -> Envelopes \cup {Blank}]
  BY <1>2 DEF TakeFront, Taken
<1>8. verdict' \in [Consumers -> Verdicts \cup {NoStatus, "run"}]
  BY <1>4 DEF TakeFront, Taken
<1>9. left' \in [Consumers -> 0..MaxBatch]
  BY DEF TakeFront, Taken
<1> QED BY <1>3, <1>5, <1>6, <1>7, <1>8, <1>9

LEMMA RouterTypeStep == TypeOK /\ HasResult /\ [Next]_vars => TypeOK'
<1> SUFFICES ASSUME TypeOK, HasResult, [Next]_vars PROVE TypeOK'
  OBVIOUS
<1> USE RouterAssumption DEF TypeOK, producerVars, consumerVars
<1>1. CASE Tick
  BY <1>1 DEF Tick
<1>2. CASE \E command \in Commands : RegisterHandler(command)
  BY <1>2 DEF RegisterHandler
<1>3. ASSUME NEW e \in Envelopes, Submit(e) PROVE TypeOK'
  BY <1>3, SubmitType
<1>4. ASSUME NEW c \in Consumers, BeginBatch(c) PROVE TypeOK'
  BY <1>4 DEF BeginBatch
<1>5. ASSUME NEW c \in Consumers, EndBatch(c) PROVE TypeOK'
  BY <1>5 DEF EndBatch
<1>6. ASSUME NEW c \in Consumers, TakeFront(c) PROVE TypeOK'
  BY <1>6, TakeType
<1>7. ASSUME NEW c \in Consumers, RunHandler(c) PROVE TypeOK'
  <2>1. "Received" \in Verdicts
    BY DEF Verdicts, Statuses, NoStatus
  <2>2. \A s \in HandlerStatuses : s # NoStatus => s \in Verdicts
    BY DEF Verdicts
  <2>3. verdict' \in [Consumers -> Verdicts \cup {NoStatus, "run"}]
    BY <1>7, <2>1, <2>2 DEF RunHandler
  <2> QED BY <1>7, <2>3 DEF RunHandler
<1>8. ASSUME NEW c \in Consumers, Report(c) PROVE TypeOK'
  <2>1. held[c].id \in 0..MaxSubmits /\ verdict[c] \in Verdicts
    BY <1>8 DEF Envelopes, Blank, HasResult, Report
  <2>2. answers' \in Seq([id : 0..MaxSubmits, verdict : Verdicts])
    BY <1>8, <2>1 DEF Report
  <2> QED BY <1>8, <2>2 DEF Report
<1>9. CASE UNCHANGED vars
  BY <1>9 DEF vars
<1> QED
  BY <1>1, <1>2, <1>3, <1>4, <1>5, <1>6, <1>7, <1>8, <1>9
  DEF Next, ConsumerStep

LEMMA ResultStep == TypeOK /\ HasResult /\ [Next]_vars => HasResult'
<1> SUFFICES ASSUME TypeOK, HasResult, [Next]_vars PROVE HasResult'
  OBVIOUS
<1> USE DEF TypeOK, HasResult, producerVars, consumerVars
<1>1. CASE UNCHANGED <<at, verdict>>
  BY <1>1
<1>2. ASSUME NEW c \in Consumers, BeginBatch(c) \/ EndBatch(c) \/ Report(c)
      PROVE HasResult'
  BY <1>2 DEF BeginBatch, EndBatch, Report
<1>3. ASSUME NEW c \in Consumers, TakeFront(c) PROVE HasResult'
  <2>1. Judge(Head(q), now[c]) \in Verdicts \cup {"run"}
    BY DEF Judge, Verdicts
  <2> QED BY <1>3, <2>1 DEF TakeFront, Taken
<1>4. ASSUME NEW c \in Consumers, RunHandler(c) PROVE HasResult'
  <2>1. "Received" \in Verdicts
    BY DEF Verdicts, Statuses, NoStatus
  <2>2. \A s \in HandlerStatuses : s # NoStatus => s \in Verdicts
    BY RouterAssumption DEF Verdicts
  <2> QED BY <1>4, <2>1, <2>2 DEF RunHandler
<1> QED
  BY <1>1, <1>2, <1>3, <1>4
  DEF Next, ConsumerStep, Tick, RegisterHandler, Submit, vars

(* A command that passed the expiry test is no older than its time to live *)
(* although the subtraction wraps.                                         *)
LEMMA NotExpired ==
  ASSUME NEW e \in Envelopes, NEW t \in 0..MaxClock, ~ IsExpired(e, t)
  PROVE  e.ttl # 0 /\ e.issued # 0 => t <= e.issued + e.ttl
<1>1. e.ttl \in Nat /\ e.issued \in Nat
  <2>1. e.ttl \in Ttls /\ e.issued \in 0..MaxClock
    BY RouterAssumption DEF Envelopes
  <2>2. e.ttl \in 0..(Modulus - 1)
    BY <2>1, RouterAssumption
  <2> QED BY <2>1, <2>2
<1>2. CASE e.issued <= t
  BY <1>1, <1>2 DEF IsExpired, Age
<1>3. CASE ~ (e.issued <= t)
  BY <1>1, <1>3
<1> QED BY <1>2, <1>3

LEMMA LateStep == TypeOK /\ NoLateExecution /\ [Next]_vars => NoLateExecution'
<1> SUFFICES ASSUME TypeOK, NoLateExecution, [Next]_vars PROVE NoLateExecution'
  OBVIOUS
<1> USE DEF TypeOK, NoLateExecution, producerVars, consumerVars
<1>1. CASE UNCHANGED <<at, now, held>>
  BY <1>1
<1>2. ASSUME NEW c \in Consumers,
             BeginBatch(c) \/ EndBatch(c) \/ RunHandler(c) \/ Report(c)
      PROVE NoLateExecution'
  BY <1>2 DEF BeginBatch, EndBatch, RunHandler, Report
<1>3. ASSUME NEW c \in Consumers, TakeFront(c) PROVE NoLateExecution'
  <2>1. Head(q) \in Envelopes
    BY <1>3 DEF TakeFront, Taken
  <2>2. now[c] \in 0..MaxClock
    OBVIOUS
  <2>3. at'[c] = "running" => ~ IsExpired(Head(q), now[c])
    BY <1>3 DEF TakeFront, Taken, Judge
  <2>4. at'[c] = "running" /\ Head(q).ttl # 0 /\ Head(q).issued # 0 =>
          now[c] <= Head(q).issued + Head(q).ttl
    BY <2>1, <2>2, <2>3, NotExpired
  <2> QED BY <1>3, <2>4 DEF TakeFront, Taken
<1> QED
  BY <1>1, <1>2, <1>3
  DEF Next, ConsumerStep, Tick, RegisterHandler, Submit, vars

(* The router's types, the queue's bound max_queue, and the expiry test in *)
(* every reachable state.                                                  *)
THEOREM RouterInvariance == Spec => []RouterInv
<1>1. RouterInv /\ [Next]_vars => RouterInv'
  BY RouterTypeStep, ResultStep, LateStep DEF RouterInv
<1> QED BY RouterTypeInit, <1>1, PTL DEF Spec

(* The queue keeps its bound whatever the interleaving of submit with any  *)
(* number of consumers.                                                    *)
THEOREM QueueBounded == Spec => []TypeOK
<1>1. RouterInv => TypeOK
  BY DEF RouterInv
<1> QED BY RouterInvariance, <1>1, PTL

(* No handler starts on a command that was older than its time to live     *)
(* when the batch read the clock, although the age is computed in wrapping *)
(* arithmetic.                                                             *)
THEOREM NothingRunsLate == Spec => []NoLateExecution
<1>1. RouterInv => NoLateExecution
  BY DEF RouterInv
<1> QED BY RouterInvariance, <1>1, PTL

-----------------------------------------------------------------------------
LEMMA AppendFacts ==
  ASSUME NEW S, NEW s \in Seq(S), NEW e \in S
  PROVE  /\ Append(s, e) \in Seq(S)
         /\ Len(Append(s, e)) = Len(s) + 1
         /\ Append(s, e)[Len(s) + 1] = e
         /\ \A k \in 1..Len(s) : Append(s, e)[k] = s[k]
OBVIOUS

LEMMA TailFacts ==
  ASSUME NEW S, NEW s \in Seq(S), s # <<>>
  PROVE  /\ Len(s) >= 1 /\ Head(s) = s[1]
         /\ Len(Tail(s)) = Len(s) - 1
         /\ \A k \in 1..(Len(s) - 1) : Tail(s)[k] = s[k + 1]
OBVIOUS

LEMMA InStepStep ==
  ASSUME NEW c \in Consumers, Consumers = {c}, TypeOK, InStep(c), [Next]_vars
  PROVE  InStep(c)'
<1> DEFINE Answers == [id : 0..MaxSubmits, verdict : Verdicts]
<1>t. /\ q \in Seq(Envelopes) /\ accepted \in Seq(Envelopes)
      /\ answers \in Seq([id : 0..MaxSubmits, verdict : Verdicts])
      /\ Len(q) \in Nat /\ Len(accepted) \in Nat /\ Len(answers) \in Nat
      /\ at \in [Consumers -> {"idle", "taking", "running", "reporting"}]
      /\ held \in [Consumers -> Envelopes \cup {Blank}]
      /\ verdict \in [Consumers -> Verdicts \cup {NoStatus, "run"}]
  BY DEF TypeOK
<1>h. Holding(c) \in {0, 1}
  BY DEF Holding
<1>n. Len(accepted) = Len(answers) + Holding(c) + Len(q)
  BY DEF InStep
<1>1. CASE UNCHANGED <<q, answers, accepted, at, held>>
  BY <1>1 DEF InStep, Holding
<1>2. ASSUME NEW e \in Envelopes, Submit(e) PROVE InStep(c)'
  <2>1. CASE q' = Append(q, e) /\ accepted' = Append(accepted, e)
    <3>1. UNCHANGED <<answers, at, held>>
      BY <1>2 DEF Submit, consumerVars
    <3>2. Holding(c)' = Holding(c)
      BY <3>1 DEF Holding
    <3>3. Len(q') = Len(q) + 1 /\ q'[Len(q) + 1] = e
          /\ \A k \in 1..Len(q) : q'[k] = q[k]
      BY <2>1, <1>t, AppendFacts
    <3>4. Len(accepted') = Len(accepted) + 1 /\ accepted'[Len(accepted) + 1] = e
          /\ \A k \in 1..Len(accepted) : accepted'[k] = accepted[k]
      BY <2>1, <1>t, AppendFacts
    <3>5. Len(accepted') = Len(answers') + Holding(c)' + Len(q')
      <4>1. Len(accepted') = Len(accepted) + 1 /\ Len(q') = Len(q) + 1
        BY <3>3, <3>4
      <4>2. Len(answers') = Len(answers)
        BY <3>1
      <4>3. Holding(c) \in Nat /\ Len(q) \in Nat /\ Len(answers) \in Nat
        BY <1>t, <1>h
      <4> QED BY <4>1, <4>2, <4>3, <3>2, <1>n
    <3>6. \A k \in 1..Len(answers') : answers'[k].id = accepted'[k].id
      BY <1>t, <1>h, <3>1, <3>4 DEF InStep
    <3>7. Holding(c)' = 1 => held'[c] = accepted'[Len(answers') + 1]
      <4>1. Holding(c) = 1 => Len(answers) + 1 \in 1..Len(accepted)
        BY <1>t DEF InStep
      <4> QED BY <4>1, <3>1, <3>2, <3>4 DEF InStep
    <3>8. ASSUME NEW k \in 1..Len(q')
          PROVE  q'[k] = accepted'[Len(answers') + Holding(c)' + k]
      <4>1. CASE k \in 1..Len(q)
        <5>1. Len(answers) + Holding(c) + k \in 1..Len(accepted)
          BY <4>1, <1>t, <1>h DEF InStep
        <5>2. q[k] = accepted[Len(answers) + Holding(c) + k]
          BY <4>1 DEF InStep
        <5> QED BY <4>1, <5>1, <5>2, <3>1, <3>2, <3>3, <3>4
      <4>2. CASE k = Len(q) + 1
        <5>1. Len(answers) + Holding(c) + k = Len(accepted) + 1
          <6>1. Holding(c) \in Nat /\ Len(q) \in Nat /\ Len(answers) \in Nat
            BY <1>t, <1>h
          <6> QED BY <6>1, <4>2, <1>n
        <5> QED BY <4>2, <5>1, <3>1, <3>2, <3>3, <3>4
      <4>3. k \in 1..Len(q) \/ k = Len(q) + 1
        BY <3>3, <1>t
      <4> QED BY <4>1, <4>2, <4>3
    <3> QED BY <3>5, <3>6, <3>7, <3>8 DEF InStep
  <2>2. CASE UNCHANGED <<q, accepted>>
    BY <1>2, <2>2 DEF Submit, consumerVars, InStep, Holding
  <2> QED BY <1>2, <2>1, <2>2 DEF Submit
<1>3. CASE BeginBatch(c) \/ EndBatch(c) \/ RunHandler(c)
  <2>1. UNCHANGED <<q, answers, accepted, held>>
    BY <1>3 DEF BeginBatch, EndBatch, RunHandler, producerVars
  <2>2. Holding(c)' = Holding(c)
    BY <1>3, <1>t DEF BeginBatch, EndBatch, RunHandler, Holding
  <2> QED BY <2>1, <2>2 DEF InStep
<1>4. CASE TakeFront(c)
  <2>1. at[c] = "taking" /\ at'[c] \in {"running", "reporting"} /\ held'[c] = Head(q)
    BY <1>4, <1>t DEF TakeFront, Taken
  <2>2. Holding(c) = 0 /\ Holding(c)' = 1
    BY <2>1 DEF Holding
  <2>3. q' = Tail(q) /\ q # <<>> /\ UNCHANGED <<answers, accepted>>
    BY <1>4 DEF TakeFront, Taken, producerVars
  <2>4. /\ Len(q) >= 1 /\ Head(q) = q[1] /\ Len(q') = Len(q) - 1
        /\ \A k \in 1..(Len(q) - 1) : q'[k] = q[k + 1]
    BY <2>3, <1>t, TailFacts
  <2>5. Len(accepted') = Len(answers') + Holding(c)' + Len(q')
    <3>1. Len(answers') = Len(answers) /\ Len(accepted') = Len(accepted)
          /\ Len(q') = Len(q) - 1
      BY <2>3, <2>4
    <3>2. Len(q) \in Nat /\ Len(answers) \in Nat
      BY <1>t
    <3> QED BY <3>1, <3>2, <2>2, <1>n
  <2>6. held'[c] = accepted'[Len(answers') + 1]
    <3>1. 1 \in 1..Len(q)
      BY <1>t, <2>4
    <3>2. q[1] = accepted[Len(answers) + 1]
      BY <3>1, <2>2, <1>t DEF InStep
    <3> QED BY <3>2, <2>1, <2>3, <2>4
  <2>7. ASSUME NEW k \in 1..Len(q')
        PROVE  q'[k] = accepted'[Len(answers') + Holding(c)' + k]
    <3>1. k + 1 \in 1..Len(q) /\ q'[k] = q[k + 1]
      BY <1>t, <2>4
    <3>2. q[k + 1] = accepted[Len(answers) + (k + 1)]
      BY <3>1, <2>2, <1>t DEF InStep
    <3> QED BY <3>1, <3>2, <2>2, <2>3, <1>t
  <2>8. \A k \in 1..Len(answers') : answers'[k].id = accepted'[k].id
    BY <2>3 DEF InStep
  <2> QED BY <2>5, <2>6, <2>7, <2>8 DEF InStep
<1>5. CASE Report(c)
  <2>1. at[c] = "reporting" /\ at'[c] = "taking" /\ UNCHANGED <<q, accepted, held>>
    BY <1>5, <1>t DEF Report, producerVars
  <2>2. Holding(c) = 1 /\ Holding(c)' = 0
    BY <2>1 DEF Holding
  <2> DEFINE a == [id |-> held[c].id, verdict |-> verdict[c]]
  <2>3. answers' = Append(answers, a) /\ answers \in Seq(Answers \cup {a})
    <3>1. answers \in Seq(Answers)
      BY <1>t
    <3>2. answers' = Append(answers, a)
      BY <1>5 DEF Report
    <3> HIDE DEF a, Answers
    <3> QED BY <3>1, <3>2
  <2>4. Len(answers') = Len(answers) + 1 /\ answers'[Len(answers) + 1] = a
        /\ \A k \in 1..Len(answers) : answers'[k] = answers[k]
    <3> HIDE DEF a, Answers
    <3> QED BY <2>3, AppendFacts
  <2>5. held[c] = accepted[Len(answers) + 1]
    BY <2>2 DEF InStep
  <2>6. Len(accepted') = Len(answers') + Holding(c)' + Len(q')
    BY <1>t, <1>n, <2>1, <2>2, <2>4
  <2>7. ASSUME NEW k \in 1..Len(answers') PROVE answers'[k].id = accepted'[k].id
    <3>1. CASE k \in 1..Len(answers)
      BY <3>1, <2>1, <2>4 DEF InStep
    <3>2. CASE k = Len(answers) + 1
      BY <3>2, <2>1, <2>4, <2>5
    <3> QED BY <3>1, <3>2, <2>4, <1>t
  <2>8. ASSUME NEW k \in 1..Len(q')
        PROVE  q'[k] = accepted'[Len(answers') + Holding(c)' + k]
    BY <1>t, <2>1, <2>2, <2>4 DEF InStep
  <2> QED BY <2>2, <2>6, <2>7, <2>8 DEF InStep
<1>6. ASSUME Tick \/ (\E command \in Commands : RegisterHandler(command))
             \/ UNCHANGED vars
      PROVE  InStep(c)'
  <2>1. UNCHANGED <<q, answers, accepted, at, held>>
    BY <1>6 DEF Tick, RegisterHandler, vars, producerVars, consumerVars
  <2> QED BY <2>1, <1>1
<1> QED
  BY <1>2, <1>3, <1>4, <1>5, <1>6 DEF Next, ConsumerStep

(* With the one consumer UgvCore runs, answers come in the order in which  *)
(* submit accepted the commands, whatever the bounds of queue and batch.   *)
THEOREM AnswersKeepOrder ==
  ASSUME NEW c \in Consumers, Consumers = {c}
  PROVE  Spec => []AnsweredInOrder
<1>1. Init => InStep(c)
  BY DEF Init, InStep, Holding
<1>2. TypeOK /\ InStep(c) /\ [Next]_vars => InStep(c)'
  BY InStepStep
<1>3. TypeOK /\ InStep(c) => AnsweredInOrder
  BY DEF TypeOK, InStep, Holding, AnsweredInOrder
<1> QED BY <1>1, <1>2, <1>3, QueueBounded, PTL DEF Spec

-----------------------------------------------------------------------------
(* Every accepted command is in one place: answered, held by a consumer, or*)
(* queued.  It is the invariant behind the refinement of CommandService.   *)

Busy(c)     == at[c] \in {"running", "reporting"}
Accepted(i) == \E k \in 1..Len(accepted) : accepted[k].id = i
Answered(i) == \E k \in 1..Len(answers) : answers[k].id = i
Held(i)     == \E c \in Consumers : Busy(c) /\ held[c].id = i
Queued(i)   == \E k \in 1..Len(q) : q[k].id = i

Numbered ==
  /\ refused \subseteq 1..submitted
  /\ \A i : Accepted(i) => i \in 1..submitted /\ i \notin refused
InOnePlace ==
  /\ \A i : Accepted(i) <=> Answered(i) \/ Held(i) \/ Queued(i)
  /\ \A i : ~ (Answered(i) /\ Held(i)) /\ ~ (Answered(i) /\ Queued(i)) /\ ~ (Held(i) /\ Queued(i))
OnceThere ==
  /\ \A j, k \in 1..Len(answers) : answers[j].id = answers[k].id => j = k
  /\ \A j, k \in 1..Len(q) : q[j].id = q[k].id => j = k
  /\ \A b, c \in Consumers : Busy(b) /\ Busy(c) /\ held[b].id = held[c].id => b = c

OnceInv == Numbered /\ InOnePlace /\ OnceThere

LEMMA OnceInit == Init => OnceInv
<1> SUFFICES ASSUME Init PROVE OnceInv
  OBVIOUS
<1>1. \A i : ~ Accepted(i) /\ ~ Answered(i) /\ ~ Held(i) /\ ~ Queued(i)
  BY DEF Init, Accepted, Answered, Held, Queued, Busy
<1>2. \A c \in Consumers : ~ Busy(c)
  BY DEF Init, Busy
<1> QED BY <1>1, <1>2 DEF Init, OnceInv, Numbered, InOnePlace, OnceThere

LEMMA OnceSubmit ==
  ASSUME TypeOK, OnceInv, NEW e \in Envelopes, Submit(e) PROVE OnceInv'
<1>1. /\ UNCHANGED <<answers, at, held>> /\ submitted' = submitted + 1
      /\ submitted \in Nat /\ e.id \in {0, submitted + 1}
  BY RouterAssumption DEF Submit, consumerVars, TypeOK
<1>2. \A i : (Answered(i)' <=> Answered(i)) /\ (Held(i)' <=> Held(i))
  BY <1>1 DEF Answered, Held, Busy
<1>3. \A c \in Consumers : Busy(c)' <=> Busy(c)
  BY <1>1 DEF Busy
<1>4. CASE Len(q) >= MaxQueue \/ e.id = 0
  <2>1. UNCHANGED <<q, accepted>> /\ refused' = refused \cup ({e.id} \ {0})
    BY <1>4 DEF Submit
  <2>2. \A i : (Accepted(i)' <=> Accepted(i)) /\ (Queued(i)' <=> Queued(i))
    BY <2>1 DEF Accepted, Queued
  <2>3. Numbered'
    <3>1. \A i : i \in 1..submitted => i \in 1..submitted' /\ i # submitted + 1
      BY <1>1
    <3>2. \A i : i \in {e.id} \ {0} => i = submitted + 1 /\ i \in 1..submitted'
      BY <1>1
    <3> QED BY <2>1, <2>2, <3>1, <3>2 DEF OnceInv, Numbered
  <2> QED BY <1>1, <1>2, <1>3, <2>1, <2>2, <2>3 DEF OnceInv, InOnePlace, OnceThere
<1>5. CASE ~ (Len(q) >= MaxQueue \/ e.id = 0)
  <2>1. q' = Append(q, e) /\ accepted' = Append(accepted, e) /\ refused' = refused
    BY <1>5 DEF Submit
  <2>2. e.id = submitted + 1
    BY <1>1, <1>5
  <2>3. /\ Len(q') = Len(q) + 1 /\ q'[Len(q) + 1] = e /\ Len(q) \in Nat
        /\ \A k \in 1..Len(q) : q'[k] = q[k]
    BY <2>1, AppendFacts DEF TypeOK
  <2>4. /\ Len(accepted') = Len(accepted) + 1 /\ accepted'[Len(accepted) + 1] = e
        /\ Len(accepted) \in Nat
        /\ \A k \in 1..Len(accepted) : accepted'[k] = accepted[k]
    BY <2>1, AppendFacts DEF TypeOK
  <2>5. \A i : Queued(i)' <=> Queued(i) \/ i = e.id
    BY <2>3 DEF Queued
  <2>6. \A i : Accepted(i)' <=> Accepted(i) \/ i = e.id
    BY <2>4 DEF Accepted
  <2>7. ~ Accepted(e.id) /\ e.id \notin refused
    BY <1>1, <2>2 DEF OnceInv, Numbered
  <2>8. ~ Answered(e.id) /\ ~ Held(e.id) /\ ~ Queued(e.id)
    BY <2>7 DEF OnceInv, InOnePlace
  <2>9. Numbered'
    BY <1>1, <2>1, <2>2, <2>6, <2>7 DEF OnceInv, Numbered
  <2>10. InOnePlace'
    BY <1>2, <2>5, <2>6, <2>8 DEF OnceInv, InOnePlace
  <2>11. \A j, k \in 1..Len(q') : q'[j].id = q'[k].id => j = k
    BY <2>3, <2>8 DEF OnceInv, OnceThere, Queued
  <2>12. OnceThere'
    BY <1>1, <1>3, <2>11 DEF OnceInv, OnceThere
  <2> QED BY <2>9, <2>10, <2>12 DEF OnceInv
<1> QED BY <1>4, <1>5

LEMMA OnceTake ==
  ASSUME TypeOK, OnceInv, NEW c \in Consumers, TakeFront(c) PROVE OnceInv'
<1>1. /\ q # <<>> /\ q' = Tail(q) /\ at[c] = "taking" /\ at'[c] \in {"running", "reporting"}
      /\ held' = [held EXCEPT ![c] = Head(q)]
      /\ \A b \in Consumers \ {c} : at'[b] = at[b]
      /\ UNCHANGED <<answers, accepted, submitted, refused>>
  BY DEF TakeFront, Taken, producerVars, TypeOK
<1>2. /\ Len(q) >= 1 /\ Head(q) = q[1] /\ Len(q') = Len(q) - 1 /\ Len(q) \in Nat
      /\ \A k \in 1..(Len(q) - 1) : q'[k] = q[k + 1]
  BY <1>1, TailFacts DEF TypeOK
<1>3. held'[c] = q[1] /\ \A b \in Consumers \ {c} : held'[b] = held[b]
  BY <1>1, <1>2 DEF TypeOK
<1>4. /\ ~ Busy(c) /\ Busy(c)'
      /\ \A b \in Consumers \ {c} : Busy(b)' <=> Busy(b)
  BY <1>1 DEF Busy
<1>5. \A i : (Answered(i)' <=> Answered(i)) /\ (Accepted(i)' <=> Accepted(i))
  BY <1>1 DEF Answered, Accepted
<1>6. \A i : Held(i)' <=> Held(i) \/ i = q[1].id
  BY <1>3, <1>4 DEF Held
<1>7. \A i : Queued(i)' <=> Queued(i) /\ i # q[1].id
  <2>1. ASSUME NEW i, Queued(i)' PROVE Queued(i) /\ i # q[1].id
    <3>1. PICK k \in 1..Len(q') : q'[k].id = i
      BY <2>1 DEF Queued
    <3>2. k + 1 \in 1..Len(q) /\ q[k + 1].id = i /\ 1 \in 1..Len(q) /\ k + 1 # 1
      BY <1>2, <3>1
    <3> QED BY <3>2 DEF Queued, OnceInv, OnceThere
  <2>2. ASSUME NEW i, Queued(i), i # q[1].id PROVE Queued(i)'
    <3>1. PICK k \in 1..Len(q) : q[k].id = i
      BY <2>2 DEF Queued
    <3>2. k - 1 \in 1..Len(q') /\ q'[k - 1] = q[k]
      <4>1. k # 1
        BY <2>2, <3>1
      <4>2. k - 1 \in 1..(Len(q) - 1) /\ (k - 1) + 1 = k
        BY <1>2, <4>1
      <4> QED BY <1>2, <4>2
    <3> QED BY <3>1, <3>2 DEF Queued
  <2> QED BY <2>1, <2>2
<1>8. Queued(q[1].id)
  BY <1>2 DEF Queued
<1>9. ~ Held(q[1].id) /\ ~ Answered(q[1].id)
  BY <1>8 DEF OnceInv, InOnePlace
<1>10. Numbered'
  BY <1>1, <1>5 DEF OnceInv, Numbered
<1>11. InOnePlace'
  BY <1>5, <1>6, <1>7, <1>8, <1>9 DEF OnceInv, InOnePlace
<1>12. \A j, k \in 1..Len(q') : q'[j].id = q'[k].id => j = k
  <2> SUFFICES ASSUME NEW j \in 1..Len(q'), NEW k \in 1..Len(q'), q'[j].id = q'[k].id
               PROVE  j = k
    OBVIOUS
  <2>1. j + 1 \in 1..Len(q) /\ k + 1 \in 1..Len(q) /\ q[j + 1].id = q[k + 1].id
    BY <1>2
  <2>2. j + 1 = k + 1
    BY <2>1 DEF OnceInv, OnceThere
  <2> QED BY <2>2
<1>13. \A b, d \in Consumers : Busy(b)' /\ Busy(d)' /\ held'[b].id = held'[d].id => b = d
  BY <1>3, <1>4, <1>9 DEF OnceInv, OnceThere, Held
<1>14. OnceThere'
  BY <1>1, <1>12, <1>13 DEF OnceInv, OnceThere
<1> QED BY <1>10, <1>11, <1>14 DEF OnceInv

LEMMA ReportAdds ==
  ASSUME TypeOK, NEW c \in Consumers, Report(c)
  PROVE  /\ at[c] = "reporting" /\ at' = [at EXCEPT ![c] = "taking"]
         /\ UNCHANGED <<q, accepted, held, submitted, refused>>
         /\ Len(answers) \in Nat /\ Len(answers') = Len(answers) + 1
         /\ answers'[Len(answers) + 1] = [id |-> held[c].id, verdict |-> verdict[c]]
         /\ \A k \in 1..Len(answers) : answers'[k] = answers[k]
<1> DEFINE Answers == [id : 0..MaxSubmits, verdict : Verdicts]
           a == [id |-> held[c].id, verdict |-> verdict[c]]
<1>1. answers' = Append(answers, a) /\ answers \in Seq(Answers)
  BY DEF Report, TypeOK
<1>2. /\ Len(answers) \in Nat /\ Len(answers') = Len(answers) + 1
      /\ answers'[Len(answers) + 1] = a
      /\ \A k \in 1..Len(answers) : answers'[k] = answers[k]
  <2>1. answers \in Seq(Answers \cup {a})
    <3> HIDE DEF a, Answers
    <3> QED BY <1>1
  <2> HIDE DEF a, Answers
  <2> QED BY <1>1, <2>1, AppendFacts
<1> QED BY <1>2 DEF Report, producerVars

LEMMA OnceReport ==
  ASSUME TypeOK, OnceInv, NEW c \in Consumers, Report(c) PROVE OnceInv'
<1> DEFINE i0 == held[c].id
<1>1. /\ at[c] = "reporting" /\ at' = [at EXCEPT ![c] = "taking"]
      /\ UNCHANGED <<q, accepted, held, submitted, refused>>
      /\ Len(answers) \in Nat /\ Len(answers') = Len(answers) + 1
      /\ answers'[Len(answers) + 1].id = i0
      /\ \A k \in 1..Len(answers) : answers'[k] = answers[k]
  <2>1. [id |-> held[c].id, verdict |-> verdict[c]].id = i0
    OBVIOUS
  <2> QED BY <2>1, ReportAdds, Zenon
<1>2. /\ Busy(c) /\ ~ Busy(c)'
      /\ \A b \in Consumers \ {c} : Busy(b)' <=> Busy(b)
  BY <1>1 DEF Busy, TypeOK
<1>3. \A i : (Queued(i)' <=> Queued(i)) /\ (Accepted(i)' <=> Accepted(i))
  BY <1>1 DEF Queued, Accepted
<1>4. \A i : Answered(i)' <=> Answered(i) \/ i = i0
  <2> HIDE DEF i0
  <2> QED BY <1>1 DEF Answered
<1>5. \A i : Held(i)' <=> Held(i) /\ i # i0
  BY <1>1, <1>2 DEF Held, OnceInv, OnceThere
<1>6. Held(i0)
  BY <1>2 DEF Held
<1>7. ~ Answered(i0) /\ ~ Queued(i0)
  BY <1>6 DEF OnceInv, InOnePlace
<1> HIDE DEF i0
<1>8. Numbered'
  BY <1>1, <1>3 DEF OnceInv, Numbered
<1>9. InOnePlace'
  BY <1>3, <1>4, <1>5, <1>6, <1>7 DEF OnceInv, InOnePlace
<1>10. \A j, k \in 1..Len(answers') : answers'[j].id = answers'[k].id => j = k
  BY <1>1, <1>7 DEF Answered, OnceInv, OnceThere
<1>11. OnceThere'
  BY <1>1, <1>2, <1>10 DEF OnceInv, OnceThere
<1> QED BY <1>8, <1>9, <1>11 DEF OnceInv

(* The other steps move no command.                                        *)
StaysPut == UNCHANGED <<q, accepted, answers, held, submitted, refused>>

LEMMA OtherStepsStay ==
  ASSUME TypeOK, NEW c \in Consumers, BeginBatch(c) \/ EndBatch(c) \/ RunHandler(c)
  PROVE  StaysPut /\ \A b \in Consumers : Busy(b)' <=> Busy(b)
BY DEF BeginBatch, EndBatch, RunHandler, StaysPut, producerVars, Busy, TypeOK

LEMMA OnceStay ==
  ASSUME OnceInv, StaysPut, \A b \in Consumers : Busy(b)' <=> Busy(b)
  PROVE  OnceInv'
<1>1. \A i : /\ (Accepted(i)' <=> Accepted(i)) /\ (Answered(i)' <=> Answered(i))
             /\ (Held(i)' <=> Held(i)) /\ (Queued(i)' <=> Queued(i))
  BY DEF StaysPut, Accepted, Answered, Held, Queued
<1>2. Numbered'
  BY <1>1 DEF OnceInv, Numbered, StaysPut
<1>3. InOnePlace'
  BY <1>1 DEF OnceInv, InOnePlace
<1>4. OnceThere'
  BY DEF OnceInv, OnceThere, StaysPut
<1> QED BY <1>2, <1>3, <1>4 DEF OnceInv

LEMMA OnceStep == TypeOK /\ OnceInv /\ [Next]_vars => OnceInv'
<1> SUFFICES ASSUME TypeOK, OnceInv, [Next]_vars PROVE OnceInv'
  OBVIOUS
<1>1. ASSUME Tick \/ (\E command \in Commands : RegisterHandler(command))
             \/ UNCHANGED vars
      PROVE  OnceInv'
  <2>1. StaysPut /\ UNCHANGED at
    BY <1>1 DEF Tick, RegisterHandler, vars, producerVars, consumerVars, StaysPut
  <2>2. \A b \in Consumers : Busy(b)' <=> Busy(b)
    BY <2>1 DEF Busy
  <2> QED BY <2>1, <2>2, OnceStay
<1> QED
  BY <1>1, OnceSubmit, OnceTake, OnceReport, OtherStepsStay, OnceStay DEF Next, ConsumerStep

(* Whatever the number of consumers, an accepted command is answered, held *)
(* by one consumer or queued, and is so once: none is lost or run twice.   *)
THEOREM CommandsInOnePlace == Spec => []OnceInv
BY OnceInit, OnceStep, QueueBounded, PTL DEF Spec

-----------------------------------------------------------------------------
(* The refinement of CommandService. *)

StatusOf == [i \in 1..MaxSubmits |-> Status(i)]

LEMMA AnswersToEmpty == ASSUME NEW i PROVE AnswersTo(i) = {} <=> ~ Answered(i)
BY DEF AnswersTo, Answered

LEMMA StatusWaiting ==
  ASSUME NEW i, ~ Answered(i)
  PROVE  Status(i) = IF i \in refused THEN "refused" ELSE IF Accepted(i) THEN "pending" ELSE "new"
BY AnswersToEmpty DEF Status, Accepted

LEMMA StatusWaitingNext ==
  ASSUME NEW i, ~ Answered(i)'
  PROVE  Status(i)' = IF i \in refused' THEN "refused"
                      ELSE IF Accepted(i)' THEN "pending" ELSE "new"
<1>1. AnswersTo(i)' = {}
  BY DEF AnswersTo, Answered
<1> QED BY <1>1 DEF Status, Accepted

LEMMA ServiceInit == Init => Service!Init
<1> SUFFICES ASSUME Init, NEW i \in 1..MaxSubmits PROVE Status(i) = "new"
  BY DEF Service!Init
<1>1. ~ Answered(i) /\ ~ Accepted(i) /\ i \notin refused
  BY DEF Init, Answered, Accepted
<1> QED BY <1>1, StatusWaiting

LEMMA ServiceStep ==
  TypeOK /\ HasResult /\ OnceInv /\ OnceInv' /\ [Next]_vars => [Service!Next]_StatusOf
<1> SUFFICES ASSUME TypeOK, HasResult, OnceInv, OnceInv', [Next]_vars
             PROVE  [Service!Next]_StatusOf
  OBVIOUS
<1> DEFINE Ids == 1..MaxSubmits
<1>0. StatusOf \in [Ids -> {Status(i) : i \in Ids}] /\ \A i \in Ids : StatusOf[i] = Status(i)
  BY DEF StatusOf
(* A step that changes the status of one command, or of none.              *)
<1>1. ASSUME NEW i \in Ids, \A j \in Ids \ {i} : Status(j)' = Status(j)
      PROVE  StatusOf' = [StatusOf EXCEPT ![i] = Status(i)']
  BY <1>1 DEF StatusOf
<1>2. ASSUME \A j \in Ids : Status(j)' = Status(j) PROVE StatusOf' = StatusOf
  BY <1>2 DEF StatusOf
<1>3. ASSUME answers' = answers, NEW j,
             Accepted(j)' <=> Accepted(j), j \in refused' <=> j \in refused
      PROVE  Status(j)' = Status(j)
  <2>1. AnswersTo(j)' = AnswersTo(j)
    BY <1>3 DEF AnswersTo
  <2> QED BY <1>3, <2>1 DEF Status, Accepted
<1>4. ASSUME NEW e \in Envelopes, Submit(e) PROVE [Service!Next]_StatusOf
  <2>1. /\ answers' = answers /\ submitted \in Nat /\ submitted < MaxSubmits
        /\ e.id \in {0, submitted + 1} /\ MaxSubmits \in Nat
    BY <1>4, RouterAssumption DEF Submit, TypeOK
  <2>2. CASE Len(q) >= MaxQueue \/ e.id = 0
    <3>1. UNCHANGED accepted /\ refused' = refused \cup ({e.id} \ {0})
      BY <1>4, <2>2 DEF Submit
    <3>2. \A j \in Ids \ {e.id} : Status(j)' = Status(j)
      BY <1>3, <2>1, <3>1 DEF Accepted
    <3>3. CASE e.id = 0
      BY <1>2, <3>2, <3>3
    <3>4. CASE e.id # 0
      <4>1. e.id = submitted + 1 /\ e.id \in Ids
        BY <2>1, <3>4
      <4>2. e.id \notin refused /\ ~ Accepted(e.id) /\ e.id \in refused'
        BY <2>1, <3>1, <3>4, <4>1 DEF OnceInv, Numbered
      <4>3. ~ Answered(e.id) /\ ~ Answered(e.id)'
        BY <2>1, <4>2 DEF OnceInv, InOnePlace, Answered
      <4>4. Status(e.id) = "new" /\ Status(e.id)' = "refused"
        BY <4>2, <4>3, StatusWaiting, StatusWaitingNext
      <4>5. Service!Refuse(e.id)
        BY <1>0, <1>1, <3>2, <4>1, <4>4 DEF Service!Refuse, StatusOf
      <4> QED BY <4>1, <4>5 DEF Service!Next
    <3> QED BY <3>3, <3>4
  <2>3. CASE ~ (Len(q) >= MaxQueue \/ e.id = 0)
    <3>1. UNCHANGED refused /\ accepted' = Append(accepted, e)
      BY <1>4, <2>3 DEF Submit
    <3>2. e.id = submitted + 1 /\ e.id \in Ids
      BY <2>1, <2>3
    <3>3. \A j : Accepted(j)' <=> Accepted(j) \/ j = e.id
      <4>1. /\ Len(accepted') = Len(accepted) + 1 /\ accepted'[Len(accepted) + 1] = e
            /\ Len(accepted) \in Nat
            /\ \A k \in 1..Len(accepted) : accepted'[k] = accepted[k]
        BY <3>1, AppendFacts DEF TypeOK
      <4> QED BY <4>1 DEF Accepted
    <3>4. \A j \in Ids \ {e.id} : Status(j)' = Status(j)
      BY <1>3, <2>1, <3>1, <3>3
    <3>5. e.id \notin refused /\ ~ Accepted(e.id)
      BY <2>1, <3>2 DEF OnceInv, Numbered
    <3>6. ~ Answered(e.id) /\ ~ Answered(e.id)'
      BY <2>1, <3>5 DEF OnceInv, InOnePlace, Answered
    <3>7. Status(e.id) = "new" /\ Status(e.id)' = "pending"
      BY <3>1, <3>3, <3>5, <3>6, StatusWaiting, StatusWaitingNext
    <3>8. Service!Accept(e.id)
      BY <1>0, <1>1, <3>2, <3>4, <3>7 DEF Service!Accept, StatusOf
    <3> QED BY <3>2, <3>8 DEF Service!Next
  <2> QED BY <2>2, <2>3
<1>5. ASSUME NEW c \in Consumers, Report(c) PROVE [Service!Next]_StatusOf
  <2>0. PICK i : i = held[c].id
    OBVIOUS
  <2>1. /\ at[c] = "reporting" /\ UNCHANGED <<accepted, refused>>
        /\ Len(answers) \in Nat /\ Len(answers') = Len(answers) + 1
        /\ answers'[Len(answers) + 1] = [id |-> i, verdict |-> verdict[c]]
        /\ \A k \in 1..Len(answers) : answers'[k] = answers[k]
    BY <1>5, <2>0, ReportAdds
  <2>2. Held(i)
    BY <2>0, <2>1 DEF Held, Busy
  <2>3. Accepted(i) /\ ~ Answered(i)
    BY <2>2 DEF OnceInv, InOnePlace
  <2>4. i \in Ids /\ i \notin refused
    <3>1. i \in 1..submitted /\ i \notin refused
      BY <2>3 DEF OnceInv, Numbered
    <3> QED BY <3>1, RouterAssumption DEF TypeOK
  <2>5. Status(i) = "pending"
    BY <2>3, <2>4, StatusWaiting
  <2>6. verdict[c] \in Verdicts
    BY <2>1 DEF HasResult
  <2>7. Len(answers) + 1 \in 1..Len(answers')
    BY <2>1
  <2>8. Status(i)' = verdict[c]
    <3>1. AnswersTo(i)' = {Len(answers) + 1}
      <4>1. \A k \in 1..Len(answers') : answers'[k].id = i <=> k = Len(answers) + 1
        BY <2>1, <2>3 DEF Answered
      <4>2. \A k : k \in AnswersTo(i)' <=> k \in 1..Len(answers') /\ answers'[k].id = i
        BY DEF AnswersTo
      <4> QED BY <2>7, <4>1, <4>2, Zenon
    <3>2. (CHOOSE j \in {Len(answers) + 1} : TRUE) = Len(answers) + 1
      OBVIOUS
    <3>3. answers'[Len(answers) + 1].verdict = verdict[c]
      BY <2>1
    <3> QED BY <3>1, <3>2, <3>3, Zenon DEF Status
  <2>9. ASSUME NEW j \in Ids \ {i} PROVE Status(j)' = Status(j)
    <3>1. AnswersTo(j)' = AnswersTo(j)
      BY <2>1, <2>9 DEF AnswersTo
    <3>2. AnswersTo(j) \subseteq 1..Len(answers)
      BY DEF AnswersTo
    <3>3. CASE Answered(j)
      <4>1. PICK k \in 1..Len(answers) : answers[k].id = j
        BY <3>3 DEF Answered
      <4>2. AnswersTo(j) = {k}
        BY <4>1 DEF AnswersTo, OnceInv, OnceThere
      <4>3. (CHOOSE m \in {k} : TRUE) = k /\ answers'[k] = answers[k]
        BY <2>1
      <4>4. Status(j) = answers[k].verdict
        BY <4>2, <4>3, Zenon DEF Status
      <4>5. Status(j)' = answers'[k].verdict
        BY <3>1, <4>2, <4>3, Zenon DEF Status
      <4> QED BY <4>3, <4>4, <4>5
    <3>4. CASE ~ Answered(j)
      <4>1. ~ Answered(j)'
        BY <2>1, <2>9, <3>4 DEF Answered
      <4>2. (Accepted(j)' <=> Accepted(j)) /\ refused' = refused
        BY <2>1 DEF Accepted
      <4> QED BY <3>4, <4>1, <4>2, StatusWaiting, StatusWaitingNext
    <3> QED BY <3>3, <3>4
  <2>10. Service!Answer(i)
    <3>1. StatusOf[i] = "pending"
      BY <1>0, <2>4, <2>5
    <3> HIDE DEF Ids
    <3>2. StatusOf' = [StatusOf EXCEPT ![i] = Status(i)']
      BY <1>1, <2>4, <2>9, Zenon
    <3> QED BY <2>6, <2>8, <3>1, <3>2, Zenon DEF Service!Answer, StatusOf
  <2> QED BY <2>4, <2>10 DEF Service!Next
<1>6. ASSUME UNCHANGED <<answers, accepted, refused>> PROVE [Service!Next]_StatusOf
  BY <1>2, <1>3, <1>6 DEF Accepted
<1> QED
  BY <1>4, <1>5, <1>6
  DEF Next, ConsumerStep, Tick, RegisterHandler, BeginBatch, EndBatch,
    TakeFront, Taken, RunHandler, producerVars, vars

(* The router implements CommandService for every number of consumers: no  *)
(* command is answered twice or after its refusal, and no answer changes.  *)
THEOREM PromiseKept == Spec => KeepsPromise
<1>1. RouterInv => TypeOK /\ HasResult
  BY DEF RouterInv
<1> QED
  BY <1>1, ServiceInit, ServiceStep, RouterInvariance, CommandsInOnePlace, PTL
  DEF Spec, KeepsPromise, Service!Spec, StatusOf
=============================================================================
