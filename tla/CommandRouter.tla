--------------------------- MODULE CommandRouter ---------------------------
(***************************************************************************)
(* command/CommandRouter: the bounded queue between the thread that        *)
(* submits commands and the consumers that drain it in batches.  submit    *)
(* and the head of process_one run under mu_; the rest of process_one and  *)
(* the callback of process_some run outside it, on a time read once, before*)
(* the batch.  The loop that calls process_some, of UgvCore's              *)
(* control_thread, ends when a stop is requested and calls nothing once the*)
(* E-STOP is latched; only handlers of commands do either while it runs.   *)
(***************************************************************************)
EXTENDS Integers, Sequences

CONSTANTS
  Consumers,        \* threads that call process_some; UgvCore has one
  Commands,         \* values of the command field
  Stamps,           \* values of the issued_ns field, 0 for none
  Ttls,             \* values of the ttl_ns field
  Priorities,       \* values of the priority field
  HandlerStatuses,  \* statuses a handler may return
  Stopping,         \* commands whose handler requests a stop or latches
  Wedging,          \* commands whose handler may never return
  MaxQueue,         \* CommandRouterConfig.max_queue
  MaxBatch,         \* max_n
  Modulus,          \* 2^64: uint64_t arithmetic wraps
  MaxSubmits,       \* bound: calls of submit
  MaxClock          \* bound: the clock, steady_clock in nanoseconds

Statuses == {"None", "Received", "Accepted", "Rejected", "Succeeded"}

ASSUME RouterAssumption ==
  /\ MaxQueue \in Nat /\ MaxBatch \in Nat \ {0} /\ MaxSubmits \in Nat
  /\ Modulus \in Nat /\ MaxClock \in 1..(Modulus - 1)
  /\ Stamps \subseteq 0..MaxClock
  /\ Ttls \subseteq 0..(Modulus - 1) /\ Priorities \subseteq 0..3
  /\ HandlerStatuses \subseteq Statuses
  /\ Stopping \subseteq Commands /\ Wedging \subseteq Commands

VARIABLES
  clock,      \* what SteadyClock::now() reads
  handlers,   \* handlers_: the commands that have one
  q,          \* q_
  submitted,  \* calls of submit so far; the next command id is one more
  refused,    \* ids submit answered with Busy
  accepted,   \* the commands submit accepted, in order
  answers,    \* what the consumers reported, in order
  at,         \* "idle", "taking", "running" or "reporting"
  now,        \* now_ns of the batch of each consumer
  left,       \* iterations its batch may still do
  held,       \* the command it took last
  verdict,    \* the result it has for that command
  ended       \* whether a handler has ended the calls

producerVars == <<clock, handlers, submitted, refused, accepted>>
consumerVars == <<at, now, left, held, verdict, ended>>
vars == <<producerVars, q, answers, consumerVars>>

Envelopes == [id : 0..MaxSubmits, command : Commands, priority : Priorities,
              issued : Stamps, ttl : Ttls]
Blank == [id |-> 0, command |-> "Stop", priority |-> 1, issued |-> 0, ttl |-> 0]
Critical == 3

(* is_expired: now_ns - issued_ns wraps when the command was issued later. *)
Age(t, issued) == IF issued <= t THEN t - issued ELSE t - issued + Modulus

IsExpired_OffByOne(e, t) ==   \* mutant: one tick of grace
  e.ttl # 0 /\ e.issued # 0 /\ Age(t, e.issued) > e.ttl + 1

IsExpired(e, t) == e.ttl # 0 /\ e.issued # 0 /\ Age(t, e.issued) > e.ttl

(* What process_one makes of a command before any handler runs.            *)
Judge(e, t) ==
  IF IsExpired(e, t) THEN "StaleCommand"
  ELSE IF e.command \notin handlers THEN "Unsupported"
  ELSE "run"

NoStatus == "None"
Verdicts == {"StaleCommand", "Unsupported"} \cup (Statuses \ {NoStatus})

Init ==
  /\ clock = 1 /\ handlers = {} /\ q = <<>>
  /\ submitted = 0 /\ refused = {} /\ accepted = <<>> /\ answers = <<>>
  /\ at = [c \in Consumers |-> "idle"]
  /\ now = [c \in Consumers |-> 0]
  /\ left = [c \in Consumers |-> 0]
  /\ held = [c \in Consumers |-> Blank]
  /\ verdict = [c \in Consumers |-> NoStatus]
  /\ ended = FALSE

-----------------------------------------------------------------------------
Tick ==
  /\ clock < MaxClock
  /\ clock' = clock + 1
  /\ UNCHANGED <<handlers, submitted, refused, accepted, q, answers, consumerVars>>

RegisterHandler(command) ==
  /\ handlers' = handlers \cup {command}
  /\ UNCHANGED <<clock, submitted, refused, accepted, q, answers, consumerVars>>

(* submit: the sender stamps the command with the present time or an       *)
(* earlier one, or not at all (0); an id of 0 is invalid.                  *)
Submit(e) ==
  /\ submitted < MaxSubmits
  /\ e.issued <= clock /\ e.id \in {0, submitted + 1}
  /\ submitted' = submitted + 1
  /\ IF Len(q) >= MaxQueue \/ e.id = 0
     THEN /\ refused' = refused \cup ({e.id} \ {0})
          /\ UNCHANGED <<q, accepted>>
     ELSE /\ q' = Append(q, e) /\ accepted' = Append(accepted, e)
          /\ UNCHANGED refused
  /\ UNCHANGED <<clock, handlers, answers, consumerVars>>

-----------------------------------------------------------------------------
(* A consumer: while nothing has ended the calls,                          *)
(* process_some(now_ns(), max_n, ...).                                     *)

BeginBatch(c) ==
  /\ at[c] = "idle" /\ ~ended
  /\ at' = [at EXCEPT ![c] = "taking"]
  /\ now' = [now EXCEPT ![c] = clock]
  /\ left' = [left EXCEPT ![c] = MaxBatch]
  /\ UNCHANGED <<held, verdict, ended, producerVars, q, answers>>

EndBatch(c) ==
  /\ at[c] = "taking"
  /\ left[c] = 0 \/ q = <<>>
  /\ at' = [at EXCEPT ![c] = "idle"]
  /\ UNCHANGED <<now, left, held, verdict, ended, producerVars, q, answers>>

(* process_one up to the handler: the look-up in handlers_ is under the    *)
(* same lock as the pop, the expiry test reads only the thread's own data. *)
Taken(c, e) ==
  LET v == Judge(e, now[c]) IN
  /\ at[c] = "taking" /\ left[c] > 0 /\ q # <<>>
  /\ at' = [at EXCEPT ![c] = IF v = "run" THEN "running" ELSE "reporting"]
  /\ held' = [held EXCEPT ![c] = e]
  /\ verdict' = [verdict EXCEPT ![c] = v]
  /\ left' = [left EXCEPT ![c] = @ - 1]
  /\ UNCHANGED <<now, ended, producerVars, answers>>

TakeFront_Back(c) ==   \* mutant: pops the back
  Taken(c, q[Len(q)]) /\ q' = SubSeq(q, 1, Len(q) - 1)

TakeFront_Peek(c) ==   \* mutant: forgets pop_front
  Taken(c, Head(q)) /\ UNCHANGED q

TakeFront(c) == Taken(c, Head(q)) /\ q' = Tail(q)

(* The handler; a status of None becomes Received.  The rest of the batch  *)
(* is still taken when it ends the calls.                                  *)
RunHandler(c) ==
  /\ at[c] = "running"
  /\ \E s \in HandlerStatuses :
       verdict' = [verdict EXCEPT ![c] = IF s = NoStatus THEN "Received" ELSE s]
  /\ at' = [at EXCEPT ![c] = "reporting"]
  /\ ended' = (ended \/ held[c].command \in Stopping)
  /\ UNCHANGED <<now, left, held, producerVars, q, answers>>

Report_SkipStale(c) ==   \* mutant: on_processed only for commands that ran
  /\ at[c] = "reporting"
  /\ answers' = IF verdict[c] = "StaleCommand" THEN answers
                ELSE Append(answers, [id |-> held[c].id, verdict |-> verdict[c]])
  /\ at' = [at EXCEPT ![c] = "taking"]
  /\ UNCHANGED <<now, left, held, verdict, ended, producerVars, q>>

(* on_processed.                                                           *)
Report(c) ==
  /\ at[c] = "reporting"
  /\ answers' = Append(answers, [id |-> held[c].id, verdict |-> verdict[c]])
  /\ at' = [at EXCEPT ![c] = "taking"]
  /\ UNCHANGED <<now, left, held, verdict, ended, producerVars, q>>

ConsumerStep(c) ==
  BeginBatch(c) \/ EndBatch(c) \/ TakeFront(c) \/ RunHandler(c) \/ Report(c)

Next ==
  \/ Tick
  \/ \E command \in Commands : RegisterHandler(command)
  \/ \E e \in Envelopes : Submit(e)
  \/ \E c \in Consumers : ConsumerStep(c)

Spec == Init /\ [][Next]_vars

(* The thread of a consumer takes every step it can: it calls process_some *)
(* again as long as nothing has ended the calls, and finishes the batch it *)
(* is in.  A handler of Wedging is not bound to return.                    *)
FairStep(c) ==
  \/ BeginBatch(c) \/ EndBatch(c) \/ TakeFront(c) \/ Report(c)
  \/ held[c].command \notin Wedging /\ RunHandler(c)

FairSpec == Spec /\ \A c \in Consumers : WF_vars(FairStep(c))

-----------------------------------------------------------------------------
(* Properties *)

(* Types, and the bound of the queue.                                      *)
TypeOK ==
  /\ clock \in 1..MaxClock /\ handlers \subseteq Commands
  /\ submitted \in 0..MaxSubmits /\ refused \subseteq 1..MaxSubmits
  /\ q \in Seq(Envelopes) /\ Len(q) <= MaxQueue
  /\ accepted \in Seq(Envelopes)
  /\ answers \in Seq([id : 0..MaxSubmits, verdict : Verdicts])
  /\ at \in [Consumers -> {"idle", "taking", "running", "reporting"}]
  /\ now \in [Consumers -> 0..MaxClock] /\ left \in [Consumers -> 0..MaxBatch]
  /\ held \in [Consumers -> Envelopes \cup {Blank}]
  /\ verdict \in [Consumers -> Verdicts \cup {NoStatus, "run"}]
  /\ ended \in BOOLEAN

(* The router keeps the promises of CommandService: of the commands with a *)
(* valid id, none is lost, answered twice (a status CommandService does    *)
(* not have), or answered after a refusal.                                 *)
AnswersTo(i) == {k \in 1..Len(answers) : answers[k].id = i}

Status(i) ==
  CASE \E k \in AnswersTo(i) : AnswersTo(i) # {k} -> "answered twice"
    [] \E k \in AnswersTo(i) : AnswersTo(i) = {k} ->
         answers[CHOOSE k \in AnswersTo(i) : TRUE].verdict
    [] AnswersTo(i) = {} /\ i \in refused -> "refused"
    [] AnswersTo(i) = {} /\ i \notin refused ->
         IF \E k \in 1..Len(accepted) : accepted[k].id = i THEN "pending" ELSE "new"

Service == INSTANCE CommandService WITH
  Ids <- 1..MaxSubmits, status <- [i \in 1..MaxSubmits |-> Status(i)]

KeepsPromise == Service!Spec

(* Every accepted command is answered in the end, whatever is submitted    *)
(* after it, with two exceptions: the handler of a command accepted before *)
(* it ended the calls (Shutdown, EmergencyStop), or a handler that never   *)
(* returned was reached.  Commands accepted before the one whose handler   *)
(* ends the calls are answered, and so is that one.                        *)
Started(i) ==
  \/ \E k \in AnswersTo(i) : answers[k].verdict \notin {"StaleCommand", "Unsupported"}
  \/ \E c \in Consumers : at[c] = "running" /\ held[c].id = i

CutOff(k) ==
  \/ \E j \in 1..(k - 1) : accepted[j].command \in Stopping \cup Wedging /\ Started(accepted[j].id)
  \/ accepted[k].command \in Wedging /\ Started(accepted[k].id)

AcceptedAnswered ==
  \A k \in 1..MaxSubmits :
    k <= Len(accepted) ~>
      k <= Len(accepted) /\ (AnswersTo(accepted[k].id) # {} \/ CutOff(k))

(* With the one consumer UgvCore has, answers come in the order in which   *)
(* submit accepted the commands, across batches.                           *)
AnsweredInOrder ==
  /\ Len(answers) <= Len(accepted)
  /\ \A k \in 1..Len(answers) : answers[k].id = accepted[k].id

(* No handler starts on a command whose time to live had passed when its   *)
(* batch began.                                                            *)
NoLateExecution ==
  \A c \in Consumers :
    at[c] = "running" /\ held[c].ttl # 0 /\ held[c].issued # 0 =>
      now[c] <= held[c].issued + held[c].ttl

(* A command is rejected as stale only when it is older than its time to   *)
(* live.                                                                   *)
NoFalseExpiry ==
  \A c \in Consumers :
    at[c] = "reporting" /\ verdict[c] = "StaleCommand" =>
      clock - held[c].issued > held[c].ttl

(* Critical commands "preempt everything": a consumer never takes another  *)
(* command while one waits.                                                *)
CriticalFirst ==
  [][\A c \in Consumers :
       at[c] = "taking" /\ at'[c] \in {"running", "reporting"} =>
         held'[c].priority = Critical
         \/ \A i \in 1..Len(q') : q'[i].priority # Critical]_vars
=============================================================================
