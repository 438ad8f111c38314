--------------------------- MODULE CommandService ---------------------------
(***************************************************************************)
(* What the command router promises the sender of a command, whatever its  *)
(* queue, its batches and the threads that drain it: submit() refuses the  *)
(* command or accepts it, an accepted command is answered once, the answer *)
(* is one of the statuses and rejection reasons of the code, and it stands.*)
(***************************************************************************)
CONSTANTS
  Ids,       \* of the commands
  Verdicts   \* the answers there are, none of them in Waiting

VARIABLE status   \* of the command of each id

Waiting == {"new", "refused", "pending"}

Init == status = [i \in Ids |-> "new"]

Refuse(i) == status[i] = "new" /\ status' = [status EXCEPT ![i] = "refused"]
Accept(i) == status[i] = "new" /\ status' = [status EXCEPT ![i] = "pending"]

Answer(i) ==
  /\ status[i] = "pending"
  /\ \E v \in Verdicts : status' = [status EXCEPT ![i] = v]

Next == \E i \in Ids : Refuse(i) \/ Accept(i) \/ Answer(i)

Spec == Init /\ [][Next]_status
=============================================================================
