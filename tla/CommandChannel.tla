--------------------------- MODULE CommandChannel ---------------------------
(***************************************************************************)
(* What the file commands.in promises a client and a core: a channel that  *)
(* delivers what was sent, in order, with nothing lost, changed or         *)
(* delivered twice, until the core restarts, which begins again at the     *)
(* first command.                                                          *)
(***************************************************************************)
EXTENDS Naturals, Sequences

CONSTANT Commands

VARIABLES sent, delivered

Init == sent = <<>> /\ delivered = <<>>

Send(c) == sent' = Append(sent, c) /\ UNCHANGED delivered

Deliver ==
  /\ Len(delivered) < Len(sent)
  /\ delivered' = Append(delivered, sent[Len(delivered) + 1])
  /\ UNCHANGED sent

Rewind == delivered' = <<>> /\ UNCHANGED sent

Next == (\E c \in Commands : Send(c)) \/ Deliver \/ Rewind

Spec == Init /\ [][Next]_<<sent, delivered>>
=============================================================================
