------------------------------ MODULE LogFile ------------------------------
(***************************************************************************)
(* What the logger promises whoever reads robot.log: a file that only      *)
(* grows, in which a crash loses at most the last lines, and none that was *)
(* promised to be there.                                                   *)
(***************************************************************************)
EXTENDS Naturals, Sequences

CONSTANT Lines

VARIABLES
  lines,     \* the lines written, in order
  promised   \* those no crash may lose

Init == lines = <<>> /\ promised = {}

Write(l) == lines' = Append(lines, l) /\ UNCHANGED promised

Promise ==
  /\ promised' \in SUBSET {lines[k] : k \in 1..Len(lines)}
  /\ promised \subseteq promised'
  /\ UNCHANGED lines

Crash ==
  /\ \E n \in 0..Len(lines) :
       /\ \A l \in promised : \E k \in 1..n : lines[k] = l
       /\ lines' = SubSeq(lines, 1, n)
  /\ UNCHANGED promised

Next == (\E l \in Lines : Write(l)) \/ Promise \/ Crash

Spec == Init /\ [][Next]_<<lines, promised>>
=============================================================================
