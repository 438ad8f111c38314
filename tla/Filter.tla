------------------------------- MODULE Filter -------------------------------
(***************************************************************************)
(* The elements of a sequence that are in a set, in their order: what      *)
(* SelectSeq gives, as a function, which a proof can unfold.               *)
(***************************************************************************)
EXTENDS Naturals, Sequences

KeptTo(s, S) ==   \* of the first n elements
  LET kept[n \in Nat] ==
        IF n = 0 THEN <<>>
        ELSE IF n <= Len(s) /\ s[n] \in S THEN Append(kept[n - 1], s[n])
        ELSE kept[n - 1]
  IN kept

Kept(s, S) == KeptTo(s, S)[Len(s)]
=============================================================================
