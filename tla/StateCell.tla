----------------------------- MODULE StateCell -----------------------------
(***************************************************************************)
(* What the state store promises: a cell that holds the persisted state or *)
(* nothing.  A save replaces its content in one step, by a value the state *)
(* had while the save was in progress or, if that was torn or cut short,   *)
(* by nothing; a process that starts gets the content, or the cold state.  *)
(* Processes that die at any point change nothing.                         *)
(***************************************************************************)
CONSTANTS Values, Cold

VARIABLES
  mem,    \* state_
  held,   \* the values it has had since the save in progress began
  cell    \* {v} or {}

Init == mem = Cold /\ held = {} /\ cell \in {{}} \cup {{v} : v \in Values}

Write(v) == mem' = v /\ held' = held \cup {v} /\ UNCHANGED cell
Begin    == held' = {mem} /\ UNCHANGED <<mem, cell>>
Commit   == cell' \in {{}} \cup {{v} : v \in held} /\ UNCHANGED <<mem, held>>
Start    == mem' \in (IF cell = {} THEN {Cold} ELSE cell) /\ UNCHANGED <<held, cell>>

Next == (\E v \in Values : Write(v)) \/ Begin \/ Commit \/ Start

Spec == Init /\ [][Next]_<<mem, held, cell>>
=============================================================================
