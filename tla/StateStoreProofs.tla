-------------------------- MODULE StateStoreProofs --------------------------
(***************************************************************************)
(* The state store is a StateCell, never rolls back and loses its state in *)
(* two places only, for every set of values, faults and bounds.            *)
(***************************************************************************)
EXTENDS StateStore, TLAPS

(* What a save in progress knows: the state it is saving is one of held,   *)
(* state.bin.tmp was emptied before it is written, and from then on holds  *)
(* a value of held if it loads at all.                                     *)
SaveInv ==
  /\ pc # "dead" => mem \in recent
  /\ pc \notin {"dead", "idle"} => mem \in held /\ held \subseteq recent
  /\ pc = "write" => tmp = {}
  /\ pc \in {"rename", "remove", "rename_again"} => Loadable(tmp) \subseteq held

StoreInv == TypeOK /\ SaveInv /\ NoRollback

(* A file of Files yields one value or none.                               *)
LEMMA LoadableType ==
  ASSUME NEW f \in Files
  PROVE  Loadable(f) \in {{}} \cup {{v} : v \in Values}
<1>1. CASE f = {}
  BY <1>1 DEF Loadable
<1>2. CASE f # {}
  <2>1. PICK w \in Whole : f = {w}
    BY <1>2 DEF Files
  <2>2. CASE w.crc = w.payload
    <3>1. Loadable(f) = {w.payload}
      BY <2>1, <2>2 DEF Loadable
    <3> QED BY <3>1 DEF Whole
  <2>3. CASE w.crc # w.payload
    BY <2>1, <2>3 DEF Loadable
  <2> QED BY <2>2, <2>3
<1> QED BY <1>1, <1>2

(* What WriteTmp writes loads as the value of its second read, if at all.  *)
LEMMA WrittenLoads ==
  ASSUME NEW c, NEW v
  PROVE  Loadable({[crc |-> c, payload |-> v]}) \subseteq {v}
BY DEF Loadable

LEMMA EmptyLoads == Loadable({}) = {}
BY DEF Loadable

LEMMA StoreInit == Init => StoreInv
<1> SUFFICES ASSUME Init PROVE StoreInv
  OBVIOUS
<1>1. Loadable(bin) \subseteq Values
  BY LoadableType DEF Init
<1>2. TypeOK
  BY <1>1, StoreAssumption DEF Init, TypeOK
<1> QED BY <1>2 DEF Init, StoreInv, SaveInv, NoRollback

LEMMA TypeStep == TypeOK /\ [Next]_vars => TypeOK'
<1> SUFFICES ASSUME TypeOK, [Next]_vars PROVE TypeOK'
  OBVIOUS
<1> USE StoreAssumption DEF TypeOK, fileVars, ghostVars, bounds
<1>1. CASE Load
  <2>1. mem' \in Values
    BY <1>1, LoadableType DEF Load
  <2> QED BY <1>1, <2>1 DEF Load
<1>2. CASE \E v \in Values : WriteState(v)
  BY <1>2 DEF WriteState
<1>3. CASE Kill
  BY <1>3 DEF Kill, Die
<1>4. CASE MakeDirectory
  BY <1>4 DEF MakeDirectory, Die, Step, Fail
<1>5. CASE ComputeChecksum
  BY <1>5 DEF ComputeChecksum, Step, Fail
<1>6. CASE OpenTmp
  BY <1>6 DEF OpenTmp, Step, Fail, Files
<1>7. CASE WriteTmp
  <2>1. [crc |-> summed, payload |-> mem] \in Whole
    BY DEF Whole
  <2>2. tmp' \in Files
    BY <1>7, <2>1 DEF WriteTmp, Files
  <2> QED BY <1>7, <2>2 DEF WriteTmp, Step, Fail
<1>8. CASE Rename
  BY <1>8 DEF Rename, Renamed, Step, Fail, Files
<1>9. CASE RemoveOld
  BY <1>9 DEF RemoveOld, Step, Fail, Files
<1>10. CASE RenameAgain
  BY <1>10 DEF RenameAgain, Renamed, Step, Fail, Files
<1>11. CASE UNCHANGED vars
  BY <1>11 DEF vars
<1> QED
  BY <1>1, <1>2, <1>3, <1>4, <1>5, <1>6, <1>7, <1>8, <1>9, <1>10, <1>11
  DEF Next, Save

LEMMA SaveStep ==
  TypeOK /\ SaveInv /\ NoRollback /\ [Next]_vars => SaveInv' /\ NoRollback'
<1> SUFFICES ASSUME TypeOK, SaveInv, NoRollback, [Next]_vars
             PROVE  SaveInv' /\ NoRollback'
  OBVIOUS
<1> USE DEF SaveInv, NoRollback
<1>1. CASE Load
  <2>1. Loadable(bin)' = Loadable(bin)
    BY <1>1 DEF Load, fileVars, Loadable
  <2> QED BY <1>1, <2>1 DEF Load, fileVars
<1>2. CASE \E v \in Values : WriteState(v)
  <2>1. Loadable(bin)' = Loadable(bin) /\ Loadable(tmp)' = Loadable(tmp)
    BY <1>2 DEF WriteState, fileVars, Loadable
  <2> QED BY <1>2, <2>1 DEF WriteState, fileVars
<1>3. CASE Kill
  BY <1>3 DEF Kill, Die, fileVars, ghostVars, Loadable
<1>4. CASE MakeDirectory
  BY <1>4 DEF MakeDirectory, Die, Step, Fail, fileVars, ghostVars, Loadable
<1>5. CASE ComputeChecksum
  BY <1>5 DEF ComputeChecksum, Step, Fail, fileVars, ghostVars, Loadable
<1>6. CASE OpenTmp
  BY <1>6 DEF OpenTmp, Step, Fail, fileVars, ghostVars, Loadable
<1>7. CASE WriteTmp
  <2>1. Loadable(bin)' = Loadable(bin)
    BY <1>7 DEF WriteTmp, Loadable
  <2>2. Loadable(tmp)' \subseteq held
    <3>1. CASE tmp' = {[crc |-> summed, payload |-> mem]}
      <4>1. Loadable(tmp)' \subseteq {mem}
        BY <3>1, WrittenLoads
      <4> QED BY <1>7, <4>1 DEF WriteTmp, Step, Fail
    <3>2. CASE tmp' = tmp
      BY <1>7, <3>2, EmptyLoads DEF WriteTmp, Step, Fail
    <3> QED BY <1>7, <3>1, <3>2 DEF WriteTmp
  <2> QED BY <1>7, <2>1, <2>2 DEF WriteTmp, Step, Fail, ghostVars
<1>8. ASSUME NEW from \in {"rename", "rename_again"}, Renamed(from)
      PROVE  SaveInv' /\ NoRollback'
  <2>1. Loadable(bin)' = Loadable(tmp)
    BY <1>8 DEF Renamed, Loadable
  <2> QED BY <1>8, <2>1 DEF Renamed, Step
<1>9. CASE Rename
  BY <1>8, <1>9 DEF Rename, Step, Fail, fileVars, ghostVars, Loadable
<1>10. CASE RemoveOld
  <2>1. Loadable(bin)' \subseteq Loadable(bin) /\ Loadable(tmp)' = Loadable(tmp)
    BY <1>10, EmptyLoads DEF RemoveOld, Loadable
  <2> QED BY <1>10, <2>1 DEF RemoveOld, Step, Fail, ghostVars
<1>11. CASE RenameAgain
  BY <1>8, <1>11 DEF RenameAgain, Step, Fail, fileVars, ghostVars, Loadable
<1>12. CASE UNCHANGED vars
  BY <1>12 DEF vars, bounds, fileVars, ghostVars, Loadable
<1> QED
  BY <1>1, <1>2, <1>3, <1>4, <1>5, <1>6, <1>7, <1>9, <1>10, <1>11, <1>12
  DEF Next, Save

(* What a save in progress knows holds in every reachable state.           *)
THEOREM StoreInvariance == Spec => []StoreInv
<1>1. StoreInv /\ [Next]_vars => StoreInv'
  BY TypeStep, SaveStep DEF StoreInv
<1> QED BY <1>1, StoreInit, PTL DEF Spec

(* Types of the store's variables; a file is readable as one state or none.*)
THEOREM StoreTypes == Spec => []TypeOK
<1>1. StoreInv => TypeOK
  BY DEF StoreInv
<1> QED BY <1>1, StoreInvariance, PTL

(* load() never returns a state older than the last save that returned     *)
(* true, whatever fails and whenever the process dies.                     *)
THEOREM StateNeverRollsBack == Spec => []NoRollback
<1>1. StoreInv => NoRollback
  BY DEF StoreInv
<1> QED BY <1>1, StoreInvariance, PTL

-----------------------------------------------------------------------------
(* The steps of save() implement the one step of the cell.                 *)

LEMMA CellInit == Init => Cell!Init
<1> SUFFICES ASSUME Init PROVE Cell!Init
  OBVIOUS
<1>1. Loadable(bin) \in {{}} \cup {{v} : v \in Values}
  BY LoadableType DEF Init
<1> QED BY <1>1 DEF Init, Cell!Init

LEMMA CellStep ==
  StoreInv /\ [Next]_vars => [Cell!Next]_<<mem, held, Loadable(bin)>>
<1> SUFFICES ASSUME StoreInv, [Next]_vars
             PROVE  [Cell!Next]_<<mem, held, Loadable(bin)>>
  OBVIOUS
<1> USE DEF StoreInv
<1>1. CASE Load
  <2>1. Loadable(bin)' = Loadable(bin)
    BY <1>1 DEF Load, fileVars, Loadable
  <2>2. Cell!Start
    BY <1>1, <2>1 DEF Load, Cell!Start
  <2> QED BY <2>2 DEF Cell!Next
<1>2. CASE \E v \in Values : WriteState(v)
  <2>1. Loadable(bin)' = Loadable(bin)
    BY <1>2 DEF WriteState, fileVars, Loadable
  <2>2. \E v \in Values : Cell!Write(v)
    BY <1>2, <2>1 DEF WriteState, Cell!Write
  <2> QED BY <2>2 DEF Cell!Next
<1>3. CASE MakeDirectory
  <2>1. Loadable(bin)' = Loadable(bin)
    BY <1>3 DEF MakeDirectory, Die, fileVars, Loadable
  <2>2. Cell!Begin \/ UNCHANGED <<mem, held>>
    BY <1>3, <2>1 DEF MakeDirectory, Die, Step, Fail, ghostVars, Cell!Begin
  <2> QED BY <2>1, <2>2 DEF Cell!Next
<1>4. ASSUME NEW from \in {"rename", "rename_again"}, Renamed(from)
      PROVE  Cell!Commit
  <2>1. Loadable(bin)' = Loadable(tmp)
    BY <1>4 DEF Renamed, Loadable
  <2>2. Loadable(tmp) \in {{}} \cup {{v} : v \in Values}
    BY LoadableType DEF TypeOK
  <2>3. Loadable(tmp) \subseteq held
    BY <1>4 DEF SaveInv, Renamed, Step, Fail
  <2>4. Loadable(tmp) \in {{}} \cup {{v} : v \in held}
    BY <2>2, <2>3
  <2> QED BY <1>4, <2>1, <2>4 DEF Renamed, Step, Cell!Commit
<1>5. CASE Rename
  BY <1>4, <1>5 DEF Rename, Step, Fail, fileVars, ghostVars, Loadable, Cell!Next
<1>6. CASE RenameAgain
  BY <1>4, <1>6 DEF RenameAgain, Step, Fail, fileVars, ghostVars, Loadable, Cell!Next
<1>7. CASE RemoveOld
  <2>1. Loadable(bin)' = {} \/ Loadable(bin)' = Loadable(bin)
    BY <1>7, EmptyLoads DEF RemoveOld, Loadable
  <2>2. UNCHANGED <<mem, held>>
    BY <1>7 DEF RemoveOld, Step, Fail, ghostVars
  <2> QED BY <2>1, <2>2 DEF Cell!Next, Cell!Commit
<1>8. CASE Kill \/ ComputeChecksum \/ OpenTmp \/ WriteTmp \/ UNCHANGED vars
  <2>1. UNCHANGED <<mem, held, bin>>
    BY <1>8 DEF Kill, Die, ComputeChecksum, OpenTmp, WriteTmp, Step, Fail, vars,
      fileVars, ghostVars
  <2> QED BY <2>1 DEF Loadable
<1> QED
  BY <1>1, <1>2, <1>3, <1>5, <1>6, <1>7, <1>8 DEF Next, Save

(* The store implements StateCell: a save takes effect in one step, and a  *)
(* death of the process at any point changes nothing.                      *)
THEOREM StoreIsACell == Spec => IsACell
<1> QED BY CellInit, CellStep, StoreInvariance, PTL DEF Spec, IsACell, Cell!Spec

-----------------------------------------------------------------------------
(* Where the persisted state can be lost.                                  *)

(* The checksum and the payload of state.bin.tmp are both states of held:  *)
(* if held is one state and the file was not cut short, it will load.      *)
WrittenInv ==
  /\ pc \in {"open", "write"} => summed \in held
  /\ pc \in {"rename", "remove", "rename_again"} =>
       \A w \in tmp : w.crc \in held /\ w.payload \in held

LEMMA WrittenInit == Init => WrittenInv
BY DEF Init, WrittenInv

LEMMA WrittenStep == StoreInv /\ WrittenInv /\ [Next]_vars => WrittenInv'
<1> SUFFICES ASSUME StoreInv, WrittenInv, [Next]_vars PROVE WrittenInv'
  OBVIOUS
<1> USE DEF WrittenInv
<1>1. CASE Load
  BY <1>1 DEF Load, fileVars
<1>2. CASE \E v \in Values : WriteState(v)
  BY <1>2 DEF WriteState, fileVars
<1>3. CASE Kill \/ MakeDirectory
  BY <1>3 DEF Kill, MakeDirectory, Die, Step, fileVars, ghostVars
<1>4. CASE ComputeChecksum
  BY <1>4 DEF ComputeChecksum, Step, ghostVars, StoreInv, SaveInv
<1>5. CASE OpenTmp
  BY <1>5 DEF OpenTmp, Step, Fail, ghostVars, fileVars
<1>6. CASE WriteTmp
  <2>1. pc = "write" /\ pc' = "rename" /\ held' = held
    BY <1>6 DEF WriteTmp, Step, Fail, ghostVars
  <2>2. mem \in held /\ summed \in held /\ tmp = {}
    BY <2>1 DEF StoreInv, SaveInv
  <2>3. tmp' = {[crc |-> summed, payload |-> mem]} \/ tmp' = tmp
    BY <1>6 DEF WriteTmp
  <2> QED BY <2>1, <2>2, <2>3
<1>7. CASE Rename
  BY <1>7 DEF Rename, Renamed, Step, Fail, fileVars, ghostVars
<1>8. CASE RemoveOld
  BY <1>8 DEF RemoveOld, Step, Fail, ghostVars
<1>9. CASE RenameAgain
  BY <1>9 DEF RenameAgain, Renamed, Step, Fail, fileVars, ghostVars
<1>10. CASE UNCHANGED vars
  BY <1>10 DEF vars, fileVars, ghostVars
<1> QED
  BY <1>1, <1>2, <1>3, <1>4, <1>5, <1>6, <1>7, <1>8, <1>9, <1>10 DEF Next, Save

LEMMA WrittenInvariance == Spec => [](StoreInv /\ WrittenInv)
<1>1. StoreInv /\ WrittenInv /\ [Next]_vars => StoreInv' /\ WrittenInv'
  BY TypeStep, SaveStep, WrittenStep DEF StoreInv
<1> QED BY <1>1, StoreInit, WrittenInit, PTL DEF Spec

(* A file that was not cut short, written while state_ had one value,      *)
(* loads.                                                                  *)
LEMMA WholeLoads ==
  ASSUME StoreInv, WrittenInv, pc \in {"rename", "rename_again"},
         tmp # {}, held = {mem}
  PROVE  Loadable(tmp) = {mem}
<1>1. PICK w \in Whole : tmp = {w}
  BY DEF StoreInv, TypeOK, Files
<1>2. w.crc = mem /\ w.payload = mem
  BY <1>1 DEF WrittenInv
<1> QED BY <1>1, <1>2 DEF Loadable

(* A step leaves state.bin alone, renames state.bin.tmp over it or removes *)
(* it.                                                                     *)
LEMMA BinChanges ==
  ASSUME [Next]_vars
  PROVE  \/ bin' = bin
         \/ pc = "remove"
         \/ pc \in {"rename", "rename_again"} /\ bin' = tmp
<1>1. CASE Rename \/ RemoveOld \/ RenameAgain
  BY <1>1 DEF Rename, RemoveOld, RenameAgain, Renamed, Step, Fail, fileVars
<1>2. CASE Load \/ (\E v \in Values : WriteState(v)) \/ Kill \/ UNCHANGED vars
  BY <1>2 DEF Load, WriteState, Kill, Die, vars, fileVars
<1>3. CASE MakeDirectory \/ ComputeChecksum \/ OpenTmp \/ WriteTmp
  BY <1>3 DEF MakeDirectory, ComputeChecksum, OpenTmp, WriteTmp, Die, Step,
    Fail, fileVars
<1> QED BY <1>1, <1>2, <1>3 DEF Next, Save

(* A loadable state.bin stops being one in two places only: where save()   *)
(* removes it before the second rename, and where it renames over it a     *)
(* file that was cut short or that a write of state_ during the save may   *)
(* have torn.                                                              *)
THEOREM LostInTwoPlaces == Spec => Survives
<1>1. ASSUME StoreInv, WrittenInv, [Next]_vars,
             Loadable(bin) # {}, Loadable(bin') = {}
      PROVE  \/ pc = "remove"
             \/ pc \in {"rename", "rename_again"} /\ (tmp = {} \/ held # {mem})
  <2>1. CASE bin' = bin
    BY <1>1, <2>1
  <2>2. CASE pc \in {"rename", "rename_again"} /\ bin' = tmp
    BY <1>1, <2>2, WholeLoads
  <2> QED BY <1>1, <2>1, <2>2, BinChanges
<1>2. StoreInv /\ WrittenInv /\ [Next]_vars =>
        [Loadable(bin) # {} /\ Loadable(bin') = {} =>
           \/ pc = "remove"
           \/ pc \in {"rename", "rename_again"} /\ (tmp = {} \/ held # {mem})]_vars
  BY <1>1
<1> QED BY <1>2, WrittenInvariance, PTL DEF Spec, Survives
=============================================================================
