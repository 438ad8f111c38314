----------------------------- MODULE StateStore -----------------------------
(***************************************************************************)
(* core/StateStore.cpp: save() as the file operations it makes, with a     *)
(* writer of state_ beside it (control_thread), failing operations, and a  *)
(* process that can be killed between any two of them; load() at the next  *)
(* start.  UgvCore never has two saves at once: main saves before the      *)
(* persist thread is spawned and after it is joined.                       *)
(***************************************************************************)
EXTENDS Naturals

CONSTANTS
  Values,     \* values of PersistentStateV1
  Cold,       \* the default one
  Faults,     \* the operations that may fail
  MaxFaults,  \* bound: operations that fail
  MaxWrites,  \* bound: writes of state_
  MaxDeaths   \* bound: times the process dies

ASSUME StoreAssumption ==
  /\ Cold \in Values
  /\ Faults \subseteq {"directory", "open", "write", "rename", "remove"}
  /\ MaxFaults \in Nat /\ MaxWrites \in Nat /\ MaxDeaths \in Nat

VARIABLES
  pc,       \* the operation save() is about to make, "idle", or "dead"
  mem,      \* state_
  summed,   \* the value hdr.payload_crc32 was computed of
  tmp, bin, \* content of state.bin.tmp and state.bin
  held,     \* values state_ has had since the save in progress began
  recent,   \* the same, since the last save that returned true began
  faults, writes, deaths

fileVars  == <<tmp, bin>>
ghostVars == <<held, recent>>
bounds    == <<faults, writes, deaths>>
vars == <<pc, mem, summed, fileVars, ghostVars, bounds>>

(* A file is the set of the headers and payloads load() can read from it:  *)
(* one, or none if it is absent, cut short, or has another magic, version  *)
(* or size.                                                                *)
Whole == [crc : Values, payload : Values]
Files == {{}} \cup {{w} : w \in Whole}

(* The values load() can return.                                           *)
Loadable(file) == {w.payload : w \in {x \in file : x.crc = x.payload}}

Init ==
  /\ pc = "dead" /\ mem = Cold /\ summed = Cold
  /\ tmp \in Files /\ bin \in Files
  /\ held = {} /\ recent = Loadable(bin)
  /\ faults = 0 /\ writes = 0 /\ deaths = 0

-----------------------------------------------------------------------------
(* load_state(): state_ is what load() returned, or default.               *)
Load ==
  /\ pc = "dead" /\ pc' = "idle"
  /\ mem' \in (IF Loadable(bin) = {} THEN {Cold} ELSE Loadable(bin))
  /\ recent' = recent \cup {mem'}
  /\ UNCHANGED <<summed, fileVars, held, bounds>>

(* Another thread assigns state_.last_authority, or main calibrated_ok.    *)
WriteState(v) ==
  /\ pc # "dead" /\ writes < MaxWrites
  /\ mem' = v
  /\ held' = held \cup {v} /\ recent' = recent \cup {v}
  /\ writes' = writes + 1
  /\ UNCHANGED <<pc, summed, fileVars, faults, deaths>>

(* The process is killed, or an exception leaves one of its threads.       *)
Die ==
  /\ deaths < MaxDeaths
  /\ pc' = "dead" /\ deaths' = deaths + 1
  /\ UNCHANGED <<mem, summed, fileVars, ghostVars, faults, writes>>

Kill == pc # "dead" /\ Die

Step(from, to) == pc = from /\ pc' = to /\ UNCHANGED <<mem, bounds>>

Fail(operation, from, to) ==
  /\ operation \in Faults /\ faults < MaxFaults
  /\ pc = from /\ pc' = to
  /\ faults' = faults + 1
  /\ UNCHANGED <<mem, writes, deaths>>

MakeDirectory_SkipUnchanged ==   \* mutant: nothing to do if it was saved before
  IF mem = summed THEN pc = "idle" /\ UNCHANGED vars
  ELSE Step("idle", "checksum") /\ held' = {mem} /\ UNCHANGED <<summed, fileVars, recent>>

(* save() begins. *)
MakeDirectory ==
  \/ Step("idle", "checksum") /\ held' = {mem} /\ UNCHANGED <<summed, fileVars, recent>>
  \/ "directory" \in Faults /\ pc = "idle" /\ Die

ComputeChecksum ==
  /\ Step("checksum", "open")
  /\ summed' = mem
  /\ UNCHANGED <<fileVars, ghostVars>>

OpenTmp_KeepOld ==   \* mutant: no trunc, a short write leaves what was there
  Step("open", "write") /\ UNCHANGED <<summed, fileVars, ghostVars>>

OpenTmp_InPlace ==   \* mutant: truncates state.bin itself
  /\ Step("open", "write")
  /\ bin' = {}
  /\ UNCHANGED <<summed, tmp, ghostVars>>

OpenTmp ==
  \/ /\ Step("open", "write")
     /\ tmp' = {}
     /\ UNCHANGED <<summed, bin, ghostVars>>
  \/ /\ Fail("open", "open", "idle")
     /\ UNCHANGED <<summed, fileVars, ghostVars>>

(* Header and payload; the stream's state is not looked at afterwards.     *)
WriteTmp ==
  /\ \/ Step("write", "rename") /\ tmp' = {[crc |-> summed, payload |-> mem]}
     \/ Fail("write", "write", "rename") /\ UNCHANGED tmp
  /\ UNCHANGED <<summed, bin, ghostVars>>

(* rename() replaces the file; save() then returns true.                   *)
Renamed(from) ==
  /\ Step(from, "idle")
  /\ bin' = tmp /\ tmp' = {} /\ recent' = held
  /\ UNCHANGED <<summed, held>>

Rename ==
  \/ Renamed("rename")
  \/ /\ Fail("rename", "rename", "remove")
     /\ UNCHANGED <<summed, fileVars, ghostVars>>

RemoveOld ==
  /\ \/ Step("remove", "rename_again") /\ bin' = {}
     \/ Fail("remove", "remove", "rename_again") /\ UNCHANGED bin
  /\ UNCHANGED <<summed, tmp, ghostVars>>

RenameAgain_IgnoreError ==   \* mutant: save() returns true all the same
  \/ Renamed("rename_again")
  \/ /\ Fail("rename", "rename_again", "idle")
     /\ recent' = held
     /\ UNCHANGED <<summed, fileVars, held>>

RenameAgain ==
  \/ Renamed("rename_again")
  \/ /\ Fail("rename", "rename_again", "idle")
     /\ UNCHANGED <<summed, fileVars, ghostVars>>

Save ==
  \/ MakeDirectory \/ ComputeChecksum \/ OpenTmp \/ WriteTmp
  \/ Rename \/ RemoveOld \/ RenameAgain

Next == Load \/ (\E v \in Values : WriteState(v)) \/ Kill \/ Save

Spec == Init /\ [][Next]_vars

(* The persist thread saves again and again.                               *)
FairSpec == Spec /\ WF_vars(Load) /\ WF_vars(Save)

-----------------------------------------------------------------------------
(* Properties *)

TypeOK ==
  /\ pc \in {"dead", "idle", "checksum", "open", "write", "rename", "remove",
             "rename_again"}
  /\ mem \in Values /\ summed \in Values
  /\ tmp \in Files /\ bin \in Files
  /\ held \subseteq Values /\ recent \subseteq Values
  /\ faults \in 0..MaxFaults /\ writes \in 0..MaxWrites /\ deaths \in 0..MaxDeaths

(* The store is a StateCell: whatever fails and whenever the process dies, *)
(* what the next load() finds is one value state_ had during one save, or  *)
(* nothing, and it changes only where state.bin is renamed or removed.     *)
Cell == INSTANCE StateCell WITH cell <- Loadable(bin)
IsACell == Cell!Spec

(* No rollback: load() never returns a state older than the last save that *)
(* returned true, even when later saves failed half-way.                   *)
NoRollback == Loadable(bin) \subseteq recent

(* The persisted state is lost in two places only: between the removal and *)
(* the second rename, and by the rename of a file that was cut short or    *)
(* torn by a write of state_ during the save.                              *)
Survives ==
  [][Loadable(bin) # {} /\ Loadable(bin') = {} =>
       \/ pc = "remove"
       \/ pc \in {"rename", "rename_again"} /\ (tmp = {} \/ held # {mem})]_vars

(* A state file that is lost or torn is repaired: when state_ has stopped  *)
(* changing and operations have stopped failing, a save brings the file to *)
(* exactly this state.                                                     *)
CatchesUp == writes = MaxWrites ~> pc # "dead" /\ Loadable(bin) = {mem}
=============================================================================
