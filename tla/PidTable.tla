------------------------------ MODULE PidTable ------------------------------
(***************************************************************************)
(* The slots of m_pid_list (config.cpp) and the searches updatePidList     *)
(* makes in them.  A slot keeps its pid when it becomes PID_INVALID, so a  *)
(* pid that comes back finds its old slot unless it was given away.        *)
(***************************************************************************)
EXTENDS Integers, FiniteSets, SequencesExt

CONSTANTS Pids, MAX_PIDS, NoPid

ASSUME TableAssumption ==
    /\ IsFiniteSet(Pids)
    /\ MAX_PIDS \in Nat \ {0}
    /\ NoPid \notin Pids

VARIABLES
    slots,        \* m_pid_list[MAX_PIDS]
    m_pid_status

tableVars == <<slots, m_pid_status>>

SlotStatus == {"PID_ADD", "PID_DELETE", "PID_VAILD", "PID_INVALID"}
Slots      == 1..MAX_PIDS

(* Every slot holds a pid or none and a status of the enum. *)
TableTypeOK ==
    /\ slots \in [Slots -> [pid : Pids \cup {NoPid}, status : SlotStatus]]
    /\ m_pid_status \in {"STATIONARY", "CHANGED"}

TableInit ==
    /\ slots = [i \in Slots |-> [pid |-> NoPid, status |-> "PID_INVALID"]]
    /\ m_pid_status = "STATIONARY"

-----------------------------------------------------------------------------
SlotsOf(table, p) == {i \in Slots : table[i].pid = p}
FreeIn(table)     == {i \in Slots : table[i].status = "PID_INVALID"}

Added(status) ==
    CASE status = "PID_INVALID" -> "PID_ADD"
      [] status = "PID_DELETE"  -> "PID_VAILD"
      [] OTHER                  -> status

(* Mutant: a pid that was never sent is deleted like one that was. *)
Deleted_Unsent(status) ==
    CASE status \in {"PID_ADD", "PID_VAILD"} -> "PID_DELETE"
      [] OTHER                               -> status

Deleted(status) ==
    CASE status = "PID_ADD"    -> "PID_INVALID"
      [] status = "PID_VAILD"  -> "PID_DELETE"
      [] OTHER                 -> status

(* Mutant: the search for the pid's own slot skips invalid ones. *)
AddPid_SkipsInvalid(table, p) ==
    IF \E i \in SlotsOf(table, p) : table[i].status # "PID_INVALID"
    THEN [i \in Slots |-> IF table[i].pid = p
                          THEN [pid |-> p, status |-> Added(table[i].status)]
                          ELSE table[i]]
    ELSE IF FreeIn(table) # {}
         THEN [table EXCEPT ![Min(FreeIn(table))] = [pid |-> p, status |-> "PID_ADD"]]
         ELSE table

(* One pid of the kernel's list: its own slot, else the first free one,    *)
(* else it is dropped.                                                     *)
AddPid(table, p) ==
    IF SlotsOf(table, p) # {}
    THEN [i \in Slots |-> IF table[i].pid = p
                          THEN [pid |-> p, status |-> Added(table[i].status)]
                          ELSE table[i]]
    ELSE IF FreeIn(table) # {}
         THEN [table EXCEPT ![Min(FreeIn(table))] = [pid |-> p, status |-> "PID_ADD"]]
         ELSE table

(* All adds in the kernel's order, then the deletes. *)
AddAll(table, list) ==
    LET added[k \in 0..Len(list)] == IF k = 0 THEN table ELSE AddPid(added[k - 1], list[k])
    IN  added[Len(list)]

DeleteRest(table, list) ==
    [i \in Slots |-> IF table[i].pid \in ToSet(list) THEN table[i]
                     ELSE [table[i] EXCEPT !.status = Deleted(@)]]

TableStatus(table) ==
    IF \E i \in Slots : table[i].status \in {"PID_ADD", "PID_DELETE"}
    THEN "CHANGED" ELSE "STATIONARY"

(* list: the kernel's array without the entries that are no pid (>= 0x2000). *)
TableUpdate(list) ==
    /\ slots' = DeleteRest(AddAll(slots, list), list)
    /\ m_pid_status' = TableStatus(slots')

TableClear ==
    /\ slots' = [i \in Slots |-> [slots[i] EXCEPT !.status = "PID_INVALID"]]
    /\ UNCHANGED m_pid_status

TableCommit ==
    /\ slots' = [i \in Slots |->
                    [slots[i] EXCEPT !.status = CASE @ = "PID_ADD"    -> "PID_VAILD"
                                                  [] @ = "PID_DELETE" -> "PID_INVALID"
                                                  [] OTHER            -> @]]
    /\ m_pid_status' = TableStatus(slots')

KernelArrays == SeqOf(Pids, MAX_PIDS)

TableNext ==
    \/ \E list \in KernelArrays : TableUpdate(list)
    \/ TableClear
    \/ TableCommit

TableSpec == TableInit /\ [][TableNext]_tableVars

-----------------------------------------------------------------------------
(* No pid ever occupies two slots, although slots are given away, reused   *)
(* and found again by stale pids: a second slot would make one request add *)
(* a pid that another entry deletes.                                       *)
OneSlotPerPid == \A p \in Pids : Cardinality(SlotsOf(slots, p)) <= 1

(* The status of a pid, whichever slot it is in. *)
StatusIn(table) ==
    [p \in Pids |-> IF SlotsOf(table, p) = {} THEN "PID_INVALID"
                    ELSE table[CHOOSE i \in SlotsOf(table, p) : TRUE].status]

StatusOfPid == StatusIn(slots)

Abstract == INSTANCE PidList WITH m_pid_list <- StatusOfPid

(* The slot searches implement the pid list that the rest of the project   *)
(* works with, for every order and duplication in the kernel's array.      *)
ImplementsPidList == Abstract!PidListSpec
=============================================================================
