------------------------------ MODULE PidList ------------------------------
(***************************************************************************)
(* What the pid table of satipConfig promises: every pid has a status, and *)
(* at most MAX_PIDS of them are in the table.  Module PidTable models the  *)
(* slots the code searches and shows that they implement this.             *)
(*                                                                         *)
(* A pid the kernel asks for is PID_ADD until a request told the server    *)
(* about it (PID_VAILD), one it dropped is PID_DELETE until a request did. *)
(***************************************************************************)
EXTENDS Integers, FiniteSets

CONSTANTS
    Pids,        \* the pids the kernel can ask for
    MAX_PIDS     \* size of the kernel's pid list and of the pid table

ASSUME PidAssumption ==
    /\ IsFiniteSet(Pids)
    /\ MAX_PIDS \in Nat \ {0}

VARIABLES
    m_pid_list,  \* status of every pid
    m_pid_status \* whether a pid is to be added or deleted

listVars == <<m_pid_list, m_pid_status>>

PidElemStatus == {"PID_ADD", "PID_DELETE", "PID_VAILD", "PID_INVALID"}

(* Every pid has a status of the enum; the summary status is one of two. *)
PidListTypeOK ==
    /\ m_pid_list \in [Pids -> PidElemStatus]
    /\ m_pid_status \in {"STATIONARY", "CHANGED"}

PidListInit ==
    /\ m_pid_list = [p \in Pids |-> "PID_INVALID"]
    /\ m_pid_status = "STATIONARY"

-----------------------------------------------------------------------------
PidStatusOf(list) ==
    IF \E p \in DOMAIN list : list[p] \in {"PID_ADD", "PID_DELETE"}
    THEN "CHANGED" ELSE "STATIONARY"

(* The pids the kernel (enigma2) asked for. *)
ActivePids == {p \in Pids : m_pid_list[p] \in {"PID_ADD", "PID_VAILD"}}

(* Which of the pids that are not in the table get a slot.  The kernel's   *)
(* list is worked off in its order before anything is deleted, so they     *)
(* share the slots that are PID_INVALID beforehand.                        *)
NewPids(want)  == {p \in want : m_pid_list[p] = "PID_INVALID"}
FreeSlots      == MAX_PIDS - Cardinality({p \in Pids : m_pid_list[p] # "PID_INVALID"})
Accepted(want) == {s \in SUBSET NewPids(want) :
                       \/ s = NewPids(want) /\ Cardinality(s) <= FreeSlots
                       \/ s # NewPids(want) /\ Cardinality(s) = FreeSlots}

UpdatedPid(p, want, accepted) ==
    CASE p \in accepted                                -> "PID_ADD"
      [] p \in want /\ m_pid_list[p] = "PID_DELETE"    -> "PID_VAILD"
      [] p \notin want /\ m_pid_list[p] = "PID_ADD"    -> "PID_INVALID"
      [] p \notin want /\ m_pid_list[p] = "PID_VAILD"  -> "PID_DELETE"
      [] OTHER                                         -> m_pid_list[p]

UpdatePidList(want) ==
    /\ \E accepted \in Accepted(want) :
           m_pid_list' = [p \in Pids |-> UpdatedPid(p, want, accepted)]
    /\ m_pid_status' = PidStatusOf(m_pid_list')

(* The table is emptied without updatePidStatus. *)
ClearPidList ==
    /\ m_pid_list' = [p \in Pids |-> "PID_INVALID"]
    /\ UNCHANGED m_pid_status

Committed(status) ==
    CASE status = "PID_ADD"    -> "PID_VAILD"
      [] status = "PID_DELETE" -> "PID_INVALID"
      [] OTHER                 -> status

(* A request was written: commitPidStates and updatePidStatus. *)
CommitPidStates ==
    /\ m_pid_list' = [p \in Pids |-> Committed(m_pid_list[p])]
    /\ m_pid_status' = PidStatusOf(m_pid_list')

(* The sets a kernel message can carry. *)
KernelLists == {s \in SUBSET Pids : Cardinality(s) <= MAX_PIDS}

PidListNext ==
    \/ \E want \in KernelLists : UpdatePidList(want)
    \/ ClearPidList
    \/ CommitPidStates

PidListSpec == PidListInit /\ [][PidListNext]_listVars
=============================================================================
