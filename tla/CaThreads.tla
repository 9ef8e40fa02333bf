----------------------------- MODULE CaThreads -----------------------------
(***************************************************************************)
(* How a report of the PSI parser gets from the RTP thread to the session  *)
(* thread, at the granularity of locks and of the wakeup pipe (psi.cpp,    *)
(* config.cpp, session.cpp).  Both threads run the parser: the RTP thread  *)
(* with packets, the session thread with the kernel's pid lists.           *)
(*                                                                         *)
(* A pid set is a member of Reports.  The session is established; what the *)
(* server does with a request is modelled in RtspSession.                  *)
(***************************************************************************)
EXTENDS Integers

CONSTANTS
    Reports,   \* pid sets the parser can derive
    PipeSize   \* bytes the wakeup pipe can hold

ASSUME CaThreadsAssumption == Reports # {} /\ PipeSize \in Nat \ {0}

Threads == {"rtp", "session"}
Free    == "free"

VARIABLES
    pc,               \* where each thread is
    m_lock,           \* holder of satipPSI::m_lock
    m_ca_lock,        \* holder of satipConfig::m_ca_lock
    m_derived_pids,   \* of the parser, protected by m_lock
    m_ca_pids, m_ca_dirty,   \* of the configuration, protected by m_ca_lock
    pipe,             \* bytes in the wakeup pipe
    woken,            \* poll reported the pipe
    m_wait_response,  \* a request is not answered yet
    requested         \* the ca pids of the last request

lockVars   == <<m_lock, m_ca_lock>>
caVars     == <<m_ca_pids, m_ca_dirty>>
sharedVars == <<lockVars, m_derived_pids, caVars, pipe>>
localVars  == <<woken, m_wait_response, requested>>
vars == <<pc, sharedVars, localVars>>

ReportSteps  == {"psi", "ca", "assign", "write", "release"}
SessionSteps == {"look", "take", "poll", "drain", "events"}

(* Every variable has its type. *)
ThreadsTypeOK ==
    /\ pc \in [Threads -> ReportSteps \cup SessionSteps \cup {"idle"}]
    /\ m_lock \in Threads \cup {Free}
    /\ m_ca_lock \in Threads \cup {Free}
    /\ m_derived_pids \in Reports
    /\ m_ca_pids \in Reports
    /\ m_ca_dirty \in BOOLEAN
    /\ pipe \in 0..PipeSize
    /\ woken \in BOOLEAN
    /\ m_wait_response \in BOOLEAN
    /\ requested \in Reports

(* SETUP carried the pids the parser reported until then. *)
ThreadsInit ==
    /\ pc = [t \in Threads |-> IF t = "rtp" THEN "idle" ELSE "look"]
    /\ m_lock = Free /\ m_ca_lock = Free
    /\ m_derived_pids \in Reports
    /\ m_ca_pids = m_derived_pids /\ m_ca_dirty = FALSE
    /\ pipe = 0 /\ woken = FALSE
    /\ m_wait_response = FALSE
    /\ requested = m_ca_pids

Goto(t, step) == pc' = [pc EXCEPT ![t] = step]

-----------------------------------------------------------------------------
(***************************************************************************)
(* A report: processTS on the RTP thread, setJoinedPids or reset on the    *)
(* session thread.  recompute calls setCaPids with m_lock held.            *)
(***************************************************************************)

BeginReport(t) ==
    /\ pc[t] = IF t = "rtp" THEN "idle" ELSE "events"
    /\ Goto(t, "psi")
    /\ UNCHANGED <<sharedVars, localVars>>

LockAndRecompute(t) ==
    /\ pc[t] = "psi"
    /\ m_lock = Free
    /\ m_lock' = t
    /\ m_derived_pids' \in Reports
    /\ Goto(t, IF m_derived_pids' # m_derived_pids THEN "ca" ELSE "release")
    /\ UNCHANGED <<m_ca_lock, caVars, pipe, localVars>>

LockCa(t) ==
    /\ pc[t] = "ca"
    /\ m_ca_lock = Free
    /\ m_ca_lock' = t
    /\ Goto(t, "assign")
    /\ UNCHANGED <<m_lock, m_derived_pids, caVars, pipe, localVars>>

(* Mutant: the session thread is left to its poll. *)
Assign_NoWakeup(t) ==
    /\ pc[t] = "assign"
    /\ m_ca_pids' = m_derived_pids
    /\ m_ca_dirty' = (m_ca_dirty \/ m_derived_pids # m_ca_pids)
    /\ m_ca_lock' = Free
    /\ Goto(t, "release")
    /\ UNCHANGED <<m_lock, m_derived_pids, pipe, localVars>>

(* setCaPids, up to the unlock *)
Assign(t) ==
    /\ pc[t] = "assign"
    /\ m_ca_pids' = m_derived_pids
    /\ m_ca_dirty' = (m_ca_dirty \/ m_derived_pids # m_ca_pids)
    /\ m_ca_lock' = Free
    /\ Goto(t, IF m_derived_pids # m_ca_pids THEN "write" ELSE "release")
    /\ UNCHANGED <<m_lock, m_derived_pids, pipe, localVars>>

(* wakeup: a full pipe refuses the byte. *)
WritePipe(t) ==
    /\ pc[t] = "write"
    /\ pipe' = IF pipe < PipeSize THEN pipe + 1 ELSE pipe
    /\ Goto(t, "release")
    /\ UNCHANGED <<lockVars, m_derived_pids, caVars, localVars>>

Release(t) ==
    /\ pc[t] = "release"
    /\ m_lock' = Free
    /\ Goto(t, IF t = "rtp" THEN "idle" ELSE "look")
    /\ UNCHANGED <<m_ca_lock, m_derived_pids, caVars, pipe, localVars>>

FinishReport(t) ==
    LockAndRecompute(t) \/ LockCa(t) \/ Assign(t) \/ WritePipe(t) \/ Release(t)

-----------------------------------------------------------------------------
(***************************************************************************)
(* A turn of the session thread                                            *)
(***************************************************************************)

(* Mutant: looking at the flag resets it. *)
Look_Clears ==
    /\ pc["session"] = "look"
    /\ m_ca_lock = Free
    /\ m_ca_dirty' = FALSE
    /\ Goto("session", IF m_ca_dirty /\ ~m_wait_response THEN "take" ELSE "poll")
    /\ UNCHANGED <<lockVars, m_derived_pids, m_ca_pids, pipe, localVars>>

(* handleRTSPStatus: getPidStatus locks, reads and unlocks.  sendRequest   *)
(* does nothing while an answer is awaited.                                *)
Look ==
    /\ pc["session"] = "look"
    /\ m_ca_lock = Free
    /\ Goto("session", IF m_ca_dirty /\ ~m_wait_response THEN "take" ELSE "poll")
    /\ UNCHANGED <<sharedVars, localVars>>

(* addCaPids, and the PLAY that carries the set *)
Take ==
    /\ pc["session"] = "take"
    /\ m_ca_lock = Free
    /\ requested' = m_ca_pids
    /\ m_ca_dirty' = FALSE
    /\ m_wait_response' = TRUE
    /\ Goto("session", "poll")
    /\ UNCHANGED <<lockVars, m_derived_pids, m_ca_pids, pipe, woken>>

PollReturns ==
    /\ pc["session"] = "poll"
    /\ woken' = (pipe > 0)
    /\ Goto("session", "drain")
    /\ UNCHANGED <<sharedVars, requested>>

PollWakeup == pipe > 0 /\ PollReturns /\ UNCHANGED m_wait_response

(* Mutant: an answer does not end the wait. *)
PollAnswer_StillWaiting == m_wait_response /\ PollReturns /\ UNCHANGED m_wait_response

(* The answer, which is handled before the next look, or the reset timer   *)
(* (after which the next SETUP carries the pids; a new session for short). *)
PollAnswer == m_wait_response /\ PollReturns /\ m_wait_response' = FALSE

(* Another timer, a message of the kernel, stream data. *)
PollOther == PollReturns /\ UNCHANGED m_wait_response

Drain ==
    /\ pc["session"] = "drain"
    /\ pipe' = IF woken THEN 0 ELSE pipe
    /\ woken' = FALSE
    /\ Goto("session", "events")
    /\ UNCHANGED <<lockVars, m_derived_pids, caVars, m_wait_response, requested>>

(* No pid list in this turn. *)
NoMessage ==
    /\ pc["session"] = "events"
    /\ Goto("session", "look")
    /\ UNCHANGED <<sharedVars, localVars>>

Turn == Look \/ Take \/ Drain \/ NoMessage

ThreadsNext ==
    \/ \E t \in Threads : BeginReport(t) \/ FinishReport(t)
    \/ Turn \/ PollWakeup \/ PollAnswer \/ PollOther

(* Both threads run, and a lock that is free again and again is got at     *)
(* last (it is held for a few instructions).  A byte in the pipe ends      *)
(* poll; a request is answered or given up.  poll need not end otherwise:  *)
(* the next timer can be the keep alive, a minute away.                    *)
Fairness ==
    /\ \A t \in Threads : SF_vars(FinishReport(t))
    /\ SF_vars(Turn) /\ WF_vars(PollWakeup) /\ SF_vars(PollAnswer)

ThreadsSpec == ThreadsInit /\ [][ThreadsNext]_vars /\ Fairness

-----------------------------------------------------------------------------
(***************************************************************************)
(* Properties.  That the two locks cannot deadlock is checked as well: a   *)
(* thread can always move on.                                              *)
(***************************************************************************)

(* No lost wakeup: while the session thread sleeps in poll with a report   *)
(* it has not requested and could request, there is a byte in the pipe or  *)
(* the reporting thread is about to write one, wherever that thread was    *)
(* when the session thread last looked and drained.                        *)
NoLostWakeup ==
    (pc["session"] = "poll" /\ m_ca_dirty /\ ~m_wait_response)
    => pipe > 0 \/ \E t \in Threads : pc[t] = "write"

(* The flag tells the truth: without it the last request carried the       *)
(* reported set, and the reported set is the parser's unless a report is   *)
(* on its way.                                                             *)
FlagIsTrue ==
    /\ ~m_ca_dirty => requested = m_ca_pids
    /\ m_ca_pids # m_derived_pids => \E t \in Threads : pc[t] \in {"ca", "assign"}

(* A report is requested without the help of a timer or of the kernel.     *)
ReportRequested == m_ca_dirty ~> ~m_ca_dirty
=============================================================================
