-------------------------- MODULE CaThreadsProofs --------------------------
(***************************************************************************)
(* Theorems about the two threads that run the PSI parser, for any pid     *)
(* sets and any size of the wakeup pipe: the locks are held where the code *)
(* takes them, the flag tells the truth, and no wakeup is lost.            *)
(***************************************************************************)
EXTENDS CaThreads, TLAPS

(* m_lock is held from recompute to the end of the report, m_ca_lock only  *)
(* for the assignment.  The RTP thread does nothing but report.            *)
LocksHeld ==
    /\ \A t \in Threads : m_lock = t <=> pc[t] \in {"ca", "assign", "write", "release"}
    /\ \A t \in Threads : m_ca_lock = t <=> pc[t] = "assign"
    /\ pc["rtp"] \in ReportSteps \cup {"idle"}

Steps == ReportSteps \cup SessionSteps \cup {"idle"}

(* The inductive invariant. *)
ThreadsInv == LocksHeld /\ FlagIsTrue /\ NoLostWakeup

LEMMA ThreadsInitInv == ThreadsInit => ThreadsTypeOK /\ ThreadsInv
<1> SUFFICES ASSUME ThreadsInit PROVE ThreadsTypeOK /\ ThreadsInv
  OBVIOUS
<1>1. /\ pc \in [Threads -> {"idle", "look"}]
      /\ pc["rtp"] = "idle" /\ pc["session"] = "look"
  BY DEF ThreadsInit, Threads
<1>2. pipe \in 0..PipeSize
  BY CaThreadsAssumption DEF ThreadsInit
<1>3. ThreadsTypeOK
  BY <1>1, <1>2 DEF ThreadsInit, ThreadsTypeOK, Threads, Free, ReportSteps, SessionSteps
<1>4. LocksHeld
  BY <1>1 DEF ThreadsInit, LocksHeld, Threads, Free, ReportSteps
<1>5. FlagIsTrue /\ NoLostWakeup
  BY <1>1 DEF ThreadsInit, FlagIsTrue, NoLostWakeup
<1> QED BY <1>3, <1>4, <1>5 DEF ThreadsInv

-----------------------------------------------------------------------------
(***************************************************************************)
(* A report                                                                *)
(***************************************************************************)

LEMMA ReportStep ==
    ASSUME ThreadsTypeOK, ThreadsInv, NEW t \in Threads, BeginReport(t) \/ FinishReport(t)
    PROVE  ThreadsTypeOK' /\ ThreadsInv'
<1> USE DEF ThreadsInv, sharedVars, localVars, lockVars, caVars
<1>1. CASE BeginReport(t)
  <2>1. ThreadsTypeOK'
    BY <1>1, CaThreadsAssumption DEF BeginReport, Goto, ThreadsTypeOK, Threads, ReportSteps, SessionSteps
  <2>2. LocksHeld'
    BY <1>1 DEF BeginReport, Goto, ThreadsTypeOK, LocksHeld, Threads, Free, ReportSteps, SessionSteps
  <2>3. FlagIsTrue'
    BY <1>1 DEF BeginReport, Goto, ThreadsTypeOK, LocksHeld, FlagIsTrue, Threads, Free
  <2>4. NoLostWakeup'
    BY <1>1, CaThreadsAssumption DEF BeginReport, Goto, ThreadsTypeOK, LocksHeld, NoLostWakeup, Threads, Free, ReportSteps
  <2> QED BY <2>1, <2>2, <2>3, <2>4
<1>2. CASE LockAndRecompute(t)
  <2>1. ThreadsTypeOK'
    BY <1>2, CaThreadsAssumption DEF LockAndRecompute, Goto, ThreadsTypeOK, Threads, ReportSteps, SessionSteps
  <2>2. LocksHeld'
    BY <1>2 DEF LockAndRecompute, Goto, ThreadsTypeOK, LocksHeld, Threads, Free, ReportSteps, SessionSteps
  <2>3. FlagIsTrue'
    BY <1>2 DEF LockAndRecompute, Goto, ThreadsTypeOK, LocksHeld, FlagIsTrue, Threads, Free
  <2>4. NoLostWakeup'
    BY <1>2, CaThreadsAssumption DEF LockAndRecompute, Goto, ThreadsTypeOK, LocksHeld, NoLostWakeup, Threads, Free, ReportSteps
  <2> QED BY <2>1, <2>2, <2>3, <2>4
<1>3. CASE LockCa(t)
  <2>1. ThreadsTypeOK'
    BY <1>3, CaThreadsAssumption DEF LockCa, Goto, ThreadsTypeOK, Threads, ReportSteps, SessionSteps
  <2>2. LocksHeld'
    BY <1>3 DEF LockCa, Goto, ThreadsTypeOK, LocksHeld, Threads, Free, ReportSteps, SessionSteps
  <2>3. FlagIsTrue'
    BY <1>3 DEF LockCa, Goto, ThreadsTypeOK, LocksHeld, FlagIsTrue, Threads, Free
  <2>4. NoLostWakeup'
    BY <1>3, CaThreadsAssumption DEF LockCa, Goto, ThreadsTypeOK, LocksHeld, NoLostWakeup, Threads, Free, ReportSteps
  <2> QED BY <2>1, <2>2, <2>3, <2>4
<1>4. CASE Assign(t)
  <2>1. ThreadsTypeOK'
    BY <1>4, CaThreadsAssumption DEF Assign, Goto, ThreadsTypeOK, Threads, ReportSteps, SessionSteps
  <2>2. LocksHeld'
    BY <1>4 DEF Assign, Goto, ThreadsTypeOK, LocksHeld, Threads, Free, ReportSteps, SessionSteps
  <2>3. FlagIsTrue'
    BY <1>4 DEF Assign, Goto, ThreadsTypeOK, LocksHeld, FlagIsTrue, Threads, Free
  <2>4. NoLostWakeup'
    BY <1>4, CaThreadsAssumption DEF Assign, Goto, ThreadsTypeOK, LocksHeld, NoLostWakeup, Threads, Free, ReportSteps
  <2> QED BY <2>1, <2>2, <2>3, <2>4
<1>5. CASE WritePipe(t)
  <2>1. ThreadsTypeOK'
    BY <1>5, CaThreadsAssumption DEF WritePipe, Goto, ThreadsTypeOK, Threads, ReportSteps, SessionSteps
  <2>2. LocksHeld'
    BY <1>5 DEF WritePipe, Goto, ThreadsTypeOK, LocksHeld, Threads, Free, ReportSteps, SessionSteps
  <2>3. FlagIsTrue'
    BY <1>5 DEF WritePipe, Goto, ThreadsTypeOK, LocksHeld, FlagIsTrue, Threads, Free
  <2>4. NoLostWakeup'
    BY <1>5, CaThreadsAssumption DEF WritePipe, Goto, ThreadsTypeOK, LocksHeld, NoLostWakeup, Threads, Free, ReportSteps
  <2> QED BY <2>1, <2>2, <2>3, <2>4
<1>6. CASE Release(t)
  <2>1. ThreadsTypeOK'
    BY <1>6, CaThreadsAssumption DEF Release, Goto, ThreadsTypeOK, Threads, ReportSteps, SessionSteps
  <2>2. LocksHeld'
    BY <1>6 DEF Release, Goto, ThreadsTypeOK, LocksHeld, Threads, Free, ReportSteps, SessionSteps
  <2>3. FlagIsTrue'
    BY <1>6 DEF Release, Goto, ThreadsTypeOK, LocksHeld, FlagIsTrue, Threads, Free
  <2>4. NoLostWakeup'
    BY <1>6, CaThreadsAssumption DEF Release, Goto, ThreadsTypeOK, LocksHeld, NoLostWakeup, Threads, Free, ReportSteps
  <2> QED BY <2>1, <2>2, <2>3, <2>4
<1> QED BY <1>1, <1>2, <1>3, <1>4, <1>5, <1>6 DEF FinishReport

-----------------------------------------------------------------------------
(***************************************************************************)
(* A turn of the session thread                                            *)
(***************************************************************************)

LEMMA TurnStep ==
    ASSUME ThreadsTypeOK, ThreadsInv, Turn \/ PollWakeup \/ PollAnswer \/ PollOther
    PROVE  ThreadsTypeOK' /\ ThreadsInv'
<1> USE DEF ThreadsInv, sharedVars, localVars, lockVars, caVars, PollReturns
<1>1. CASE Look
  <2>1. ThreadsTypeOK'
    BY <1>1, CaThreadsAssumption DEF Look, Goto, ThreadsTypeOK, Threads, ReportSteps, SessionSteps
  <2>2. LocksHeld'
    BY <1>1 DEF Look, Goto, ThreadsTypeOK, LocksHeld, Threads, Free, ReportSteps, SessionSteps
  <2>3. FlagIsTrue'
    BY <1>1 DEF Look, Goto, ThreadsTypeOK, LocksHeld, FlagIsTrue, Threads, Free
  <2>4. NoLostWakeup'
    BY <1>1 DEF Look, Goto, ThreadsTypeOK, NoLostWakeup, Threads
  <2> QED BY <2>1, <2>2, <2>3, <2>4
<1>2. CASE Take
  <2>1. ThreadsTypeOK'
    BY <1>2, CaThreadsAssumption DEF Take, Goto, ThreadsTypeOK, Threads, ReportSteps, SessionSteps
  <2>2. LocksHeld'
    BY <1>2 DEF Take, Goto, ThreadsTypeOK, LocksHeld, Threads, Free, ReportSteps, SessionSteps
  <2>3. FlagIsTrue'
    BY <1>2 DEF Take, Goto, ThreadsTypeOK, LocksHeld, FlagIsTrue, Threads, Free
  <2>4. NoLostWakeup'
    BY <1>2 DEF Take, Goto, ThreadsTypeOK, NoLostWakeup, Threads
  <2> QED BY <2>1, <2>2, <2>3, <2>4
<1>3. CASE PollWakeup
  <2>1. ThreadsTypeOK'
    <3>1. woken' \in BOOLEAN /\ m_wait_response' \in BOOLEAN
      BY <1>3 DEF PollWakeup, ThreadsTypeOK
    <3>2. pc' \in [Threads -> Steps]
      BY <1>3 DEF PollWakeup, Goto, ThreadsTypeOK, Steps, Threads, SessionSteps
    <3> QED BY <1>3, <3>1, <3>2 DEF PollWakeup, ThreadsTypeOK, Steps
  <2>2. LocksHeld'
    BY <1>3 DEF PollWakeup, Goto, ThreadsTypeOK, LocksHeld, Threads, Free, ReportSteps, SessionSteps
  <2>3. FlagIsTrue'
    BY <1>3 DEF PollWakeup, Goto, ThreadsTypeOK, LocksHeld, FlagIsTrue, Threads, Free
  <2>4. NoLostWakeup'
    BY <1>3 DEF PollWakeup, Goto, ThreadsTypeOK, NoLostWakeup, Threads
  <2> QED BY <2>1, <2>2, <2>3, <2>4
<1>4. CASE PollAnswer
  <2>1. ThreadsTypeOK'
    <3>a. woken' \in BOOLEAN
      BY <1>4, SMT DEF PollAnswer
    <3>b. m_wait_response' \in BOOLEAN
      <4>1. m_wait_response' = FALSE
        BY <1>4 DEF PollAnswer
      <4> QED BY <4>1
    <3>1. woken' \in BOOLEAN /\ m_wait_response' \in BOOLEAN
      BY <3>a, <3>b
    <3>2. pc' \in [Threads -> Steps]
      BY <1>4 DEF PollAnswer, Goto, ThreadsTypeOK, Steps, Threads, SessionSteps
    <3> QED BY <1>4, <3>1, <3>2 DEF PollAnswer, ThreadsTypeOK, Steps
  <2>2. LocksHeld'
    BY <1>4 DEF PollAnswer, Goto, ThreadsTypeOK, LocksHeld, Threads, Free, ReportSteps, SessionSteps
  <2>3. FlagIsTrue'
    BY <1>4 DEF PollAnswer, Goto, ThreadsTypeOK, LocksHeld, FlagIsTrue, Threads, Free
  <2>4. NoLostWakeup'
    BY <1>4 DEF PollAnswer, Goto, ThreadsTypeOK, NoLostWakeup, Threads
  <2> QED BY <2>1, <2>2, <2>3, <2>4
<1>5. CASE PollOther
  <2>1. ThreadsTypeOK'
    <3>1. woken' \in BOOLEAN /\ m_wait_response' \in BOOLEAN
      BY <1>5 DEF PollOther, ThreadsTypeOK
    <3>2. pc' \in [Threads -> Steps]
      BY <1>5 DEF PollOther, Goto, ThreadsTypeOK, Steps, Threads, SessionSteps
    <3> QED BY <1>5, <3>1, <3>2 DEF PollOther, ThreadsTypeOK, Steps
  <2>2. LocksHeld'
    BY <1>5 DEF PollOther, Goto, ThreadsTypeOK, LocksHeld, Threads, Free, ReportSteps, SessionSteps
  <2>3. FlagIsTrue'
    BY <1>5 DEF PollOther, Goto, ThreadsTypeOK, LocksHeld, FlagIsTrue, Threads, Free
  <2>4. NoLostWakeup'
    BY <1>5 DEF PollOther, Goto, ThreadsTypeOK, NoLostWakeup, Threads
  <2> QED BY <2>1, <2>2, <2>3, <2>4
<1>6. CASE Drain
  <2>1. ThreadsTypeOK'
    <3>1. pipe' \in 0..PipeSize
      BY <1>6, CaThreadsAssumption DEF Drain, ThreadsTypeOK
    <3>2. pc' \in [Threads -> Steps]
      BY <1>6 DEF Drain, Goto, ThreadsTypeOK, Steps, Threads, SessionSteps
    <3> QED BY <1>6, <3>1, <3>2 DEF Drain, ThreadsTypeOK, Steps
  <2>2. LocksHeld'
    BY <1>6 DEF Drain, Goto, ThreadsTypeOK, LocksHeld, Threads, Free, ReportSteps, SessionSteps
  <2>3. FlagIsTrue'
    BY <1>6 DEF Drain, Goto, ThreadsTypeOK, LocksHeld, FlagIsTrue, Threads, Free
  <2>4. NoLostWakeup'
    BY <1>6 DEF Drain, Goto, ThreadsTypeOK, NoLostWakeup, Threads
  <2> QED BY <2>1, <2>2, <2>3, <2>4
<1>7. CASE NoMessage
  <2>1. ThreadsTypeOK'
    BY <1>7, CaThreadsAssumption DEF NoMessage, Goto, ThreadsTypeOK, Threads, ReportSteps, SessionSteps
  <2>2. LocksHeld'
    BY <1>7 DEF NoMessage, Goto, ThreadsTypeOK, LocksHeld, Threads, Free, ReportSteps, SessionSteps
  <2>3. FlagIsTrue'
    BY <1>7 DEF NoMessage, Goto, ThreadsTypeOK, LocksHeld, FlagIsTrue, Threads, Free
  <2>4. NoLostWakeup'
    BY <1>7 DEF NoMessage, Goto, ThreadsTypeOK, NoLostWakeup, Threads
  <2> QED BY <2>1, <2>2, <2>3, <2>4
<1> QED BY <1>1, <1>2, <1>3, <1>4, <1>5, <1>6, <1>7 DEF Turn

-----------------------------------------------------------------------------
LEMMA ThreadsStep ==
    ThreadsTypeOK /\ ThreadsInv /\ [ThreadsNext]_vars => ThreadsTypeOK' /\ ThreadsInv'
<1> SUFFICES ASSUME ThreadsTypeOK, ThreadsInv, [ThreadsNext]_vars
             PROVE  ThreadsTypeOK' /\ ThreadsInv'
  OBVIOUS
<1>1. CASE \E t \in Threads : BeginReport(t) \/ FinishReport(t)
  BY <1>1, ReportStep
<1>2. CASE Turn \/ PollWakeup \/ PollAnswer \/ PollOther
  BY <1>2, TurnStep
<1>3. CASE UNCHANGED vars
  BY <1>3 DEF vars, sharedVars, localVars, lockVars, caVars, ThreadsTypeOK, ThreadsInv, LocksHeld,
              FlagIsTrue, NoLostWakeup
<1> QED BY <1>1, <1>2, <1>3 DEF ThreadsNext

LEMMA ThreadsInvariant == ThreadsSpec => [](ThreadsTypeOK /\ ThreadsInv)
  BY ThreadsInitInv, ThreadsStep, PTL DEF ThreadsSpec

(* Type correctness of both threads. *)
THEOREM ThreadsTypeCorrect == ThreadsSpec => []ThreadsTypeOK
  BY ThreadsInvariant, PTL

(* The locks are held where the code takes them: at most one thread is     *)
(* between lock and unlock of m_lock, and of m_ca_lock.                    *)
THEOREM ThreadsLocksHeld == ThreadsSpec => []LocksHeld
  BY ThreadsInvariant, PTL DEF ThreadsInv

(* A report that can be requested and is not never lets the session thread *)
(* sleep in poll.                                                          *)
THEOREM ThreadsNoLostWakeup == ThreadsSpec => []NoLostWakeup
  BY ThreadsInvariant, PTL DEF ThreadsInv

(* Without m_ca_dirty the last request carried the reported pids, and the  *)
(* reported pids are the parser's unless a report is on its way.           *)
THEOREM ThreadsFlagIsTrue == ThreadsSpec => []FlagIsTrue
  BY ThreadsInvariant, PTL DEF ThreadsInv
=============================================================================
