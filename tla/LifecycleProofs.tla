-------------------------- MODULE LifecycleProofs --------------------------
(***************************************************************************)
(* Theorems about the life of the process, for any number of tuners,       *)
(* devices and signals, any size of the wakeup pipe and both transports.   *)
(***************************************************************************)
EXTENDS Lifecycle, TLAPS

Stopping     == {"stop_rtp", "join_rtp", "stop_flag", "stop_wake"}
Gone(thread) == thread \in {"none", "joined"}

(* satipStart works through the tuners in order, and a session has no      *)
(* thread before it is listed.                                             *)
CreatedInOrder ==
    /\ pc \in {"start", "test", "suspended"} => cur = 1
    /\ pc \in {"start", "alloc"} => \A t \in Tuners : t >= cur => session[t] = "none"
    /\ pc \in {"ports", "decide"} =>
           session[cur] = "creating" /\ \A t \in Tuners : t > cur => session[t] = "none"
    /\ \A t \in Tuners : session[t] \in {"none", "creating"} =>
           rtp_thread[t] = "none" /\ session_thread[t] = "none"

(* satipStop has ended the RTP threads of the tuners it has passed.        *)
RtpThreadsEnded ==
    /\ pc \in Stopping => \A t \in Tuners : t < cur /\ session[t] = "listed" => Gone(rtp_thread[t])
    /\ pc \in {"stop_flag", "stop_wake"} => Gone(rtp_thread[cur])
    /\ pc \in {"join", "delete"} =>
           \A t \in Tuners : session[t] = "listed" => Gone(rtp_thread[t])

(* join has waited for the session threads of the tuners it has passed.    *)
SessionThreadsEnded ==
    /\ pc = "join" => \A t \in Tuners : t < cur => Gone(session_thread[t])
    /\ pc = "delete" => \A t \in Tuners : Gone(session_thread[t])

(* After stop the flag is down, and there is a byte in the pipe for a      *)
(* thread that is in poll or on its way there: it tested the flag before   *)
(* stop, and has not drained the pipe since.                               *)
FlagAndByte ==
    /\ pc = "stop_wake" => ~m_running[cur]
    /\ \A t \in Tuners : Stopped(t) =>
           /\ ~m_running[t]
           /\ session_thread[t] \in {"turn", "poll"} => pipe[t] # 0

LifecycleInv ==
    /\ CreatedInOrder
    /\ RtpThreadsEnded
    /\ SessionThreadsEnded
    /\ FlagAndByte
    /\ ThreadsEndFirst
    /\ DevicesOwned

LEMMA TunersFact ==
    /\ N \in Nat \ {0} /\ PipeSize \in Nat \ {0} /\ Devices \in Nat /\ TcpData \in BOOLEAN
    /\ Tuners \subseteq Nat /\ 1 \in Tuners
    /\ \A t \in Tuners : t < N => t + 1 \in Tuners
    /\ \A t \in Tuners : t <= N /\ t >= 1
  BY LifecycleAssumption DEF Tuners

LEMMA LifecycleInitInv == LifecycleInit => LifecycleTypeOK /\ LifecycleInv
<1> SUFFICES ASSUME LifecycleInit PROVE LifecycleTypeOK /\ LifecycleInv
  OBVIOUS
<1>1. LifecycleTypeOK
  <2>1. /\ interrupted \in BOOLEAN
        /\ ports \in [Tuners -> BOOLEAN]
        /\ rtp_running \in [Tuners -> BOOLEAN]
        /\ m_running \in [Tuners -> BOOLEAN]
    BY Zenon DEF LifecycleInit
  <2>2. sent \in 0..MaxSignals /\ cur \in Tuners
    BY LifecycleAssumption, TunersFact DEF LifecycleInit
  <2> QED BY <2>1, <2>2 DEF LifecycleInit, LifecycleTypeOK, MainSteps, NoSignal
<1>2. CreatedInOrder /\ RtpThreadsEnded /\ SessionThreadsEnded /\ FlagAndByte
  BY DEF LifecycleInit, CreatedInOrder, RtpThreadsEnded, SessionThreadsEnded, FlagAndByte, Stopped,
         Stopping
<1>3. ThreadsEndFirst /\ DevicesOwned
  BY DEF LifecycleInit, ThreadsEndFirst, DevicesOwned, None
<1> QED BY <1>1, <1>2, <1>3 DEF LifecycleInv

-----------------------------------------------------------------------------
LEMMA MainStep ==
    ASSUME LifecycleTypeOK, LifecycleInv, Main
    PROVE  LifecycleTypeOK' /\ LifecycleInv'
<1> USE DEF LifecycleInv, signalVars, objectVars, rtpVars, sessionVars
<1>1. CASE SatipStart
  <2>1. LifecycleTypeOK'
    BY <1>1, TunersFact DEF SatipStart, LifecycleTypeOK, MainSteps, None
  <2>2. CreatedInOrder'
    BY <1>1, TunersFact DEF SatipStart, LifecycleTypeOK, CreatedInOrder
  <2>3. RtpThreadsEnded'
    BY <1>1, TunersFact DEF SatipStart, LifecycleTypeOK, CreatedInOrder, RtpThreadsEnded, Stopping, Gone
  <2>4. SessionThreadsEnded'
    BY <1>1, TunersFact DEF SatipStart, LifecycleTypeOK, CreatedInOrder, SessionThreadsEnded, Gone
  <2>5. FlagAndByte'
    BY <1>1, TunersFact DEF SatipStart, LifecycleTypeOK, CreatedInOrder, FlagAndByte, Stopped, None
  <2>6. ThreadsEndFirst'
    BY <1>1, TunersFact DEF SatipStart, LifecycleTypeOK, CreatedInOrder, RtpThreadsEnded, SessionThreadsEnded, ThreadsEndFirst, Gone
  <2>7. DevicesOwned'
    BY <1>1, TunersFact DEF SatipStart, LifecycleTypeOK, CreatedInOrder, DevicesOwned, None
  <2> QED BY <2>1, <2>2, <2>3, <2>4, <2>5, <2>6, <2>7
<1>2. CASE SkipTuner
  <2>1. LifecycleTypeOK'
    BY <1>2, TunersFact DEF SkipTuner, NextTuner, LifecycleTypeOK, MainSteps, None
  <2>2. CreatedInOrder'
    BY <1>2, TunersFact DEF SkipTuner, NextTuner, LifecycleTypeOK, CreatedInOrder
  <2>3. RtpThreadsEnded'
    BY <1>2, TunersFact DEF SkipTuner, NextTuner, LifecycleTypeOK, CreatedInOrder, RtpThreadsEnded, Stopping, Gone
  <2>4. SessionThreadsEnded'
    BY <1>2, TunersFact DEF SkipTuner, NextTuner, LifecycleTypeOK, CreatedInOrder, SessionThreadsEnded, Gone
  <2>5. FlagAndByte'
    BY <1>2, TunersFact DEF SkipTuner, NextTuner, LifecycleTypeOK, CreatedInOrder, FlagAndByte, Stopped, None
  <2>6. ThreadsEndFirst'
    BY <1>2, TunersFact DEF SkipTuner, NextTuner, LifecycleTypeOK, CreatedInOrder, RtpThreadsEnded, SessionThreadsEnded, ThreadsEndFirst, Gone
  <2>7. DevicesOwned'
    BY <1>2, TunersFact DEF SkipTuner, NextTuner, LifecycleTypeOK, CreatedInOrder, DevicesOwned, None
  <2> QED BY <2>1, <2>2, <2>3, <2>4, <2>5, <2>6, <2>7
<1>3. CASE OpenVtuner
  <2>1. LifecycleTypeOK'
    BY <1>3, TunersFact DEF OpenVtuner, FreeDevices, LifecycleTypeOK, MainSteps, None
  <2>2. CreatedInOrder'
    BY <1>3, TunersFact DEF OpenVtuner, FreeDevices, LifecycleTypeOK, CreatedInOrder
  <2>3. RtpThreadsEnded'
    BY <1>3, TunersFact DEF OpenVtuner, FreeDevices, LifecycleTypeOK, CreatedInOrder, RtpThreadsEnded, Stopping, Gone
  <2>4. SessionThreadsEnded'
    BY <1>3, TunersFact DEF OpenVtuner, FreeDevices, LifecycleTypeOK, CreatedInOrder, SessionThreadsEnded, Gone
  <2>5. FlagAndByte'
    BY <1>3, TunersFact DEF OpenVtuner, FreeDevices, LifecycleTypeOK, CreatedInOrder, FlagAndByte, Stopped, None
  <2>6. ThreadsEndFirst'
    BY <1>3, TunersFact DEF OpenVtuner, FreeDevices, LifecycleTypeOK, CreatedInOrder, RtpThreadsEnded, SessionThreadsEnded, ThreadsEndFirst, Gone
  <2>7. DevicesOwned'
    BY <1>3, TunersFact DEF OpenVtuner, FreeDevices, LifecycleTypeOK, CreatedInOrder, DevicesOwned, None
  <2> QED BY <2>1, <2>2, <2>3, <2>4, <2>5, <2>6, <2>7
<1>4. CASE OpenRTP
  <2>1. LifecycleTypeOK'
    BY <1>4, TunersFact DEF OpenRTP, LifecycleTypeOK, MainSteps, None
  <2>2. CreatedInOrder'
    BY <1>4, TunersFact DEF OpenRTP, LifecycleTypeOK, CreatedInOrder
  <2>3. RtpThreadsEnded'
    BY <1>4, TunersFact DEF OpenRTP, LifecycleTypeOK, CreatedInOrder, RtpThreadsEnded, Stopping, Gone
  <2>4. SessionThreadsEnded'
    BY <1>4, TunersFact DEF OpenRTP, LifecycleTypeOK, CreatedInOrder, SessionThreadsEnded, Gone
  <2>5. FlagAndByte'
    BY <1>4, TunersFact DEF OpenRTP, LifecycleTypeOK, CreatedInOrder, FlagAndByte, Stopped, None
  <2>6. ThreadsEndFirst'
    BY <1>4, TunersFact DEF OpenRTP, LifecycleTypeOK, CreatedInOrder, RtpThreadsEnded, SessionThreadsEnded, ThreadsEndFirst, Gone
  <2>7. DevicesOwned'
    BY <1>4, TunersFact DEF OpenRTP, LifecycleTypeOK, CreatedInOrder, DevicesOwned, None
  <2> QED BY <2>1, <2>2, <2>3, <2>4, <2>5, <2>6, <2>7
<1>5. CASE StartSession
  <2>1. LifecycleTypeOK'
    BY <1>5, TunersFact DEF StartSession, NextTuner, InitOk, LifecycleTypeOK, MainSteps, None
  <2>2. CreatedInOrder'
    BY <1>5, TunersFact DEF StartSession, NextTuner, InitOk, LifecycleTypeOK, CreatedInOrder
  <2>3. RtpThreadsEnded'
    BY <1>5, TunersFact DEF StartSession, NextTuner, InitOk, LifecycleTypeOK, CreatedInOrder, RtpThreadsEnded, Stopping, Gone
  <2>4. SessionThreadsEnded'
    BY <1>5, TunersFact DEF StartSession, NextTuner, InitOk, LifecycleTypeOK, CreatedInOrder, SessionThreadsEnded, Gone
  <2>5. FlagAndByte'
    BY <1>5, TunersFact DEF StartSession, NextTuner, InitOk, LifecycleTypeOK, CreatedInOrder, FlagAndByte, Stopped, None
  <2>6. ThreadsEndFirst'
    BY <1>5, TunersFact DEF StartSession, NextTuner, InitOk, LifecycleTypeOK, CreatedInOrder, RtpThreadsEnded, SessionThreadsEnded, ThreadsEndFirst, Gone
  <2>7. DevicesOwned'
    BY <1>5, TunersFact DEF StartSession, NextTuner, InitOk, LifecycleTypeOK, CreatedInOrder, DevicesOwned, None
  <2> QED BY <2>1, <2>2, <2>3, <2>4, <2>5, <2>6, <2>7
<1>6. CASE DropSession
  <2>1. LifecycleTypeOK'
    BY <1>6, TunersFact DEF DropSession, NextTuner, InitOk, Destroy, LifecycleTypeOK, MainSteps, None
  <2>2. CreatedInOrder'
    BY <1>6, TunersFact DEF DropSession, NextTuner, InitOk, Destroy, LifecycleTypeOK, CreatedInOrder
  <2>3. RtpThreadsEnded'
    BY <1>6, TunersFact DEF DropSession, NextTuner, InitOk, Destroy, LifecycleTypeOK, CreatedInOrder, RtpThreadsEnded, Stopping, Gone
  <2>4. SessionThreadsEnded'
    BY <1>6, TunersFact DEF DropSession, NextTuner, InitOk, Destroy, LifecycleTypeOK, CreatedInOrder, SessionThreadsEnded, Gone
  <2>5. FlagAndByte'
    BY <1>6, TunersFact DEF DropSession, NextTuner, InitOk, Destroy, LifecycleTypeOK, CreatedInOrder, FlagAndByte, Stopped, None
  <2>6. ThreadsEndFirst'
    BY <1>6, TunersFact DEF DropSession, NextTuner, InitOk, Destroy, LifecycleTypeOK, CreatedInOrder, RtpThreadsEnded, SessionThreadsEnded, ThreadsEndFirst, Gone
  <2>7. DevicesOwned'
    BY <1>6, TunersFact DEF DropSession, NextTuner, InitOk, Destroy, LifecycleTypeOK, CreatedInOrder, DevicesOwned, None
  <2> QED BY <2>1, <2>2, <2>3, <2>4, <2>5, <2>6, <2>7
<1>7. CASE TestFlag
  <2>1. LifecycleTypeOK'
    BY <1>7, TunersFact DEF TestFlag, LifecycleTypeOK, MainSteps, None
  <2>2. CreatedInOrder'
    BY <1>7, TunersFact DEF TestFlag, LifecycleTypeOK, CreatedInOrder
  <2>3. RtpThreadsEnded'
    BY <1>7, TunersFact DEF TestFlag, LifecycleTypeOK, CreatedInOrder, RtpThreadsEnded, Stopping, Gone
  <2>4. SessionThreadsEnded'
    BY <1>7, TunersFact DEF TestFlag, LifecycleTypeOK, CreatedInOrder, SessionThreadsEnded, Gone
  <2>5. FlagAndByte'
    BY <1>7, TunersFact DEF TestFlag, LifecycleTypeOK, CreatedInOrder, FlagAndByte, Stopped
  <2>6. ThreadsEndFirst'
    BY <1>7, TunersFact DEF TestFlag, LifecycleTypeOK, CreatedInOrder, RtpThreadsEnded, SessionThreadsEnded, ThreadsEndFirst, Gone
  <2>7. DevicesOwned'
    BY <1>7, TunersFact DEF TestFlag, LifecycleTypeOK, CreatedInOrder, DevicesOwned, None
  <2> QED BY <2>1, <2>2, <2>3, <2>4, <2>5, <2>6, <2>7
<1>8. CASE SuspendReturns
  <2>1. LifecycleTypeOK'
    BY <1>8, TunersFact DEF SuspendReturns, LifecycleTypeOK, MainSteps, None
  <2>2. CreatedInOrder'
    BY <1>8, TunersFact DEF SuspendReturns, LifecycleTypeOK, CreatedInOrder
  <2>3. RtpThreadsEnded'
    BY <1>8, TunersFact DEF SuspendReturns, LifecycleTypeOK, CreatedInOrder, RtpThreadsEnded, Stopping, Gone
  <2>4. SessionThreadsEnded'
    BY <1>8, TunersFact DEF SuspendReturns, LifecycleTypeOK, CreatedInOrder, SessionThreadsEnded, Gone
  <2>5. FlagAndByte'
    BY <1>8, TunersFact DEF SuspendReturns, LifecycleTypeOK, CreatedInOrder, FlagAndByte, Stopped, None
  <2>6. ThreadsEndFirst'
    BY <1>8, TunersFact DEF SuspendReturns, LifecycleTypeOK, CreatedInOrder, RtpThreadsEnded, SessionThreadsEnded, ThreadsEndFirst, Gone
  <2>7. DevicesOwned'
    BY <1>8, TunersFact DEF SuspendReturns, LifecycleTypeOK, CreatedInOrder, DevicesOwned, None
  <2> QED BY <2>1, <2>2, <2>3, <2>4, <2>5, <2>6, <2>7
<1>9. CASE StopRtp
  <2>1. LifecycleTypeOK'
    BY <1>9, TunersFact DEF StopRtp, NextTuner, LifecycleTypeOK, MainSteps, None
  <2>2. CreatedInOrder'
    BY <1>9, TunersFact DEF StopRtp, NextTuner, LifecycleTypeOK, CreatedInOrder
  <2>3. RtpThreadsEnded'
    BY <1>9, TunersFact DEF StopRtp, NextTuner, LifecycleTypeOK, CreatedInOrder, RtpThreadsEnded, Stopping, Gone
  <2>4. SessionThreadsEnded'
    BY <1>9, TunersFact DEF StopRtp, NextTuner, LifecycleTypeOK, CreatedInOrder, SessionThreadsEnded, Gone
  <2>5. FlagAndByte'
    BY <1>9, TunersFact DEF StopRtp, NextTuner, LifecycleTypeOK, CreatedInOrder, FlagAndByte, Stopped, None
  <2>6. ThreadsEndFirst'
    BY <1>9, TunersFact DEF StopRtp, NextTuner, LifecycleTypeOK, CreatedInOrder, RtpThreadsEnded, SessionThreadsEnded, ThreadsEndFirst, Gone
  <2>7. DevicesOwned'
    BY <1>9, TunersFact DEF StopRtp, NextTuner, LifecycleTypeOK, CreatedInOrder, DevicesOwned, None
  <2> QED BY <2>1, <2>2, <2>3, <2>4, <2>5, <2>6, <2>7
<1>10. CASE JoinRtp
  <2>1. LifecycleTypeOK'
    BY <1>10, TunersFact DEF JoinRtp, LifecycleTypeOK, MainSteps, None
  <2>2. CreatedInOrder'
    BY <1>10, TunersFact DEF JoinRtp, LifecycleTypeOK, CreatedInOrder
  <2>3. RtpThreadsEnded'
    BY <1>10, TunersFact DEF JoinRtp, LifecycleTypeOK, CreatedInOrder, RtpThreadsEnded, Stopping, Gone
  <2>4. SessionThreadsEnded'
    BY <1>10, TunersFact DEF JoinRtp, LifecycleTypeOK, CreatedInOrder, SessionThreadsEnded, Gone
  <2>5. FlagAndByte'
    BY <1>10, TunersFact DEF JoinRtp, LifecycleTypeOK, CreatedInOrder, FlagAndByte, Stopped, None
  <2>6. ThreadsEndFirst'
    BY <1>10, TunersFact DEF JoinRtp, LifecycleTypeOK, CreatedInOrder, RtpThreadsEnded, SessionThreadsEnded, ThreadsEndFirst, Gone
  <2>7. DevicesOwned'
    BY <1>10, TunersFact DEF JoinRtp, LifecycleTypeOK, CreatedInOrder, DevicesOwned, None
  <2> QED BY <2>1, <2>2, <2>3, <2>4, <2>5, <2>6, <2>7
<1>11. CASE StopFlag
  <2>1. LifecycleTypeOK'
    BY <1>11, TunersFact DEF StopFlag, LifecycleTypeOK, MainSteps, None
  <2>2. CreatedInOrder'
    BY <1>11, TunersFact DEF StopFlag, LifecycleTypeOK, CreatedInOrder
  <2>3. RtpThreadsEnded'
    BY <1>11, TunersFact DEF StopFlag, LifecycleTypeOK, CreatedInOrder, RtpThreadsEnded, Stopping, Gone
  <2>4. SessionThreadsEnded'
    BY <1>11, TunersFact DEF StopFlag, LifecycleTypeOK, CreatedInOrder, SessionThreadsEnded, Gone
  <2>5. FlagAndByte'
    BY <1>11, TunersFact DEF StopFlag, LifecycleTypeOK, CreatedInOrder, FlagAndByte, Stopped, None
  <2>6. ThreadsEndFirst'
    BY <1>11, TunersFact DEF StopFlag, LifecycleTypeOK, CreatedInOrder, RtpThreadsEnded, SessionThreadsEnded, ThreadsEndFirst, Gone
  <2>7. DevicesOwned'
    BY <1>11, TunersFact DEF StopFlag, LifecycleTypeOK, CreatedInOrder, DevicesOwned, None
  <2> QED BY <2>1, <2>2, <2>3, <2>4, <2>5, <2>6, <2>7
<1>12. CASE StopWake
  <2>1. LifecycleTypeOK'
    BY <1>12, TunersFact DEF StopWake, NextTuner, Woken, LifecycleTypeOK, MainSteps, None
  <2>2. CreatedInOrder'
    BY <1>12, TunersFact DEF StopWake, NextTuner, Woken, LifecycleTypeOK, CreatedInOrder
  <2>3. RtpThreadsEnded'
    BY <1>12, TunersFact DEF StopWake, NextTuner, Woken, LifecycleTypeOK, CreatedInOrder, RtpThreadsEnded, Stopping, Gone
  <2>4. SessionThreadsEnded'
    BY <1>12, TunersFact DEF StopWake, NextTuner, Woken, LifecycleTypeOK, CreatedInOrder, SessionThreadsEnded, Gone
  <2>5. FlagAndByte'
    BY <1>12, TunersFact DEF StopWake, NextTuner, Woken, LifecycleTypeOK, CreatedInOrder, FlagAndByte, Stopped, None
  <2>6. ThreadsEndFirst'
    BY <1>12, TunersFact DEF StopWake, NextTuner, Woken, LifecycleTypeOK, CreatedInOrder, RtpThreadsEnded, SessionThreadsEnded, ThreadsEndFirst, Gone
  <2>7. DevicesOwned'
    BY <1>12, TunersFact DEF StopWake, NextTuner, Woken, LifecycleTypeOK, CreatedInOrder, DevicesOwned, None
  <2> QED BY <2>1, <2>2, <2>3, <2>4, <2>5, <2>6, <2>7
<1>13. CASE JoinSession
  <2>1. LifecycleTypeOK'
    BY <1>13, TunersFact DEF JoinSession, NextTuner, LifecycleTypeOK, MainSteps, None
  <2>2. CreatedInOrder'
    BY <1>13, TunersFact DEF JoinSession, NextTuner, LifecycleTypeOK, CreatedInOrder
  <2>3. RtpThreadsEnded'
    BY <1>13, TunersFact DEF JoinSession, NextTuner, LifecycleTypeOK, CreatedInOrder, RtpThreadsEnded, Stopping, Gone
  <2>4. SessionThreadsEnded'
    BY <1>13, TunersFact DEF JoinSession, NextTuner, LifecycleTypeOK, CreatedInOrder, SessionThreadsEnded, Gone
  <2>5. FlagAndByte'
    BY <1>13, TunersFact DEF JoinSession, NextTuner, LifecycleTypeOK, CreatedInOrder, FlagAndByte, Stopped, None
  <2>6. ThreadsEndFirst'
    BY <1>13, TunersFact DEF JoinSession, NextTuner, LifecycleTypeOK, CreatedInOrder, RtpThreadsEnded, SessionThreadsEnded, ThreadsEndFirst, Gone
  <2>7. DevicesOwned'
    BY <1>13, TunersFact DEF JoinSession, NextTuner, LifecycleTypeOK, CreatedInOrder, DevicesOwned, None
  <2> QED BY <2>1, <2>2, <2>3, <2>4, <2>5, <2>6, <2>7
<1>14. CASE DeleteSession
  <2>1. LifecycleTypeOK'
    BY <1>14, TunersFact DEF DeleteSession, NextTuner, Destroy, LifecycleTypeOK, MainSteps, None
  <2>2. CreatedInOrder'
    BY <1>14, TunersFact DEF DeleteSession, NextTuner, Destroy, LifecycleTypeOK, CreatedInOrder
  <2>3. RtpThreadsEnded'
    BY <1>14, TunersFact DEF DeleteSession, NextTuner, Destroy, LifecycleTypeOK, CreatedInOrder, RtpThreadsEnded, Stopping, Gone
  <2>4. SessionThreadsEnded'
    BY <1>14, TunersFact DEF DeleteSession, NextTuner, Destroy, LifecycleTypeOK, CreatedInOrder, SessionThreadsEnded, Gone
  <2>5. FlagAndByte'
    BY <1>14, TunersFact DEF DeleteSession, NextTuner, Destroy, LifecycleTypeOK, CreatedInOrder, FlagAndByte, Stopped, None
  <2>6. ThreadsEndFirst'
    BY <1>14, TunersFact DEF DeleteSession, NextTuner, Destroy, LifecycleTypeOK, CreatedInOrder, RtpThreadsEnded, SessionThreadsEnded, ThreadsEndFirst, Gone
  <2>7. DevicesOwned'
    BY <1>14, TunersFact DEF DeleteSession, NextTuner, Destroy, LifecycleTypeOK, CreatedInOrder, DevicesOwned, None
  <2> QED BY <2>1, <2>2, <2>3, <2>4, <2>5, <2>6, <2>7
<1> QED BY <1>1, <1>2, <1>3, <1>4, <1>5, <1>6, <1>7, <1>8, <1>9, <1>10, <1>11, <1>12, <1>13, <1>14 DEF Main

-----------------------------------------------------------------------------
LEMMA SignalStep ==
    ASSUME LifecycleTypeOK, LifecycleInv, NEW s \in Signals, SendSignal(s) \/ DeliverSignal(s)
    PROVE  LifecycleTypeOK' /\ LifecycleInv'
<1> USE DEF objectVars, rtpVars, sessionVars
<1>1. UNCHANGED <<cur, objectVars, rtpVars, sessionVars, pipe>> /\ (UNCHANGED pc \/ pc' = "killed")
  BY DEF SendSignal, DeliverSignal, Handler
<1>2. LifecycleTypeOK'
  <2>1. CASE SendSignal(s)
    BY <2>1, LifecycleAssumption DEF SendSignal, LifecycleTypeOK
  <2>2. CASE DeliverSignal(s)
    <3>1. interrupted' \in BOOLEAN
      BY <2>2 DEF DeliverSignal
    <3> QED BY <2>2, <3>1 DEF DeliverSignal, Handler, LifecycleTypeOK, MainSteps
  <2> QED BY <2>1, <2>2
<1>3. CreatedInOrder' /\ RtpThreadsEnded' /\ SessionThreadsEnded' /\ FlagAndByte'
  BY <1>1 DEF LifecycleInv, CreatedInOrder, RtpThreadsEnded, SessionThreadsEnded, FlagAndByte, Stopped,
              Stopping
<1>4. ThreadsEndFirst' /\ DevicesOwned'
  BY <1>1 DEF LifecycleInv, ThreadsEndFirst, DevicesOwned
<1> QED BY <1>2, <1>3, <1>4 DEF LifecycleInv

LEMMA ThreadStep ==
    ASSUME LifecycleTypeOK, LifecycleInv, NEW t \in Tuners, RtpThread(t) \/ SessionThread(t)
    PROVE  LifecycleTypeOK' /\ LifecycleInv'
<1> USE DEF LifecycleInv, signalVars, objectVars, rtpVars, sessionVars
<1>1. CASE RtpThread(t)
  <2>1. LifecycleTypeOK'
    BY <1>1, TunersFact DEF RtpThread, Woken, LifecycleTypeOK, None
  <2>2. CreatedInOrder'
    BY <1>1, TunersFact DEF RtpThread, Woken, LifecycleTypeOK, CreatedInOrder
  <2>3. RtpThreadsEnded' /\ SessionThreadsEnded'
    BY <1>1, TunersFact DEF RtpThread, Woken, LifecycleTypeOK, RtpThreadsEnded, SessionThreadsEnded, Stopping, Gone
  <2>4. FlagAndByte'
    BY <1>1, TunersFact DEF RtpThread, Woken, LifecycleTypeOK, FlagAndByte, Stopped, None
  <2>5. ThreadsEndFirst' /\ DevicesOwned'
    BY <1>1 DEF RtpThread, Woken, LifecycleTypeOK, ThreadsEndFirst, DevicesOwned
  <2> QED BY <2>1, <2>2, <2>3, <2>4, <2>5
<1>2. CASE SessionThread(t)
  <2>1. LifecycleTypeOK'
    BY <1>2, TunersFact DEF SessionThread, Woken, LifecycleTypeOK, None
  <2>2. CreatedInOrder'
    BY <1>2, TunersFact DEF SessionThread, Woken, LifecycleTypeOK, CreatedInOrder
  <2>3. RtpThreadsEnded' /\ SessionThreadsEnded'
    BY <1>2, TunersFact DEF SessionThread, Woken, LifecycleTypeOK, RtpThreadsEnded, SessionThreadsEnded, Stopping, Gone
  <2>4. FlagAndByte'
    BY <1>2, TunersFact DEF SessionThread, Woken, LifecycleTypeOK, FlagAndByte, Stopped, None
  <2>5. ThreadsEndFirst' /\ DevicesOwned'
    BY <1>2 DEF SessionThread, Woken, LifecycleTypeOK, ThreadsEndFirst, DevicesOwned
  <2> QED BY <2>1, <2>2, <2>3, <2>4, <2>5
<1> QED BY <1>1, <1>2

LEMMA LifecycleInvariant == LifecycleSpec => [](LifecycleTypeOK /\ LifecycleInv)
<1>1. LifecycleTypeOK /\ LifecycleInv /\ [LifecycleNext]_vars => (LifecycleTypeOK /\ LifecycleInv)'
  <2> SUFFICES ASSUME LifecycleTypeOK, LifecycleInv, [LifecycleNext]_vars
               PROVE  LifecycleTypeOK' /\ LifecycleInv'
    OBVIOUS
  <2>1. CASE \E s \in Signals : SendSignal(s) \/ DeliverSignal(s)
    BY <2>1, SignalStep
  <2>2. CASE Main
    BY <2>2, MainStep
  <2>3. CASE \E t \in Tuners : RtpThread(t) \/ SessionThread(t)
    BY <2>3, ThreadStep
  <2>4. CASE UNCHANGED vars
    BY <2>4 DEF vars, signalVars, objectVars, rtpVars, sessionVars, LifecycleTypeOK, LifecycleInv,
                CreatedInOrder, RtpThreadsEnded, SessionThreadsEnded, FlagAndByte, Stopped,
                ThreadsEndFirst, DevicesOwned
  <2> QED BY <2>1, <2>2, <2>3, <2>4 DEF LifecycleNext
<1> QED BY <1>1, LifecycleInitInv, PTL DEF LifecycleSpec

-----------------------------------------------------------------------------
(* Type correctness. *)
THEOREM LifecycleTypeCorrect == LifecycleSpec => []LifecycleTypeOK
  BY LifecycleInvariant, PTL

(* No object of a session is deleted under a thread that uses it, although *)
(* the destructor of satipSession does not join.                           *)
THEOREM LifecycleThreadsEndFirst == LifecycleSpec => []ThreadsEndFirst
  BY LifecycleInvariant, PTL DEF LifecycleInv

(* No device is opened twice, and none is kept by a session that failed.   *)
THEOREM LifecycleDevicesOwned == LifecycleSpec => []DevicesOwned
  BY LifecycleInvariant, PTL DEF LifecycleInv

(* After stop no session thread sleeps in poll, however its turn and the   *)
(* steps of stop interleave.                                               *)
THEOREM LifecycleNoSleepAfterStop == LifecycleSpec => []NoSleepAfterStop
<1>1. LifecycleInv => NoSleepAfterStop
  BY DEF LifecycleInv, FlagAndByte, NoSleepAfterStop
<1> QED BY <1>1, LifecycleInvariant, PTL
=============================================================================
