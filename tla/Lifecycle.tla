----------------------------- MODULE Lifecycle -----------------------------
(***************************************************************************)
(* The life of the process: main (main.cpp), the session manager           *)
(* (manager.cpp), creation, start, stop, join and destruction of sessions  *)
(* (session.cpp) and of their RTP threads (rtp.cpp), and the vtuner device *)
(* every session opens (vtuner.cpp).                                       *)
(*                                                                         *)
(* Three kinds of threads: main, one session thread per session, and over  *)
(* UDP one RTP thread per session.  A turn of a session thread is modelled *)
(* in RtspSession; here it is what it does to the flag and to the pipe.    *)
(***************************************************************************)
EXTENDS Integers, FiniteSets

CONSTANTS
    N,           \* number of tuners in the configuration file
    Devices,     \* vtuner devices 0..Devices-1 exist
    TcpData,     \* option tcpdata:1, no RTP thread
    PipeSize,    \* bytes the wakeup pipe can hold
    MaxSignals   \* bound: signals sent to the process

ASSUME LifecycleAssumption ==
    /\ N \in Nat \ {0} /\ Devices \in Nat
    /\ TcpData \in BOOLEAN
    /\ PipeSize \in Nat \ {0} /\ MaxSignals \in Nat

Tuners    == 1..N
Signals   == {"SIGINT", "SIGTERM"}
None      == -1
NoSignal  == "0"

VARIABLES
    pc,              \* where main is
    cur,             \* the tuner main is working on
    pending,         \* signals sent and not delivered
    sent,            \* number of signals sent
    shutdown_signo,  \* the signal the handler saw first
    disposition,     \* "handler" or "default" for every signal
    interrupted,     \* a handler ran since sigsuspend was called
    session,         \* "none", "creating", "listed" or "deleted"
    device,          \* the device a session holds, or None
    ports,           \* whether a session holds its pair of UDP ports
    rtp_running, rtp_thread,          \* m_running and thread of satipRTP
    m_running, session_thread,        \* m_running and thread of satipSession
    pipe             \* bytes in the wakeup pipe, None if it could not be created

signalVars  == <<pending, sent, shutdown_signo, disposition, interrupted>>
objectVars  == <<session, device, ports>>
rtpVars     == <<rtp_running, rtp_thread>>
sessionVars == <<m_running, session_thread>>
vars == <<pc, cur, signalVars, objectVars, rtpVars, sessionVars, pipe>>

MainSteps == {"start", "alloc", "ports", "decide", "test", "suspended",
              "stop_rtp", "join_rtp", "stop_flag", "stop_wake", "join", "delete",
              "exited", "killed"}

(* Every variable has its type. *)
LifecycleTypeOK ==
    /\ pc \in MainSteps
    /\ cur \in Tuners
    /\ pending \subseteq Signals
    /\ sent \in 0..MaxSignals
    /\ shutdown_signo \in Signals \cup {NoSignal}
    /\ disposition \in [Signals -> {"handler", "default"}]
    /\ interrupted \in BOOLEAN
    /\ session \in [Tuners -> {"none", "creating", "listed", "deleted"}]
    /\ device \in [Tuners -> (0..Devices - 1) \cup {None}]
    /\ ports \in [Tuners -> BOOLEAN]
    /\ rtp_running \in [Tuners -> BOOLEAN]
    /\ rtp_thread \in [Tuners -> {"none", "check", "poll", "ended", "joined"}]
    /\ m_running \in [Tuners -> BOOLEAN]
    /\ session_thread \in [Tuners -> {"none", "check", "turn", "poll", "drain", "ended", "joined"}]
    /\ pipe \in [Tuners -> (0..PipeSize) \cup {None}]

LifecycleInit ==
    /\ pc = "start" /\ cur = 1
    /\ pending = {} /\ sent = 0 /\ shutdown_signo = NoSignal
    /\ disposition = [s \in Signals |-> "handler"]
    /\ interrupted = FALSE
    /\ session = [t \in Tuners |-> "none"]
    /\ device = [t \in Tuners |-> None]
    /\ ports = [t \in Tuners |-> FALSE]
    /\ rtp_running = [t \in Tuners |-> FALSE] /\ rtp_thread = [t \in Tuners |-> "none"]
    /\ m_running = [t \in Tuners |-> FALSE] /\ session_thread = [t \in Tuners |-> "none"]
    /\ pipe = [t \in Tuners |-> None]

-----------------------------------------------------------------------------
(***************************************************************************)
(* Signals.  They are blocked in every thread but main, and in main until  *)
(* sigsuspend and after it until the mask is restored.                     *)
(***************************************************************************)

SendSignal(s) ==
    /\ sent < MaxSignals
    /\ pc \notin {"exited", "killed"}
    /\ sent' = sent + 1
    /\ pending' = pending \cup {s}
    /\ UNCHANGED <<pc, cur, shutdown_signo, disposition, interrupted,
                   objectVars, rtpVars, sessionVars, pipe>>

Unblocked == {"suspended", "stop_rtp", "join_rtp", "stop_flag", "stop_wake", "join", "delete"}

(* sigint_handler: the second signal restores the default and is raised    *)
(* again, which kills the process as soon as it is delivered.              *)
Handler(s) ==
    IF shutdown_signo = NoSignal
    THEN /\ shutdown_signo' = s
         /\ pending' = pending \ {s}
         /\ UNCHANGED <<pc, disposition>>
    ELSE /\ disposition' = [disposition EXCEPT ![s] = "default"]
         /\ UNCHANGED <<pc, shutdown_signo, pending>>

DeliverSignal(s) ==
    /\ s \in pending
    /\ pc \in Unblocked
    /\ IF disposition[s] = "handler"
       THEN Handler(s)
       ELSE /\ pc' = "killed"
            /\ pending' = pending \ {s}
            /\ UNCHANGED <<shutdown_signo, disposition>>
    /\ interrupted' = (pc = "suspended")
    /\ UNCHANGED <<cur, sent, objectVars, rtpVars, sessionVars, pipe>>

-----------------------------------------------------------------------------
(***************************************************************************)
(* main: satipStart creates and starts the sessions                        *)
(***************************************************************************)

(* From one tuner to the next, and from the last one to another step. *)
NextTuner(again, after) ==
    IF cur < N THEN pc' = again /\ cur' = cur + 1
               ELSE pc' = after /\ cur' = 1

(* Without any setting satipStart fails and main returns. *)
SatipStart ==
    /\ pc = "start"
    /\ pc' \in {"alloc", "delete"}
    /\ UNCHANGED <<cur, signalVars, objectVars, rtpVars, sessionVars, pipe>>

(* A setting that is not available is skipped. *)
SkipTuner ==
    /\ pc = "alloc"
    /\ NextTuner("alloc", "test")
    /\ UNCHANGED <<signalVars, objectVars, rtpVars, sessionVars, pipe>>

FreeDevices == {d \in 0..Devices - 1 : \A t \in Tuners : device[t] # d}

(* The constructor: a pipe or none, the first device that can be opened,   *)
(* or none if all are taken or an ioctl fails (which closes the device).   *)
OpenVtuner ==
    /\ pc = "alloc"
    /\ session' = [session EXCEPT ![cur] = "creating"]
    /\ \E room \in {0, None} : pipe' = [pipe EXCEPT ![cur] = room]
    /\ \E fd \in FreeDevices \cup {None} :
           /\ fd # None => \A d \in FreeDevices : fd <= d
           /\ device' = [device EXCEPT ![cur] = fd]
    /\ pc' = "ports"
    /\ UNCHANGED <<cur, signalVars, ports, rtpVars, sessionVars>>

(* openRTP tries many ports and may find none; over TCP it is not called.  *)
OpenRTP ==
    /\ pc = "ports"
    /\ \E ok \in (IF TcpData THEN {FALSE} ELSE BOOLEAN) : ports' = [ports EXCEPT ![cur] = ok]
    /\ pc' = "decide"
    /\ UNCHANGED <<cur, signalVars, session, device, rtpVars, sessionVars, pipe>>

InitOk == device[cur] # None /\ (TcpData \/ ports[cur])

(* satipSessionCreate, a session that is complete: addSession and start.   *)
StartSession ==
    /\ pc = "decide"
    /\ InitOk
    /\ session' = [session EXCEPT ![cur] = "listed"]
    /\ rtp_running' = [rtp_running EXCEPT ![cur] = TRUE]
    /\ rtp_thread' = [rtp_thread EXCEPT ![cur] = IF TcpData THEN "none" ELSE "check"]
    /\ m_running' = [m_running EXCEPT ![cur] = TRUE]
    /\ session_thread' = [session_thread EXCEPT ![cur] = "check"]
    /\ NextTuner("alloc", "test")
    /\ UNCHANGED <<signalVars, device, ports, pipe>>

(* Mutant: the destructor of satipVtuner does not close the device. *)
Destroy_KeepsDevice(t) ==
    /\ session' = [session EXCEPT ![t] = "deleted"]
    /\ ports' = [ports EXCEPT ![t] = FALSE]
    /\ rtp_running' = [rtp_running EXCEPT ![t] = FALSE]
    /\ m_running' = [m_running EXCEPT ![t] = FALSE]
    /\ pipe' = [pipe EXCEPT ![t] = None]
    /\ UNCHANGED device

(* ~satipSession: stop without join (the RTP thread is joined already),    *)
(* then everything is deleted and closed.                                  *)
Destroy(t) ==
    /\ session' = [session EXCEPT ![t] = "deleted"]
    /\ device' = [device EXCEPT ![t] = None]
    /\ ports' = [ports EXCEPT ![t] = FALSE]
    /\ rtp_running' = [rtp_running EXCEPT ![t] = FALSE]
    /\ m_running' = [m_running EXCEPT ![t] = FALSE]
    /\ pipe' = [pipe EXCEPT ![t] = None]

DropSession ==
    /\ pc = "decide"
    /\ ~InitOk
    /\ Destroy(cur)
    /\ NextTuner("alloc", "test")
    /\ UNCHANGED <<signalVars, rtp_thread, session_thread>>

-----------------------------------------------------------------------------
(***************************************************************************)
(* main: waiting for a signal, and the shutdown                            *)
(***************************************************************************)

(* while (!shutdown_signo) sigsuspend(...) *)
TestFlag ==
    /\ pc = "test"
    /\ pc' = IF shutdown_signo = NoSignal THEN "suspended" ELSE "stop_rtp"
    /\ interrupted' = FALSE
    /\ UNCHANGED <<cur, pending, sent, shutdown_signo, disposition,
                   objectVars, rtpVars, sessionVars, pipe>>

SuspendReturns ==
    /\ pc = "suspended"
    /\ interrupted
    /\ pc' = "test"
    /\ UNCHANGED <<cur, signalVars, objectVars, rtpVars, sessionVars, pipe>>

(* Mutant: stop joins a thread it did not tell to end. *)
StopRtp_NoFlag ==
    /\ pc = "stop_rtp"
    /\ IF session[cur] = "listed"
       THEN pc' = "join_rtp" /\ UNCHANGED cur
       ELSE NextTuner("stop_rtp", "join")
    /\ UNCHANGED <<signalVars, objectVars, rtpVars, sessionVars, pipe>>

(* sessionStop, for a listed session: satipRTP::stop ... *)
StopRtp ==
    /\ pc = "stop_rtp"
    /\ IF session[cur] = "listed"
       THEN /\ rtp_running' = [rtp_running EXCEPT ![cur] = FALSE]
            /\ pc' = "join_rtp"
            /\ UNCHANGED cur
       ELSE NextTuner("stop_rtp", "join") /\ UNCHANGED rtp_running
    /\ UNCHANGED <<signalVars, objectVars, rtp_thread, sessionVars, pipe>>

JoinRtp ==
    /\ pc = "join_rtp"
    /\ rtp_thread[cur] \in {"none", "ended"}
    /\ rtp_thread' = [rtp_thread EXCEPT
           ![cur] = IF @ = "ended" THEN "joined" ELSE @]
    /\ pc' = "stop_flag"
    /\ UNCHANGED <<cur, signalVars, objectVars, rtp_running, sessionVars, pipe>>

(* ... then the flag ... *)
StopFlag ==
    /\ pc = "stop_flag"
    /\ m_running' = [m_running EXCEPT ![cur] = FALSE]
    /\ pc' = "stop_wake"
    /\ UNCHANGED <<cur, signalVars, objectVars, rtpVars, session_thread, pipe>>

(* A write to the full pipe fails and a missing pipe is not written to. *)
Woken(bytes) == IF bytes # None /\ bytes < PipeSize THEN bytes + 1 ELSE bytes

(* Mutant: the pipe is left alone. *)
StopWake_NoWrite ==
    /\ pc = "stop_wake"
    /\ NextTuner("stop_rtp", "join")
    /\ UNCHANGED <<signalVars, objectVars, rtpVars, sessionVars, pipe>>

(* ... then the pipe. *)
StopWake ==
    /\ pc = "stop_wake"
    /\ pipe' = [pipe EXCEPT ![cur] = Woken(@)]
    /\ NextTuner("stop_rtp", "join")
    /\ UNCHANGED <<signalVars, objectVars, rtpVars, sessionVars>>

(* Mutant: join is only waited for while the session runs. *)
JoinSession_NoWait ==
    /\ pc = "join"
    /\ session_thread' = [session_thread EXCEPT
           ![cur] = IF @ = "ended" THEN "joined" ELSE @]
    /\ NextTuner("join", "delete")
    /\ UNCHANGED <<signalVars, objectVars, rtpVars, m_running, pipe>>

(* sessionJoin *)
JoinSession ==
    /\ pc = "join"
    /\ session_thread[cur] \in {"none", "ended"}
    /\ session_thread' = [session_thread EXCEPT
           ![cur] = IF @ = "ended" THEN "joined" ELSE @]
    /\ NextTuner("join", "delete")
    /\ UNCHANGED <<signalVars, objectVars, rtpVars, m_running, pipe>>

(* After main returned, ~sessionManager deletes the listed sessions. *)
DeleteSession ==
    /\ pc = "delete"
    /\ IF session[cur] = "listed"
       THEN Destroy(cur)
       ELSE UNCHANGED <<objectVars, rtp_running, m_running, pipe>>
    /\ NextTuner("delete", "exited")
    /\ UNCHANGED <<signalVars, rtp_thread, session_thread>>

Main ==
    \/ SatipStart \/ SkipTuner \/ OpenVtuner \/ OpenRTP \/ StartSession \/ DropSession
    \/ TestFlag \/ SuspendReturns
    \/ StopRtp \/ JoinRtp \/ StopFlag \/ StopWake \/ JoinSession \/ DeleteSession

-----------------------------------------------------------------------------
(***************************************************************************)
(* The threads of a session                                                *)
(***************************************************************************)
Alive == pc \notin {"exited", "killed"}

(* The RTP thread: its poll returns after a second at the latest.  A ca    *)
(* pid report pokes the session thread.                                    *)
RtpThread(t) ==
    /\ Alive
    /\ \/ /\ rtp_thread[t] = "check"
          /\ rtp_thread' = [rtp_thread EXCEPT ![t] = IF rtp_running[t] THEN "poll" ELSE "ended"]
          /\ UNCHANGED pipe
       \/ /\ rtp_thread[t] = "poll"
          /\ rtp_thread' = [rtp_thread EXCEPT ![t] = "check"]
          /\ \E bytes \in {pipe[t], Woken(pipe[t])} : pipe' = [pipe EXCEPT ![t] = bytes]
    /\ UNCHANGED <<pc, cur, signalVars, objectVars, rtp_running, sessionVars>>

(* The session thread: the flag, the turn up to poll (a kernel pid list or *)
(* interleaved data of the turn before may have poked the pipe itself),    *)
(* poll, which ends with a byte in the pipe, another event, the timeout or *)
(* an error, and the drain.                                                *)
SessionThread(t) ==
    /\ Alive
    /\ \/ /\ session_thread[t] = "check"
          /\ session_thread' = [session_thread EXCEPT ![t] = IF m_running[t] THEN "turn" ELSE "ended"]
          /\ UNCHANGED pipe
       \/ /\ session_thread[t] = "turn"
          /\ session_thread' = [session_thread EXCEPT ![t] = "poll"]
          /\ \E bytes \in {pipe[t], Woken(pipe[t])} : pipe' = [pipe EXCEPT ![t] = bytes]
       \/ /\ session_thread[t] = "poll"
          /\ session_thread' = [session_thread EXCEPT ![t] = IF pipe[t] > 0 THEN "drain" ELSE "check"]
          /\ UNCHANGED pipe
       \/ /\ session_thread[t] = "poll"
          /\ session_thread' = [session_thread EXCEPT ![t] = "ended"]
          /\ UNCHANGED pipe
       \/ /\ session_thread[t] = "drain"
          /\ session_thread' = [session_thread EXCEPT ![t] = "check"]
          /\ pipe' = [pipe EXCEPT ![t] = IF @ = None THEN None ELSE 0]
    /\ UNCHANGED <<pc, cur, signalVars, objectVars, rtpVars, m_running>>

LifecycleNext ==
    \/ \E s \in Signals : SendSignal(s) \/ DeliverSignal(s)
    \/ Main
    \/ \E t \in Tuners : RtpThread(t) \/ SessionThread(t)

(* Every thread runs, and a signal that is not blocked is delivered.       *)
Fairness ==
    /\ WF_vars(Main)
    /\ \A s \in Signals : WF_vars(DeliverSignal(s))
    /\ \A t \in Tuners : WF_vars(RtpThread(t)) /\ WF_vars(SessionThread(t))

LifecycleSpec == LifecycleInit /\ [][LifecycleNext]_vars /\ Fairness

-----------------------------------------------------------------------------
(***************************************************************************)
(* Properties                                                              *)
(***************************************************************************)

(* The objects of a session are deleted only after its threads ended: the  *)
(* destructor does not join the session thread, the order in main does.    *)
(* (A session that was never listed has no threads.)                       *)
ThreadsEndFirst ==
    \A t \in Tuners : session[t] = "deleted" =>
        /\ rtp_thread[t] \in {"none", "joined"}
        /\ session_thread[t] \in {"none", "joined"}

(* No device is opened twice, none is kept by a session that failed or was *)
(* deleted, and a listed session has all it needs.                         *)
DevicesOwned ==
    /\ \A t, u \in Tuners : t # u /\ device[t] # None => device[t] # device[u]
    /\ \A t \in Tuners : session[t] \in {"none", "deleted"} => device[t] = None /\ ~ports[t]
    /\ \A t \in Tuners : session[t] = "listed" => device[t] # None /\ (TcpData \/ ports[t])

(* After stop the session thread does not sleep in poll: whichever way its *)
(* turn and the three steps of stop interleave, there is a byte in the     *)
(* pipe that ends the poll.  Without a pipe the poll timeout ends it.      *)
Stopped(t) ==
    /\ session[t] = "listed"
    /\ \/ pc \in {"join", "delete"}
       \/ pc \in {"stop_rtp", "join_rtp", "stop_flag", "stop_wake"} /\ t < cur
NoSleepAfterStop ==
    \A t \in Tuners : Stopped(t) /\ session_thread[t] = "poll" => pipe[t] # 0

(* A signal ends the process, whenever it comes: while sessions are being  *)
(* created, between the test of the flag and sigsuspend, or later.         *)
SignalEndsProcess == pending # {} ~> pc \in {"exited", "killed"}
=============================================================================
