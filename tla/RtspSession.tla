---------------------------- MODULE RtspSession ----------------------------
(***************************************************************************)
(* One tuner's session thread: the RTSP state machine (rtsp.cpp) driven by *)
(* the main loop of session.cpp, on top of the configuration it shares     *)
(* with the vtuner and the PSI parser.                                     *)
(*                                                                         *)
(* One turn of the loop is handleRTSPStatus, poll, handleNextTimer, at     *)
(* most one kernel message, handlePollEvents; pc says which comes next.    *)
(* What poll reported is kept in revents until handlePollEvents looks at   *)
(* it, so a timer handler that runs in between can make it stale.  The RTP *)
(* thread reports ca pids between any two of these steps.                  *)
(*                                                                         *)
(* Time is left out: a timer that is active may be due whenever the timers *)
(* are looked at.  The server is external: it may accept, refuse, ignore,  *)
(* hang up or answer at any time.                                          *)
(***************************************************************************)
EXTENDS SatipConfig

CONSTANT TcpData    \* option tcpdata:1, the stream arrives on the RTSP socket

ASSUME SessionAssumption == TcpData \in BOOLEAN

VARIABLES
    pc,                      \* next step of the main loop
    revents,                 \* what poll reported for the RTSP socket
    m_rtsp_status,
    m_rtsp_request,          \* the request whose answer is awaited
    m_wait_response,
    m_fd,                    \* "open" or "closed"
    m_session,               \* session id and stream id are known
    m_timers,                \* the active timers
    m_reconnect_attempts,
    m_attempted_generation,
    restarted                \* history: this turn's recv brought complete packets,
                             \* each of which starts the reset timer again

loopVars    == <<pc, revents, restarted>>
backoffVars == <<m_reconnect_attempts, m_attempted_generation>>
rtspVars    == <<m_rtsp_status, m_rtsp_request, m_wait_response, m_fd, m_session,
                 m_timers, backoffVars>>
vars        == <<configVars, loopVars, rtspVars>>

RtspStatus  == {"CONFIG_WAITING", "SERVER_CONNECTING", "SESSION_ESTABLISHING",
                "SESSION_PLAYING", "SESSION_TRANSMITTING", "SESSION_TEARDOWNING"}
RtspRequest == {"NONE", "OPTION", "SETUP", "PLAY", "TEARDOWN"}
Timers      == {"reset_connect", "keep_alive", "reconnect"}

RtspTypeOK ==
    /\ m_rtsp_status \in RtspStatus
    /\ m_rtsp_request \in RtspRequest
    /\ m_wait_response \in BOOLEAN
    /\ m_fd \in {"open", "closed"}
    /\ m_session \in BOOLEAN
    /\ m_timers \in SUBSET Timers
    /\ m_reconnect_attempts \in Nat
    /\ m_attempted_generation \in 0..MaxTunes

(* Every variable of the session has its type. *)
SessionTypeOK ==
    /\ ConfigTypeOK
    /\ RtspTypeOK
    /\ pc \in {"status", "poll", "timers", "vtuner", "events"}
    /\ revents \in {"none", "POLLIN", "POLLOUT", "POLLHUP"}
    /\ restarted \in BOOLEAN

SessionInit ==
    /\ ConfigInit
    /\ pc = "status"
    /\ revents = "none"
    /\ restarted = FALSE
    /\ m_rtsp_status = "CONFIG_WAITING"
    /\ m_rtsp_request = "NONE"
    /\ m_wait_response = FALSE
    /\ m_fd = "closed"
    /\ m_session = FALSE
    /\ m_timers = {}
    /\ m_reconnect_attempts = 0
    /\ m_attempted_generation = 0

Step(from, to) == pc = from /\ pc' = to

-----------------------------------------------------------------------------
(***************************************************************************)
(* resetConnect and the reconnect backoff                                  *)
(***************************************************************************)

(* Mutant: the cap stops the delay, not the counter. *)
AttemptsAfter_Uncapped(n) == n + 1

(* startTimerReconnect: 1 s, doubled with every attempt up to 30 s. *)
max_ms            == 30000
ReconnectDelay(n) == IF 1000 * 2^n > max_ms THEN max_ms ELSE 1000 * 2^n
AttemptsAfter(n)  == IF ReconnectDelay(n) < max_ms THEN n + 1 ELSE n

(* A retune that no connection attempt has been made for yet. *)
NewTuning == m_tune_generation > m_attempted_generation

(* Mutant: only a tuning that is still pending is worth a retry. *)
NoRetry_Settled(auto_reconnect, status) ==
    ~auto_reconnect \/ status # "CHANGED" \/ NewTuning

(* No retry is scheduled after a reset that was asked for, when the tuner  *)
(* is released, or when a new tuning will connect at once.  status is the  *)
(* channel status at the time of the call.                                 *)
NoRetry(auto_reconnect, status) ==
    \/ ~auto_reconnect
    \/ status = "INVALID"
    \/ status = "CHANGED" /\ NewTuning

CloseConnection ==
    /\ m_rtsp_status' = "CONFIG_WAITING"
    /\ m_rtsp_request' = "NONE"
    /\ m_wait_response' = FALSE
    /\ m_fd' = "closed"
    /\ m_session' = FALSE
    /\ ServerGone

TimersAfterReset(retry) == IF retry THEN {"reconnect"} ELSE {}

ResetConnect(auto_reconnect, status) ==
    LET retry == ~NoRetry(auto_reconnect, status)
    IN  /\ CloseConnection
        /\ m_timers' = TimersAfterReset(retry)
        /\ m_status' = IF retry THEN "STABLE" ELSE status
        /\ m_reconnect_attempts' = IF retry THEN AttemptsAfter(m_reconnect_attempts) ELSE 0
        /\ UNCHANGED <<tuneVars, m_attempted_generation>>

(* A reset that has nothing to do with a request. *)
Reconnect == ResetConnect(TRUE, m_status) /\ UNCHANGED <<pidVars, caVars>>

-----------------------------------------------------------------------------
(***************************************************************************)
(* sendRequest.  A request that cannot be written to the socket ends the   *)
(* connection, after its data has been taken from the configuration.       *)
(***************************************************************************)

(* Mutant: the reset timer is not started with the request. *)
Sent_NoTimer(request, next) ==
    /\ m_rtsp_status' = next
    /\ m_rtsp_request' = request
    /\ m_wait_response' = TRUE
    /\ m_timers' = m_timers \ {"keep_alive"}
    /\ UNCHANGED <<m_fd, m_session, backoffVars>>

Sent(request, next) ==
    /\ m_rtsp_status' = next
    /\ m_rtsp_request' = request
    /\ m_wait_response' = TRUE
    /\ m_timers' = (m_timers \ {"keep_alive"}) \cup {"reset_connect"}
    /\ UNCHANGED <<m_fd, m_session, backoffVars>>

SendSetup ==
    /\ GetSetupData
    /\ \/ /\ Sent("SETUP", "SESSION_ESTABLISHING")
          /\ m_status' = StatusAfterData
          /\ SetupServer
          /\ UNCHANGED tuneVars
       \/ ResetConnect(TRUE, StatusAfterData)

(* PLAY, OPTIONS and TEARDOWN need the ids; without them nothing is taken. *)
SendPlay ==
    \/ /\ m_session
       /\ GetPlayData
       /\ Sent("PLAY", "SESSION_PLAYING")
       /\ m_status' = StatusAfterData
       /\ PlayServer
       /\ UNCHANGED tuneVars
    \/ IF m_session
       THEN GetPlayData /\ ResetConnect(TRUE, StatusAfterData)
       ELSE Reconnect

SendOption ==
    \/ m_session /\ Sent("OPTION", m_rtsp_status) /\ UNCHANGED configVars
    \/ Reconnect

SendTearDown ==
    \/ m_session /\ Sent("TEARDOWN", "SESSION_TEARDOWNING") /\ UNCHANGED configVars
    \/ Reconnect

-----------------------------------------------------------------------------
(***************************************************************************)
(* handleRTSPStatus, at the top of the loop                                *)
(***************************************************************************)

(* Mutant: "no attempt" is stored as -1. *)
WaitReleased_MinusOne ==
    /\ m_rtsp_status = "CONFIG_WAITING"
    /\ m_status = "INVALID"
    /\ m_timers' = m_timers \ {"reconnect"}
    /\ m_reconnect_attempts' = -1
    /\ UNCHANGED <<configVars, m_rtsp_status, m_rtsp_request, m_wait_response, m_fd,
                   m_session, m_attempted_generation>>

(* CONFIG_WAITING, released: cancel any pending retry. *)
WaitReleased ==
    /\ m_rtsp_status = "CONFIG_WAITING"
    /\ m_status = "INVALID"
    /\ m_timers' = m_timers \ {"reconnect"}
    /\ m_reconnect_attempts' = 0
    /\ UNCHANGED <<configVars, m_rtsp_status, m_rtsp_request, m_wait_response, m_fd,
                   m_session, m_attempted_generation>>

(* A non-blocking connect was started, or none of the server's addresses   *)
(* could be used.                                                          *)
ConnectToServer(ok) == m_fd' = IF ok THEN "open" ELSE m_fd

(* CONFIG_WAITING, tuned or due for a retry: a new tuning cancels the wait *)
(* and the penalty.  A connect that fails at once schedules a retry.       *)
Connect ==
    /\ m_rtsp_status = "CONFIG_WAITING"
    /\ m_status = "CHANGED"
    /\ m_attempted_generation' = m_tune_generation
    /\ LET timers   == IF NewTuning THEN m_timers \ {"reconnect"} ELSE m_timers
           attempts == IF NewTuning THEN 0 ELSE m_reconnect_attempts
       IN  \/ /\ ConnectToServer(TRUE)
              /\ m_rtsp_status' = "SERVER_CONNECTING"
              /\ m_timers' = timers \cup {"reset_connect"}
              /\ m_reconnect_attempts' = attempts
              /\ UNCHANGED m_status
           \/ /\ ConnectToServer(FALSE)
              /\ m_status' = "STABLE"
              /\ m_timers' = timers \cup {"reconnect"}
              /\ m_reconnect_attempts' = AttemptsAfter(attempts)
              /\ UNCHANGED m_rtsp_status
    /\ UNCHANGED <<tuneVars, pidVars, caVars, serverVars,
                   m_rtsp_request, m_wait_response, m_session>>

Establish ==
    /\ m_rtsp_status = "SESSION_ESTABLISHING"
    /\ ~m_wait_response
    /\ SendSetup

Play ==
    /\ \/ m_rtsp_status = "SESSION_PLAYING"
       \/ /\ m_rtsp_status = "SESSION_TRANSMITTING"
          /\ m_status = "CHANGED" \/ GetPidStatus = "CHANGED"
    /\ ~m_wait_response
    /\ SendPlay

(* Mutant: the session is torn down whenever there is nothing to send. *)
TearDown_Always ==
    /\ m_rtsp_status = "SESSION_TRANSMITTING"
    /\ m_status # "CHANGED"
    /\ GetPidStatus = "STATIONARY"
    /\ ~m_wait_response
    /\ SendTearDown

TearDown ==
    /\ m_rtsp_status = "SESSION_TRANSMITTING"
    /\ m_status = "INVALID"
    /\ GetPidStatus = "STATIONARY"
    /\ ~m_wait_response
    /\ SendTearDown

(* Mutant: the keep alive timer is not started. *)
KeepAlive_NoTimer ==
    /\ m_rtsp_status = "SESSION_TRANSMITTING"
    /\ m_status = "STABLE"
    /\ GetPidStatus = "STATIONARY"
    /\ UNCHANGED <<configVars, rtspVars>>

KeepAlive ==
    /\ m_rtsp_status = "SESSION_TRANSMITTING"
    /\ m_status = "STABLE"
    /\ GetPidStatus = "STATIONARY"
    /\ m_timers' = m_timers \cup {"keep_alive"}
    /\ UNCHANGED <<configVars, m_rtsp_status, m_rtsp_request, m_wait_response, m_fd,
                   m_session, backoffVars>>

(* Nothing to do, or sendRequest is skipped while an answer is awaited. *)
Idle ==
    /\ \/ m_rtsp_status = "CONFIG_WAITING" /\ m_status = "STABLE"
       \/ m_rtsp_status \in {"SERVER_CONNECTING", "SESSION_TEARDOWNING"}
       \/ m_rtsp_status \in {"SESSION_ESTABLISHING", "SESSION_PLAYING"} /\ m_wait_response
       \/ /\ m_rtsp_status = "SESSION_TRANSMITTING"
          /\ m_status # "STABLE" \/ GetPidStatus = "CHANGED"
          /\ m_wait_response
    /\ UNCHANGED <<configVars, rtspVars>>

HandleRTSPStatus ==
    /\ Step("status", "poll")
    /\ WaitReleased \/ Connect \/ Establish \/ Play \/ TearDown \/ KeepAlive \/ Idle
    /\ restarted' = FALSE
    /\ UNCHANGED revents

-----------------------------------------------------------------------------
(***************************************************************************)
(* poll and the timers                                                     *)
(***************************************************************************)

(* getPollEvent, and what poll can report for these events.  POLLHUP       *)
(* stands for POLLHUP, POLLERR and POLLNVAL; a closed socket (fd -1) is    *)
(* skipped by poll.                                                        *)
PollEvents ==
    IF m_fd = "closed"                          THEN {}
    ELSE IF m_rtsp_status = "SERVER_CONNECTING" THEN {"POLLOUT", "POLLHUP"}
    ELSE IF m_rtsp_status = "SESSION_TRANSMITTING" /\ m_rtsp_request # "OPTION" /\ ~TcpData
                                                THEN {}
    ELSE {"POLLIN", "POLLHUP"}

Poll ==
    /\ Step("poll", "timers")
    /\ revents' \in {"none"} \cup PollEvents
    /\ UNCHANGED <<configVars, rtspVars, restarted>>

TimeoutConnect ==
    /\ "reset_connect" \in m_timers
    /\ Reconnect

TimeoutKeepAlive ==
    /\ "keep_alive" \in m_timers
    /\ IF m_wait_response
       THEN /\ m_timers' = m_timers \ {"keep_alive"}
            /\ UNCHANGED <<configVars, m_rtsp_status, m_rtsp_request, m_wait_response,
                           m_fd, m_session, backoffVars>>
       ELSE SendOption

(* Mutant: the retry only drops the penalty. *)
TimeoutReconnect_NoRetry ==
    /\ "reconnect" \in m_timers
    /\ m_timers' = m_timers \ {"reconnect"}
    /\ m_reconnect_attempts' = 0
    /\ UNCHANGED <<configVars, m_rtsp_status, m_rtsp_request,
                   m_wait_response, m_fd, m_session, m_attempted_generation>>

(* A release or a retune that came during the wait only drops the penalty. *)
TimeoutReconnect ==
    /\ "reconnect" \in m_timers
    /\ m_timers' = m_timers \ {"reconnect"}
    /\ IF m_status = "STABLE"
       THEN m_status' = "CHANGED" /\ UNCHANGED m_reconnect_attempts
       ELSE m_reconnect_attempts' = 0 /\ UNCHANGED m_status
    /\ UNCHANGED <<tuneVars, pidVars, caVars, serverVars, m_rtsp_status, m_rtsp_request,
                   m_wait_response, m_fd, m_session, m_attempted_generation>>

NoTimerDue == UNCHANGED <<configVars, rtspVars>>

(* callNextTimer calls every timer that is due, in the order reset_connect,*)
(* keep_alive, reconnect.  One handler per turn is all that can happen:    *)
(* the first one stops keep_alive, the reconnect it starts is not due yet, *)
(* and no other pair is ever active together (TimersFitStatus).            *)
HandleNextTimer ==
    /\ Step("timers", "vtuner")
    /\ TimeoutConnect \/ TimeoutKeepAlive \/ TimeoutReconnect \/ NoTimerDue
    /\ UNCHANGED <<revents, restarted>>

(* vtunerEvent; messages that only read leave the configuration alone. *)
VtunerEvent ==
    /\ Step("vtuner", "events")
    /\ KernelMessage \/ UNCHANGED configVars
    /\ UNCHANGED <<revents, restarted, rtspVars>>

-----------------------------------------------------------------------------
(***************************************************************************)
(* handlePollEvents and handleResponse                                     *)
(***************************************************************************)

NoEvent ==
    /\ revents = "none"
    /\ UNCHANGED <<configVars, rtspVars>>

Disconnected ==
    /\ revents = "POLLHUP"
    /\ Reconnect

(* poll reported something for a socket a timer handler has closed since.  *)
StaleEvent ==
    /\ revents \in {"POLLIN", "POLLOUT"}
    /\ m_rtsp_status = "CONFIG_WAITING"
    /\ UNCHANGED <<configVars, rtspVars>>

ServerReady ==
    /\ revents = "POLLOUT"
    /\ m_rtsp_status = "SERVER_CONNECTING"
    /\ m_rtsp_status' = "SESSION_ESTABLISHING"
    /\ m_timers' = m_timers \ {"reset_connect"}
    /\ UNCHANGED <<configVars, m_rtsp_request, m_wait_response, m_fd, m_session, backoffVars>>

Receiving == revents = "POLLIN" /\ m_rtsp_status # "CONFIG_WAITING"
Streaming == m_rtsp_status \in {"SESSION_PLAYING", "SESSION_TRANSMITTING", "SESSION_TEARDOWNING"}

(* End of file, an incomplete answer or an incomplete packet: nothing      *)
(* changes, the socket stays open and readable.                            *)
ReceiveNothing ==
    /\ Receiving
    /\ UNCHANGED <<configVars, rtspVars>>

(* Complete packets of the stream restart the reset timer. *)
ReceiveData ==
    /\ Receiving /\ TcpData /\ Streaming
    /\ m_timers' = m_timers \cup {"reset_connect"}
    /\ UNCHANGED <<configVars, m_rtsp_status, m_rtsp_request, m_wait_response, m_fd,
                   m_session, backoffVars>>

(* A refusal, a SETUP answer without the ids, or a message nobody awaits.  *)
ReceiveError ==
    /\ Receiving
    /\ Reconnect

AnswerDone == m_rtsp_request' = "NONE" /\ m_wait_response' = FALSE

(* Mutant: the channel counts as settled when SETUP is answered, also if   *)
(* the kernel tuned again in the meantime.                                 *)
ReceiveSetupOk_Settles ==
    /\ Receiving
    /\ m_rtsp_request = "SETUP"
    /\ AnswerDone
    /\ m_session' = TRUE
    /\ m_timers' = m_timers \ {"reset_connect"}
    /\ m_rtsp_status' = "SESSION_PLAYING"
    /\ m_status' = StatusAfterData
    /\ UNCHANGED <<tuneVars, pidVars, caVars, serverVars, m_fd, backoffVars>>

(* The answer is all there is: RTSP_RESPONSE_COMPLETE moves the state on.  *)
ReceiveSetupOk ==
    /\ Receiving
    /\ m_rtsp_request = "SETUP"
    /\ AnswerDone
    /\ m_session' = TRUE
    /\ m_timers' = m_timers \ {"reset_connect"}
    /\ m_rtsp_status' = "SESSION_PLAYING"
    /\ UNCHANGED <<configVars, m_fd, backoffVars>>

(* Mutant: the CA report counts as sent only when PLAY is answered, which  *)
(* also drops a report that arrived in the meantime.                       *)
ReceivePlayOk_Commits ==
    /\ Receiving
    /\ m_rtsp_request = "PLAY"
    /\ AnswerDone
    /\ m_timers' = m_timers \ {"reset_connect", "reconnect"}
    /\ m_rtsp_status' = "SESSION_TRANSMITTING"
    /\ m_reconnect_attempts' = 0
    /\ m_ca_dirty' = FALSE
    /\ UNCHANGED <<m_status, tuneVars, pidVars, m_ca_pids, serverVars, m_fd, m_session,
                   m_attempted_generation>>

ReceivePlayOk ==
    /\ Receiving
    /\ m_rtsp_request = "PLAY"
    /\ AnswerDone
    /\ m_timers' = m_timers \ {"reset_connect", "reconnect"}
    /\ m_rtsp_status' = "SESSION_TRANSMITTING"
    /\ m_reconnect_attempts' = 0
    /\ UNCHANGED <<configVars, m_fd, m_session, m_attempted_generation>>

ReceiveOptionOk ==
    /\ Receiving
    /\ m_rtsp_request = "OPTION"
    /\ AnswerDone
    /\ m_timers' = m_timers \ {"reset_connect"}
    /\ UNCHANGED <<configVars, m_rtsp_status, m_fd, m_session, backoffVars>>

ReceiveTearDownOk ==
    /\ Receiving
    /\ m_rtsp_request = "TEARDOWN"
    /\ ResetConnect(FALSE, m_status)
    /\ UNCHANGED <<pidVars, caVars>>

(* The answer and the beginning of the stream in one recv: the answer is   *)
(* digested, but handleResponse goes on to the '$' packet and returns      *)
(* RTSP_OK, so the status does not move on.  Only a complete packet starts *)
(* the reset timer again.                                                  *)
ReceiveOkAndData ==
    /\ Receiving /\ TcpData /\ Streaming
    /\ m_rtsp_request # "NONE"
    /\ AnswerDone
    /\ m_timers' = IF restarted' THEN m_timers \cup {"reset_connect"}
                                 ELSE m_timers \ {"reset_connect"}
    /\ UNCHANGED <<configVars, m_rtsp_status, m_fd, m_session, backoffVars>>

HandlePollEvents ==
    /\ Step("events", "status")
    /\ \/ /\ restarted' = FALSE
          /\ \/ NoEvent \/ Disconnected \/ StaleEvent \/ ServerReady
             \/ ReceiveNothing \/ ReceiveError
             \/ ReceiveSetupOk \/ ReceivePlayOk \/ ReceiveOptionOk \/ ReceiveTearDownOk
       \/ restarted' = TRUE /\ ReceiveData
       \/ restarted' \in BOOLEAN /\ ReceiveOkAndData
    /\ revents' = "none"

-----------------------------------------------------------------------------
MainLoop ==
    HandleRTSPStatus \/ Poll \/ HandleNextTimer \/ VtunerEvent \/ HandlePollEvents

(* The PSI parser completes a table of the stream.  With tcpdata:1 there   *)
(* is no RTP thread and this happens inside handleResponse, where it       *)
(* commutes with everything else; allowing it at any time only adds        *)
(* behaviours.                                                             *)
RtpThread ==
    /\ \E pids \in PsiReports : PsiReport(pids)
    /\ UNCHANGED <<loopVars, rtspVars>>

SessionNext == MainLoop \/ RtpThread

SessionSpec == SessionInit /\ [][SessionNext]_vars

-----------------------------------------------------------------------------
(***************************************************************************)
(* Safety                                                                  *)
(***************************************************************************)

(* Each timer runs only in the states its handler is meant for, whatever   *)
(* handler, message or lost connection intervened: a retry only between    *)
(* connections, a keep alive only while transmitting, and the watchdog     *)
(* only while there is a connection to reset.                              *)
TimersFitStatus ==
    /\ "reconnect" \in m_timers => m_rtsp_status = "CONFIG_WAITING"
    /\ "keep_alive" \in m_timers => m_rtsp_status = "SESSION_TRANSMITTING"
    /\ "reset_connect" \in m_timers => m_rtsp_status # "CONFIG_WAITING"

(* The state machine never waits without a way out: whoever waits for the  *)
(* server has the reset timer running, and a tuner that lost its session   *)
(* and still has a channel has its retry scheduled.                        *)
NeverStranded ==
    /\ m_rtsp_status = "SERVER_CONNECTING" \/ m_wait_response => "reset_connect" \in m_timers
    /\ m_rtsp_status = "CONFIG_WAITING" /\ m_status = "STABLE" => "reconnect" \in m_timers

(* An answer is always credited to the request it answers: the awaited     *)
(* request is the one the current status sends, so handleResponse, which   *)
(* goes by m_rtsp_request, and handlePollEvents, which goes by             *)
(* m_rtsp_status, agree.                                                   *)
RequestFitsStatus ==
    /\ m_wait_response <=> m_rtsp_request # "NONE"
    /\ m_rtsp_request = "SETUP"    => m_rtsp_status = "SESSION_ESTABLISHING"
    /\ m_rtsp_request = "PLAY"     => m_rtsp_status = "SESSION_PLAYING"
    /\ m_rtsp_request = "OPTION"   => m_rtsp_status = "SESSION_TRANSMITTING"
    /\ m_rtsp_request = "TEARDOWN" => m_rtsp_status = "SESSION_TEARDOWNING"

(* The socket and the ids live exactly as long as the connection: no       *)
(* connect leaks a socket, no request goes to a closed one, and PLAY,      *)
(* OPTIONS and TEARDOWN always find the ids they need.                     *)
ConnectionState ==
    /\ m_fd = "closed" <=> m_rtsp_status = "CONFIG_WAITING"
    /\ m_session <=> Streaming

(* SETUP was sent on this connection. *)
InSession == m_rtsp_request = "SETUP" \/ Streaming

(* The server is tuned to what the kernel asked for last: in a session, a  *)
(* channel that counts as settled (STABLE) with complete parameters is the *)
(* one the last request carried, however retunes, retries and lost         *)
(* connections interleave.                                                 *)
TunedToLatest ==
    InSession /\ m_status = "STABLE" /\ m_params # 0 => server_tune = m_params

(* What we believe the server delivers it does deliver: addpids and        *)
(* delpids are computed against a list the server really has, also after a *)
(* reconnect, because every connection starts with a SETUP that carries    *)
(* the complete list.                                                      *)
RequestedDelivered == InSession => m_requested_pids \subseteq server_pids

(* The backoff stops growing at its cap of 30 s. *)
BackoffBounded == m_reconnect_attempts <= 5

(* SETUP of this connection is still to be sent. *)
SetupPending ==
    \/ m_rtsp_status = "SERVER_CONNECTING"
    \/ m_rtsp_status = "SESSION_ESTABLISHING" /\ ~m_wait_response

(* The remaining facts the ones above rest on: a tuning stays CHANGED      *)
(* until SETUP carries it, a session that is torn down has no settled      *)
(* channel, the server knows nothing before SETUP, and a channel that      *)
(* changed during the wait for a retry was tuned anew.                     *)
SessionFacts ==
    /\ SetupPending => m_status # "STABLE"
    /\ m_rtsp_status = "SESSION_TEARDOWNING" => m_status # "STABLE"
    /\ ~InSession => server_tune = NotTuned /\ server_pids = {}
    /\ m_params \in {0, m_tune_generation}
    /\ m_attempted_generation <= m_tune_generation
    /\ "reconnect" \in m_timers /\ m_status = "CHANGED" => NewTuning

(* The inductive invariant of the session thread: timers, status, awaited  *)
(* request, socket, ids, channel status and what the server was told fit   *)
(* together whatever interleaving led there.                               *)
SessionInv ==
    /\ TimersFitStatus
    /\ NeverStranded
    /\ RequestFitsStatus
    /\ ConnectionState
    /\ TunedToLatest
    /\ RequestedDelivered
    /\ SessionFacts

-----------------------------------------------------------------------------
(***************************************************************************)
(* Liveness.  The session thread keeps running, and a timer that stays     *)
(* active and is not started again becomes due: poll sleeps no longer than *)
(* the next timer and callNextTimer calls what is due.                     *)
(***************************************************************************)

Due(timer) == pc = "timers" /\ timer \in m_timers

(* A request, or over TCP a complete packet, starts the reset timer again. *)
(* End of file or half a packet does not, although the socket is readable. *)
ResetRestarted == restarted' \/ (~m_wait_response /\ m_wait_response')

Fairness ==
    /\ WF_vars(MainLoop)
    /\ \/ []<>("reset_connect" \notin m_timers)
       \/ []<><<ResetRestarted>>_vars
       \/ []<><<Due("reset_connect") /\ TimeoutConnect>>_vars
    /\ []<>("keep_alive" \notin m_timers)    \/ []<><<Due("keep_alive") /\ TimeoutKeepAlive>>_vars
    /\ []<>("reconnect" \notin m_timers)     \/ []<><<Due("reconnect") /\ TimeoutReconnect>>_vars

FairSessionSpec == SessionSpec /\ Fairness

(* Something outside went wrong. *)
ConnectionFailed ==
    \/ pc = "status" /\ m_status = "CHANGED" /\ m_status' = "STABLE"
       /\ m_rtsp_status' = "CONFIG_WAITING"
    \/ /\ m_rtsp_status \notin {"CONFIG_WAITING", "SESSION_TEARDOWNING"}
       /\ m_rtsp_status' = "CONFIG_WAITING"

(* The kernel changed its mind, or the PSI parser found other tables. *)
WishChanged == (pc = "vtuner" \/ RtpThread) /\ configVars' # configVars

(* A packet of the stream starts the reset timer again while a request is  *)
(* not answered.                                                           *)
StreamKeepsWaiting == restarted /\ m_wait_response

(* The answer to PLAY arrived in one recv with data of the stream. *)
PlayShared == pc = "events" /\ m_rtsp_request = "PLAY" /\ ReceiveOkAndData

(* The answer to TEARDOWN did. *)
TearDownShared == m_rtsp_status = "SESSION_TEARDOWNING" /\ ~m_wait_response

(* What the kernel asked for last: no session for a released tuner,        *)
(* otherwise one that transmits the tuning asked for.                      *)
Settled ==
    IF m_status = "INVALID"
    THEN m_rtsp_status = "CONFIG_WAITING"
    ELSE /\ m_rtsp_status = "SESSION_TRANSMITTING"
         /\ m_status = "STABLE"
         /\ m_params # 0 => server_tune = m_params

(* Automatic recovery: once connections no longer fail and the kernel and  *)
(* the parser are quiet, the tuner ends up, and stays, where the kernel    *)
(* wanted it, from whatever state the failures and messages before left it *)
(* in.  Over TCP this takes a server that does not only stream while a     *)
(* request waits, and does not always send the answer to PLAY, nor ever    *)
(* that to TEARDOWN, in one piece with the stream; over UDP these          *)
(* conditions are met.                                                     *)
Recovers ==
    /\ <>[][~(ConnectionFailed \/ WishChanged)]_vars
    /\ <>[]~StreamKeepsWaiting
    /\ <>[][~PlayShared]_vars
    /\ []~TearDownShared
    => <>[]Settled

(* A session is kept alive: it never transmits for ever without an OPTIONS *)
(* request, which is what keeps the server from expiring it, however often *)
(* packets, pid lists and reports of the parser come.                      *)
KeptAlive ==
    m_rtsp_status = "SESSION_TRANSMITTING"
        ~> m_rtsp_request = "OPTION" \/ m_rtsp_status # "SESSION_TRANSMITTING"

(* Waiting ends: every request is answered, or given up after its timeout, *)
(* also when the server hung up and the loop spins on a socket at end of   *)
(* file.  Only complete packets of a stream on the same socket can keep it *)
(* waiting.                                                                *)
WaitEnds == <>[]~StreamKeepsWaiting => (m_wait_response ~> ~m_wait_response)
=============================================================================
