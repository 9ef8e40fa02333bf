---------------------------- MODULE SessionClock ----------------------------
(***************************************************************************)
(* The timers of one RTSP session against the server's session timeout     *)
(* (rtsp.cpp), in seconds.  The server drops a session for which it gets   *)
(* no request for m_rtsp_timeout seconds; the client sends OPTIONS when    *)
(* the keep alive timer is due, but never while an answer is awaited.      *)
(*                                                                         *)
(* The session thread is fast: a turn of its loop takes no time, so time   *)
(* passes only when no turn would do anything (Idle).  Requests arrive at  *)
(* once, answers whenever the server likes.                                *)
(***************************************************************************)
EXTENDS Integers

CONSTANTS
    Announced,       \* the session timeouts a SETUP answer can announce
    DefaultTimeout,  \* m_rtsp_timeout without one, 60 in the code
    AnswerTime       \* external: seconds within which a server that streams over TCP
                     \* answers; over UDP it may not answer at all

(* The timeout is an int, so there is a longest one. *)
ASSUME ClockAssumption ==
    /\ Announced \subseteq Nat
    /\ DefaultTimeout \in Nat
    /\ \E t \in Announced \cup {DefaultTimeout} : \A u \in Announced \cup {DefaultTimeout} : u <= t
    /\ AnswerTime \in Nat

VARIABLES
    tcp_data,                   \* option tcpdata:1, never changes
    m_rtsp_status, m_rtsp_request,
    m_rtsp_timeout,
    reset_connect, keep_alive,  \* seconds until the timer is due, Off when not active
    changed,                    \* a tuning or a pid list is waiting to be sent
    released,                   \* the channel is INVALID
    session,                    \* external: the server has a session
    quiet                       \* external: seconds since the server got a request

timerVars == <<reset_connect, keep_alive>>
vars == <<tcp_data, m_rtsp_status, m_rtsp_request, m_rtsp_timeout, timerVars, changed,
          released, session, quiet>>

Off == -1

Longest == CHOOSE t \in Announced \cup {DefaultTimeout} :
               \A u \in Announced \cup {DefaultTimeout} : u <= t

(* Timers and clocks have their types. *)
ClockTypeOK ==
    /\ m_rtsp_status \in {"SESSION_ESTABLISHING", "SESSION_PLAYING",
                          "SESSION_TRANSMITTING", "SESSION_TEARDOWNING"}
    /\ m_rtsp_request \in {"NONE", "OPTION", "SETUP", "PLAY", "TEARDOWN"}
    /\ m_rtsp_timeout \in Announced \cup {DefaultTimeout}
    /\ reset_connect \in Nat \cup {Off}
    /\ keep_alive \in Nat \cup {Off}
    /\ {tcp_data, changed, released, session} \subseteq BOOLEAN
    /\ quiet \in 0..(Longest + 1)

(* A connection that has just been accepted, with a tuning to be set up. *)
Connected ==
    /\ m_rtsp_status' = "SESSION_ESTABLISHING"
    /\ m_rtsp_request' = "NONE"
    /\ m_rtsp_timeout' = DefaultTimeout
    /\ reset_connect' = Off /\ keep_alive' = Off
    /\ changed' = FALSE /\ released' = FALSE
    /\ session' = FALSE /\ quiet' = 0

ClockInit ==
    /\ tcp_data \in BOOLEAN
    /\ m_rtsp_status = "SESSION_ESTABLISHING"
    /\ m_rtsp_request = "NONE"
    /\ m_rtsp_timeout = DefaultTimeout
    /\ reset_connect = Off /\ keep_alive = Off
    /\ changed = FALSE /\ released = FALSE
    /\ session = FALSE /\ quiet = 0

-----------------------------------------------------------------------------
(***************************************************************************)
(* sendRequest and handleRTSPStatus                                        *)
(***************************************************************************)

ResetDelay == 4

(* Mutant: the margin forgets the time an answer may take. *)
KeepAliveDelay_Late == IF m_rtsp_timeout > 2 THEN m_rtsp_timeout - 2 ELSE 0

(* A delay that is not positive is due at once. *)
KeepAliveDelay == IF m_rtsp_timeout > 5 THEN m_rtsp_timeout - 5 ELSE 0

(* m_wait_response; it changes together with m_rtsp_request. *)
Waiting == m_rtsp_request # "NONE"

(* Mutant: the reset timer is not started. *)
SendRequest_NoReset(request, next) ==
    /\ ~Waiting
    /\ m_rtsp_request' = request
    /\ m_rtsp_status' = next
    /\ keep_alive' = Off
    /\ quiet' = 0
    /\ UNCHANGED <<m_rtsp_timeout, reset_connect>>

(* Mutant: a request leaves the keep alive timer running. *)
SendRequest_KeepsTimer(request, next) ==
    /\ ~Waiting
    /\ m_rtsp_request' = request
    /\ m_rtsp_status' = next
    /\ reset_connect' = ResetDelay
    /\ quiet' = 0
    /\ UNCHANGED <<m_rtsp_timeout, keep_alive>>

SendRequest(request, next) ==
    /\ ~Waiting
    /\ m_rtsp_request' = request
    /\ m_rtsp_status' = next
    /\ keep_alive' = Off
    /\ reset_connect' = ResetDelay
    /\ quiet' = 0
    /\ UNCHANGED m_rtsp_timeout

Setup ==
    /\ m_rtsp_status = "SESSION_ESTABLISHING"
    /\ SendRequest("SETUP", "SESSION_ESTABLISHING")
    /\ UNCHANGED <<changed, released, session>>

Play ==
    /\ \/ m_rtsp_status = "SESSION_PLAYING"
       \/ m_rtsp_status = "SESSION_TRANSMITTING" /\ changed
    /\ SendRequest("PLAY", "SESSION_PLAYING")
    /\ changed' = FALSE
    /\ UNCHANGED <<released, session>>

TearDown ==
    /\ m_rtsp_status = "SESSION_TRANSMITTING"
    /\ ~changed /\ released
    /\ SendRequest("TEARDOWN", "SESSION_TEARDOWNING")
    /\ session' = FALSE
    /\ UNCHANGED <<changed, released>>

(* startTimerKeepAliveMessage, also while an answer is awaited. *)
StartKeepAlive ==
    /\ m_rtsp_status = "SESSION_TRANSMITTING"
    /\ ~changed /\ ~released
    /\ keep_alive = Off
    /\ keep_alive' = KeepAliveDelay
    /\ UNCHANGED <<m_rtsp_status, m_rtsp_request, m_rtsp_timeout, reset_connect,
                   changed, released, session, quiet>>

-----------------------------------------------------------------------------
(***************************************************************************)
(* The timers                                                              *)
(***************************************************************************)

SendOption ==
    /\ keep_alive = 0
    /\ SendRequest("OPTION", m_rtsp_status)
    /\ UNCHANGED <<changed, released, session>>

(* sendRequest refuses; the single shot timer is over all the same. *)
SkipOption ==
    /\ keep_alive = 0 /\ Waiting
    /\ keep_alive' = Off
    /\ UNCHANGED <<m_rtsp_status, m_rtsp_request, m_rtsp_timeout, reset_connect,
                   changed, released, session, quiet>>

(* resetConnect; the next connection is another session. *)
TimeoutConnect ==
    /\ reset_connect = 0
    /\ Connected

-----------------------------------------------------------------------------
(***************************************************************************)
(* The server and the kernel                                               *)
(***************************************************************************)

Answered ==
    /\ m_rtsp_request' = "NONE"
    /\ reset_connect' = Off
    /\ UNCHANGED <<keep_alive, changed, released, quiet>>

SetupOk ==
    /\ m_rtsp_request = "SETUP"
    /\ m_rtsp_timeout' \in Announced \cup {DefaultTimeout}
    /\ session' = TRUE
    /\ m_rtsp_status' = "SESSION_PLAYING"
    /\ Answered

PlayOk ==
    /\ m_rtsp_request = "PLAY"
    /\ m_rtsp_status' = "SESSION_TRANSMITTING"
    /\ Answered
    /\ UNCHANGED <<m_rtsp_timeout, session>>

OptionOk ==
    /\ m_rtsp_request = "OPTION"
    /\ Answered
    /\ UNCHANGED <<m_rtsp_status, m_rtsp_timeout, session>>

TearDownOk ==
    /\ m_rtsp_request = "TEARDOWN"
    /\ Connected

(* handleResponse ends with RTSP_OK when packets follow the answer: the    *)
(* status stays, and the packets restart the reset timer.                  *)
AnswerThenPackets ==
    /\ tcp_data
    /\ m_rtsp_request \in {"PLAY", "OPTION", "TEARDOWN"}
    /\ m_rtsp_request' = "NONE"
    /\ reset_connect' = ResetDelay
    /\ UNCHANGED <<m_rtsp_status, m_rtsp_timeout, keep_alive, changed, released, session, quiet>>

Packets ==
    /\ tcp_data
    /\ m_rtsp_status # "SESSION_ESTABLISHING"
    /\ reset_connect' = ResetDelay
    /\ UNCHANGED <<m_rtsp_status, m_rtsp_request, m_rtsp_timeout, keep_alive,
                   changed, released, session, quiet>>

(* A pid list, or a tuning, which also ends a release. *)
Change ==
    /\ changed' = TRUE
    /\ released' \in {released, FALSE}
    /\ UNCHANGED <<m_rtsp_status, m_rtsp_request, m_rtsp_timeout, timerVars,
                   session, quiet>>

Release ==
    /\ released' = TRUE
    /\ UNCHANGED <<m_rtsp_status, m_rtsp_request, m_rtsp_timeout, timerVars,
                   changed, session, quiet>>

(* No turn of the loop would do anything now. *)
Idle ==
    /\ reset_connect # 0 /\ keep_alive # 0
    /\ m_rtsp_status = "SESSION_TRANSMITTING" /\ ~changed /\ ~released => keep_alive # Off
    /\ \/ Waiting
       \/ m_rtsp_status = "SESSION_TEARDOWNING"
       \/ m_rtsp_status = "SESSION_TRANSMITTING" /\ ~changed /\ ~released

Elapse(timer) == IF timer = Off THEN Off ELSE timer - 1

Tick ==
    /\ Idle
    /\ tcp_data /\ Waiting => quiet < AnswerTime
    /\ reset_connect' = Elapse(reset_connect)
    /\ keep_alive' = Elapse(keep_alive)
    /\ quiet' = IF quiet > Longest THEN quiet ELSE quiet + 1
    /\ UNCHANGED <<m_rtsp_status, m_rtsp_request, m_rtsp_timeout, changed, released, session>>

ClockNext ==
    /\ \/ Setup \/ Play \/ TearDown \/ StartKeepAlive
       \/ SendOption \/ SkipOption \/ TimeoutConnect
       \/ SetupOk \/ PlayOk \/ OptionOk \/ TearDownOk \/ AnswerThenPackets
       \/ Packets \/ Change \/ Release \/ Tick
    /\ UNCHANGED tcp_data

ClockSpec == ClockInit /\ [][ClockNext]_vars

-----------------------------------------------------------------------------
(* A session the client still wants never runs into the server's timeout,  *)
(* however late (up to the reset timer) the answers are: the four seconds  *)
(* of the reset timer fit in the five seconds the keep alive is early.     *)
(* A timeout as short as the reset timer cannot be met.                    *)
SessionKept == session /\ m_rtsp_timeout > ResetDelay => quiet < m_rtsp_timeout

(* A client that waits for an answer has the reset timer running, and over *)
(* UDP, where nothing but an answer can restart it, gives up after four    *)
(* seconds: the session does not hang.                                     *)
GivenUpInTime ==
    Waiting => /\ reset_connect # Off
               /\ ~tcp_data => quiet <= ResetDelay

(* Keep alive messages do not flood the server: between any request and    *)
(* the OPTIONS that follows the keep alive delay has passed.               *)
KeepAlivePaced == [][SendOption => quiet >= KeepAliveDelay]_vars
=============================================================================
