------------------------- MODULE SessionClockProofs -------------------------
(***************************************************************************)
(* Theorems about the timers of a session, for every session timeout a     *)
(* server can announce and for both transports, and about the timer list   *)
(* and its poll timeout, for any timers, intervals and delays.             *)
(***************************************************************************)
EXTENDS SessionClock, SatipTimer, WellFoundedInduction, TLAPS

(* The awaited request is one the status sends; the keep alive timer runs  *)
(* only while transmitting; a session ends with TEARDOWN.                  *)
ClockControl ==
    /\ m_rtsp_request = "SETUP"    => m_rtsp_status = "SESSION_ESTABLISHING"
    /\ m_rtsp_request = "PLAY"     => m_rtsp_status = "SESSION_PLAYING"
    /\ m_rtsp_request = "OPTION"   => m_rtsp_status = "SESSION_TRANSMITTING"
    /\ m_rtsp_request = "TEARDOWN" => m_rtsp_status = "SESSION_TEARDOWNING"
    /\ keep_alive # Off => m_rtsp_status = "SESSION_TRANSMITTING"
    /\ session => m_rtsp_status \in {"SESSION_PLAYING", "SESSION_TRANSMITTING"}

(* While an answer is awaited the reset timer counts down from its delay   *)
(* as the server's clock counts up, unless packets start it again.  (The   *)
(* model's clock stops beyond the longest timeout, which may be shorter.)  *)
ResetCountsDown ==
    Waiting => /\ reset_connect # Off
               /\ ~tcp_data => reset_connect + quiet <= ResetDelay

(* The keep alive timer never has less left than is missing to its delay.  *)
KeepAliveNotEarly == keep_alive # Off => keep_alive + quiet >= KeepAliveDelay

ClockInv == ClockControl /\ ResetCountsDown /\ KeepAliveNotEarly

(* With a server that answers in time over TCP: a wait is over within the  *)
(* delay of the reset timer, nothing but the keep alive timer lets time    *)
(* pass after it, and that timer was started when the wait was over.       *)
QuietBounded ==
    /\ Waiting => quiet <= ResetDelay /\ (tcp_data => quiet <= AnswerTime)
    /\ m_rtsp_status \in {"SESSION_ESTABLISHING", "SESSION_PLAYING"} => quiet <= ResetDelay
    /\ m_rtsp_status = "SESSION_TRANSMITTING" =>
           IF keep_alive = Off THEN quiet <= ResetDelay
                               ELSE keep_alive + quiet <= KeepAliveDelay + ResetDelay

LEMMA LongestIs ==
    /\ Longest \in Nat
    /\ \A t \in Announced \cup {DefaultTimeout} : t <= Longest
  BY ClockAssumption DEF Longest

LEMMA ClockInitInv == ClockInit => ClockTypeOK /\ ClockInv /\ QuietBounded
<1> SUFFICES ASSUME ClockInit PROVE ClockTypeOK /\ ClockInv /\ QuietBounded
  OBVIOUS
<1>1. ClockTypeOK
  <2>1. quiet \in 0..(Longest + 1)
    BY LongestIs DEF ClockInit
  <2> QED BY <2>1 DEF ClockInit, ClockTypeOK
<1>2. ClockInv /\ QuietBounded
  BY DEF ClockInit, ClockInv, ClockControl, ResetCountsDown, KeepAliveNotEarly, QuietBounded,
         Waiting, Off, ResetDelay
<1> QED BY <1>1, <1>2

-----------------------------------------------------------------------------
LEMMA ClockStep ==
    ASSUME ClockTypeOK, ClockInv, ClockNext
    PROVE  ClockTypeOK' /\ ClockInv'
<1> USE DEF ClockInv, timerVars
<1>0. /\ UNCHANGED tcp_data
      /\ KeepAliveDelay \in Nat
      /\ m_rtsp_timeout \in Nat /\ m_rtsp_timeout <= Longest
  BY ClockAssumption, LongestIs DEF ClockNext, ClockTypeOK, KeepAliveDelay
<1>1. CASE Setup
  <2>1. ClockTypeOK'
    BY <1>0, <1>1, LongestIs DEF Setup, SendRequest, ClockTypeOK, Off, ResetDelay
  <2>2. ClockControl'
    BY <1>1 DEF Setup, SendRequest, ClockTypeOK, ClockControl, Waiting, Off
  <2>3. ResetCountsDown'
    BY <1>0, <1>1 DEF Setup, SendRequest, ClockTypeOK, ResetCountsDown, Waiting, Off, ResetDelay
  <2>4. KeepAliveNotEarly'
    BY <1>0, <1>1 DEF Setup, SendRequest, ClockTypeOK, ClockControl, KeepAliveNotEarly, KeepAliveDelay, Off
  <2> QED BY <2>1, <2>2, <2>3, <2>4
<1>2. CASE Play
  <2>1. ClockTypeOK'
    <3>1. changed' \in BOOLEAN /\ released' \in BOOLEAN /\ session' \in BOOLEAN
      BY <1>2 DEF Play, SendRequest, ClockTypeOK
    <3> QED BY <1>0, <1>2, <3>1, LongestIs DEF Play, SendRequest, ClockTypeOK, Off, ResetDelay
  <2>2. ClockControl'
    BY <1>2 DEF Play, SendRequest, ClockTypeOK, ClockControl, Waiting, Off
  <2>3. ResetCountsDown'
    BY <1>0, <1>2 DEF Play, SendRequest, ClockTypeOK, ResetCountsDown, Waiting, Off, ResetDelay
  <2>4. KeepAliveNotEarly'
    BY <1>0, <1>2 DEF Play, SendRequest, ClockTypeOK, ClockControl, KeepAliveNotEarly, KeepAliveDelay, Off
  <2> QED BY <2>1, <2>2, <2>3, <2>4
<1>3. CASE TearDown
  <2>1. ClockTypeOK'
    <3>1. changed' \in BOOLEAN /\ released' \in BOOLEAN /\ session' \in BOOLEAN
      BY <1>3 DEF TearDown, SendRequest, ClockTypeOK
    <3> QED BY <1>0, <1>3, <3>1, LongestIs DEF TearDown, SendRequest, ClockTypeOK, Off, ResetDelay
  <2>2. ClockControl'
    BY <1>3 DEF TearDown, SendRequest, ClockTypeOK, ClockControl, Waiting, Off
  <2>3. ResetCountsDown'
    BY <1>0, <1>3 DEF TearDown, SendRequest, ClockTypeOK, ResetCountsDown, Waiting, Off, ResetDelay
  <2>4. KeepAliveNotEarly'
    BY <1>0, <1>3 DEF TearDown, SendRequest, ClockTypeOK, ClockControl, KeepAliveNotEarly, KeepAliveDelay, Off
  <2> QED BY <2>1, <2>2, <2>3, <2>4
<1>4. CASE StartKeepAlive
  <2>1. ClockTypeOK'
    BY <1>0, <1>4, LongestIs DEF StartKeepAlive, ClockTypeOK, Off, ResetDelay
  <2>2. ClockControl'
    BY <1>4 DEF StartKeepAlive, ClockTypeOK, ClockControl, Waiting, Off
  <2>3. ResetCountsDown'
    BY <1>0, <1>4 DEF StartKeepAlive, ClockTypeOK, ResetCountsDown, Waiting, Off, ResetDelay
  <2>4. KeepAliveNotEarly'
    BY <1>0, <1>4 DEF StartKeepAlive, ClockTypeOK, ClockControl, KeepAliveNotEarly, KeepAliveDelay, Off
  <2> QED BY <2>1, <2>2, <2>3, <2>4
<1>5. CASE SendOption
  <2>1. ClockTypeOK'
    BY <1>0, <1>5, LongestIs DEF SendOption, SendRequest, ClockTypeOK, Off, ResetDelay
  <2>2. ClockControl'
    BY <1>5 DEF SendOption, SendRequest, ClockTypeOK, ClockControl, Waiting, Off
  <2>3. ResetCountsDown'
    BY <1>0, <1>5 DEF SendOption, SendRequest, ClockTypeOK, ResetCountsDown, Waiting, Off, ResetDelay
  <2>4. KeepAliveNotEarly'
    BY <1>0, <1>5 DEF SendOption, SendRequest, ClockTypeOK, ClockControl, KeepAliveNotEarly, KeepAliveDelay, Off
  <2> QED BY <2>1, <2>2, <2>3, <2>4
<1>6. CASE SkipOption
  <2>1. ClockTypeOK'
    BY <1>0, <1>6, LongestIs DEF SkipOption, ClockTypeOK, Off, ResetDelay
  <2>2. ClockControl'
    BY <1>6 DEF SkipOption, ClockTypeOK, ClockControl, Waiting, Off
  <2>3. ResetCountsDown'
    BY <1>0, <1>6 DEF SkipOption, ClockTypeOK, ResetCountsDown, Waiting, Off, ResetDelay
  <2>4. KeepAliveNotEarly'
    BY <1>0, <1>6 DEF SkipOption, ClockTypeOK, ClockControl, KeepAliveNotEarly, KeepAliveDelay, Off
  <2> QED BY <2>1, <2>2, <2>3, <2>4
<1>7. CASE TimeoutConnect
  <2>1. ClockTypeOK'
    <3>1. changed' \in BOOLEAN /\ released' \in BOOLEAN /\ session' \in BOOLEAN
      BY <1>7 DEF TimeoutConnect, Connected, ClockTypeOK
    <3> QED BY <1>0, <1>7, <3>1, LongestIs DEF TimeoutConnect, Connected, ClockTypeOK, Off, ResetDelay
  <2>2. ClockControl'
    BY <1>7 DEF TimeoutConnect, Connected, ClockTypeOK, ClockControl, Waiting, Off
  <2>3. ResetCountsDown'
    BY <1>0, <1>7 DEF TimeoutConnect, Connected, ClockTypeOK, ResetCountsDown, Waiting, Off, ResetDelay
  <2>4. KeepAliveNotEarly'
    BY <1>0, <1>7 DEF TimeoutConnect, Connected, ClockTypeOK, ClockControl, KeepAliveNotEarly, KeepAliveDelay, Off
  <2> QED BY <2>1, <2>2, <2>3, <2>4
<1>8. CASE SetupOk
  <2>1. ClockTypeOK'
    BY <1>0, <1>8, LongestIs DEF SetupOk, Answered, ClockTypeOK, Off, ResetDelay
  <2>2. ClockControl'
    BY <1>8 DEF SetupOk, Answered, ClockTypeOK, ClockControl, Waiting, Off
  <2>3. ResetCountsDown'
    BY <1>0, <1>8 DEF SetupOk, Answered, ClockTypeOK, ResetCountsDown, Waiting, Off, ResetDelay
  <2>4. KeepAliveNotEarly'
    BY <1>0, <1>8 DEF SetupOk, Answered, ClockTypeOK, ClockControl, KeepAliveNotEarly, KeepAliveDelay, Off
  <2> QED BY <2>1, <2>2, <2>3, <2>4
<1>9. CASE PlayOk
  <2>1. ClockTypeOK'
    BY <1>0, <1>9, LongestIs DEF PlayOk, Answered, ClockTypeOK, Off, ResetDelay
  <2>2. ClockControl'
    BY <1>9 DEF PlayOk, Answered, ClockTypeOK, ClockControl, Waiting, Off
  <2>3. ResetCountsDown'
    BY <1>0, <1>9 DEF PlayOk, Answered, ClockTypeOK, ResetCountsDown, Waiting, Off, ResetDelay
  <2>4. KeepAliveNotEarly'
    BY <1>0, <1>9 DEF PlayOk, Answered, ClockTypeOK, ClockControl, KeepAliveNotEarly, KeepAliveDelay, Off
  <2> QED BY <2>1, <2>2, <2>3, <2>4
<1>10. CASE OptionOk
  <2>1. ClockTypeOK'
    BY <1>0, <1>10, LongestIs DEF OptionOk, Answered, ClockTypeOK, Off, ResetDelay
  <2>2. ClockControl'
    BY <1>10 DEF OptionOk, Answered, ClockTypeOK, ClockControl, Waiting, Off
  <2>3. ResetCountsDown'
    BY <1>0, <1>10 DEF OptionOk, Answered, ClockTypeOK, ResetCountsDown, Waiting, Off, ResetDelay
  <2>4. KeepAliveNotEarly'
    BY <1>0, <1>10 DEF OptionOk, Answered, ClockTypeOK, ClockControl, KeepAliveNotEarly, KeepAliveDelay, Off
  <2> QED BY <2>1, <2>2, <2>3, <2>4
<1>11. CASE TearDownOk
  <2>1. ClockTypeOK'
    <3>1. changed' \in BOOLEAN /\ released' \in BOOLEAN /\ session' \in BOOLEAN
      BY <1>11 DEF TearDownOk, Connected, ClockTypeOK
    <3> QED BY <1>0, <1>11, <3>1, LongestIs DEF TearDownOk, Connected, ClockTypeOK, Off, ResetDelay
  <2>2. ClockControl'
    BY <1>11 DEF TearDownOk, Connected, ClockTypeOK, ClockControl, Waiting, Off
  <2>3. ResetCountsDown'
    BY <1>0, <1>11 DEF TearDownOk, Connected, ClockTypeOK, ResetCountsDown, Waiting, Off, ResetDelay
  <2>4. KeepAliveNotEarly'
    BY <1>0, <1>11 DEF TearDownOk, Connected, ClockTypeOK, ClockControl, KeepAliveNotEarly, KeepAliveDelay, Off
  <2> QED BY <2>1, <2>2, <2>3, <2>4
<1>12. CASE AnswerThenPackets
  <2>1. ClockTypeOK'
    BY <1>0, <1>12, LongestIs DEF AnswerThenPackets, ClockTypeOK, Off, ResetDelay
  <2>2. ClockControl'
    BY <1>12 DEF AnswerThenPackets, ClockTypeOK, ClockControl, Waiting, Off
  <2>3. ResetCountsDown'
    BY <1>0, <1>12 DEF AnswerThenPackets, ClockTypeOK, ResetCountsDown, Waiting, Off, ResetDelay
  <2>4. KeepAliveNotEarly'
    BY <1>0, <1>12 DEF AnswerThenPackets, ClockTypeOK, ClockControl, KeepAliveNotEarly, KeepAliveDelay, Off
  <2> QED BY <2>1, <2>2, <2>3, <2>4
<1>13. CASE Packets
  <2>1. ClockTypeOK'
    BY <1>0, <1>13, LongestIs DEF Packets, ClockTypeOK, Off, ResetDelay
  <2>2. ClockControl'
    BY <1>13 DEF Packets, ClockTypeOK, ClockControl, Waiting, Off
  <2>3. ResetCountsDown'
    BY <1>0, <1>13 DEF Packets, ClockTypeOK, ResetCountsDown, Waiting, Off, ResetDelay
  <2>4. KeepAliveNotEarly'
    BY <1>0, <1>13 DEF Packets, ClockTypeOK, ClockControl, KeepAliveNotEarly, KeepAliveDelay, Off
  <2> QED BY <2>1, <2>2, <2>3, <2>4
<1>14. CASE Change
  <2>1. ClockTypeOK'
    BY <1>0, <1>14, LongestIs DEF Change, ClockTypeOK, Off, ResetDelay
  <2>2. ClockControl'
    BY <1>14 DEF Change, ClockTypeOK, ClockControl, Waiting, Off
  <2>3. ResetCountsDown'
    BY <1>0, <1>14 DEF Change, ClockTypeOK, ResetCountsDown, Waiting, Off, ResetDelay
  <2>4. KeepAliveNotEarly'
    BY <1>0, <1>14 DEF Change, ClockTypeOK, ClockControl, KeepAliveNotEarly, KeepAliveDelay, Off
  <2> QED BY <2>1, <2>2, <2>3, <2>4
<1>15. CASE Release
  <2>1. ClockTypeOK'
    BY <1>0, <1>15, LongestIs DEF Release, ClockTypeOK, Off, ResetDelay
  <2>2. ClockControl'
    BY <1>15 DEF Release, ClockTypeOK, ClockControl, Waiting, Off
  <2>3. ResetCountsDown'
    BY <1>0, <1>15 DEF Release, ClockTypeOK, ResetCountsDown, Waiting, Off, ResetDelay
  <2>4. KeepAliveNotEarly'
    BY <1>0, <1>15 DEF Release, ClockTypeOK, ClockControl, KeepAliveNotEarly, KeepAliveDelay, Off
  <2> QED BY <2>1, <2>2, <2>3, <2>4
<1>16. CASE Tick
  <2>1. ClockTypeOK'
    BY <1>0, <1>16, LongestIs DEF Tick, Idle, Elapse, ClockTypeOK, Off, ResetDelay
  <2>2. ClockControl'
    BY <1>16 DEF Tick, Idle, Elapse, ClockTypeOK, ClockControl, Waiting, Off
  <2>3. ResetCountsDown'
    BY <1>0, <1>16 DEF Tick, Idle, Elapse, ClockTypeOK, ResetCountsDown, Waiting, Off, ResetDelay
  <2>4. KeepAliveNotEarly'
    <3> SUFFICES ASSUME keep_alive # Off PROVE keep_alive' + quiet' >= KeepAliveDelay
      BY <1>16 DEF Tick, Elapse, KeepAliveNotEarly, KeepAliveDelay, Off
    <3>1. keep_alive \in Nat \ {0} /\ keep_alive' = keep_alive - 1
      BY <1>16 DEF Tick, Idle, Elapse, ClockTypeOK, Off
    <3>2. KeepAliveDelay <= m_rtsp_timeout
      BY <1>0 DEF KeepAliveDelay
    <3>3. quiet \in Nat /\ quiet' = IF quiet > Longest THEN quiet ELSE quiet + 1
      BY <1>16, LongestIs DEF Tick, ClockTypeOK
    <3> QED BY <1>0, <3>1, <3>2, <3>3, LongestIs DEF KeepAliveNotEarly
  <2> QED BY <2>1, <2>2, <2>3, <2>4
<1> QED BY <1>1, <1>2, <1>3, <1>4, <1>5, <1>6, <1>7, <1>8, <1>9, <1>10, <1>11, <1>12, <1>13, <1>14, <1>15, <1>16 DEF ClockNext

LEMMA QuietStep ==
    ASSUME ClockTypeOK, ClockInv, QuietBounded, ClockNext, AnswerTime <= ResetDelay
    PROVE  QuietBounded'
<1> USE DEF QuietBounded, Off, ResetDelay, timerVars
<1>0. /\ UNCHANGED tcp_data
      /\ KeepAliveDelay \in Nat
      /\ quiet \in Nat /\ AnswerTime \in Nat
  BY ClockAssumption, LongestIs DEF ClockNext, ClockTypeOK, KeepAliveDelay
<1>1. CASE Setup
  BY <1>0, <1>1 DEF Setup, SendRequest, ClockTypeOK, ClockInv, ClockControl, ResetCountsDown, Waiting, KeepAliveDelay
<1>2. CASE Play
  BY <1>0, <1>2 DEF Play, SendRequest, ClockTypeOK, ClockInv, ClockControl, ResetCountsDown, Waiting, KeepAliveDelay
<1>3. CASE TearDown
  BY <1>0, <1>3 DEF TearDown, SendRequest, ClockTypeOK, ClockInv, ClockControl, ResetCountsDown, Waiting, KeepAliveDelay
<1>4. CASE StartKeepAlive
  BY <1>0, <1>4 DEF StartKeepAlive, ClockTypeOK, ClockInv, ClockControl, ResetCountsDown, Waiting, KeepAliveDelay
<1>5. CASE SendOption
  BY <1>0, <1>5 DEF SendOption, SendRequest, ClockTypeOK, ClockInv, ClockControl, ResetCountsDown, Waiting, KeepAliveDelay
<1>6. CASE SkipOption
  BY <1>0, <1>6 DEF SkipOption, ClockTypeOK, ClockInv, ClockControl, ResetCountsDown, Waiting, KeepAliveDelay
<1>7. CASE TimeoutConnect
  BY <1>0, <1>7 DEF TimeoutConnect, Connected, ClockTypeOK, ClockInv, ClockControl, ResetCountsDown, Waiting, KeepAliveDelay
<1>8. CASE SetupOk
  BY <1>0, <1>8 DEF SetupOk, Answered, ClockTypeOK, ClockInv, ClockControl, ResetCountsDown, Waiting, KeepAliveDelay
<1>9. CASE PlayOk
  BY <1>0, <1>9 DEF PlayOk, Answered, ClockTypeOK, ClockInv, ClockControl, ResetCountsDown, Waiting, KeepAliveDelay
<1>10. CASE OptionOk
  BY <1>0, <1>10 DEF OptionOk, Answered, ClockTypeOK, ClockInv, ClockControl, ResetCountsDown, Waiting, KeepAliveDelay
<1>11. CASE TearDownOk
  BY <1>0, <1>11 DEF TearDownOk, Connected, ClockTypeOK, ClockInv, ClockControl, ResetCountsDown, Waiting, KeepAliveDelay
<1>12. CASE AnswerThenPackets
  BY <1>0, <1>12 DEF AnswerThenPackets, ClockTypeOK, ClockInv, ClockControl, ResetCountsDown, Waiting, KeepAliveDelay
<1>13. CASE Packets
  BY <1>0, <1>13 DEF Packets, ClockTypeOK, ClockInv, ClockControl, ResetCountsDown, Waiting, KeepAliveDelay
<1>14. CASE Change
  BY <1>0, <1>14 DEF Change, ClockTypeOK, ClockInv, ClockControl, ResetCountsDown, Waiting, KeepAliveDelay
<1>15. CASE Release
  BY <1>0, <1>15 DEF Release, ClockTypeOK, ClockInv, ClockControl, ResetCountsDown, Waiting, KeepAliveDelay
<1>16. CASE Tick
  BY <1>0, <1>16 DEF Tick, Idle, Elapse, ClockTypeOK, ClockInv, ClockControl, ResetCountsDown, Waiting, KeepAliveDelay
<1> QED BY <1>1, <1>2, <1>3, <1>4, <1>5, <1>6, <1>7, <1>8, <1>9, <1>10, <1>11, <1>12, <1>13, <1>14, <1>15, <1>16 DEF ClockNext

LEMMA ClockStutter ==
    UNCHANGED vars => /\ ClockTypeOK /\ ClockInv => ClockTypeOK' /\ ClockInv'
                      /\ QuietBounded => QuietBounded'
  BY DEF vars, timerVars, ClockTypeOK, ClockInv, ClockControl, ResetCountsDown, KeepAliveNotEarly,
         QuietBounded, Waiting, KeepAliveDelay

LEMMA ClockInvariant == ClockSpec => [](ClockTypeOK /\ ClockInv)
<1>1. ClockTypeOK /\ ClockInv /\ [ClockNext]_vars => (ClockTypeOK /\ ClockInv)'
  BY ClockStep, ClockStutter
<1> QED BY <1>1, ClockInitInv, PTL DEF ClockSpec

-----------------------------------------------------------------------------
(* Type correctness. *)
THEOREM ClockTypeCorrect == ClockSpec => []ClockTypeOK
  BY ClockInvariant, PTL

(* handleResponse's watchdog: a client that waits for an answer has the    *)
(* reset timer running, and over UDP it gives up after four seconds.       *)
THEOREM ClockGivenUpInTime == ClockSpec => []GivenUpInTime
<1>1. ClockTypeOK /\ ClockInv => GivenUpInTime
  BY LongestIs DEF ClockTypeOK, ClockInv, ResetCountsDown, GivenUpInTime, ResetDelay, Off
<1> QED BY <1>1, ClockInvariant, PTL

(* OPTIONS is never sent earlier than the keep alive delay after the last  *)
(* request.                                                                *)
THEOREM ClockKeepAlivePaced == ClockSpec => KeepAlivePaced
<1>1. ClockTypeOK /\ ClockInv /\ [ClockNext]_vars => [SendOption => quiet >= KeepAliveDelay]_vars
  <2> SUFFICES ASSUME ClockTypeOK, ClockInv, SendOption PROVE quiet >= KeepAliveDelay
    OBVIOUS
  <2> QED BY LongestIs DEF ClockTypeOK, ClockInv, KeepAliveNotEarly, SendOption, Off
<1> QED BY <1>1, ClockInvariant, PTL DEF ClockSpec, KeepAlivePaced

(* A session the client wants never runs into the server's timeout,        *)
(* whatever timeout longer than the reset delay the server announced.      *)
(* Over UDP the server may answer late or never; over TCP, where packets   *)
(* restart the reset timer, it has to answer within its delay.             *)
THEOREM ClockSessionKept ==
    ASSUME AnswerTime <= ResetDelay
    PROVE  ClockSpec => []SessionKept
<1>1. ClockTypeOK /\ ClockInv /\ QuietBounded => SessionKept
  <2> SUFFICES ASSUME ClockTypeOK, ClockInv, QuietBounded, session, m_rtsp_timeout > ResetDelay
               PROVE  quiet < m_rtsp_timeout
    BY DEF SessionKept
  <2>1. quiet \in Nat /\ m_rtsp_timeout \in Nat
    BY LongestIs, ClockAssumption DEF ClockTypeOK
  <2>2. CASE m_rtsp_status = "SESSION_TRANSMITTING" /\ keep_alive # Off
    <3>1. keep_alive \in Nat /\ keep_alive + quiet <= KeepAliveDelay + ResetDelay
      BY <2>2 DEF ClockTypeOK, QuietBounded
    <3>2. KeepAliveDelay = m_rtsp_timeout - 5
      BY <2>1 DEF KeepAliveDelay, ResetDelay
    <3> QED BY <2>1, <3>1, <3>2 DEF ResetDelay
  <2>3. CASE ~(m_rtsp_status = "SESSION_TRANSMITTING" /\ keep_alive # Off)
    BY <2>1, <2>3 DEF ClockInv, ClockControl, QuietBounded, ResetDelay
  <2> QED BY <2>2, <2>3
<1>2. ClockTypeOK /\ ClockInv /\ QuietBounded /\ [ClockNext]_vars => QuietBounded'
  BY QuietStep, ClockStutter
<1> QED BY <1>1, <1>2, ClockInitInv, ClockInvariant, PTL DEF ClockSpec

-----------------------------------------------------------------------------
(***************************************************************************)
(* The timer list                                                          *)
(***************************************************************************)

(* A timespec in nanoseconds. *)
Ns(ts) == ts.sec * 1000000000 + ts.nsec
IsTime(ts) == ts.sec \in Nat /\ ts.nsec \in Nat /\ ts.nsec < 1000000000

Nsecs == 0..(NsPerSec - 1)

LEMMA NsecFact == \A x : x \in Nsecs <=> x \in Nat /\ x < 1000000000
<1>1. \A n \in Nat : \A x : x \in 0..(n - 1) <=> x \in Nat /\ x < n
  BY SMT
<1>2. NsPerSec \in Nat
  BY SMT DEF NsPerSec
<1>3. \A x : x \in Nsecs <=> x \in Nat /\ x < NsPerSec
  BY Zenon, <1>1, <1>2 DEF Nsecs
<1> QED BY SMT, <1>3 DEF NsPerSec

LEMMA TimeFact ==
    /\ \A ts \in Time : IsTime(ts)
    /\ \A a, b : a \in Nat /\ b \in Nat /\ b < 1000000000 => [sec |-> a, nsec |-> b] \in Time
<1>1. Time = [sec : Nat, nsec : Nsecs]
  BY Zenon DEF Time, Nsecs
<1> QED BY SMT, <1>1, NsecFact DEF IsTime

LEMMA NsFact ==
    ASSUME NEW a, NEW b, IsTime(a), IsTime(b)
    PROVE  /\ Ns(a) \in Nat /\ Ns(b) \in Nat
           /\ Before(a, b) <=> Ns(a) < Ns(b)
           /\ Span(a, b) = Ns(b) - Ns(a)
  BY SMT DEF IsTime, Ns, Before, Span, NsPerSec

(* The rounding: strictly more than the difference, by two milliseconds at *)
(* most, although C truncates a negative difference upwards.               *)
LEMMA RoundUpFact ==
    ASSUME NEW sec \in Int, NEW nsec \in Int, nsec < 1000000000, nsec > -1000000000
    PROVE  /\ RoundUp(sec, nsec) \in Int
           /\ sec * 1000000000 + nsec < RoundUp(sec, nsec) * 1000000
           /\ RoundUp(sec, nsec) * 1000000 <= sec * 1000000000 + nsec + 2000000
<1>1. CASE nsec >= 0
  <2> DEFINE q == nsec \div 1000000
             r == nsec % 1000000
  <2>1. q \in Int /\ r \in Int /\ nsec = 1000000 * q + r /\ 0 <= r /\ r < 1000000
    BY SMT
  <2>2. RoundUp(sec, nsec) = sec * 1000 + q + 1
    BY SMT, <1>1 DEF RoundUp, CDiv, NsPerMs
  <2> HIDE DEF q, r
  <2> QED BY SMT, <2>1, <2>2
<1>2. CASE nsec < 0
  <2> DEFINE m == -nsec
             q == m \div 1000000
             r == m % 1000000
  <2>1. m \in Nat /\ nsec = -m
    BY SMT, <1>2
  <2>2. q \in Int /\ r \in Int /\ m = 1000000 * q + r /\ 0 <= r /\ r < 1000000
    BY SMT, <2>1
  <2>3. RoundUp(sec, nsec) = sec * 1000 - q + 1
    BY SMT, <1>2, <2>2 DEF RoundUp, CDiv, NsPerMs
  <2> HIDE DEF m, q, r
  <2> QED BY SMT, <2>1, <2>2, <2>3
<1> QED BY SMT, <1>1, <1>2

(* The clock advances by what it is told. *)
LEMMA AfterFact ==
    ASSUME NEW ts \in Time, NEW ms \in Nat, NEW ns \in Nat
    PROVE  After(ts, ms, ns) \in Time /\ Ns(After(ts, ms, ns)) = Ns(ts) + ms * 1000000 + ns
<1> DEFINE q == ms \div 1000
           r == ms % 1000
           n == ts.nsec + r * 1000000 + ns
           c == n \div 1000000000
           l == n % 1000000000
<1>1. ts.sec \in Nat /\ ts.nsec \in Nat
  BY SMT, TimeFact DEF IsTime
<1>2. q \in Nat /\ r \in Nat /\ ms = 1000 * q + r
  BY SMT
<1>3. n \in Nat /\ n = ts.nsec + r * 1000000 + ns
  BY SMT, <1>1, <1>2
<1> HIDE DEF n
<1>4. c \in Nat /\ l \in Nat /\ l < 1000000000 /\ n = 1000000000 * c + l
  BY SMT, <1>3
<1>5. After(ts, ms, ns) = [sec |-> ts.sec + q + c, nsec |-> l]
  BY SMT DEF After, NsPerSec, NsPerMs, n
<1> HIDE DEF q, r, c, l
<1>6. After(ts, ms, ns) \in Time
  BY SMT, <1>1, <1>2, <1>4, <1>5, TimeFact
<1>7. Ns(After(ts, ms, ns)) = (ts.sec + q + c) * 1000000000 + l
  BY SMT, <1>5 DEF Ns
<1> QED BY SMT, <1>1, <1>2, <1>3, <1>4, <1>6, <1>7 DEF Ns

LEMMA LaterFact ==
    ASSUME NEW ts \in Time, NEW ms \in Nat
    PROVE  Later(ts, ms) \in Time
<1>1. ts.sec \in Nat /\ ts.nsec \in Nat /\ ts.nsec < 1000000000
  BY SMT, TimeFact DEF IsTime
<1>2. ms \div 1000 \in Nat /\ ms % 1000 \in Nat /\ ms % 1000 < 1000
  BY SMT
<1> DEFINE q == ms \div 1000
           r == ms % 1000
           n == ts.nsec + r * 1000000
<1>3. Later(ts, ms) = [sec |-> IF n >= 1000000000 THEN ts.sec + q + 1 ELSE ts.sec + q,
                       nsec |-> IF n >= 1000000000 THEN n - 1000000000 ELSE n]
  BY SMT DEF Later, NsPerSec, NsPerMs
<1> HIDE DEF q
<1>4. q \in Nat
  BY SMT, <1>2 DEF q
<1>5. n \in Nat /\ n < 2000000000
  BY SMT, <1>1, <1>2
<1> HIDE DEF n
<1> QED BY SMT, <1>1, <1>3, <1>4, <1>5, TimeFact

(* What TimerTypeOK says of m_timer. *)
TimerElem == [active : BOOLEAN, single : BOOLEAN, interval : Nat,
              sec : Nat, nsec : Nsecs]

LEMMA ElemFact ==
    /\ \A e \in TimerElem : IsTime(e) /\ e.interval \in Nat /\ e.active \in BOOLEAN
                            /\ [e EXCEPT !.active = FALSE] \in TimerElem
    /\ \A ts \in Time, ms \in Nat, single \in BOOLEAN :
          [active |-> TRUE, single |-> single, interval |-> ms,
           sec |-> ts.sec, nsec |-> ts.nsec] \in TimerElem
    /\ Inactive \in TimerElem
<1>1. Time = [sec : Nat, nsec : Nsecs]
  BY Zenon DEF Time, Nsecs
<1>2. 0 \in Nsecs
  BY SMT, NsecFact
<1>4. \A e \in TimerElem : IsTime(e) /\ e.interval \in Nat /\ e.active \in BOOLEAN
                            /\ [e EXCEPT !.active = FALSE] \in TimerElem
  <2>1. \A e \in TimerElem : IsTime(e) /\ e.interval \in Nat
    BY SMT, NsecFact DEF IsTime, TimerElem
  <2>2. \A e \in TimerElem : e.active \in BOOLEAN /\ e.single \in BOOLEAN
    BY Zenon DEF TimerElem
  <2>3. \A e \in TimerElem : [e EXCEPT !.active = FALSE] \in TimerElem
    BY Zenon DEF TimerElem
  <2> QED BY Zenon, <2>1, <2>2, <2>3
<1>5. \A ts \in Time, ms \in Nat, single \in BOOLEAN :
          [active |-> TRUE, single |-> single, interval |-> ms,
           sec |-> ts.sec, nsec |-> ts.nsec] \in TimerElem
  BY SMT, <1>1 DEF TimerElem
<1>6. Inactive \in TimerElem
  BY SMT, <1>2 DEF Inactive, TimerElem
<1> QED BY SMT, <1>4, <1>5, <1>6

LEMMA ArmedFact ==
    ASSUME now \in Time, NEW ms \in Nat, NEW single \in BOOLEAN
    PROVE  Armed(ms, single) \in TimerElem
<1>1. Later(now, ms) \in Time
  BY SMT, LaterFact
<1> QED BY SMT, <1>1, ElemFact DEF Armed

LEMMA TimerTypeIs ==
    TimerTypeOK <=> /\ now \in Time /\ m_timer \in [Timer -> TimerElem] /\ msec \in Nat
                    /\ pc \in {"turn", "poll", "call"} /\ timed_out \in BOOLEAN /\ turns \in Nat
  BY Zenon DEF TimerTypeOK, TimerElem, Nsecs

(* min_timer_elem is an active timer, and none is earlier. *)
LEMMA NextIsFirst ==
    ASSUME TimerTypeOK, Active # {}
    PROVE  /\ NextTimer \in Active
           /\ \A u \in Active : Ns(m_timer[NextTimer]) <= Ns(m_timer[u])
<1>1. \A t \in Active : t \in Timer /\ IsTime(m_timer[t])
  BY Zenon, TimerTypeIs, ElemFact DEF Active
<1> DEFINE S == {Ns(m_timer[t]) : t \in Active}
<1>2. \A t \in Active : Ns(m_timer[t]) \in Nat
  BY SMT, <1>1, NsFact
<1>3. S \in SUBSET Nat /\ S # {}
  BY Zenon, <1>2
<1>4. PICK n \in S : \A k \in S : n <= k
  <2>1. PICK x \in S : \A y \in S : ~(<<y, x>> \in OpToRel(<, Nat))
    BY <1>3, NatLessThanWellFounded, WFMin
  <2>2. ASSUME NEW y \in S, y < x PROVE FALSE
    <3>1. <<y, x>> \in Nat \X Nat
      BY Zenon, <1>3
    <3>2. <<y, x>> \in OpToRel(<, Nat)
      BY <3>1, <2>2 DEF OpToRel
    <3> QED BY Zenon, <3>2, <2>1
  <2> HIDE DEF S
  <2> QED BY SMT, <1>3, <2>2
<1>5. PICK t \in Active : n = Ns(m_timer[t])
  BY Zenon
<1>6. \A u \in Active : Ns(m_timer[t]) <= Ns(m_timer[u])
  BY Zenon, <1>4, <1>5
<1>7. \A u, v \in Active : Before(m_timer[u], m_timer[v]) <=> Ns(m_timer[u]) < Ns(m_timer[v])
  BY SMT, <1>1, NsFact
<1>8. \A u \in Active : ~Before(m_timer[u], m_timer[t])
  BY SMT, <1>2, <1>6, <1>7
<1>9. NextTimer \in Active /\ \A u \in Active : ~Before(m_timer[u], m_timer[NextTimer])
  BY Zenon, <1>8 DEF NextTimer
<1> QED BY SMT, <1>2, <1>7, <1>9

(* The timeout lies strictly behind the first timer, by two milliseconds   *)
(* at most, or is zero when that timer is due.                             *)
LEMMA TimeUntilFact ==
    ASSUME NEW ts, NEW cur, IsTime(ts), IsTime(cur)
    PROVE  LET ms == TimeUntil(ts, cur)
           IN  /\ ms \in Nat
               /\ Ns(ts) < Ns(cur) + ms * 1000000
               /\ ms * 1000000 <= (IF Ns(ts) > Ns(cur) THEN Ns(ts) - Ns(cur) ELSE 0) + 2000000
<1> DEFINE sec == ts.sec - cur.sec
           nsec == ts.nsec - cur.nsec
           r == RoundUp(sec, nsec)
           D == Ns(ts) - Ns(cur)
<1>1. sec \in Int /\ nsec \in Int /\ nsec < 1000000000 /\ nsec > -1000000000
  BY SMT DEF IsTime
<1>2. D = sec * 1000000000 + nsec /\ Ns(ts) \in Nat /\ Ns(cur) \in Nat
  BY SMT DEF IsTime, Ns
<1>3. TimeUntil(ts, cur) = IF r < 0 THEN 0 ELSE r
  BY Zenon DEF TimeUntil, Wait
<1> HIDE DEF sec, nsec
<1> HIDE DEF D
<1>4. /\ r \in Int
      /\ sec * 1000000000 + nsec < r * 1000000
      /\ r * 1000000 <= sec * 1000000000 + nsec + 2000000
  BY SMT, <1>1, RoundUpFact
<1> HIDE DEF r
<1>5. D < r * 1000000 /\ r * 1000000 <= D + 2000000
  BY SMT, <1>2, <1>4
<1> QED BY SMT, <1>2, <1>3, <1>4, <1>5 DEF D

-----------------------------------------------------------------------------
(* A poll that sits out its timeout goes beyond the first timer. *)
WaitsLongEnough ==
    (pc = "poll" /\ Active # {}) => \E t \in Active : Ns(m_timer[t]) < Ns(now) + msec * NsPerMs

TimerInv == TimerTypeOK /\ WaitsLongEnough /\ NoIdleTurn /\ NoOversleep

LEMMA TimerTypeInit == TimerInit => TimerTypeOK
<1> SUFFICES ASSUME TimerInit PROVE TimerTypeOK
  OBVIOUS
<1>1. now \in Time
  <2>1. PICK n \in StartNsec : now = [sec |-> 0, nsec |-> n]
    BY SMT DEF TimerInit
  <2>2. n \in Nat /\ n < 1000000000
    <3>1. n \in Nsecs
      BY Zenon, TimerAssumption DEF Nsecs
    <3> QED BY SMT, <3>1, NsecFact
  <2> QED BY SMT, <2>1, <2>2, TimeFact
<1>2. m_timer \in [Timer -> TimerElem]
  BY Zenon, ElemFact DEF TimerInit
<1>3. msec \in Nat /\ pc \in {"turn", "poll", "call"} /\ turns \in Nat
  BY SMT DEF TimerInit
<1>4. timed_out \in BOOLEAN
  BY Zenon DEF TimerInit
<1> QED BY Zenon, <1>1, <1>2, <1>3, <1>4, TimerTypeIs

LEMMA TimerTypeStep == TimerTypeOK /\ [TimerNext]_timerListVars => TimerTypeOK'
<1> SUFFICES ASSUME TimerTypeOK, [TimerNext]_timerListVars PROVE TimerTypeOK'
  OBVIOUS
<1>0. /\ now \in Time /\ m_timer \in [Timer -> TimerElem] /\ msec \in Nat
      /\ pc \in {"turn", "poll", "call"} /\ timed_out \in BOOLEAN /\ turns \in Nat
  BY Zenon, TimerTypeIs
<1> SUFFICES /\ now' \in Time /\ m_timer' \in [Timer -> TimerElem] /\ msec' \in Nat
             /\ pc' \in {"turn", "poll", "call"} /\ timed_out' \in BOOLEAN /\ turns' \in Nat
  BY Zenon DEF TimerTypeOK, TimerElem, Nsecs
<1>1. ASSUME NEW t \in Timer, NEW ms \in Intervals, NEW single \in BOOLEAN, Start(t, ms, single)
      PROVE  m_timer' \in [Timer -> TimerElem]
  <2>1. ms \in Nat
    BY Zenon, TimerAssumption
  <2>2. Armed(ms, single) \in TimerElem
    BY Zenon, <1>0, <2>1, ArmedFact
  <2> QED BY Zenon, <1>0, <1>1, <2>2 DEF Start
<1>2. ASSUME NEW t \in Timer, Stop(t)
      PROVE  m_timer' \in [Timer -> TimerElem]
  <2>1. [m_timer[t] EXCEPT !.active = FALSE] \in TimerElem
    BY Zenon, <1>0, ElemFact
  <2>2. m_timer' = [m_timer EXCEPT ![t] = [m_timer[t] EXCEPT !.active = FALSE]]
    BY Zenon, <1>0, <1>2 DEF Stop
  <2> QED BY Zenon, <1>0, <2>1, <2>2
<1>3. ASSUME GetNextTimerBegin
      PROVE  now' \in Time /\ msec' \in Nat
  <2>1. now' \in Time
    <3>1. PICK d \in Handling : now' = After(now, 0, d)
      BY Zenon, <1>3 DEF GetNextTimerBegin
    <3>2. d \in Nat
      BY Zenon, TimerAssumption
    <3> QED BY SMT, <1>0, <3>1, <3>2, AfterFact
  <2>2. CASE Active = {}
    BY SMT, <1>3, <2>1, <2>2 DEF GetNextTimerBegin
  <2>3. CASE Active # {}
    <3>1. msec' = TimeUntil(m_timer[NextTimer], now')
      BY Zenon, <1>3, <2>3 DEF GetNextTimerBegin
    <3>2. NextTimer \in Timer
      BY Zenon, <2>3, NextIsFirst DEF Active
    <3>3. IsTime(m_timer[NextTimer]) /\ IsTime(now')
      <4>1. IsTime(m_timer[NextTimer])
        BY Zenon, <1>0, <3>2, ElemFact
      <4> QED BY SMT, <2>1, <4>1, TimeFact
    <3> QED BY SMT, <2>1, <3>1, <3>3, TimeUntilFact
  <2> QED BY Zenon, <2>1, <2>2, <2>3
<1>4. ASSUME Poll
      PROVE  now' \in Time /\ turns' \in Nat
  <2>1. PICK d \in Delays : now' = After(now, msec, d) \/ now' = After(now, 0, d)
    BY Zenon, <1>4 DEF Poll
  <2>2. d \in Nat
    BY Zenon, TimerAssumption
  <2>3. now' \in Time
    BY SMT, <1>0, <2>1, <2>2, AfterFact
  <2> QED BY SMT, <1>0, <1>4, <2>3 DEF Poll
<1>5. ASSUME CallNextTimer
      PROVE  m_timer' \in [Timer -> TimerElem]
  <2>1. ASSUME NEW t \in Timer PROVE Called(m_timer[t]) \in TimerElem
    <3>1. m_timer[t] \in TimerElem
      BY Zenon, <1>0
    <3>2. [m_timer[t] EXCEPT !.active = FALSE] \in TimerElem /\ m_timer[t].interval \in Nat
      BY Zenon, <3>1, ElemFact
    <3>3. Armed(m_timer[t].interval, FALSE) \in TimerElem
      BY Zenon, <1>0, <3>2, ArmedFact
    <3> QED BY Zenon, <3>2, <3>3 DEF Called
  <2> QED BY Zenon, <1>0, <1>5, <2>1 DEF CallNextTimer
<1>6. CASE UNCHANGED timerListVars
  BY SMT, <1>0, <1>6 DEF timerListVars
<1>7. ASSUME NEW t \in Timer, NEW ms \in Intervals, NEW single \in BOOLEAN, Start(t, ms, single)
      PROVE  UNCHANGED <<now, msec, pc, timed_out, turns>>
  BY Zenon, <1>7 DEF Start
<1>8. ASSUME NEW t \in Timer, Stop(t)
      PROVE  UNCHANGED <<now, msec, pc, timed_out, turns>>
  BY Zenon, <1>8 DEF Stop
<1>9. CASE GetNextTimerBegin
  BY SMT, <1>0, <1>3, <1>9 DEF GetNextTimerBegin
<1>10. CASE Poll
  <2>1. timed_out' \in BOOLEAN
    BY Zenon, <1>10 DEF Poll
  <2>2. pc' = "call" /\ m_timer' = m_timer /\ msec' = msec
    BY Zenon, <1>10 DEF Poll
  <2> QED BY Zenon, <1>0, <1>4, <1>10, <2>1, <2>2
<1>11. CASE CallNextTimer
  <2>1. pc' = "turn" /\ timed_out' = FALSE /\ now' = now /\ msec' = msec /\ turns' = turns
    BY Zenon, <1>11 DEF CallNextTimer
  <2> QED BY Zenon, <1>0, <1>5, <1>11, <2>1
<1> QED
  BY SMT, <1>0, <1>1, <1>2, <1>6, <1>7, <1>8, <1>9, <1>10, <1>11 DEF TimerNext

(* The list of timers, the clock and the poll timeout are what their types *)
(* say: the carry of nanoseconds leaves timespecs normalized, and the      *)
(* timeout handed to poll is never the negative number it takes for an     *)
(* infinite wait.                                                          *)
THEOREM TimerTypeCorrect == TimerSpec => []TimerTypeOK
  BY TimerTypeInit, TimerTypeStep, PTL DEF TimerSpec

LEMMA TimerInvInit == TimerInit => TimerInv
  BY SMT, TimerTypeInit DEF TimerInit, TimerInv, WaitsLongEnough, NoIdleTurn, NoOversleep

(* The timeout computed for the first timer, whatever the handlers of the  *)
(* turn have taken.                                                        *)
LEMMA BeginWaits ==
    ASSUME TimerTypeOK, TimerTypeOK', GetNextTimerBegin
    PROVE  WaitsLongEnough' /\ NoIdleTurn' /\ NoOversleep'
<1>0. /\ now' \in Time /\ m_timer \in [Timer -> TimerElem] /\ pc' = "poll"
      /\ m_timer' = m_timer /\ Active' = Active /\ msec' \in Nat
  <2>1. m_timer' = m_timer /\ pc' = "poll"
    BY Zenon DEF GetNextTimerBegin
  <2> QED BY Zenon, <2>1, TimerTypeIs DEF Active, TimerTypeOK
<1>1. \A t \in Active : IsTime(m_timer[t])
  BY Zenon, <1>0, ElemFact DEF Active
<1>2. IsTime(now')
  BY SMT, <1>0, TimeFact
<1>3. CASE Active = {}
  <2>1. msec' = 1000
    BY SMT, <1>3 DEF GetNextTimerBegin
  <2> QED BY SMT, <1>0, <1>3, <2>1 DEF WaitsLongEnough, NoIdleTurn, NoOversleep
<1>4. CASE Active # {}
  <2> DEFINE f == m_timer[NextTimer]
  <2>1. NextTimer \in Active /\ \A u \in Active : Ns(f) <= Ns(m_timer[u])
    BY Zenon, <1>4, NextIsFirst
  <2>2. msec' = TimeUntil(f, now')
    BY Zenon, <1>4 DEF GetNextTimerBegin
  <2>3. IsTime(f)
    BY Zenon, <1>1, <2>1
  <2>4. /\ Ns(f) < Ns(now') + msec' * 1000000
        /\ msec' * 1000000 <= (IF Ns(f) > Ns(now') THEN Ns(f) - Ns(now') ELSE 0) + 2000000
    BY SMT, <1>2, <2>2, <2>3, TimeUntilFact
  <2>5. WaitsLongEnough'
    BY SMT, <1>0, <2>1, <2>4 DEF WaitsLongEnough, NsPerMs
  <2>6. NoIdleTurn'
    <3>1. ASSUME msec' = 0 PROVE Ns(f) < Ns(now')
      <4>1. Ns(f) \in Nat /\ Ns(now') \in Nat
        BY SMT, <1>2, <2>3, NsFact
      <4> QED BY SMT, <2>4, <3>1, <4>1
    <3>2. ASSUME msec' = 0 PROVE Before(m_timer[NextTimer], now')
      BY SMT, <1>2, <2>3, <3>1, <3>2, NsFact
    <3>3. ASSUME msec' = 0 PROVE \E t \in Active' : Due(t)'
      BY Zenon, <1>0, <2>1, <3>2, <3>3 DEF Due, Active
    <3> QED BY SMT, <1>0, <3>3 DEF NoIdleTurn
  <2>7. NoOversleep'
    <3>1. ASSUME NEW t \in Active
          PROVE  LET left == Span(now', m_timer[t])
                 IN  msec' * NsPerMs <= (IF left > 0 THEN left ELSE 0) + 2 * NsPerMs
      <4>1. Span(now', m_timer[t]) = Ns(m_timer[t]) - Ns(now')
        BY SMT, <1>1, <1>2, NsFact
      <4>2. Ns(f) \in Nat /\ Ns(now') \in Nat /\ Ns(m_timer[t]) \in Nat
        BY SMT, <1>1, <1>2, <2>3, NsFact
      <4>3. Ns(f) <= Ns(m_timer[t])
        BY Zenon, <2>1
      <4> QED BY SMT, <1>0, <2>4, <4>1, <4>2, <4>3 DEF NsPerMs
    <3> QED BY Zenon, <1>0, <3>1 DEF NoOversleep, Span
  <2> QED BY Zenon, <2>5, <2>6, <2>7
<1> QED BY Zenon, <1>3, <1>4

LEMMA PollWakes ==
    ASSUME TimerTypeOK, TimerTypeOK', WaitsLongEnough, Poll
    PROVE  WaitsLongEnough' /\ NoIdleTurn' /\ NoOversleep'
<1>0. /\ now \in Time /\ now' \in Time /\ m_timer \in [Timer -> TimerElem] /\ msec \in Nat
      /\ pc = "poll" /\ pc' = "call" /\ m_timer' = m_timer /\ Active' = Active
  <2>1. m_timer' = m_timer /\ pc = "poll" /\ pc' = "call"
    BY Zenon DEF Poll
  <2> QED BY Zenon, <2>1, TimerTypeIs DEF Active, TimerTypeOK
<1>1. pc' # "poll"
  BY SMT, <1>0
<1>2. ASSUME timed_out', Active # {} PROVE \E t \in Active' : Due(t)'
  <2>1. PICK d \in Delays : now' = After(now, msec, d)
    BY Zenon, <1>2 DEF Poll
  <2>2. d \in Nat
    BY Zenon, TimerAssumption
  <2>3. Ns(now') = Ns(now) + msec * 1000000 + d
    BY SMT, <1>0, <2>1, <2>2, AfterFact
  <2>4. PICK t \in Active : Ns(m_timer[t]) < Ns(now) + msec * 1000000
    BY SMT, <1>0, <1>2 DEF WaitsLongEnough, NsPerMs
  <2>5. IsTime(m_timer[t])
    BY Zenon, <1>0, ElemFact DEF Active
  <2>6. IsTime(now) /\ IsTime(now')
    BY SMT, <1>0, TimeFact
  <2>7. Ns(m_timer[t]) \in Nat /\ Ns(now) \in Nat /\ Ns(now') \in Nat
    BY SMT, <2>5, <2>6, NsFact
  <2>8. Ns(m_timer[t]) < Ns(now')
    BY SMT, <1>0, <2>2, <2>3, <2>4, <2>7
  <2>9. Before(m_timer[t], now')
    BY SMT, <2>5, <2>6, <2>8, NsFact
  <2> QED BY Zenon, <1>0, <2>9 DEF Due, Active
<1>3. NoIdleTurn'
  BY Zenon, <1>0, <1>1, <1>2 DEF NoIdleTurn
<1>4. WaitsLongEnough' /\ NoOversleep'
  BY Zenon, <1>1 DEF WaitsLongEnough, NoOversleep
<1> QED BY Zenon, <1>3, <1>4

LEMMA TimerInvStep == TimerInv /\ [TimerNext]_timerListVars => TimerInv'
<1> SUFFICES ASSUME TimerInv, [TimerNext]_timerListVars PROVE TimerInv'
  OBVIOUS
<1>0. TimerTypeOK /\ TimerTypeOK' /\ WaitsLongEnough
  BY Zenon, TimerTypeStep DEF TimerInv
<1>1. ASSUME pc' = "turn" PROVE TimerInv'
  BY SMT, <1>0, <1>1 DEF TimerInv, WaitsLongEnough, NoIdleTurn, NoOversleep
<1>2. ASSUME NEW t \in Timer, NEW ms \in Intervals, NEW single \in BOOLEAN, Start(t, ms, single)
      PROVE  TimerInv'
  BY Zenon, <1>1, <1>2 DEF Start
<1>3. ASSUME NEW t \in Timer, Stop(t)
      PROVE  TimerInv'
  BY Zenon, <1>1, <1>3 DEF Stop
<1>4. CASE GetNextTimerBegin
  BY Zenon, <1>0, <1>4, BeginWaits DEF TimerInv
<1>5. CASE Poll
  BY Zenon, <1>0, <1>5, PollWakes DEF TimerInv
<1>6. CASE CallNextTimer
  BY Zenon, <1>1, <1>6 DEF CallNextTimer
<1>7. CASE UNCHANGED timerListVars
  <2>1. /\ now' = now /\ m_timer' = m_timer /\ msec' = msec /\ pc' = pc
        /\ timed_out' = timed_out /\ Active' = Active /\ \A t : Due(t)' = Due(t)
    BY Zenon, <1>7 DEF timerListVars, Active, Due
  <2>2. WaitsLongEnough' = WaitsLongEnough /\ NoIdleTurn' = NoIdleTurn
    BY Zenon, <2>1 DEF WaitsLongEnough, NoIdleTurn
  <2>3. NoOversleep' = NoOversleep
    BY Zenon, <2>1 DEF NoOversleep, Span
  <2> QED BY Zenon, <1>0, <2>2, <2>3 DEF TimerInv
<1> QED BY Zenon, <1>2, <1>3, <1>4, <1>5, <1>6, <1>7 DEF TimerNext

LEMMA TimerInvariant == TimerSpec => []TimerInv
  BY TimerInvInit, TimerInvStep, PTL DEF TimerSpec

(* A poll that sat out the timeout getNextTimerBegin computed finds a      *)
(* timer callNextTimer will call, and poll is not told to wait only when   *)
(* there is one, for any set of timers, any intervals and any delays.      *)
THEOREM TimerNoIdleTurn == TimerSpec => []NoIdleTurn
<1>1. TimerInv => NoIdleTurn
  BY Zenon DEF TimerInv
<1> QED BY <1>1, TimerInvariant, PTL

(* The rounding of the poll timeout delays no timer by more than two       *)
(* milliseconds, and min_timer_elem lets none wait behind a later one.     *)
THEOREM TimerNoOversleep == TimerSpec => []NoOversleep
<1>1. TimerInv => NoOversleep
  BY Zenon DEF TimerInv
<1> QED BY <1>1, TimerInvariant, PTL
=============================================================================
