------------------------- MODULE RtspSessionProofs -------------------------
(***************************************************************************)
(* Theorems about the configuration and the session thread that works on   *)
(* it, for any set of pids, any table size, any number of retunes and both *)
(* transports.  The session's type correctness, its inductive invariant    *)
(* SessionInv and the refinement of the configuration are proved together: *)
(* that a failed connect is a step of the configuration needs SessionInv,  *)
(* that the configuration's types are kept needs the refinement.           *)
(***************************************************************************)
EXTENDS RtspSession, TLAPS

-----------------------------------------------------------------------------
(***************************************************************************)
(* The configuration                                                       *)
(***************************************************************************)

(* What PidList's operators return. *)
LEMMA PidStatusOfType ==
    ASSUME NEW list PROVE PidStatusOf(list) \in {"STATIONARY", "CHANGED"}
  BY DEF PidStatusOf

LEMMA CommittedType ==
    ASSUME NEW status \in PidElemStatus PROVE Committed(status) \in PidElemStatus
  BY DEF Committed, PidElemStatus

LEMMA UpdatedPidType ==
    ASSUME PidListTypeOK, NEW p \in Pids, NEW want, NEW accepted
    PROVE  UpdatedPid(p, want, accepted) \in PidElemStatus
  BY DEF PidListTypeOK, UpdatedPid, PidElemStatus

(* The actions on the pid list keep its type. *)
LEMMA PidListActionsType ==
    ASSUME PidListTypeOK,
           \/ \E want \in KernelLists : UpdatePidList(want)
           \/ ClearPidList
           \/ CommitPidStates
    PROVE  PidListTypeOK'
<1>1. ASSUME NEW want \in KernelLists, UpdatePidList(want)
      PROVE  PidListTypeOK'
  BY <1>1, UpdatedPidType, PidStatusOfType DEF PidListTypeOK, UpdatePidList
<1>2. CASE ClearPidList
  BY <1>2 DEF PidListTypeOK, ClearPidList, PidElemStatus
<1>3. CASE CommitPidStates
  BY <1>3, CommittedType, PidStatusOfType DEF PidListTypeOK, CommitPidStates
<1> QED BY <1>1, <1>2, <1>3

LEMMA ActivePidsType == ActivePids \in SUBSET Pids
  BY DEF ActivePids

LEMMA RequestPidsType ==
    ASSUME ConfigTypeOK, RequestPids
    PROVE  /\ PidListTypeOK'
           /\ m_requested_pids' \in SUBSET Pids
           /\ m_ca_pids' \in SUBSET Pids
           /\ m_ca_dirty' \in BOOLEAN
<1>1. PidListTypeOK'
  BY PidListActionsType DEF ConfigTypeOK, RequestPids
<1> QED BY <1>1, ActivePidsType DEF ConfigTypeOK, RequestPids, WantedPids

LEMMA GetPlayDataType ==
    ASSUME ConfigTypeOK, GetPlayData
    PROVE  /\ PidListTypeOK'
           /\ m_requested_pids' \in SUBSET Pids
           /\ m_ca_pids' \in SUBSET Pids
           /\ m_ca_dirty' \in BOOLEAN
<1>1. CASE GetPidStatus = "CHANGED"
  BY <1>1, RequestPidsType DEF GetPlayData
<1>2. CASE GetPidStatus # "CHANGED"
  BY <1>2 DEF GetPlayData, PlayKept, ConfigTypeOK, PidListTypeOK, listVars, caVars
<1> QED BY <1>1, <1>2

LEMMA ServerType ==
    ASSUME ConfigTypeOK, SetupServer \/ PlayServer \/ ServerGone
    PROVE  server_tune' \in -1..MaxTunes /\ server_pids' \in SUBSET Pids
  BY ActivePidsType, ConfigAssumption
  DEF ConfigTypeOK, SetupServer, PlayServer, ServerGone, TuneAfterData, NotTuned,
      WantedPids, AddPids, DelPids, PlayKept

LEMMA StatusAfterDataType ==
    ASSUME m_status \in ChannelStatus PROVE StatusAfterData \in ChannelStatus
  BY DEF StatusAfterData, ChannelStatus

LEMMA KernelMessageType ==
    ASSUME ConfigTypeOK, KernelMessage PROVE ConfigTypeOK'
<1> USE DEF ConfigTypeOK, pidVars, caVars, tuneVars, serverVars, listVars
<1>1. CASE SetChannelChanged
  BY <1>1, ConfigAssumption DEF SetChannelChanged, PidListTypeOK, ChannelStatus
<1>2. CASE SetParameter
  BY <1>2, ConfigAssumption DEF SetParameter, PidListTypeOK
<1>3. CASE ClearProperty
  <2>1. PidListTypeOK'
    BY <1>3, PidListActionsType DEF ClearProperty
  <2> QED BY <1>3, <2>1, ConfigAssumption DEF ClearProperty, SetCaPids
<1>4. CASE VoltageOff
  BY <1>4 DEF VoltageOff, PidListTypeOK, ChannelStatus
<1>5. ASSUME NEW want \in KernelLists, SetPidList(want)
      PROVE  ConfigTypeOK'
  <2>1. PidListTypeOK'
    BY <1>5, PidListActionsType DEF SetPidList
  <2>2. m_ca_pids' \in SUBSET Pids /\ m_ca_dirty' \in BOOLEAN
    BY <1>5 DEF SetPidList, SetCaPids, PsiReports
  <2> QED BY <1>5, <2>1, <2>2 DEF SetPidList
<1> QED BY <1>1, <1>2, <1>3, <1>4, <1>5 DEF KernelMessage

LEMMA ConfigStepType ==
    ASSUME ConfigTypeOK, [ConfigNext]_configVars PROVE ConfigTypeOK'
<1> USE DEF ConfigTypeOK
<1>1. CASE KernelMessage
  BY <1>1, KernelMessageType
<1>2. ASSUME NEW pids \in PsiReports, PsiReport(pids)
      PROVE  ConfigTypeOK'
  BY <1>2 DEF PsiReport, SetCaPids, PsiReports, PidListTypeOK, pidVars, tuneVars, serverVars, listVars
<1>3. CASE RequestSetup
  BY <1>3, RequestPidsType, ServerType, StatusAfterDataType DEF RequestSetup, GetSetupData, tuneVars
<1>4. CASE RequestPlay
  BY <1>4, GetPlayDataType, ServerType, StatusAfterDataType DEF RequestPlay, tuneVars
<1>5. CASE ConnectionLost
  BY <1>5, ServerType, StatusAfterDataType
  DEF ConnectionLost, PidListTypeOK, pidVars, caVars, tuneVars, listVars
<1>6. CASE SetChannelRetry
  BY <1>6 DEF SetChannelRetry, PidListTypeOK, ChannelStatus, pidVars, caVars, tuneVars, serverVars, listVars
<1>7. CASE UNCHANGED configVars
  BY <1>7 DEF configVars, PidListTypeOK, pidVars, caVars, tuneVars, serverVars, listVars
<1> QED BY <1>1, <1>2, <1>3, <1>4, <1>5, <1>6, <1>7 DEF ConfigNext

LEMMA ConfigInitType == ConfigInit => ConfigTypeOK
  BY ConfigAssumption
  DEF ConfigInit, ConfigTypeOK, PidListInit, PidListTypeOK, PidElemStatus, ChannelStatus, NotTuned

(* Type correctness of the configuration. *)
THEOREM ConfigTypeCorrect == ConfigSpec => []ConfigTypeOK
<1>1. ConfigInit => ConfigTypeOK
  BY ConfigInitType
<1>2. ConfigTypeOK /\ [ConfigNext]_configVars => ConfigTypeOK'
  BY ConfigStepType
<1> QED BY <1>1, <1>2, PTL DEF ConfigSpec

-----------------------------------------------------------------------------
(***************************************************************************)
(* NoLostPid.  ConfigInv says what m_requested_pids remembers: the pids    *)
(* committed in the table and the ca pids, unless either is flagged.       *)
(***************************************************************************)

LEMMA StationaryMeansCommitted ==
    ASSUME PidListTypeOK, PidStatusOf(m_pid_list) = "STATIONARY"
    PROVE  CommittedPids = ActivePids
  BY DEF PidListTypeOK, PidStatusOf, CommittedPids, ActivePids, PidElemStatus

LEMMA ConfigInvImpliesNoLostPid ==
    ASSUME ConfigTypeOK, ConfigInv PROVE NoLostPid
<1> SUFFICES ASSUME m_requested_pids # {}, GetPidStatus = "STATIONARY"
             PROVE  m_requested_pids = WantedPids
  BY DEF NoLostPid
<1>1. m_pid_status = "STATIONARY" /\ ~m_ca_dirty
  BY DEF GetPidStatus, ConfigTypeOK, PidListTypeOK
<1>2. CommittedPids = ActivePids
  BY <1>1, StationaryMeansCommitted DEF ConfigInv, ConfigTypeOK
<1> QED BY <1>1, <1>2 DEF ConfigInv, WantedPids

(* An update of the list moves pids between committed and not only through *)
(* a request: what was committed stays so.                                 *)
LEMMA UpdateKeepsCommitted ==
    ASSUME PidListTypeOK, NEW want \in KernelLists, UpdatePidList(want)
    PROVE  /\ CommittedPids' = CommittedPids
           /\ m_pid_status' = PidStatusOf(m_pid_list')
<1>1. PICK accepted \in Accepted(want) :
          m_pid_list' = [p \in Pids |-> UpdatedPid(p, want, accepted)]
  BY DEF UpdatePidList
<1>2. accepted \subseteq NewPids(want)
  BY DEF Accepted
<1>3. ASSUME NEW p \in Pids
      PROVE  m_pid_list'[p] \in {"PID_VAILD", "PID_DELETE"}
                 <=> m_pid_list[p] \in {"PID_VAILD", "PID_DELETE"}
  <2>1. p \in accepted => m_pid_list[p] = "PID_INVALID"
    BY <1>2 DEF NewPids
  <2> QED BY <1>1, <2>1 DEF UpdatedPid, PidListTypeOK, PidElemStatus
<1> QED BY <1>3 DEF CommittedPids, UpdatePidList

(* After a request the table is committed, and holds what was requested.   *)
LEMMA CommitRequests ==
    ASSUME PidListTypeOK, CommitPidStates
    PROVE  /\ CommittedPids' = ActivePids
           /\ m_pid_status' = PidStatusOf(m_pid_list')
  BY DEF PidListTypeOK, PidElemStatus, CommitPidStates, Committed, CommittedPids, ActivePids

LEMMA RequestPidsInv ==
    ASSUME ConfigTypeOK, RequestPids PROVE ConfigInv'
<1>1. CommittedPids' = ActivePids /\ m_pid_status' = PidStatusOf(m_pid_list')
  BY CommitRequests DEF RequestPids, ConfigTypeOK
<1> QED BY <1>1 DEF RequestPids, WantedPids, ConfigInv

(* A report either changes nothing or raises m_ca_dirty. *)
LEMMA SetCaPidsDirty ==
    ASSUME NEW pids, SetCaPids(pids)
    PROVE  ~m_ca_dirty' => ~m_ca_dirty /\ m_ca_pids' = m_ca_pids
  BY DEF SetCaPids

LEMMA ConfigStepInv ==
    ASSUME ConfigTypeOK, ConfigInv, [ConfigNext]_configVars PROVE ConfigInv'
<1> USE DEF pidVars, caVars, tuneVars, serverVars, listVars
<1>1. CASE SetChannelChanged \/ SetParameter \/ VoltageOff
  BY <1>1 DEF SetChannelChanged, SetParameter, VoltageOff, ConfigInv, CommittedPids
<1>2. CASE ClearProperty
  BY <1>2 DEF ClearProperty, ClearPidList, ConfigInv, PidStatusOf
<1>3. ASSUME NEW want \in KernelLists, SetPidList(want)
      PROVE  ConfigInv'
  <2>1. CommittedPids' = CommittedPids /\ m_pid_status' = PidStatusOf(m_pid_list')
    BY <1>3, UpdateKeepsCommitted DEF SetPidList, ConfigTypeOK
  <2>2. ~m_ca_dirty' => ~m_ca_dirty /\ m_ca_pids' = m_ca_pids
    BY <1>3, SetCaPidsDirty DEF SetPidList
  <2> QED BY <1>3, <2>1, <2>2 DEF SetPidList, ConfigInv
<1>4. ASSUME NEW pids \in PsiReports, PsiReport(pids)
      PROVE  ConfigInv'
  <2>1. ~m_ca_dirty' => ~m_ca_dirty /\ m_ca_pids' = m_ca_pids
    BY <1>4, SetCaPidsDirty DEF PsiReport
  <2> QED BY <1>4, <2>1 DEF PsiReport, ConfigInv, CommittedPids
<1>5. CASE RequestSetup
  BY <1>5, RequestPidsInv DEF RequestSetup, GetSetupData
<1>6. CASE RequestPlay
  <2>1. CASE GetPidStatus = "CHANGED"
    BY <1>6, <2>1, RequestPidsInv DEF RequestPlay, GetPlayData
  <2>2. CASE GetPidStatus # "CHANGED"
    BY <1>6, <2>2 DEF RequestPlay, GetPlayData, PlayKept, ConfigInv, CommittedPids
  <2> QED BY <2>1, <2>2
<1>7. CASE ConnectionLost \/ SetChannelRetry \/ UNCHANGED configVars
  BY <1>7 DEF ConnectionLost, SetChannelRetry, configVars, ConfigInv, CommittedPids
<1> QED BY <1>1, <1>2, <1>3, <1>4, <1>5, <1>6, <1>7 DEF ConfigNext, KernelMessage

LEMMA ConfigInitInv == ConfigInit => ConfigInv
  BY DEF ConfigInit, PidListInit, PidStatusOf, ConfigInv

(* The bookkeeping of the table and of m_requested_pids agree. *)
THEOREM ConfigInvariant == ConfigSpec => []ConfigInv
<1>1. ConfigInit => ConfigInv
  BY ConfigInitInv
<1>2. ConfigTypeOK /\ ConfigInv /\ [ConfigNext]_configVars => ConfigInv'
  BY ConfigStepInv
<1> QED BY <1>1, <1>2, ConfigTypeCorrect, PTL DEF ConfigSpec

(* No pid that is wanted, or no longer wanted, is lost between the kernel, *)
(* the PSI parser and the requests.                                        *)
THEOREM ConfigNoLostPid == ConfigSpec => []NoLostPid
<1>1. ConfigTypeOK /\ ConfigInv => NoLostPid
  BY ConfigInvImpliesNoLostPid
<1> QED BY <1>1, ConfigTypeCorrect, ConfigInvariant, PTL

-----------------------------------------------------------------------------
(***************************************************************************)
(* The session thread                                                      *)
(***************************************************************************)

LEMMA SessionInitTypeInv == SessionInit => SessionTypeOK /\ SessionInv
<1> SUFFICES ASSUME SessionInit PROVE SessionTypeOK /\ SessionInv
  OBVIOUS
<1>1. ConfigTypeOK
  BY ConfigInitType DEF SessionInit
<1>2. SessionTypeOK
  <2>1. m_reconnect_attempts \in Nat /\ m_attempted_generation \in 0..MaxTunes
    BY ConfigAssumption DEF SessionInit
  <2>2. m_timers \in SUBSET Timers
    BY DEF SessionInit
  <2> QED BY <1>1, <2>1, <2>2 DEF SessionInit, SessionTypeOK, RtspTypeOK, RtspStatus, RtspRequest
<1>3. SessionInv
  BY DEF SessionInit, ConfigInit, SessionInv, TimersFitStatus, NeverStranded, RequestFitsStatus,
         ConnectionState, InSession, Streaming, TunedToLatest, RequestedDelivered,
         SetupPending, SessionFacts, NotTuned
<1> QED BY <1>2, <1>3

-----------------------------------------------------------------------------
(***************************************************************************)
(* resetConnect establishes the invariant from any state.                  *)
(***************************************************************************)

LEMMA AttemptsType == \A n \in Nat : AttemptsAfter(n) \in Nat
  BY DEF AttemptsAfter

LEMMA ResetConnectStep ==
    ASSUME SessionTypeOK, SessionInv,
           NEW auto \in BOOLEAN, NEW status \in ChannelStatus,
           auto \/ status # "STABLE",
           ResetConnect(auto, status)
    PROVE  /\ SessionInv'
           /\ m_status' \in {status, "STABLE"}
           /\ status = "INVALID" => m_status' = status
           /\ status = "STABLE" => m_status' = status
           /\ ServerGone
           /\ UNCHANGED tuneVars
           /\ RtspTypeOK'
<1> DEFINE retry == ~NoRetry(auto, status)
<1>1. /\ CloseConnection
      /\ m_timers' = TimersAfterReset(retry)
      /\ m_status' = IF retry THEN "STABLE" ELSE status
      /\ m_reconnect_attempts' = IF retry THEN AttemptsAfter(m_reconnect_attempts) ELSE 0
      /\ UNCHANGED <<tuneVars, m_attempted_generation>>
  BY DEF ResetConnect
<1>2. /\ status = "INVALID" => ~retry
      /\ ~retry => status # "STABLE"
  BY DEF NoRetry, ChannelStatus
<1>3. m_reconnect_attempts' \in Nat
  BY <1>1, AttemptsType DEF SessionTypeOK, RtspTypeOK
<1>4. m_timers' \in SUBSET {"reconnect"} /\ (retry <=> "reconnect" \in m_timers')
  BY <1>1 DEF TimersAfterReset
<1>5. m_params' \in {0, m_tune_generation'} /\ m_attempted_generation' <= m_tune_generation'
  BY <1>1 DEF SessionInv, SessionFacts, tuneVars
<1>6. SessionInv'
  <2> HIDE DEF retry
  <2> QED BY <1>1, <1>2, <1>4, <1>5
  DEF CloseConnection, ServerGone, SessionInv, TimersFitStatus, NeverStranded, RequestFitsStatus,
      ConnectionState, InSession, Streaming, TunedToLatest, RequestedDelivered, SetupPending,
      SessionFacts
<1>7. RtspTypeOK'
  BY <1>1, <1>3, <1>4 DEF CloseConnection, SessionTypeOK, RtspTypeOK, RtspStatus, RtspRequest, Timers
<1> QED BY <1>1, <1>2, <1>6, <1>7 DEF CloseConnection

LEMMA ReconnectStep ==
    ASSUME SessionTypeOK, SessionInv, Reconnect
    PROVE  SessionInv' /\ RtspTypeOK' /\ ConnectionLost
<1>1. m_status \in ChannelStatus
  BY DEF SessionTypeOK, ConfigTypeOK
<1>2. /\ SessionInv' /\ RtspTypeOK' /\ ServerGone /\ UNCHANGED tuneVars
      /\ m_status' \in {m_status, "STABLE"}
      /\ m_status = "INVALID" => m_status' = m_status
  BY <1>1, ResetConnectStep DEF Reconnect
<1>3. m_status' \in {m_status, StatusAfterData}
  BY <1>1, <1>2 DEF StatusAfterData, ChannelStatus
<1> QED BY <1>2, <1>3 DEF Reconnect, ConnectionLost

(* The same after the data of a request was taken. *)
LEMMA ResetAfterData ==
    ASSUME SessionTypeOK, SessionInv, ResetConnect(TRUE, StatusAfterData)
    PROVE  /\ SessionInv' /\ RtspTypeOK' /\ ServerGone /\ UNCHANGED tuneVars
           /\ m_status' = StatusAfterData
<1>1. StatusAfterData \in {"INVALID", "STABLE"} /\ StatusAfterData \in ChannelStatus
  BY DEF SessionTypeOK, ConfigTypeOK, StatusAfterData, ChannelStatus
<1> QED BY <1>1, ResetConnectStep

-----------------------------------------------------------------------------
(***************************************************************************)
(* Requests                                                                *)
(***************************************************************************)

LEMMA SendSetupStep ==
    ASSUME SessionTypeOK, SessionInv, m_rtsp_status = "SESSION_ESTABLISHING",
           ~m_wait_response, SendSetup
    PROVE  SessionInv' /\ RtspTypeOK' /\ RequestSetup
<1>1. CASE /\ Sent("SETUP", "SESSION_ESTABLISHING")
           /\ m_status' = StatusAfterData
           /\ SetupServer
           /\ UNCHANGED tuneVars
  <2>1. m_status # "STABLE"
    BY DEF SessionInv, SessionFacts, SetupPending
  <2>2. m_requested_pids' = server_pids'
    BY <1>1 DEF SendSetup, GetSetupData, RequestPids, SetupServer
  <2>3. m_status' = "STABLE" => server_tune' = m_params
    BY <1>1, <2>1 DEF StatusAfterData, SetupServer, TuneAfterData
  <2>4. SessionInv'
    BY <1>1, <2>2, <2>3
    DEF Sent, backoffVars, tuneVars, SessionInv, TimersFitStatus, NeverStranded, RequestFitsStatus,
        ConnectionState, InSession, Streaming, TunedToLatest, RequestedDelivered, SetupPending,
        SessionFacts
  <2>5. RtspTypeOK'
    BY <1>1 DEF Sent, backoffVars, SessionTypeOK, RtspTypeOK, RtspStatus, RtspRequest, Timers
  <2> QED BY <1>1, <2>4, <2>5 DEF SendSetup, RequestSetup
<1>2. CASE ResetConnect(TRUE, StatusAfterData)
  BY <1>2, ResetAfterData DEF SendSetup, RequestSetup
<1> QED BY <1>1, <1>2 DEF SendSetup

(* The difference PLAY carries leaves the server with at least what we     *)
(* then believe it delivers.                                               *)
LEMMA PlayDelivers ==
    ASSUME GetPlayData, PlayServer, m_requested_pids \subseteq server_pids
    PROVE  m_requested_pids' \subseteq server_pids'
<1> DEFINE had == IF m_status = "CHANGED" THEN {} ELSE server_pids
<1>1. PlayKept \subseteq had
  BY DEF PlayKept
<1>2. CASE GetPidStatus = "CHANGED"
  <2>1. m_requested_pids' = WantedPids
    BY <1>2 DEF GetPlayData, RequestPids
  <2>2. server_pids' = (had \cup AddPids) \ DelPids
    BY <1>2 DEF PlayServer
  <2> QED BY <1>1, <2>1, <2>2 DEF AddPids, DelPids
<1>3. CASE GetPidStatus # "CHANGED"
  BY <1>1, <1>3 DEF GetPlayData, PlayServer
<1> QED BY <1>2, <1>3

LEMMA SendPlayStep ==
    ASSUME SessionTypeOK, SessionInv, Streaming,
           m_rtsp_status # "SESSION_TEARDOWNING", SendPlay
    PROVE  SessionInv' /\ RtspTypeOK' /\ (RequestPlay \/ ConnectionLost)
<1>1. CASE /\ m_session
           /\ GetPlayData
           /\ Sent("PLAY", "SESSION_PLAYING")
           /\ m_status' = StatusAfterData
           /\ PlayServer
           /\ UNCHANGED tuneVars
  <2>1. m_requested_pids' \subseteq server_pids'
    BY <1>1, PlayDelivers DEF SessionInv, RequestedDelivered, InSession
  <2>2. m_status' = "STABLE" /\ m_params # 0 => server_tune' = m_params
    BY <1>1 DEF StatusAfterData, PlayServer, TuneAfterData, SessionInv, TunedToLatest, InSession
  <2>3. SessionInv'
    BY <1>1, <2>1, <2>2
    DEF Sent, backoffVars, tuneVars, SessionInv, TimersFitStatus, NeverStranded, RequestFitsStatus,
        ConnectionState, InSession, Streaming, TunedToLatest, RequestedDelivered, SetupPending,
        SessionFacts
  <2>4. RtspTypeOK'
    BY <1>1 DEF Sent, backoffVars, SessionTypeOK, RtspTypeOK, RtspStatus, RtspRequest, Timers
  <2> QED BY <1>1, <2>3, <2>4 DEF RequestPlay
<1>2. CASE GetPlayData /\ ResetConnect(TRUE, StatusAfterData)
  BY <1>2, ResetAfterData DEF RequestPlay
<1>3. CASE Reconnect
  BY <1>3, ReconnectStep
<1> QED BY <1>1, <1>2, <1>3 DEF SendPlay

(* OPTIONS and TEARDOWN leave the configuration alone. *)
LEMMA SendOptionStep ==
    ASSUME SessionTypeOK, SessionInv, m_rtsp_status = "SESSION_TRANSMITTING", SendOption
    PROVE  SessionInv' /\ RtspTypeOK' /\ (UNCHANGED configVars \/ ConnectionLost)
<1>1. CASE m_session /\ Sent("OPTION", m_rtsp_status) /\ UNCHANGED configVars
  <2>1. SessionInv'
    BY <1>1
    DEF Sent, backoffVars, configVars, tuneVars, serverVars, pidVars, SessionInv, TimersFitStatus,
        NeverStranded, RequestFitsStatus, ConnectionState, InSession, Streaming, TunedToLatest,
        RequestedDelivered, SetupPending, SessionFacts
  <2>2. RtspTypeOK'
    BY <1>1 DEF Sent, backoffVars, SessionTypeOK, RtspTypeOK, RtspStatus, RtspRequest, Timers
  <2> QED BY <1>1, <2>1, <2>2
<1>2. CASE Reconnect
  BY <1>2, ReconnectStep
<1> QED BY <1>1, <1>2 DEF SendOption

LEMMA SendTearDownStep ==
    ASSUME SessionTypeOK, SessionInv, m_rtsp_status = "SESSION_TRANSMITTING",
           m_status = "INVALID", SendTearDown
    PROVE  SessionInv' /\ RtspTypeOK' /\ (UNCHANGED configVars \/ ConnectionLost)
<1>1. CASE m_session /\ Sent("TEARDOWN", "SESSION_TEARDOWNING") /\ UNCHANGED configVars
  <2>1. SessionInv'
    BY <1>1
    DEF Sent, backoffVars, configVars, tuneVars, serverVars, pidVars, SessionInv, TimersFitStatus,
        NeverStranded, RequestFitsStatus, ConnectionState, InSession, Streaming, TunedToLatest,
        RequestedDelivered, SetupPending, SessionFacts
  <2>2. RtspTypeOK'
    BY <1>1 DEF Sent, backoffVars, SessionTypeOK, RtspTypeOK, RtspStatus, RtspRequest, Timers
  <2> QED BY <1>1, <2>1, <2>2
<1>2. CASE Reconnect
  BY <1>2, ReconnectStep
<1> QED BY <1>1, <1>2 DEF SendTearDown

-----------------------------------------------------------------------------
(***************************************************************************)
(* The steps of the main loop.  Good stands for what every step has to     *)
(* establish; a step of the configuration is a step of ConfigNext or a     *)
(* stuttering step.                                                        *)
(***************************************************************************)

ConfigStep == ConfigNext \/ UNCHANGED configVars
Good       == SessionInv' /\ RtspTypeOK' /\ ConfigStep

LEMMA LostIsConfigStep ==
    ASSUME ConnectionLost \/ RequestSetup \/ RequestPlay PROVE ConfigStep
  BY DEF ConfigStep, ConfigNext

LEMMA ConnectStep ==
    ASSUME SessionTypeOK, SessionInv, Connect PROVE Good
<1> DEFINE timers   == IF NewTuning THEN m_timers \ {"reconnect"} ELSE m_timers
           attempts == IF NewTuning THEN 0 ELSE m_reconnect_attempts
<1>1. /\ m_rtsp_status = "CONFIG_WAITING"
      /\ m_status = "CHANGED"
      /\ m_attempted_generation' = m_tune_generation
      /\ UNCHANGED <<tuneVars, pidVars, caVars, serverVars,
                     m_rtsp_request, m_wait_response, m_session>>
  BY DEF Connect
<1>2. /\ ~m_wait_response /\ m_rtsp_request = "NONE" /\ ~m_session /\ m_fd = "closed"
      /\ server_tune = NotTuned /\ server_pids = {}
  BY <1>1 DEF SessionInv, RequestFitsStatus, ConnectionState, SessionFacts, InSession, Streaming,
              SessionTypeOK, RtspTypeOK, RtspRequest
<1>3. timers = {}
  <2>1. "keep_alive" \notin m_timers /\ "reset_connect" \notin m_timers
    BY <1>1 DEF SessionInv, TimersFitStatus
  <2>2. "reconnect" \notin timers
    BY <1>1 DEF SessionInv, SessionFacts
  <2>3. timers \in SUBSET Timers
    BY DEF SessionTypeOK, RtspTypeOK
  <2> QED BY <2>1, <2>2, <2>3 DEF Timers
<1>4. attempts \in Nat /\ AttemptsAfter(attempts) \in Nat
  BY AttemptsType DEF SessionTypeOK, RtspTypeOK
<1>5. /\ m_params' \in {0, m_tune_generation'} /\ m_attempted_generation' <= m_tune_generation'
      /\ m_attempted_generation' \in 0..MaxTunes
  BY <1>1 DEF tuneVars, SessionInv, SessionFacts, SessionTypeOK, ConfigTypeOK
<1>6. CASE /\ m_rtsp_status' = "SERVER_CONNECTING"
           /\ m_fd' = "open"
           /\ m_timers' = timers \cup {"reset_connect"}
           /\ m_reconnect_attempts' = attempts
           /\ UNCHANGED m_status
  <2> HIDE DEF timers, attempts
  <2>1. SessionInv'
    BY <1>1, <1>2, <1>3, <1>5, <1>6
    DEF serverVars, SessionInv, TimersFitStatus, NeverStranded, RequestFitsStatus, ConnectionState,
        InSession, Streaming, TunedToLatest, RequestedDelivered, SetupPending, SessionFacts
  <2>2. RtspTypeOK'
    BY <1>1, <1>2, <1>3, <1>4, <1>5, <1>6
    DEF SessionTypeOK, RtspTypeOK, RtspStatus, RtspRequest, Timers
  <2>3. UNCHANGED configVars
    BY <1>1, <1>6 DEF configVars
  <2> QED BY <2>1, <2>2, <2>3 DEF Good, ConfigStep
<1>7. CASE /\ m_status' = "STABLE"
           /\ m_timers' = timers \cup {"reconnect"}
           /\ m_reconnect_attempts' = AttemptsAfter(attempts)
           /\ UNCHANGED <<m_rtsp_status, m_fd>>
  <2> HIDE DEF timers, attempts
  <2>1. SessionInv'
    BY <1>1, <1>2, <1>3, <1>5, <1>7
    DEF serverVars, SessionInv, TimersFitStatus, NeverStranded, RequestFitsStatus, ConnectionState,
        InSession, Streaming, TunedToLatest, RequestedDelivered, SetupPending, SessionFacts
  <2>2. RtspTypeOK'
    BY <1>1, <1>2, <1>3, <1>4, <1>5, <1>7
    DEF SessionTypeOK, RtspTypeOK, RtspStatus, RtspRequest, Timers
  <2>3. ConnectionLost
    BY <1>1, <1>2, <1>7 DEF ConnectionLost, StatusAfterData, ServerGone, serverVars
  <2> QED BY <2>1, <2>2, <2>3, LostIsConfigStep DEF Good
<1> QED BY <1>6, <1>7 DEF Connect, ConnectToServer

(* A step that leaves the session's variables alone. *)
LEMMA QuietStep ==
    ASSUME SessionTypeOK, SessionInv, UNCHANGED <<configVars, rtspVars>> PROVE Good
<1>1. SessionInv'
  BY DEF rtspVars, backoffVars, configVars, tuneVars, pidVars, serverVars,
      SessionInv, TimersFitStatus, NeverStranded, RequestFitsStatus,
      ConnectionState, InSession, Streaming, TunedToLatest, RequestedDelivered, SetupPending,
      SessionFacts, NewTuning
<1>2. RtspTypeOK'
  BY DEF rtspVars, backoffVars, SessionTypeOK, RtspTypeOK, RtspStatus, RtspRequest, Timers
<1> QED BY <1>1, <1>2 DEF Good, ConfigStep

LEMMA WaitReleasedStep ==
    ASSUME SessionTypeOK, SessionInv, WaitReleased PROVE Good
<1>1. SessionInv'
  BY DEF WaitReleased, backoffVars, configVars, tuneVars, pidVars, serverVars,
      SessionInv, TimersFitStatus, NeverStranded, RequestFitsStatus,
      ConnectionState, InSession, Streaming, TunedToLatest, RequestedDelivered, SetupPending,
      SessionFacts, NewTuning
<1>2. RtspTypeOK'
  BY DEF WaitReleased, backoffVars, SessionTypeOK, RtspTypeOK, RtspStatus, RtspRequest, Timers
<1> QED BY <1>1, <1>2 DEF WaitReleased, Good, ConfigStep

LEMMA KeepAliveStep ==
    ASSUME SessionTypeOK, SessionInv, KeepAlive PROVE Good
<1>1. SessionInv'
  BY DEF KeepAlive, backoffVars, configVars, tuneVars, pidVars, serverVars,
      SessionInv, TimersFitStatus, NeverStranded, RequestFitsStatus,
      ConnectionState, InSession, Streaming, TunedToLatest, RequestedDelivered, SetupPending,
      SessionFacts, NewTuning
<1>2. RtspTypeOK'
  BY DEF KeepAlive, backoffVars, SessionTypeOK, RtspTypeOK, RtspStatus, RtspRequest, Timers
<1> QED BY <1>1, <1>2 DEF KeepAlive, Good, ConfigStep

LEMMA HandleRTSPStatusStep ==
    ASSUME SessionTypeOK, SessionInv, HandleRTSPStatus PROVE Good
<1>1. CASE WaitReleased
  BY <1>1, WaitReleasedStep
<1>2. CASE Connect
  BY <1>2, ConnectStep
<1>3. CASE Establish
  BY <1>3, SendSetupStep, LostIsConfigStep DEF Establish, Good
<1>4. CASE Play
  <2>1. Streaming /\ m_rtsp_status # "SESSION_TEARDOWNING" /\ SendPlay
    BY <1>4 DEF Play, Streaming
  <2> QED BY <2>1, SendPlayStep, LostIsConfigStep DEF Good
<1>5. CASE TearDown
  BY <1>5, SendTearDownStep, LostIsConfigStep DEF TearDown, Good, ConfigStep
<1>6. CASE KeepAlive
  BY <1>6, KeepAliveStep
<1>7. CASE Idle
  BY <1>7, QuietStep DEF Idle
<1> QED BY <1>1, <1>2, <1>3, <1>4, <1>5, <1>6, <1>7 DEF HandleRTSPStatus

-----------------------------------------------------------------------------
(***************************************************************************)
(* Timers                                                                  *)
(***************************************************************************)

LEMMA TimeoutKeepAliveStep ==
    ASSUME SessionTypeOK, SessionInv, TimeoutKeepAlive PROVE Good
<1>1. m_rtsp_status = "SESSION_TRANSMITTING"
  BY DEF TimeoutKeepAlive, SessionInv, TimersFitStatus
<1>2. CASE m_wait_response
  <2>1. /\ m_timers' = m_timers \ {"keep_alive"}
        /\ UNCHANGED <<configVars, m_rtsp_status, m_rtsp_request, m_wait_response,
                       m_fd, m_session, backoffVars>>
    BY <1>2 DEF TimeoutKeepAlive
  <2>2. SessionInv'
    BY <2>1 DEF backoffVars, configVars, tuneVars, pidVars, serverVars,
      SessionInv, TimersFitStatus, NeverStranded, RequestFitsStatus,
      ConnectionState, InSession, Streaming, TunedToLatest, RequestedDelivered, SetupPending,
      SessionFacts, NewTuning
  <2>3. RtspTypeOK'
    BY <2>1 DEF backoffVars, SessionTypeOK, RtspTypeOK, RtspStatus, RtspRequest, Timers
  <2> QED BY <2>1, <2>2, <2>3 DEF Good, ConfigStep
<1>3. CASE ~m_wait_response
  <2>1. SendOption
    BY <1>3 DEF TimeoutKeepAlive
  <2> QED BY <1>1, <2>1, SendOptionStep, LostIsConfigStep DEF Good, ConfigStep
<1> QED BY <1>2, <1>3

(* The retry is a step of the configuration only because a pending retry   *)
(* means that there is no connection.                                      *)
LEMMA TimeoutReconnectStep ==
    ASSUME SessionTypeOK, SessionInv, TimeoutReconnect PROVE Good
<1>1. m_rtsp_status = "CONFIG_WAITING" /\ "reconnect" \in m_timers
  BY DEF TimeoutReconnect, SessionInv, TimersFitStatus
<1>2. m_reconnect_attempts' \in Nat
  BY DEF TimeoutReconnect, SessionTypeOK, RtspTypeOK
<1>3. RtspTypeOK'
  BY <1>2 DEF TimeoutReconnect, SessionTypeOK, RtspTypeOK, Timers
<1>4. m_status' # "STABLE"
  BY DEF TimeoutReconnect
<1>5. SessionInv'
  BY <1>1, <1>4 DEF TimeoutReconnect, backoffVars, configVars, tuneVars, pidVars, serverVars,
      SessionInv, TimersFitStatus, NeverStranded, RequestFitsStatus,
      ConnectionState, InSession, Streaming, TunedToLatest, RequestedDelivered, SetupPending,
      SessionFacts, NewTuning
<1>6. CASE m_status = "STABLE"
  <2>1. SetChannelRetry
    BY <1>6 DEF TimeoutReconnect, SetChannelRetry
  <2> QED BY <2>1, <1>3, <1>5 DEF Good, ConfigStep, ConfigNext
<1>7. CASE m_status # "STABLE"
  BY <1>7, <1>3, <1>5 DEF TimeoutReconnect, Good, ConfigStep, configVars
<1> QED BY <1>6, <1>7

LEMMA HandleNextTimerStep ==
    ASSUME SessionTypeOK, SessionInv, HandleNextTimer PROVE Good
<1>1. CASE TimeoutConnect
  BY <1>1, ReconnectStep, LostIsConfigStep DEF TimeoutConnect, Good
<1>2. CASE TimeoutKeepAlive
  BY <1>2, TimeoutKeepAliveStep
<1>3. CASE TimeoutReconnect
  BY <1>3, TimeoutReconnectStep
<1>4. CASE NoTimerDue
  BY <1>4, QuietStep DEF NoTimerDue
<1> QED BY <1>1, <1>2, <1>3, <1>4 DEF HandleNextTimer

-----------------------------------------------------------------------------
(***************************************************************************)
(* Kernel messages and reports of the RTP thread, at any point of a        *)
(* session: all that matters is what they do to the channel.               *)
(***************************************************************************)

ChannelStep ==
    /\ UNCHANGED serverVars
    /\ m_requested_pids' \in {m_requested_pids, {}}
    /\ \/ /\ UNCHANGED <<m_status, m_tune_generation>>
          /\ m_params' \in {m_params, 0}
       \/ m_status' = "INVALID" /\ UNCHANGED tuneVars
       \/ /\ m_status' = "CHANGED"
          /\ m_tune_generation' = m_tune_generation + 1
          /\ m_params' = m_tune_generation + 1

LEMMA KernelChannelStep == ASSUME KernelMessage PROVE ChannelStep
<1> USE DEF ChannelStep, tuneVars, pidVars
<1>1. CASE SetChannelChanged
  BY <1>1 DEF SetChannelChanged
<1>2. CASE SetParameter
  BY <1>2 DEF SetParameter
<1>3. CASE ClearProperty
  BY <1>3 DEF ClearProperty
<1>4. CASE VoltageOff
  BY <1>4 DEF VoltageOff
<1>5. CASE \E want \in KernelLists : SetPidList(want)
  BY <1>5 DEF SetPidList
<1> QED BY <1>1, <1>2, <1>3, <1>4, <1>5 DEF KernelMessage

LEMMA ChannelStepInv ==
    ASSUME SessionTypeOK, SessionInv, ChannelStep, UNCHANGED rtspVars
    PROVE  SessionInv' /\ RtspTypeOK'
<1>1. /\ m_tune_generation \in Nat /\ m_attempted_generation \in Nat
  BY ConfigAssumption DEF SessionTypeOK, ConfigTypeOK, RtspTypeOK
<1>2. RtspTypeOK'
  BY DEF rtspVars, backoffVars, SessionTypeOK, RtspTypeOK, RtspStatus, RtspRequest, Timers
<1>3. SessionInv'
  BY <1>1 DEF ChannelStep, rtspVars, backoffVars, tuneVars, serverVars,
      SessionInv, TimersFitStatus, NeverStranded, RequestFitsStatus,
      ConnectionState, InSession, Streaming, TunedToLatest, RequestedDelivered, SetupPending,
      SessionFacts, NewTuning
<1> QED BY <1>2, <1>3

LEMMA VtunerEventStep ==
    ASSUME SessionTypeOK, SessionInv, VtunerEvent PROVE Good
<1>1. CASE KernelMessage
  BY <1>1, KernelChannelStep, ChannelStepInv DEF VtunerEvent, Good, ConfigStep, ConfigNext
<1>2. CASE UNCHANGED configVars
  BY <1>2, QuietStep DEF VtunerEvent
<1> QED BY <1>1, <1>2 DEF VtunerEvent

LEMMA RtpThreadStep ==
    ASSUME SessionTypeOK, SessionInv, RtpThread PROVE Good
<1>1. PICK pids \in PsiReports : PsiReport(pids)
  BY DEF RtpThread
<1>2. ChannelStep
  BY <1>1 DEF PsiReport, ChannelStep, tuneVars, pidVars
<1> QED BY <1>1, <1>2, ChannelStepInv DEF RtpThread, Good, ConfigStep, ConfigNext

-----------------------------------------------------------------------------
(***************************************************************************)
(* Events on the socket                                                    *)
(***************************************************************************)

LEMMA ServerReadyStep ==
    ASSUME SessionTypeOK, SessionInv, ServerReady PROVE Good
<1>0. m_rtsp_request = "NONE" /\ ~m_wait_response
  BY DEF ServerReady, SessionTypeOK, RtspTypeOK, RtspRequest, SessionInv, RequestFitsStatus
<1>1. SessionInv'
  BY <1>0
  DEF ServerReady, backoffVars, configVars, tuneVars, pidVars, serverVars,
      SessionInv, TimersFitStatus, NeverStranded, RequestFitsStatus,
      ConnectionState, InSession, Streaming, TunedToLatest, RequestedDelivered, SetupPending,
      SessionFacts, NewTuning
<1>2. RtspTypeOK'
  BY DEF ServerReady, backoffVars, SessionTypeOK, RtspTypeOK, RtspStatus, RtspRequest, Timers
<1> QED BY <1>1, <1>2 DEF ServerReady, Good, ConfigStep

LEMMA ReceiveDataStep ==
    ASSUME SessionTypeOK, SessionInv, ReceiveData PROVE Good
<1>1. SessionInv'
  BY DEF ReceiveData, Receiving, backoffVars, configVars, tuneVars, pidVars, serverVars,
      SessionInv, TimersFitStatus, NeverStranded, RequestFitsStatus,
      ConnectionState, InSession, Streaming, TunedToLatest, RequestedDelivered, SetupPending,
      SessionFacts, NewTuning
<1>2. RtspTypeOK'
  BY DEF ReceiveData, Receiving, backoffVars, SessionTypeOK, RtspTypeOK, RtspStatus, RtspRequest, Timers
<1> QED BY <1>1, <1>2 DEF ReceiveData, Good, ConfigStep

LEMMA ReceiveSetupOkStep ==
    ASSUME SessionTypeOK, SessionInv, ReceiveSetupOk PROVE Good
<1>1. SessionInv'
  BY DEF ReceiveSetupOk, AnswerDone, backoffVars, configVars, tuneVars, pidVars, serverVars,
      SessionInv, TimersFitStatus, NeverStranded, RequestFitsStatus,
      ConnectionState, InSession, Streaming, TunedToLatest, RequestedDelivered, SetupPending,
      SessionFacts, NewTuning
<1>2. RtspTypeOK'
  BY DEF ReceiveSetupOk, AnswerDone,
      backoffVars, SessionTypeOK, RtspTypeOK, RtspStatus, RtspRequest, Timers
<1> QED BY <1>1, <1>2 DEF ReceiveSetupOk, Good, ConfigStep

LEMMA ReceivePlayOkStep ==
    ASSUME SessionTypeOK, SessionInv, ReceivePlayOk PROVE Good
<1>1. SessionInv'
  BY DEF ReceivePlayOk, AnswerDone, backoffVars, configVars, tuneVars, pidVars, serverVars,
      SessionInv, TimersFitStatus, NeverStranded, RequestFitsStatus,
      ConnectionState, InSession, Streaming, TunedToLatest, RequestedDelivered, SetupPending,
      SessionFacts, NewTuning
<1>2. RtspTypeOK'
  BY DEF ReceivePlayOk, AnswerDone,
      backoffVars, SessionTypeOK, RtspTypeOK, RtspStatus, RtspRequest, Timers
<1> QED BY <1>1, <1>2 DEF ReceivePlayOk, Good, ConfigStep

LEMMA ReceiveOptionOkStep ==
    ASSUME SessionTypeOK, SessionInv, ReceiveOptionOk PROVE Good
<1>1. SessionInv'
  BY DEF ReceiveOptionOk, AnswerDone, backoffVars, configVars, tuneVars, pidVars, serverVars,
      SessionInv, TimersFitStatus, NeverStranded, RequestFitsStatus,
      ConnectionState, InSession, Streaming, TunedToLatest, RequestedDelivered, SetupPending,
      SessionFacts, NewTuning
<1>2. RtspTypeOK'
  BY DEF ReceiveOptionOk, AnswerDone,
      backoffVars, SessionTypeOK, RtspTypeOK, RtspStatus, RtspRequest, Timers
<1> QED BY <1>1, <1>2 DEF ReceiveOptionOk, Good, ConfigStep

LEMMA ReceiveTearDownOkStep ==
    ASSUME SessionTypeOK, SessionInv, ReceiveTearDownOk PROVE Good
<1>1. m_status \in ChannelStatus /\ m_status # "STABLE"
  BY DEF ReceiveTearDownOk, SessionTypeOK, ConfigTypeOK, SessionInv, RequestFitsStatus, SessionFacts
<1>2. /\ SessionInv' /\ RtspTypeOK' /\ ServerGone /\ UNCHANGED tuneVars
  BY <1>1, ResetConnectStep DEF ReceiveTearDownOk
<1>3. m_status' = m_status
  BY DEF ReceiveTearDownOk, ResetConnect, NoRetry
<1>4. ConnectionLost
  BY <1>2, <1>3 DEF ReceiveTearDownOk, ConnectionLost
<1> QED BY <1>2, <1>4, LostIsConfigStep DEF Good

(* The answer is digested but the status stays: what the status waits for  *)
(* is then sent again.                                                     *)
LEMMA ReceiveOkAndDataStep ==
    ASSUME SessionTypeOK, SessionInv, ReceiveOkAndData PROVE Good
<1>1. /\ Streaming /\ m_rtsp_request' = "NONE" /\ m_wait_response' = FALSE
      /\ UNCHANGED <<configVars, m_rtsp_status, m_fd, m_session, backoffVars>>
      /\ m_timers' \in {m_timers \ {"reset_connect"}, m_timers \cup {"reset_connect"}}
  BY DEF ReceiveOkAndData, AnswerDone
<1>2. SessionInv'
  BY <1>1 DEF backoffVars, configVars, tuneVars, pidVars, serverVars,
      SessionInv, TimersFitStatus, NeverStranded, RequestFitsStatus,
      ConnectionState, InSession, Streaming, TunedToLatest, RequestedDelivered, SetupPending,
      SessionFacts, NewTuning
<1>3. RtspTypeOK'
  BY <1>1 DEF backoffVars, SessionTypeOK, RtspTypeOK, RtspStatus, RtspRequest, Timers
<1> QED BY <1>1, <1>2, <1>3 DEF Good, ConfigStep

LEMMA HandlePollEventsStep ==
    ASSUME SessionTypeOK, SessionInv, HandlePollEvents PROVE Good
<1>1. CASE NoEvent \/ StaleEvent \/ ReceiveNothing
  BY <1>1, QuietStep DEF NoEvent, StaleEvent, ReceiveNothing
<1>2. CASE Disconnected \/ ReceiveError
  BY <1>2, ReconnectStep, LostIsConfigStep DEF Disconnected, ReceiveError, Good
<1>3. CASE ServerReady
  BY <1>3, ServerReadyStep
<1>4. CASE ReceiveData
  BY <1>4, ReceiveDataStep
<1>5. CASE ReceiveSetupOk
  BY <1>5, ReceiveSetupOkStep
<1>6. CASE ReceivePlayOk
  BY <1>6, ReceivePlayOkStep
<1>7. CASE ReceiveOptionOk
  BY <1>7, ReceiveOptionOkStep
<1>8. CASE ReceiveTearDownOk
  BY <1>8, ReceiveTearDownOkStep
<1>9. CASE ReceiveOkAndData
  BY <1>9, ReceiveOkAndDataStep
<1> QED BY <1>1, <1>2, <1>3, <1>4, <1>5, <1>6, <1>7, <1>8, <1>9 DEF HandlePollEvents

-----------------------------------------------------------------------------
(***************************************************************************)
(* The theorems                                                            *)
(***************************************************************************)

LEMMA SessionStepGood ==
    ASSUME SessionTypeOK, SessionInv, [SessionNext]_vars PROVE Good
<1>1. CASE HandleRTSPStatus
  BY <1>1, HandleRTSPStatusStep
<1>2. CASE Poll
  BY <1>2, QuietStep DEF Poll
<1>3. CASE HandleNextTimer
  BY <1>3, HandleNextTimerStep
<1>4. CASE VtunerEvent
  BY <1>4, VtunerEventStep
<1>5. CASE HandlePollEvents
  BY <1>5, HandlePollEventsStep
<1>6. CASE RtpThread
  BY <1>6, RtpThreadStep
<1>7. CASE UNCHANGED vars
  BY <1>7, QuietStep DEF vars
<1> QED BY <1>1, <1>2, <1>3, <1>4, <1>5, <1>6, <1>7 DEF SessionNext, MainLoop

LEMMA LoopType ==
    ASSUME SessionTypeOK, [SessionNext]_vars
    PROVE  /\ pc' \in {"status", "poll", "timers", "vtuner", "events"}
           /\ revents' \in {"none", "POLLIN", "POLLOUT", "POLLHUP"}
           /\ restarted' \in BOOLEAN
<1> USE DEF Step, SessionTypeOK
<1>1. CASE HandleRTSPStatus \/ HandleNextTimer \/ VtunerEvent
  BY <1>1 DEF HandleRTSPStatus, HandleNextTimer, VtunerEvent
<1>2. CASE Poll
  BY <1>2 DEF Poll, PollEvents
<1>3. CASE HandlePollEvents
  BY <1>3 DEF HandlePollEvents
<1>4. CASE RtpThread \/ UNCHANGED vars
  BY <1>4 DEF RtpThread, vars, loopVars
<1> QED BY <1>1, <1>2, <1>3, <1>4 DEF SessionNext, MainLoop

LEMMA SessionStepTypeInv ==
    ASSUME SessionTypeOK, SessionInv, [SessionNext]_vars
    PROVE  SessionTypeOK' /\ SessionInv' /\ [ConfigNext]_configVars
<1>1. Good
  BY SessionStepGood
<1>2. [ConfigNext]_configVars
  BY <1>1 DEF Good, ConfigStep
<1>3. ConfigTypeOK'
  BY <1>2, ConfigStepType DEF SessionTypeOK
<1> QED BY <1>1, <1>2, <1>3, LoopType DEF Good, SessionTypeOK

LEMMA SessionTypeInv == SessionSpec => [](SessionTypeOK /\ SessionInv)
<1>1. SessionInit => SessionTypeOK /\ SessionInv
  BY SessionInitTypeInv
<1>2. SessionTypeOK /\ SessionInv /\ [SessionNext]_vars => SessionTypeOK' /\ SessionInv'
  BY SessionStepTypeInv
<1> QED BY <1>1, <1>2, PTL DEF SessionSpec

(* Type correctness of the session. *)
THEOREM SessionTypeCorrect == SessionSpec => []SessionTypeOK
  BY SessionTypeInv, PTL

(* The inductive invariant: however the kernel's messages, the RTP         *)
(* thread's reports, timers, answers and lost connections interleave,      *)
(* timers, status, awaited request, socket and channel status fit together *)
(* and the server is tuned to the latest complete tuning.                  *)
THEOREM SessionInvariant == SessionSpec => []SessionInv
  BY SessionTypeInv, PTL

(* The state machine never waits without a timer that ends the wait, and a *)
(* tuner that lost its session always has its retry scheduled.             *)
THEOREM SessionNeverStranded == SessionSpec => []NeverStranded
<1>1. SessionInv => NeverStranded
  BY DEF SessionInv
<1> QED BY <1>1, SessionInvariant, PTL

(* In a session, a settled channel with complete parameters is what the    *)
(* last request told the server, and what we believe the server delivers   *)
(* it does deliver.                                                        *)
THEOREM SessionTunedToLatest == SessionSpec => [](TunedToLatest /\ RequestedDelivered)
<1>1. SessionInv => TunedToLatest /\ RequestedDelivered
  BY DEF SessionInv
<1> QED BY <1>1, SessionInvariant, PTL

(* The session thread uses the configuration as SatipConfig allows: every  *)
(* turn of the main loop and every report is a step of the configuration   *)
(* or leaves it alone.                                                     *)
THEOREM SessionImplementsConfig == SessionSpec => ConfigSpec
<1>1. SessionInit => ConfigInit
  BY DEF SessionInit
<1>2. SessionTypeOK /\ SessionInv /\ [SessionNext]_vars => [ConfigNext]_configVars
  BY SessionStepTypeInv
<1> QED BY <1>1, <1>2, SessionTypeInv, PTL DEF SessionSpec, ConfigSpec

(* A pid difference is never lost in the running session. *)
THEOREM SessionNoLostPid == SessionSpec => []NoLostPid
  BY SessionImplementsConfig, ConfigNoLostPid, PTL

-----------------------------------------------------------------------------
(***************************************************************************)
(* The reconnect backoff                                                   *)
(***************************************************************************)

LEMMA AttemptsCapped == \A n \in 0..5 : AttemptsAfter(n) \in 0..5
<1> SUFFICES ASSUME NEW n \in 0..5 PROVE AttemptsAfter(n) \in 0..5
  OBVIOUS
<1>1. CASE n = 5
  <2>1. 1000 * 2^5 > max_ms
    BY DEF max_ms
  <2> QED BY <1>1, <2>1 DEF AttemptsAfter, ReconnectDelay, max_ms
<1>2. CASE n < 5
  BY <1>2 DEF AttemptsAfter
<1> QED BY <1>1, <1>2

(* What a step can do to the number of attempts. *)
AttemptsStep == m_reconnect_attempts' \in {m_reconnect_attempts, 0,
                                          AttemptsAfter(m_reconnect_attempts), AttemptsAfter(0)}

LEMMA ResetAttempts ==
    ASSUME NEW auto, NEW status, ResetConnect(auto, status) PROVE AttemptsStep
  BY DEF ResetConnect, AttemptsStep

LEMMA StatusAttempts == ASSUME HandleRTSPStatus PROVE AttemptsStep
<1>1. CASE WaitReleased
  BY <1>1 DEF WaitReleased, AttemptsStep
<1>2. CASE Connect
  BY <1>2 DEF Connect, AttemptsStep
<1>3. CASE Establish
  BY <1>3, ResetAttempts DEF Establish, SendSetup, Sent, backoffVars, AttemptsStep
<1>4. CASE Play
  BY <1>4, ResetAttempts DEF Play, SendPlay, Reconnect, Sent, backoffVars, AttemptsStep
<1>5. CASE TearDown
  BY <1>5, ResetAttempts DEF TearDown, SendTearDown, Reconnect, Sent, backoffVars, AttemptsStep
<1>6. CASE KeepAlive \/ Idle
  BY <1>6 DEF KeepAlive, Idle, rtspVars, backoffVars, AttemptsStep
<1> QED BY <1>1, <1>2, <1>3, <1>4, <1>5, <1>6 DEF HandleRTSPStatus

LEMMA TimerAttempts == ASSUME HandleNextTimer PROVE AttemptsStep
<1>1. CASE TimeoutConnect
  BY <1>1, ResetAttempts DEF TimeoutConnect, Reconnect
<1>2. CASE TimeoutKeepAlive
  BY <1>2, ResetAttempts
  DEF TimeoutKeepAlive, SendOption, Reconnect, Sent, backoffVars, AttemptsStep
<1>3. CASE TimeoutReconnect \/ NoTimerDue
  BY <1>3 DEF TimeoutReconnect, NoTimerDue, rtspVars, backoffVars, AttemptsStep
<1> QED BY <1>1, <1>2, <1>3 DEF HandleNextTimer

LEMMA EventAttempts == ASSUME HandlePollEvents PROVE AttemptsStep
<1> USE DEF rtspVars, backoffVars, AttemptsStep
<1>1. CASE NoEvent \/ StaleEvent \/ ReceiveNothing \/ ServerReady \/ ReceiveData
  BY <1>1 DEF NoEvent, StaleEvent, ReceiveNothing, ServerReady, ReceiveData
<1>2. CASE Disconnected \/ ReceiveError \/ ReceiveTearDownOk
  BY <1>2, ResetAttempts DEF Disconnected, ReceiveError, ReceiveTearDownOk, Reconnect
<1>3. CASE ReceiveSetupOk \/ ReceivePlayOk \/ ReceiveOptionOk \/ ReceiveOkAndData
  BY <1>3 DEF ReceiveSetupOk, ReceivePlayOk, ReceiveOptionOk, ReceiveOkAndData
<1> QED BY <1>1, <1>2, <1>3 DEF HandlePollEvents

LEMMA SessionAttempts == ASSUME [SessionNext]_vars PROVE AttemptsStep
<1>1. CASE Poll \/ VtunerEvent \/ RtpThread \/ UNCHANGED vars
  BY <1>1 DEF Poll, VtunerEvent, RtpThread, vars, rtspVars, backoffVars, AttemptsStep
<1> QED BY <1>1, StatusAttempts, TimerAttempts, EventAttempts DEF SessionNext, MainLoop

(* However often connections fail, startTimerReconnect's shift count stays *)
(* at most 5: the delay never overflows and never exceeds 30 s.            *)
THEOREM SessionBackoffBounded == SessionSpec => []BackoffBounded
<1> DEFINE Inv == m_reconnect_attempts \in 0..5
<1>1. SessionInit => Inv
  BY DEF SessionInit
<1>2. Inv /\ [SessionNext]_vars => Inv'
  <2> SUFFICES ASSUME Inv, [SessionNext]_vars PROVE Inv'
    OBVIOUS
  <2>1. AttemptsAfter(m_reconnect_attempts) \in 0..5 /\ AttemptsAfter(0) \in 0..5
    BY AttemptsCapped
  <2> QED BY <2>1, SessionAttempts DEF AttemptsStep
<1>3. Inv => BackoffBounded
  BY DEF BackoffBounded
<1> QED BY <1>1, <1>2, <1>3, PTL DEF SessionSpec
=============================================================================
