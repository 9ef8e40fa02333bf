---------------------------- MODULE SatipConfig ----------------------------
(***************************************************************************)
(* The tuning and pid configuration of one tuner: satipConfig (config.cpp, *)
(* config.h).  It is written by the kernel's messages (vtuner.cpp), by the *)
(* PSI parser on the RTP thread (setCaPids) and by the RTSP state machine, *)
(* which turns it into SETUP and PLAY requests.                            *)
(*                                                                         *)
(* A complete set of frontend parameters is abstracted to the generation   *)
(* number DTV_TUNE gave it; 0 stands for parameters that were cleared or   *)
(* partly overwritten since.                                               *)
(*                                                                         *)
(* server_tune and server_pids are what the requests sent on the current   *)
(* connection told the server (external).  That the server drops its pid   *)
(* list when it is tuned anew is what getPlayData relies on when it clears *)
(* m_requested_pids.                                                       *)
(***************************************************************************)
EXTENDS PidList

CONSTANTS
    CaEnabled,   \* option ca_pids:1, i.e. m_psi # NULL
    BaseCaPids,  \* what the PSI parser derives when it knows no table (PAT, CAT)
    MaxTunes     \* bound: number of DTV_TUNE messages

ASSUME ConfigAssumption ==
    /\ CaEnabled \in BOOLEAN
    /\ BaseCaPids \subseteq Pids
    /\ MaxTunes \in Nat

VARIABLES
    m_status,           \* channel status
    m_tune_generation,  \* number of DTV_TUNE messages so far
    m_params,           \* the generation the frontend parameters belong to
    m_requested_pids,   \* what we believe the server delivers
    m_ca_pids,          \* reported by the PSI parser
    m_ca_dirty,         \* m_ca_pids changed since it was last requested
    server_tune,        \* external: the tuning the server was last given
    server_pids         \* external: the pids the server delivers

pidVars    == <<listVars, m_requested_pids>>
caVars     == <<m_ca_pids, m_ca_dirty>>
tuneVars   == <<m_tune_generation, m_params>>
serverVars == <<server_tune, server_pids>>
configVars == <<m_status, tuneVars, pidVars, caVars, serverVars>>

ChannelStatus == {"INVALID", "CHANGED", "STABLE"}
NotTuned      == -1     \* no request on this connection carried a tuning

(* Every field of satipConfig has its type. *)
ConfigTypeOK ==
    /\ PidListTypeOK
    /\ m_status \in ChannelStatus
    /\ m_tune_generation \in 0..MaxTunes
    /\ m_params \in 0..MaxTunes
    /\ m_requested_pids \in SUBSET Pids
    /\ m_ca_pids \in SUBSET Pids
    /\ m_ca_dirty \in BOOLEAN
    /\ server_tune \in -1..MaxTunes
    /\ server_pids \in SUBSET Pids

ConfigInit ==
    /\ PidListInit
    /\ m_status = "INVALID"
    /\ m_tune_generation = 0
    /\ m_params = 0
    /\ m_requested_pids = {}
    \* The constructor of the PSI parser reports its first pid set at once.
    /\ m_ca_pids = IF CaEnabled THEN BaseCaPids ELSE {}
    /\ m_ca_dirty = (m_ca_pids # {})
    /\ server_tune = NotTuned
    /\ server_pids = {}

-----------------------------------------------------------------------------
(***************************************************************************)
(* The kernel's messages and the PSI parser's reports.                     *)
(***************************************************************************)

(* Mutant: a report that changes nothing withdraws the one before it. *)
SetCaPids_Overwrites(pids) ==
    /\ m_ca_pids' = pids
    /\ m_ca_dirty' = (pids # m_ca_pids)

(* setCaPids: remember the set, and raise m_ca_dirty, only if it changed.  *)
SetCaPids(pids) ==
    /\ m_ca_pids' = pids
    /\ m_ca_dirty' = (m_ca_dirty \/ pids # m_ca_pids)

(* DTV_TUNE *)
SetChannelChanged ==
    /\ m_tune_generation < MaxTunes
    /\ m_tune_generation' = m_tune_generation + 1
    /\ m_params' = m_tune_generation + 1
    /\ m_status' = "CHANGED"
    /\ UNCHANGED <<pidVars, caVars, serverVars>>

(* Any other property, a voltage, a DiSEqC command: one parameter of the   *)
(* next tuning.  MSG_SET_VOLTAGE with SEC_VOLTAGE_OFF is VoltageOff below. *)
SetParameter ==
    /\ m_params' = 0
    /\ UNCHANGED <<m_status, m_tune_generation, pidVars, caVars, serverVars>>

(* DTV_CLEAR: the PSI parser forgets its tables and reports BaseCaPids.    *)
ClearProperty ==
    /\ m_params' = 0
    /\ ClearPidList
    /\ m_requested_pids' = {}
    /\ IF CaEnabled THEN SetCaPids(BaseCaPids) ELSE UNCHANGED caVars
    /\ UNCHANGED <<m_status, m_tune_generation, serverVars>>

(* SEC_VOLTAGE_OFF: the tuner is released. *)
VoltageOff ==
    /\ m_status' = "INVALID"
    /\ UNCHANGED <<tuneVars, pidVars, caVars, serverVars>>

(* The sets the PSI parser can derive. *)
PsiReports == {s \in SUBSET Pids : BaseCaPids \subseteq s}

(* MSG_PIDLIST.  The PSI parser hears of the new list (notifyPidList) and  *)
(* reports what it derives from it before the call returns.                *)
SetPidList(want) ==
    /\ UpdatePidList(want)
    /\ IF CaEnabled THEN \E pids \in PsiReports : SetCaPids(pids) ELSE UNCHANGED caVars
    /\ UNCHANGED <<m_status, tuneVars, m_requested_pids, serverVars>>

KernelMessage ==
    \/ SetChannelChanged
    \/ SetParameter
    \/ ClearProperty
    \/ VoltageOff
    \/ \E want \in KernelLists : SetPidList(want)

(* The PSI parser, on the RTP thread, completes a table and reports a set. *)
PsiReport(pids) ==
    /\ CaEnabled
    /\ SetCaPids(pids)
    /\ UNCHANGED <<m_status, tuneVars, pidVars, serverVars>>

-----------------------------------------------------------------------------
(***************************************************************************)
(* Requests.  getSetupData and getPlayData write the request and record    *)
(* its effect at once; what they do to the pids, to the channel status and *)
(* to the server is kept apart because sendRequest goes on to resetConnect *)
(* when the request cannot be sent.                                        *)
(***************************************************************************)

WantedPids == ActivePids \cup m_ca_pids

GetPidStatus == IF m_pid_status = "CHANGED" \/ m_ca_dirty THEN "CHANGED" ELSE "STATIONARY"

(* collectActivePids, addCaPids, commitPidStates, updatePidStatus *)
RequestPids ==
    /\ m_requested_pids' = WantedPids
    /\ CommitPidStates
    /\ m_ca_dirty' = FALSE
    /\ UNCHANGED m_ca_pids

StatusAfterData == IF m_status = "CHANGED" THEN "STABLE" ELSE m_status
TuneAfterData   == IF m_status = "CHANGED" THEN m_params ELSE server_tune

(* SETUP carries the complete pid list, and the tuning if it is new. *)
GetSetupData == RequestPids
SetupServer  == server_pids' = WantedPids /\ server_tune' = TuneAfterData

(* PLAY carries the difference to what the server has; a server that is    *)
(* tuned anew has nothing.                                                 *)
PlayKept == IF m_status = "CHANGED" THEN {} ELSE m_requested_pids
AddPids  == WantedPids \ PlayKept
DelPids  == PlayKept \ WantedPids

GetPlayData ==
    IF GetPidStatus = "CHANGED"
    THEN RequestPids
    ELSE m_requested_pids' = PlayKept /\ UNCHANGED <<listVars, caVars>>

PlayServer ==
    LET had == IF m_status = "CHANGED" THEN {} ELSE server_pids
    IN  /\ server_pids' = IF GetPidStatus = "CHANGED" THEN (had \cup AddPids) \ DelPids ELSE had
        /\ server_tune' = TuneAfterData

(* A connection that is closed takes the server's stream with it. *)
ServerGone == server_tune' = NotTuned /\ server_pids' = {}

-----------------------------------------------------------------------------
(***************************************************************************)
(* The configuration as a component of its own: the RTSP state machine may *)
(* send, lose and retry in any order.  A request can be lost together with *)
(* the connection after its data was taken.                                *)
(***************************************************************************)

RequestSetup ==
    /\ GetSetupData
    /\ m_status' = StatusAfterData
    /\ SetupServer \/ ServerGone
    /\ UNCHANGED tuneVars

RequestPlay ==
    /\ GetPlayData
    /\ m_status' = StatusAfterData
    /\ PlayServer \/ ServerGone
    /\ UNCHANGED tuneVars

(* resetConnect, with or without clearChannelChanged *)
ConnectionLost ==
    /\ m_status' \in {m_status, StatusAfterData}
    /\ ServerGone
    /\ UNCHANGED <<tuneVars, pidVars, caVars>>

(* timeoutReconnect *)
SetChannelRetry ==
    /\ m_status = "STABLE"
    /\ m_status' = "CHANGED"
    /\ UNCHANGED <<tuneVars, pidVars, caVars, serverVars>>

ConfigNext ==
    \/ KernelMessage
    \/ \E pids \in PsiReports : PsiReport(pids)
    \/ RequestSetup
    \/ RequestPlay
    \/ ConnectionLost
    \/ SetChannelRetry

ConfigSpec == ConfigInit /\ [][ConfigNext]_configVars

-----------------------------------------------------------------------------
(***************************************************************************)
(* Properties                                                              *)
(***************************************************************************)

(* A difference is never lost: as long as m_requested_pids was not cleared *)
(* by a retune, it is exactly what the kernel and the PSI parser want      *)
(* whenever getPidStatus sees nothing to send.  A pid that is dropped by   *)
(* one side and kept by the other, re-added before its deletion was sent,  *)
(* or reported by the RTP thread between two requests is covered.          *)
NoLostPid ==
    (m_requested_pids # {} /\ GetPidStatus = "STATIONARY") => m_requested_pids = WantedPids

(* The pids of the table that commitPidStates left in it: a deletion that  *)
(* was not sent yet still counts.                                          *)
CommittedPids == {p \in Pids : m_pid_list[p] \in {"PID_VAILD", "PID_DELETE"}}

(* What was sent is remembered until the difference to it has been sent:   *)
(* m_pid_status never hides a pending pid (DTV_CLEAR empties the table     *)
(* without updatePidStatus), and the committed pids together with the ca   *)
(* pids are what was requested.  NoLostPid follows from this.              *)
ConfigInv ==
    /\ m_pid_status = "STATIONARY" => PidStatusOf(m_pid_list) = "STATIONARY"
    /\ (m_requested_pids # {} /\ ~m_ca_dirty) => m_requested_pids = CommittedPids \cup m_ca_pids
=============================================================================
