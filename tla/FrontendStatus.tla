--------------------------- MODULE FrontendStatus ---------------------------
(***************************************************************************)
(* The lock and the signal values the kernel asks for (vtuner.cpp), which  *)
(* the RTP thread takes from the server's RTCP reports (rtp.cpp).  Two     *)
(* threads read and write three plain members: every load and every store  *)
(* is a step of its own.  (In TCP data mode the session thread does both.) *)
(*                                                                         *)
(* A report is an APP packet whose text may have a tuner part.  Of level,  *)
(* lock and quality only "not zero" is kept.  A tuner part that does not   *)
(* parse leaves the locals uninitialised: then they are any values too.    *)
(***************************************************************************)
EXTENDS Integers, Sequences

CONSTANT MaxTries    \* bound: MSG_SET_FRONTEND messages per tuning

ASSUME FrontendAssumption == MaxTries \in Nat /\ MaxTries >= 4

Values  == {"level", "lock", "quality"}

(* tuner: the text has a tuner part; values: those that are not zero *)
Reports == {r \in [tuner : BOOLEAN, values : SUBSET Values] : r.values # {} => r.tuner}

VARIABLES
    m_hasLock, m_signalStrength, m_signalQuality,
    rtp,         \* the stores the RTP thread still has to make
    session,     \* the stores the session thread still has to make
    tune_tries,
    timeout,     \* whether the three seconds since the tuning have passed
    told,        \* the answer to the last MSG_READ_STATUS
    last,        \* history: the values of the last report
    before,      \* history: those of the report before it
    cleared,     \* history: a tuning cleared the status during or after the last report
    expected     \* history: what the reports allowed the kernel to be told when it asked

signalVars  == <<m_hasLock, m_signalStrength, m_signalQuality>>
tuneVars    == <<tune_tries, timeout>>
historyVars == <<last, before, cleared>>
statusVars == <<signalVars, rtp, session, tuneVars, told, historyVars, expected>>

Stores == {"strength_0", "lock_0", "quality_0", "strength", "lock", "quality", "quality_held"}

(* Members, pending stores and answers have their types. *)
StatusTypeOK ==
    /\ {m_hasLock, m_signalStrength, m_signalQuality, timeout} \subseteq BOOLEAN
    /\ rtp \in Seq(Stores) /\ session \in Seq(Stores)
    /\ tune_tries \in 0..MaxTries
    /\ told \subseteq {"FE_HAS_LOCK", "FE_TIMEDOUT", "FE_HAS_SIGNAL"}
    /\ {last, before} \subseteq SUBSET Values
    /\ cleared \in BOOLEAN
    /\ expected \in {"lock", "no lock", "either"}

StatusInit ==
    /\ m_hasLock = FALSE /\ m_signalStrength = FALSE /\ m_signalQuality = FALSE
    /\ rtp = <<>> /\ session = <<>>
    /\ tune_tries = 0 /\ timeout = FALSE
    /\ told = {}
    /\ last = {} /\ before = {} /\ cleared = FALSE
    /\ expected = "either"

-----------------------------------------------------------------------------
(***************************************************************************)
(* The RTP thread                                                          *)
(***************************************************************************)

unset == <<"strength_0", "lock_0", "quality_0">>

(* Mutant: a report without a tuner part leaves the old values. *)
ParseRtcpAppPayload_Keeps(report) ==
    IF ~report.tuner THEN <<>> ELSE unset \o <<"strength", "lock", "quality">>

(* What is stored for a report, in order. *)
ParseRtcpAppPayload(report) ==
    IF ~report.tuner THEN unset ELSE unset \o <<"strength", "lock", "quality">>

RtcpData ==
    /\ rtp = <<>>
    /\ \E report \in Reports :
           /\ rtp' = ParseRtcpAppPayload(report)
           /\ last' = report.values
    /\ before' = last
    /\ cleared' = (session # <<>>)
    /\ UNCHANGED <<signalVars, session, tuneVars, told, expected>>

Zero(store) == store \in {"strength_0", "lock_0", "quality_0"}

(* Stores to zero, by either thread. *)
StoreZero(store) ==
    /\ m_signalStrength' = (m_signalStrength /\ store # "strength_0")
    /\ m_hasLock' = (m_hasLock /\ store # "lock_0")
    /\ m_signalQuality' = (m_signalQuality /\ store # "quality_0")

(* Stores of the report's values.  The quality is stored after m_hasLock   *)
(* has been read again.                                                    *)
StoreReport(store) ==
    /\ m_signalStrength' = IF store = "strength" THEN "level" \in last ELSE m_signalStrength
    /\ m_hasLock' = IF store = "lock" THEN "lock" \in last ELSE m_hasLock
    /\ m_signalQuality' = IF store = "quality_held" THEN "quality" \in last
                          ELSE IF store = "quality" THEN FALSE ELSE m_signalQuality

RtpStep ==
    /\ rtp # <<>>
    /\ IF Head(rtp) = "quality" /\ m_hasLock
       THEN /\ rtp' = <<"quality_held">>
            /\ UNCHANGED signalVars
       ELSE /\ rtp' = Tail(rtp)
            /\ IF Zero(Head(rtp)) THEN StoreZero(Head(rtp)) ELSE StoreReport(Head(rtp))
    /\ UNCHANGED <<session, tuneVars, told, historyVars, expected>>

-----------------------------------------------------------------------------
(***************************************************************************)
(* The session thread: vtunerEvent                                         *)
(***************************************************************************)

GetTuneSettings ==
    /\ session = <<>>
    /\ session' = unset
    /\ tune_tries' = 0 /\ timeout' = FALSE
    /\ cleared' = TRUE
    /\ UNCHANGED <<signalVars, rtp, told, last, before, expected>>

SessionStep ==
    /\ session # <<>>
    /\ session' = Tail(session)
    /\ StoreZero(Head(session))
    /\ UNCHANGED <<rtp, tuneVars, told, historyVars, expected>>

SetFrontend ==
    /\ session = <<>>
    /\ tune_tries < MaxTries
    /\ tune_tries' = tune_tries + 1
    /\ UNCHANGED <<signalVars, rtp, session, timeout, told, historyVars, expected>>

(* Mutant: the timeout is looked at first. *)
Status_TimeoutFirst ==
    IF timeout THEN {"FE_TIMEDOUT"}
    ELSE IF m_hasLock THEN {"FE_HAS_LOCK"}
    ELSE IF tune_tries \div 4 % 2 = 1 THEN {"FE_HAS_SIGNAL"} ELSE {}

Status ==
    IF m_hasLock THEN {"FE_HAS_LOCK"}
    ELSE (IF timeout THEN {"FE_TIMEDOUT"} ELSE {})
             \cup (IF tune_tries \div 4 % 2 = 1 THEN {"FE_HAS_SIGNAL"} ELSE {})

(* What the reports allow: a report that is being stored hides a lock that *)
(* is still there, or shows for a moment one that is gone.                 *)
Expected ==
    IF rtp = <<>> /\ "lock" \in last /\ ~cleared THEN "lock"
    ELSE IF "lock" \notin last /\ (rtp = <<>> \/ "lock" \notin before) THEN "no lock"
    ELSE "either"

ReadStatus ==
    /\ session = <<>>
    /\ told' = Status
    /\ expected' = Expected
    /\ UNCHANGED <<signalVars, rtp, session, tuneVars, historyVars>>

(* external: three seconds have passed since MSG_GET_TUNE_SETTINGS *)
TimeUp ==
    /\ ~timeout
    /\ timeout' = TRUE
    /\ UNCHANGED <<signalVars, rtp, session, tune_tries, told, historyVars, expected>>

StatusNext ==
    \/ RtcpData \/ RtpStep
    \/ GetTuneSettings \/ SessionStep \/ SetFrontend \/ ReadStatus \/ TimeUp

StatusSpec == StatusInit /\ [][StatusNext]_statusVars

-----------------------------------------------------------------------------
Quiet == rtp = <<>> /\ session = <<>>

(* Between reports the members say what the last report said, or less      *)
(* because of a tuning: whatever the two threads interleave, no lock and   *)
(* no quality of an earlier report survives.                               *)
SignalFollowsReport ==
    Quiet => /\ m_hasLock => "lock" \in last
             /\ m_signalQuality => {"lock", "quality"} \subseteq last
             /\ m_signalStrength => "level" \in last
             /\ ~cleared => /\ m_hasLock = ("lock" \in last)
                            /\ m_signalQuality = ({"lock", "quality"} \subseteq last)
                            /\ m_signalStrength = ("level" \in last)

(* The kernel is told what the reports say: a lock while the last report   *)
(* has it, after a timeout too, and none that is older than the report     *)
(* being stored.                                                           *)
ToldAsReported ==
    /\ expected = "lock" => "FE_HAS_LOCK" \in told
    /\ expected = "no lock" => "FE_HAS_LOCK" \notin told
=============================================================================
