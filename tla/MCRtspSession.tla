--------------------------- MODULE MCRtspSession ---------------------------
(***************************************************************************)
(* One pid that the kernel and the parser can both want.  The pids the     *)
(* parser always reports are left out.                                     *)
(***************************************************************************)
EXTENDS RtspSession

CONSTANT a
OnePid == {a}
NoPids == {}

(* RTSP_STATUS_SESSION_TEARDOWNING: "send teardown and if receive, go to   *)
(* waiting."  The state is left when TEARDOWN has been answered.           *)
TornDownGoesWaiting ==
    m_rtsp_status = "SESSION_TEARDOWNING" => m_rtsp_request = "TEARDOWN"
=============================================================================
