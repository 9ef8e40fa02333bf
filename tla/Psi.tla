-------------------------------- MODULE Psi --------------------------------
(***************************************************************************)
(* The PSI parser of one tuner: satipPSI (psi.cpp, psi.h).  From the PAT,  *)
(* CAT and PMT sections of the received stream and from the pids the       *)
(* kernel joined it derives the pids a CAM needs.                          *)
(*                                                                         *)
(* A section is what its bytes say: a record of a constant set.  Module    *)
(* SectionAssembler is about how sections come out of packets.             *)
(*                                                                         *)
(* m_lock is held from BeginPacket to EndPacket; reset and setJoinedPids   *)
(* come from the session thread and wait for it.  processTS keeps the lock *)
(* for several packets, which allows fewer interleavings.                  *)
(***************************************************************************)
EXTENDS Integers, FiniteSets

CONSTANTS
    EmmEnabled,            \* option ca_emm
    CaidFilter,            \* option ca_caids, empty for no filter
    PSI_MAX_DERIVED_PIDS,  \* 32 in the code
    JoinablePids,          \* the pids the kernel can join
    PatInputs,             \* PAT sections: [version, section_number, programs]
    CatInputs,             \* CAT sections: [version, section_number, descriptors]
    PmtInputs              \* PMT sections: [pid, version, well_formed, es, descriptors]

PSI_PID_PAT  == 0
PSI_PID_CAT  == 1
PSI_PID_NULL == 8191
NoPacket     == -1
NoVersion    == -1

TsPids         == 0..PSI_PID_NULL
Versions       == 0..31
SectionNumbers == 0..255

(* A program of a PAT and a CA descriptor: other descriptors are skipped. *)
Programs    == [program : Nat, pid : TsPids]
Descriptors == [caid : Nat, pid : TsPids]

ASSUME PsiAssumption ==
    /\ EmmEnabled \in BOOLEAN
    /\ CaidFilter \subseteq Nat
    /\ PSI_MAX_DERIVED_PIDS \in Nat
    /\ PSI_MAX_DERIVED_PIDS >= 2
    /\ JoinablePids \subseteq TsPids
    /\ \A sec \in PatInputs :
           /\ sec.version \in Versions /\ sec.section_number \in SectionNumbers
           /\ sec.programs \subseteq Programs
    /\ \A sec \in CatInputs :
           /\ sec.version \in Versions /\ sec.section_number \in SectionNumbers
           /\ sec.descriptors \subseteq Descriptors
    /\ \A sec \in PmtInputs :
           /\ sec.pid \in TsPids \ {PSI_PID_PAT, PSI_PID_CAT} /\ sec.version \in Versions
           /\ sec.well_formed \in BOOLEAN
           /\ sec.es \subseteq TsPids /\ sec.descriptors \subseteq Descriptors

VARIABLES
    m_joined_pids,   \* pids the kernel asked for
    m_watched_pids,  \* pids whose packets are parsed
    m_derived_pids,  \* what was last reported to satipConfig
    m_pat_version, m_pat_sections, m_pat_pmt_pids,
    m_cat_version, m_cat_sections, m_emm_pids,
    m_pmt,           \* pmt pid -> [version, es_pids, ecm_pids]
    m_dirty,         \* a section of this packet calls for recompute
    packet           \* pid of the packet processTS works on, NoPacket if m_lock is free

patVars    == <<m_pat_version, m_pat_sections, m_pat_pmt_pids>>
catVars    == <<m_cat_version, m_cat_sections, m_emm_pids>>
resultVars == <<m_watched_pids, m_derived_pids>>
psiVars    == <<m_joined_pids, resultVars, patVars, catVars, m_pmt, m_dirty, packet>>

PmtInfo == [version : Versions \cup {NoVersion},
            es_pids : SUBSET TsPids, ecm_pids : SUBSET TsPids]

(* Tables, maps and pid sets of the parser have their types. *)
PsiTypeOK ==
    /\ m_joined_pids \subseteq TsPids
    /\ m_watched_pids \subseteq TsPids
    /\ m_derived_pids \subseteq TsPids
    /\ m_pat_version \in Versions \cup {NoVersion}
    /\ m_cat_version \in Versions \cup {NoVersion}
    /\ DOMAIN m_pat_sections \subseteq SectionNumbers
    /\ DOMAIN m_cat_sections \subseteq SectionNumbers
    /\ m_pat_pmt_pids \subseteq TsPids
    /\ m_emm_pids \subseteq TsPids
    /\ DOMAIN m_pmt \subseteq TsPids
    /\ \A p \in DOMAIN m_pmt : m_pmt[p] \in PmtInfo
    /\ m_dirty \in BOOLEAN
    /\ packet \in TsPids \cup {NoPacket}

-----------------------------------------------------------------------------
(***************************************************************************)
(* recompute                                                               *)
(***************************************************************************)

BasePids == {PSI_PID_PAT} \cup (IF EmmEnabled THEN {PSI_PID_CAT} ELSE {})

(* A service is active when the kernel joined one of its streams. *)
Active(pmtPids, pmt, joined) ==
    {p \in pmtPids \cap DOMAIN pmt : pmt[p].es_pids \cap joined # {}}

(* Mutant: EMM pids are only added while a service is active. *)
Implied_EmmOfActive(emm, pmtPids, pmt, joined) ==
    LET active == Active(pmtPids, pmt, joined)
    IN  BasePids
        \cup (IF EmmEnabled /\ active # {} THEN emm ELSE {})
        \cup active
        \cup UNION {pmt[p].ecm_pids : p \in active}

(* The ca pids of the services of active, without the limit. *)
PidsFor(emm, pmt, active) ==
    BasePids
    \cup (IF EmmEnabled THEN emm ELSE {})
    \cup active
    \cup UNION {pmt[p].ecm_pids : p \in active}

(* The ca pids the tables imply. *)
Implied(emm, pmtPids, pmt, joined) == PidsFor(emm, pmt, Active(pmtPids, pmt, joined))

(* Mutant: the limit allows one more. *)
Truncated_OneMore(S) == {p \in S : Cardinality({q \in S : q < p}) <= PSI_MAX_DERIVED_PIDS}

(* A std::set is ordered: the smallest pids stay. *)
Truncated(S) == {p \in S : Cardinality({q \in S : q < p}) < PSI_MAX_DERIVED_PIDS}

(* What recompute computes from the tables as they are. *)
DerivedNow == Truncated(Implied(m_emm_pids, m_pat_pmt_pids, m_pmt, m_joined_pids))

(* Mutant: only the PMTs of active services are watched. *)
Recompute_WatchActive ==
    /\ m_derived_pids' = Truncated(Implied(m_emm_pids', m_pat_pmt_pids', m_pmt', m_joined_pids'))
    /\ m_watched_pids' = BasePids \cup Active(m_pat_pmt_pids', m_pmt', m_joined_pids')

(* recompute sees the tables as the caller leaves them.  A derived set     *)
(* that changed is reported to satipConfig.                                *)
Recompute ==
    /\ m_derived_pids' = Truncated(Implied(m_emm_pids', m_pat_pmt_pids', m_pmt', m_joined_pids'))
    /\ m_watched_pids' = BasePids \cup m_pat_pmt_pids'

-----------------------------------------------------------------------------
(***************************************************************************)
(* The session thread                                                      *)
(***************************************************************************)

(* The constructor ends with reset. *)
PsiInit ==
    /\ m_pat_version = NoVersion /\ m_pat_sections = <<>> /\ m_pat_pmt_pids = {}
    /\ m_cat_version = NoVersion /\ m_cat_sections = <<>> /\ m_emm_pids = {}
    /\ m_pmt = <<>>
    /\ m_joined_pids = {}
    /\ m_watched_pids = BasePids
    /\ m_derived_pids = BasePids
    /\ m_dirty = FALSE
    /\ packet = NoPacket

(* Mutant: a retune keeps the PMTs of the old transponder. *)
ClearState_KeepsPmts ==
    /\ m_pat_version' = NoVersion /\ m_pat_sections' = <<>> /\ m_pat_pmt_pids' = {}
    /\ m_cat_version' = NoVersion /\ m_cat_sections' = <<>> /\ m_emm_pids' = {}
    /\ m_dirty' = FALSE
    /\ UNCHANGED m_pmt

ClearState ==
    /\ m_pat_version' = NoVersion /\ m_pat_sections' = <<>> /\ m_pat_pmt_pids' = {}
    /\ m_cat_version' = NoVersion /\ m_cat_sections' = <<>> /\ m_emm_pids' = {}
    /\ m_pmt' = <<>>
    /\ m_dirty' = FALSE

(* DTV_CLEAR *)
Reset ==
    /\ packet = NoPacket
    /\ ClearState
    /\ m_joined_pids' = {}
    /\ Recompute
    /\ UNCHANGED packet

(* notifyPidList, with the active pids of the pid table *)
SetJoinedPids(pids) ==
    /\ packet = NoPacket
    /\ m_joined_pids' = pids
    /\ UNCHANGED <<patVars, catVars, m_pmt, m_dirty, packet>>
    /\ IF pids # m_joined_pids THEN Recompute ELSE UNCHANGED resultVars

-----------------------------------------------------------------------------
(***************************************************************************)
(* The RTP thread: sections that arrived whole and are current             *)
(***************************************************************************)

CaidAllowed(caid) == CaidFilter = {} \/ caid \in CaidFilter
ValidPid(pid)     == pid > 0 /\ pid < PSI_PID_NULL

CollectCaDescriptors(descriptors) ==
    {d.pid : d \in {e \in descriptors : ValidPid(e.pid) /\ CaidAllowed(e.caid)}}

(* Program 0 announces the network information table. *)
PmtPidsOf(programs) == {e.pid : e \in {f \in programs : f.program # 0 /\ ValidPid(f.pid)}}

(* A section joins the ones of its version; a new version drops the others *)
WithSection(sections, sameVersion, number, pids) ==
    LET kept == IF sameVersion THEN DOMAIN sections ELSE {}
    IN  [n \in kept \cup {number} |-> IF n = number THEN pids ELSE sections[n]]

AllOf(sections) == UNION {sections[n] : n \in DOMAIN sections}

EraseUnlisted(map, keep) == [p \in DOMAIN map \cap keep |-> map[p]]

ParsePAT(sec) ==
    /\ packet = PSI_PID_PAT
    /\ m_pat_version' = sec.version
    /\ m_pat_sections' = WithSection(m_pat_sections, sec.version = m_pat_version,
                                     sec.section_number, PmtPidsOf(sec.programs))
    /\ m_pat_pmt_pids' = AllOf(m_pat_sections')
    /\ m_pmt' = IF m_pat_pmt_pids' # m_pat_pmt_pids
                THEN EraseUnlisted(m_pmt, m_pat_pmt_pids') ELSE m_pmt
    /\ m_dirty' = (m_dirty \/ m_pat_pmt_pids' # m_pat_pmt_pids)
    /\ UNCHANGED <<m_joined_pids, resultVars, catVars, packet>>

ParseCAT(sec) ==
    /\ packet = PSI_PID_CAT
    /\ m_cat_version' = sec.version
    /\ m_cat_sections' = WithSection(m_cat_sections, sec.version = m_cat_version,
                                     sec.section_number, CollectCaDescriptors(sec.descriptors))
    /\ m_emm_pids' = AllOf(m_cat_sections')
    /\ m_dirty' = (m_dirty \/ m_emm_pids' # m_emm_pids)
    /\ UNCHANGED <<m_joined_pids, resultVars, patVars, m_pmt, packet>>

(* m_pmt[pid] creates an entry without a version even if the section turns *)
(* out to be malformed.                                                    *)
NoPmt      == [version |-> NoVersion, es_pids |-> {}, ecm_pids |-> {}]
PmtOf(pid) == IF pid \in DOMAIN m_pmt THEN m_pmt[pid] ELSE NoPmt

ParsedPmt(sec) ==
    IF sec.version = PmtOf(sec.pid).version \/ ~sec.well_formed
    THEN PmtOf(sec.pid)
    ELSE [version  |-> sec.version,
          es_pids  |-> {p \in sec.es : ValidPid(p)},
          ecm_pids |-> CollectCaDescriptors(sec.descriptors)]

(* Mutant: a changed PMT is stored and not acted upon. *)
ParsePMT_NotDirty(sec) ==
    /\ packet = sec.pid
    /\ m_pmt' = [p \in DOMAIN m_pmt \cup {sec.pid} |->
                     IF p = sec.pid THEN ParsedPmt(sec) ELSE m_pmt[p]]
    /\ UNCHANGED <<m_joined_pids, resultVars, patVars, catVars, m_dirty, packet>>

(* Mutant: only ECM pids that disappeared are acted upon. *)
ParsePMT_IgnoresNew(sec) ==
    /\ packet = sec.pid
    /\ m_pmt' = [p \in DOMAIN m_pmt \cup {sec.pid} |->
                     IF p = sec.pid THEN ParsedPmt(sec) ELSE m_pmt[p]]
    /\ m_dirty' = (m_dirty \/ PmtOf(sec.pid).ecm_pids \ ParsedPmt(sec).ecm_pids # {})
    /\ UNCHANGED <<m_joined_pids, resultVars, patVars, catVars, packet>>

(* m_dirty is raised by new ECM pids only, not by new elementary streams.  *)
ParsePMT(sec) ==
    /\ packet = sec.pid
    /\ m_pmt' = [p \in DOMAIN m_pmt \cup {sec.pid} |->
                     IF p = sec.pid THEN ParsedPmt(sec) ELSE m_pmt[p]]
    /\ m_dirty' = (m_dirty \/ ParsedPmt(sec).ecm_pids # PmtOf(sec.pid).ecm_pids)
    /\ UNCHANGED <<m_joined_pids, resultVars, patVars, catVars, packet>>

(* processTS looks at packets of watched pids only. *)
BeginPacket(pid) ==
    /\ packet = NoPacket
    /\ pid \in m_watched_pids
    /\ packet' = pid
    /\ UNCHANGED <<m_joined_pids, resultVars, patVars, catVars, m_pmt, m_dirty>>

EndPacket ==
    /\ packet # NoPacket
    /\ packet' = NoPacket
    /\ m_dirty' = FALSE
    /\ UNCHANGED <<m_joined_pids, patVars, catVars, m_pmt>>
    /\ IF m_dirty THEN Recompute ELSE UNCHANGED resultVars

HandleSection ==
    \/ \E sec \in PatInputs : ParsePAT(sec)
    \/ \E sec \in CatInputs : ParseCAT(sec)
    \/ \E sec \in PmtInputs : ParsePMT(sec)

PsiNext ==
    \/ Reset
    \/ \E pids \in SUBSET JoinablePids : SetJoinedPids(pids)
    \/ \E pid \in m_watched_pids : BeginPacket(pid)
    \/ HandleSection
    \/ EndPacket

PsiSpec == PsiInit /\ [][PsiNext]_psiVars

-----------------------------------------------------------------------------
(***************************************************************************)
(* Properties                                                              *)
(***************************************************************************)

(* A PMT is only remembered while the PAT lists its pid, and a listed one  *)
(* is watched, so that no service of an old PAT or of the transponder      *)
(* before a retune can contribute pids, and none of the new one is missed. *)
TablesFitPat ==
    /\ DOMAIN m_pmt \subseteq m_pat_pmt_pids
    /\ m_pat_pmt_pids = AllOf(m_pat_sections)
    /\ m_emm_pids = AllOf(m_cat_sections)
    /\ ~m_dirty => m_watched_pids = BasePids \cup m_pat_pmt_pids

(* What is reported never exceeds the limit, and the cut by pid number     *)
(* never takes the PAT, nor the CAT while EMMs are wanted: without them    *)
(* the parser could never leave a truncated state again.                   *)
WithinLimit ==
    /\ Cardinality(m_derived_pids) <= PSI_MAX_DERIVED_PIDS
    /\ BasePids \subseteq m_derived_pids

(* Between packets the reported set differs from what the tables imply     *)
(* only in which services count as active: the EMM pids are complete (up   *)
(* to the limit) and every other pid belongs to a PMT the PAT lists.  A    *)
(* change of any table or of the kernel's list is never overlooked         *)
(* otherwise.                                                              *)
EveryPmtPid == UNION {m_pmt[p].ecm_pids : p \in DOMAIN m_pmt}
NothingForeign ==
    packet = NoPacket =>
        /\ m_derived_pids \subseteq
               BasePids \cup m_emm_pids \cup m_pat_pmt_pids \cup EveryPmtPid
        /\ EmmEnabled => Truncated(m_derived_pids \cup m_emm_pids) = m_derived_pids

(* No service is reported by half: between packets, stale or not, the      *)
(* report is that of some choice of known services, each with its PMT pid  *)
(* and exactly the ECM pids of its latest PMT (up to the limit).  Which    *)
(* services those are may be out of date, what a CAM gets for them is not, *)
(* however PMT versions, PAT changes, zaps and retunes followed each other *)
(* since the last recompute.                                               *)
WholeServices ==
    packet = NoPacket =>
        \E active \in SUBSET DOMAIN m_pmt :
            m_derived_pids = Truncated(PidsFor(m_emm_pids, m_pmt, active))

(* The report is what the tables imply.                                    *)
Fresh == m_derived_pids = DerivedNow

(* A report that is fresh between packets gets stale only by a PMT that    *)
(* changed the elementary streams of a service and not its ECM pids; every *)
(* other table change is noticed before the lock is given back.            *)
EcmsOf(pmt) == {<<p, pmt[p].ecm_pids>> : p \in {q \in DOMAIN pmt : pmt[q].ecm_pids # {}}}
StaleOnlyByStreams ==
    [][ (Fresh \/ m_dirty) /\ ~(Fresh' \/ m_dirty')
        => /\ packet \in DOMAIN m_pmt'
           /\ m_pat_pmt_pids' = m_pat_pmt_pids
           /\ m_emm_pids' = m_emm_pids
           /\ EcmsOf(m_pmt') = EcmsOf(m_pmt)
           /\ m_pmt'[packet].es_pids # PmtOf(packet).es_pids ]_psiVars
=============================================================================
