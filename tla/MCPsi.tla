------------------------------- MODULE MCPsi -------------------------------
(***************************************************************************)
(* A transponder of two services whose tables change and are then repeated *)
(* for ever.  Packets may be lost and come in any order; no section of the *)
(* new tables is lost for ever.                                            *)
(*   PAT  the old one lacks a service and holds entries parsePAT skips,    *)
(*        the new one comes in two sections                                *)
(*   CAT  one of the old descriptors is of a filtered CA system            *)
(*   PMT  the old ones exceed the limit together, one moves its streams    *)
(*        and keeps its ECM pid, one turns free to air, one is malformed   *)
(***************************************************************************)
EXTENDS Psi

MCCaids    == {5}
MCJoinable == {200, 201}

Service1 == [program |-> 1, pid |-> 100]
Service2 == [program |-> 2, pid |-> 101]
Skipped  == {[program |-> 0, pid |-> 16], [program |-> 3, pid |-> 0],
             [program |-> 4, pid |-> PSI_PID_NULL]}

OldPat == {[version |-> 0, section_number |-> 0, programs |-> {Service2} \cup Skipped]}
NewPat == {[version |-> 1, section_number |-> 0, programs |-> {Service1}],
           [version |-> 1, section_number |-> 1, programs |-> {Service2}]}

Ca(pid)  == [caid |-> 5, pid |-> pid]
Filtered == [caid |-> 6, pid |-> 60]

OldCat == {[version |-> 2, section_number |-> 0, descriptors |-> {Ca(PSI_PID_NULL), Filtered}]}
NewCat == {[version |-> 3, section_number |-> 0, descriptors |-> {Ca(50)}]}

Pmt(pid, version, es, descriptors) ==
    [pid |-> pid, version |-> version, well_formed |-> TRUE, es |-> es, descriptors |-> descriptors]

OldPmt == {Pmt(101, 3, {201}, {}),
           Pmt(101, 4, {200}, {Ca(302), Ca(303), Ca(304)}),
           Pmt(101, 5, {201}, {Ca(302), Ca(303), Ca(304)}),
           [Pmt(101, 6, {}, {}) EXCEPT !.well_formed = FALSE]}
NewPmt == {Pmt(100, 7, {200}, {Ca(300), Filtered}),
           Pmt(101, 7, {201}, {Ca(301)})}

MCPat == OldPat \cup NewPat
MCCat == OldCat \cup NewCat
MCPmt == OldPmt \cup NewPmt

KernelStep == Reset \/ \E pids \in SUBSET JoinablePids : SetJoinedPids(pids)
OldSection ==
    \/ \E sec \in OldPat : ParsePAT(sec)
    \/ \E sec \in OldCat : ParseCAT(sec)
    \/ \E sec \in OldPmt : ParsePMT(sec)

(* The RTP thread runs, and the stream repeats the current sections. *)
Carousel ==
    /\ WF_psiVars(EndPacket)
    /\ \A pid \in {0, 1, 100, 101} : SF_psiVars(BeginPacket(pid))
    /\ \A sec \in NewPat : SF_psiVars(ParsePAT(sec))
    /\ \A sec \in NewCat : SF_psiVars(ParseCAT(sec))
    /\ \A sec \in NewPmt : SF_psiVars(ParsePMT(sec))

LiveSpec == PsiSpec /\ Carousel

(* The pids a CAM needs for what the kernel joined. *)
NeededPids ==
    {50} \cup {pid \in {300, 301} : \E sec \in NewPmt :
                   Ca(pid) \in sec.descriptors /\ sec.es \cap m_joined_pids # {}}

(* When the kernel does not zap any more and the tables stay as they are,  *)
(* the derived pids end up with the EMM pids and the ECM pids of every     *)
(* service the kernel joined, whatever was on the air before, in whatever  *)
(* order the sections came and however often some were missed.             *)
NeededDerived ==
    <>[][~KernelStep /\ ~OldSection]_psiVars => <>[](NeededPids \subseteq m_derived_pids)
=============================================================================
