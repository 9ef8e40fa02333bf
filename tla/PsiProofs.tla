----------------------------- MODULE PsiProofs -----------------------------
(***************************************************************************)
(* Proofs about the PSI parser (module Psi), for every limit, every filter *)
(* and every set of sections: what the ordered cut of a pid set keeps, the *)
(* inductive invariant of the parser, and its action properties.           *)
(***************************************************************************)
EXTENDS Psi, FiniteSetTheorems, WellFoundedInduction, TLAPS

-----------------------------------------------------------------------------
(***************************************************************************)
(* Sets of pids: least and greatest elements                               *)
(***************************************************************************)

(* A set of naturals that is not empty has a least element. *)
LEMMA SmallestOf ==
    ASSUME NEW S \in SUBSET Nat, S # {}
    PROVE  \E n \in S : \A k \in S : n <= k
<1>1. PICK x \in S : \A y \in S : ~ (<<y, x>> \in OpToRel(<, Nat))
  BY NatLessThanWellFounded, WFMin
<1>2. ASSUME NEW y \in S, y < x PROVE FALSE
  <2>1. <<y, x>> \in Nat \X Nat
    OBVIOUS
  <2>2. <<y, x>> \in OpToRel(<, Nat)
    BY <2>1, <1>2 DEF OpToRel
  <2> QED BY <2>2, <1>1
<1> QED BY <1>2

(* A bounded one has a greatest element. *)
LEMMA LargestOf ==
    ASSUME NEW b \in Nat, NEW S \in SUBSET (0..b), S # {}
    PROVE  \E n \in S : \A k \in S : k <= n
<1> DEFINE M == {b - k : k \in S}
<1>1. M \in SUBSET Nat
  OBVIOUS
<1>2. M # {}
  <2>1. PICK e \in S : TRUE
    OBVIOUS
  <2>2. b - e \in M
    OBVIOUS
  <2> QED BY <2>2
<1> HIDE DEF M
<1>3. PICK m \in M : \A k \in M : m <= k
  BY <1>1, <1>2, SmallestOf
<1>4. PICK n \in S : m = b - n
  BY DEF M
<1>5. \A k \in S : m <= b - k
  BY <1>3 DEF M
<1> QED BY <1>4, <1>5

-----------------------------------------------------------------------------
(***************************************************************************)
(* The ordered cut: Truncated                                              *)
(***************************************************************************)

Below(S, p) == {q \in S : q < p}

LEMMA LimitFact == PSI_MAX_DERIVED_PIDS \in Nat /\ PSI_MAX_DERIVED_PIDS >= 2
  BY PsiAssumption

LEMMA TsPidsFact == TsPids \subseteq Nat /\ IsFiniteSet(TsPids) /\ {0, 1} \subseteq TsPids
<1>1. PSI_PID_NULL \in Nat
  BY DEF PSI_PID_NULL
<1>2. \A b \in Nat : IsFiniteSet(0..b)
  BY FS_Interval
<1>3. IsFiniteSet(TsPids)
  BY <1>1, <1>2 DEF TsPids
<1>4. TsPids \subseteq Nat /\ {0, 1} \subseteq TsPids
  BY DEF TsPids, PSI_PID_NULL
<1> QED BY <1>3, <1>4

(* Any set of pids is finite, and its parts have no more elements. *)
LEMMA PidSets ==
    ASSUME NEW S \in SUBSET TsPids, NEW T \in SUBSET S
    PROVE  /\ IsFiniteSet(S) /\ IsFiniteSet(T)
           /\ Cardinality(S) \in Nat /\ Cardinality(T) \in Nat
           /\ Cardinality(T) <= Cardinality(S)
<1>1. IsFiniteSet(S)
  BY TsPidsFact, FS_Subset
<1> QED BY <1>1, FS_Subset, FS_CardinalityType

(* The cut leaves at most the limit. *)
LEMMA TruncatedBound ==
    ASSUME NEW S \in SUBSET TsPids
    PROVE  Cardinality(Truncated(S)) <= PSI_MAX_DERIVED_PIDS
<1> DEFINE T == Truncated(S)
<1>1. T \in SUBSET S /\ T \in SUBSET TsPids
  BY DEF Truncated
<1>2. CASE T = {}
  BY <1>2, FS_EmptySet, LimitFact
<1>3. CASE T # {}
  <2>1. PICK p \in T : \A k \in T : k <= p
    <3>1. T \in SUBSET (0..PSI_PID_NULL) /\ PSI_PID_NULL \in Nat
      BY <1>1 DEF TsPids, PSI_PID_NULL
    <3> HIDE DEF T
    <3> QED BY <3>1, <1>3, LargestOf
  <2>2. Cardinality(Below(S, p)) < PSI_MAX_DERIVED_PIDS
    BY <2>1 DEF Truncated, Below
  <2>3. T \ {p} \in SUBSET Below(S, p)
    <3>1. T \subseteq Nat
      BY <1>1, TsPidsFact
    <3>2. ASSUME NEW k \in T \ {p} PROVE k < p /\ k \in S
      BY <3>1, <2>1, <1>1
    <3> QED BY <3>2 DEF Below
  <2>4. Below(S, p) \in SUBSET TsPids
    BY DEF Below
  <2>5. Cardinality(T \ {p}) <= Cardinality(Below(S, p)) /\ Cardinality(Below(S, p)) \in Nat
    BY <2>3, <2>4, PidSets
  <2>6. IsFiniteSet(T) /\ Cardinality(T) \in Nat
    BY <1>1, PidSets
  <2>7. Cardinality(T \ {p}) = Cardinality(T) - 1
    BY <2>1, <2>6, FS_RemoveElement
  <2> HIDE DEF T
  <2>8. Cardinality(T) <= PSI_MAX_DERIVED_PIDS
    BY <2>2, <2>5, <2>6, <2>7, LimitFact
  <2> QED BY <2>8 DEF T
<1> QED BY <1>2, <1>3

(* PAT and CAT are the smallest pids there are: the cut spares them. *)
LEMMA TruncatedKeepsBase ==
    ASSUME NEW S \in SUBSET TsPids, BasePids \subseteq S
    PROVE  BasePids \subseteq Truncated(S)
<1> SUFFICES ASSUME NEW p \in BasePids PROVE p \in Truncated(S)
  OBVIOUS
<1>1. p \in S /\ p \in 0..1
  BY DEF BasePids, PSI_PID_PAT, PSI_PID_CAT
<1>2. Below(S, p) \in SUBSET {0}
  <2>1. ASSUME NEW q \in S, q < p PROVE q = 0
    BY <2>1, <1>1, TsPidsFact
  <2> QED BY <2>1 DEF Below
<1>3. Cardinality({0}) = 1 /\ {0} \in SUBSET TsPids
  BY FS_Singleton, TsPidsFact
<1>4. Cardinality(Below(S, p)) <= 1 /\ Cardinality(Below(S, p)) \in Nat
  BY <1>2, <1>3, PidSets
<1> QED BY <1>1, <1>4, LimitFact DEF Truncated, Below

(* A pid of S beyond the cut has the limit of kept pids below it. *)
LEMMA CutIsFull ==
    ASSUME NEW S \in SUBSET TsPids, NEW p \in S, p \notin Truncated(S)
    PROVE  Cardinality(Below(Truncated(S), p)) >= PSI_MAX_DERIVED_PIDS
<1> DEFINE T == Truncated(S)
           R == Below(S, p) \ T
<1>1. T \in SUBSET S /\ R \in SUBSET TsPids /\ R \in SUBSET Nat
  BY TsPidsFact DEF Truncated, Below
<1>2. \A r \in S \ T : Cardinality(Below(S, r)) >= PSI_MAX_DERIVED_PIDS
  <2> SUFFICES ASSUME NEW r \in S \ T
               PROVE  Cardinality(Below(S, r)) >= PSI_MAX_DERIVED_PIDS
    OBVIOUS
  <2>1. Cardinality(Below(S, r)) \in Nat
    <3>1. Below(S, r) \in SUBSET TsPids
      BY DEF Below
    <3> QED BY <3>1, PidSets
  <2>2. ~(Cardinality(Below(S, r)) < PSI_MAX_DERIVED_PIDS)
    BY DEF Truncated, Below
  <2> QED BY <2>1, <2>2, LimitFact
<1>3. \E r \in S \ T : Below(S, r) \in SUBSET Below(T, p)
  <2>1. CASE R = {}
    BY <2>1 DEF Below
  <2>2. CASE R # {}
    <3>1. PICK r \in R : \A k \in R : r <= k
      <4> HIDE DEF R
      <4> QED BY <2>2, <1>1, SmallestOf
    <3>2. r \in S \ T /\ r < p /\ r \in Nat /\ p \in Nat
      BY <3>1, TsPidsFact DEF Below
    <3>3. ASSUME NEW q \in Below(S, r) PROVE q \in Below(T, p)
      <4>1. q \in S /\ q < r /\ q \in Nat
        BY TsPidsFact DEF Below
      <4>2. q < p
        BY <4>1, <3>2
      <4>3. q \notin R
        BY <4>1, <3>1, <3>2
      <4> QED BY <4>1, <4>2, <4>3 DEF Below
    <3> QED BY <3>2, <3>3
  <2> QED BY <2>1, <2>2
<1>4. PICK r \in S \ T : Below(S, r) \in SUBSET Below(T, p)
  BY <1>3
<1>5. Below(T, p) \in SUBSET TsPids
  BY <1>1 DEF Below
<1>6. /\ Cardinality(Below(S, r)) <= Cardinality(Below(T, p))
      /\ Cardinality(Below(S, r)) \in Nat /\ Cardinality(Below(T, p)) \in Nat
  BY <1>4, <1>5, PidSets
<1> QED BY <1>2, <1>6, LimitFact

(* Pids of the set that the cut removed stay removed when they are offered *)
(* again together with what was kept.                                      *)
LEMMA TruncatedAgain ==
    ASSUME NEW S \in SUBSET TsPids, NEW X \in SUBSET S
    PROVE  Truncated(Truncated(S) \cup X) = Truncated(S)
<1> DEFINE T == Truncated(S)
           U == T \cup X
<1>1. U \in SUBSET S /\ T \in SUBSET S
  BY DEF Truncated
<1>2. ASSUME NEW p \in S
      PROVE  /\ Cardinality(Below(U, p)) <= Cardinality(Below(S, p))
             /\ Cardinality(Below(T, p)) <= Cardinality(Below(U, p))
             /\ Cardinality(Below(U, p)) \in Nat
             /\ Cardinality(Below(S, p)) \in Nat
             /\ Cardinality(Below(T, p)) \in Nat
  <2>1. Below(U, p) \in SUBSET Below(S, p) /\ Below(S, p) \in SUBSET TsPids
    BY <1>1 DEF Below
  <2>2. Below(T, p) \in SUBSET Below(U, p) /\ Below(U, p) \in SUBSET TsPids
    BY <1>1 DEF Below
  <2> QED BY <2>1, <2>2, PidSets
<1>3. ASSUME NEW p \in T PROVE p \in Truncated(U)
  <2>1. Cardinality(Below(S, p)) < PSI_MAX_DERIVED_PIDS /\ p \in S
    BY DEF Truncated, Below
  <2>2. Cardinality(Below(U, p)) < PSI_MAX_DERIVED_PIDS
    <3>1. Cardinality(Below(U, p)) <= Cardinality(Below(S, p))
      BY <2>1, <1>2
    <3>2. Cardinality(Below(U, p)) \in Nat /\ Cardinality(Below(S, p)) \in Nat
      BY <2>1, <1>2
    <3> QED BY <3>1, <3>2, <2>1, LimitFact
  <2> QED BY <2>2 DEF Truncated, Below
<1>4. ASSUME NEW p \in Truncated(U) PROVE p \in T
  <2>1. p \in S /\ Cardinality(Below(U, p)) < PSI_MAX_DERIVED_PIDS
    BY <1>1 DEF Truncated, Below
  <2>2. ASSUME p \notin T PROVE FALSE
    <3>1. Cardinality(Below(T, p)) >= PSI_MAX_DERIVED_PIDS
      BY <2>1, <2>2, CutIsFull
    <3>2. Cardinality(Below(T, p)) <= Cardinality(Below(U, p))
      BY <2>1, <1>2
    <3>3. Cardinality(Below(T, p)) \in Nat /\ Cardinality(Below(U, p)) \in Nat
      BY <2>1, <1>2
    <3> QED BY <3>1, <3>2, <3>3, <2>1, LimitFact
  <2> QED BY <2>2
<1>5. T \subseteq Truncated(U) /\ Truncated(U) \subseteq T
  BY <1>3, <1>4
<1> QED BY <1>5

-----------------------------------------------------------------------------
(***************************************************************************)
(* What recompute reports                                                  *)
(***************************************************************************)

LEMMA RecomputedReport ==
    ASSUME NEW emm \in SUBSET TsPids, NEW pmtPids \in SUBSET TsPids, NEW pmt, NEW joined,
           \A p \in DOMAIN pmt : pmt[p] \in PmtInfo,
           NEW D, D = Truncated(Implied(emm, pmtPids, pmt, joined))
    PROVE  /\ D \subseteq TsPids
           /\ Cardinality(D) <= PSI_MAX_DERIVED_PIDS
           /\ BasePids \subseteq D
           /\ D \subseteq BasePids \cup emm \cup pmtPids
                          \cup UNION {pmt[p].ecm_pids : p \in DOMAIN pmt}
           /\ EmmEnabled => Truncated(D \cup emm) = D
<1> DEFINE A == Active(pmtPids, pmt, joined)
           S == Implied(emm, pmtPids, pmt, joined)
<1>1. A \subseteq pmtPids /\ A \subseteq DOMAIN pmt
  BY DEF Active
<1>2. BasePids \subseteq TsPids
  BY TsPidsFact DEF BasePids, PSI_PID_PAT, PSI_PID_CAT
<1>3. UNION {pmt[p].ecm_pids : p \in A} \subseteq TsPids
  BY <1>1 DEF PmtInfo
<1>4. UNION {pmt[p].ecm_pids : p \in A} \subseteq UNION {pmt[p].ecm_pids : p \in DOMAIN pmt}
  BY <1>1
<1> HIDE DEF A
<1>5. S = BasePids \cup (IF EmmEnabled THEN emm ELSE {}) \cup A
          \cup UNION {pmt[p].ecm_pids : p \in A}
  BY DEF Implied, PidsFor, A
<1> HIDE DEF S
<1>6. S \in SUBSET TsPids /\ BasePids \subseteq S
  BY <1>1, <1>2, <1>3, <1>5
<1>7. D \subseteq S /\ D = Truncated(S)
  BY DEF Truncated, S
<1>8. Cardinality(D) <= PSI_MAX_DERIVED_PIDS /\ BasePids \subseteq D
  BY <1>6, <1>7, TruncatedBound, TruncatedKeepsBase
<1>9. D \subseteq BasePids \cup emm \cup pmtPids
                  \cup UNION {pmt[p].ecm_pids : p \in DOMAIN pmt}
  BY <1>1, <1>4, <1>5, <1>7
<1>10. EmmEnabled => emm \in SUBSET S
  BY <1>5
<1>11. EmmEnabled => Truncated(D \cup emm) = D
  BY <1>6, <1>7, <1>10, TruncatedAgain
<1> QED BY <1>6, <1>7, <1>8, <1>9, <1>11

(* The sections of a table, and what one more makes of them. *)
LEMMA WithSectionPids ==
    ASSUME NEW sections, NEW same \in BOOLEAN, NEW number \in SectionNumbers,
           NEW pids \in SUBSET TsPids,
           DOMAIN sections \subseteq SectionNumbers, AllOf(sections) \subseteq TsPids,
           NEW new, new = WithSection(sections, same, number, pids)
    PROVE  DOMAIN new \subseteq SectionNumbers /\ AllOf(new) \subseteq TsPids
<1>1. DOMAIN new = (IF same THEN DOMAIN sections ELSE {}) \cup {number}
  BY DEF WithSection
<1>2. ASSUME NEW n \in DOMAIN new PROVE new[n] \subseteq TsPids
  <2>1. new[n] = IF n = number THEN pids ELSE sections[n]
    BY DEF WithSection
  <2>2. CASE n = number
    BY <2>1, <2>2
  <2>3. CASE n # number
    BY <2>1, <2>3, <1>1 DEF AllOf
  <2> QED BY <2>2, <2>3
<1> QED BY <1>1, <1>2 DEF AllOf

-----------------------------------------------------------------------------
(***************************************************************************)
(* The inductive invariant                                                 *)
(***************************************************************************)

(* m_dirty lives within one packet, and a packet that is looked at belongs *)
(* to a table the parser knows.                                            *)
PacketKnown ==
    /\ packet = NoPacket => ~m_dirty
    /\ packet \notin {NoPacket, PSI_PID_PAT, PSI_PID_CAT} => packet \in m_pat_pmt_pids

(* The body of NothingForeign. *)
ReportFits ==
    /\ m_derived_pids \subseteq
           BasePids \cup m_emm_pids \cup m_pat_pmt_pids \cup EveryPmtPid
    /\ EmmEnabled => Truncated(m_derived_pids \cup m_emm_pids) = m_derived_pids

(* While a packet is worked on, the report is kept until m_dirty says that *)
(* a table it was made from has changed.                                   *)
PsiInv ==
    /\ PacketKnown
    /\ TablesFitPat
    /\ WithinLimit
    /\ ~m_dirty => ReportFits

(* A step that ends with recompute, from tables that have their types. *)
LEMMA RecomputeStep ==
    ASSUME Recompute,
           (m_emm_pids \subseteq TsPids)', (m_pat_pmt_pids \subseteq TsPids)',
           (\A p \in DOMAIN m_pmt : m_pmt[p] \in PmtInfo)'
    PROVE  /\ (m_derived_pids \subseteq TsPids)' /\ (m_watched_pids \subseteq TsPids)'
           /\ m_watched_pids' = BasePids \cup m_pat_pmt_pids'
           /\ WithinLimit'
           /\ ReportFits'
<1>1. m_derived_pids' = Truncated(Implied(m_emm_pids', m_pat_pmt_pids', m_pmt', m_joined_pids'))
  BY DEF Recompute
<1>2. /\ m_derived_pids' \subseteq TsPids
      /\ Cardinality(m_derived_pids') <= PSI_MAX_DERIVED_PIDS
      /\ BasePids \subseteq m_derived_pids'
      /\ m_derived_pids' \subseteq BasePids \cup m_emm_pids' \cup m_pat_pmt_pids'
                     \cup UNION {m_pmt'[p].ecm_pids : p \in DOMAIN m_pmt'}
      /\ EmmEnabled => Truncated(m_derived_pids' \cup m_emm_pids') = m_derived_pids'
  <2>1. m_emm_pids' \in SUBSET TsPids /\ m_pat_pmt_pids' \in SUBSET TsPids
    OBVIOUS
  <2>2. \A p \in DOMAIN m_pmt' : m_pmt'[p] \in PmtInfo
    OBVIOUS
  <2> QED BY ONLY <2>1, <2>2, <1>1, RecomputedReport
<1>3. BasePids \subseteq TsPids
  BY TsPidsFact DEF BasePids, PSI_PID_PAT, PSI_PID_CAT
<1>4. m_watched_pids' = BasePids \cup m_pat_pmt_pids'
  BY DEF Recompute
<1>5. WithinLimit'
  BY <1>2 DEF WithinLimit
<1>6. ReportFits'
  BY <1>2 DEF ReportFits, EveryPmtPid, Truncated
<1> QED BY <1>2, <1>3, <1>4, <1>5, <1>6

LEMMA PsiInitInv == PsiInit => PsiTypeOK /\ PsiInv
<1> SUFFICES ASSUME PsiInit PROVE PsiTypeOK /\ PsiInv
  OBVIOUS
<1>1. BasePids \in SUBSET TsPids
  BY TsPidsFact DEF BasePids, PSI_PID_PAT, PSI_PID_CAT
<1>2. DOMAIN m_pat_sections = {} /\ DOMAIN m_cat_sections = {} /\ DOMAIN m_pmt = {}
  BY DEF PsiInit
<1>3. m_dirty \in BOOLEAN /\ ~m_dirty
  BY DEF PsiInit
<1>4. PsiTypeOK
  BY <1>1, <1>2, <1>3 DEF PsiInit, PsiTypeOK
<1>5. PacketKnown /\ TablesFitPat
  BY <1>2, <1>3 DEF PsiInit, PacketKnown, TablesFitPat, AllOf
<1>6. Truncated(BasePids) = BasePids
  BY <1>1, TruncatedKeepsBase DEF Truncated
<1>7. Cardinality(BasePids) <= PSI_MAX_DERIVED_PIDS
  BY <1>1, <1>6, TruncatedBound
<1>8. WithinLimit /\ ReportFits
  <2>1. BasePids \cup {} = BasePids
    OBVIOUS
  <2> QED BY <1>6, <1>7, <2>1 DEF PsiInit, WithinLimit, ReportFits
<1> QED BY <1>4, <1>5, <1>8 DEF PsiInv

LEMMA ResetStep ==
    ASSUME PsiTypeOK, PsiInv, Reset
    PROVE  PsiTypeOK' /\ PsiInv'
<1> USE DEF Reset, ClearState
<1>1. DOMAIN m_pat_sections' = {} /\ DOMAIN m_cat_sections' = {} /\ DOMAIN m_pmt' = {}
  OBVIOUS
<1>2. /\ (m_derived_pids \subseteq TsPids)' /\ (m_watched_pids \subseteq TsPids)'
      /\ m_watched_pids' = BasePids \cup m_pat_pmt_pids'
      /\ WithinLimit' /\ ReportFits'
  BY <1>1, RecomputeStep
<1>3. m_dirty' \in BOOLEAN /\ ~m_dirty'
  OBVIOUS
<1>4. PsiTypeOK'
  BY <1>1, <1>2, <1>3 DEF PsiTypeOK
<1>5. PacketKnown' /\ TablesFitPat'
  BY <1>1, <1>2, <1>3 DEF PsiTypeOK, PacketKnown, TablesFitPat, AllOf
<1> QED BY <1>2, <1>4, <1>5 DEF PsiInv

(* A step that leaves the tables alone and ends with recompute. *)
LEMMA RecomputeSameTables ==
    ASSUME PsiTypeOK, PsiInv, Recompute, UNCHANGED <<patVars, catVars, m_pmt>>,
           (m_joined_pids \subseteq TsPids)', m_dirty' \in BOOLEAN, packet' = NoPacket, ~m_dirty'
    PROVE  PsiTypeOK' /\ PsiInv'
<1> USE DEF patVars, catVars
<1>1. /\ (m_derived_pids \subseteq TsPids)' /\ (m_watched_pids \subseteq TsPids)'
      /\ m_watched_pids' = BasePids \cup m_pat_pmt_pids'
      /\ WithinLimit' /\ ReportFits'
  <2>1. /\ (m_emm_pids \subseteq TsPids)' /\ (m_pat_pmt_pids \subseteq TsPids)'
        /\ (\A p \in DOMAIN m_pmt : m_pmt[p] \in PmtInfo)'
    BY DEF PsiTypeOK
  <2> QED BY <2>1, RecomputeStep
<1>2. PsiTypeOK'
  BY <1>1 DEF PsiTypeOK
<1>3. PacketKnown'
  BY DEF PacketKnown
<1>4. TablesFitPat'
  BY <1>1 DEF PsiInv, TablesFitPat, AllOf
<1> QED BY <1>1, <1>2, <1>3, <1>4 DEF PsiInv

LEMMA SetJoinedPidsStep ==
    ASSUME PsiTypeOK, PsiInv, NEW pids \in SUBSET JoinablePids, SetJoinedPids(pids)
    PROVE  PsiTypeOK' /\ PsiInv'
<1>1. pids \subseteq TsPids
  BY PsiAssumption
<1>2. ~m_dirty /\ m_dirty' = m_dirty /\ m_dirty \in BOOLEAN
  BY DEF SetJoinedPids, PsiInv, PacketKnown, PsiTypeOK
<1>3. CASE pids # m_joined_pids
  BY <1>1, <1>2, <1>3, RecomputeSameTables DEF SetJoinedPids
<1>4. CASE pids = m_joined_pids
  <2>1. UNCHANGED psiVars
    BY <1>4 DEF SetJoinedPids, psiVars, resultVars, patVars, catVars
  <2> USE <2>1 DEF psiVars, resultVars, patVars, catVars
  <2>2. PsiTypeOK'
    BY DEF PsiTypeOK
  <2> QED
    BY <2>2 DEF PsiInv, PacketKnown, TablesFitPat, AllOf, WithinLimit, ReportFits, EveryPmtPid
<1> QED BY <1>3, <1>4

LEMMA BeginPacketStep ==
    ASSUME PsiTypeOK, PsiInv, NEW pid \in m_watched_pids, BeginPacket(pid)
    PROVE  PsiTypeOK' /\ PsiInv'
<1> USE DEF BeginPacket, resultVars, patVars, catVars
<1>1. PsiTypeOK'
  BY DEF PsiTypeOK
<1>2. PacketKnown'
  <2>1. m_watched_pids = BasePids \cup m_pat_pmt_pids
    BY DEF PsiInv, PacketKnown, TablesFitPat
  <2>2. pid \in TsPids /\ BasePids \subseteq {PSI_PID_PAT, PSI_PID_CAT}
    BY DEF PsiTypeOK, BasePids
  <2>3. pid # NoPacket
    BY <2>2, TsPidsFact DEF NoPacket
  <2> QED BY <2>1, <2>2, <2>3 DEF PacketKnown
<1> QED
  BY <1>1, <1>2 DEF PsiInv, TablesFitPat, AllOf, WithinLimit, ReportFits, EveryPmtPid

LEMMA EndPacketStep ==
    ASSUME PsiTypeOK, PsiInv, EndPacket
    PROVE  PsiTypeOK' /\ PsiInv'
<1> USE DEF EndPacket
<1>1. m_dirty \in BOOLEAN /\ m_dirty' \in BOOLEAN /\ ~m_dirty' /\ packet' = NoPacket
  BY DEF PsiTypeOK
<1>2. CASE m_dirty
  BY <1>1, <1>2, RecomputeSameTables DEF PsiTypeOK
<1>3. CASE ~m_dirty
  <2> USE <1>1, <1>3 DEF resultVars, patVars, catVars
  <2>1. PsiTypeOK'
    BY DEF PsiTypeOK
  <2> QED
    BY <2>1 DEF PsiInv, PacketKnown, TablesFitPat, AllOf, WithinLimit, ReportFits, EveryPmtPid
<1> QED BY <1>1, <1>2, <1>3

(* An unchanged list of PMT pids leaves the PMTs as they are, and a new    *)
(* one raises m_dirty.                                                     *)
LEMMA ParsePATStep ==
    ASSUME PsiTypeOK, PsiInv, NEW sec \in PatInputs, ParsePAT(sec)
    PROVE  PsiTypeOK' /\ PsiInv'
<1> USE DEF ParsePAT, resultVars, catVars
<1>1. /\ sec.version \in Versions /\ sec.section_number \in SectionNumbers
      /\ sec.programs \subseteq Programs
  BY PsiAssumption
<1>2. PmtPidsOf(sec.programs) \in SUBSET TsPids
  BY <1>1 DEF PmtPidsOf, Programs
<1>3. DOMAIN m_pat_sections' \subseteq SectionNumbers /\ AllOf(m_pat_sections') \subseteq TsPids
  <2>1. DOMAIN m_pat_sections \subseteq SectionNumbers /\ AllOf(m_pat_sections) \subseteq TsPids
    BY DEF PsiTypeOK, PsiInv, TablesFitPat
  <2>2. (sec.version = m_pat_version) \in BOOLEAN
    OBVIOUS
  <2>3. m_pat_sections' = WithSection(m_pat_sections, sec.version = m_pat_version,
                                      sec.section_number, PmtPidsOf(sec.programs))
    OBVIOUS
  <2> QED BY ONLY <1>1, <1>2, <2>1, <2>2, <2>3, WithSectionPids
<1>4. /\ DOMAIN m_pmt' \subseteq DOMAIN m_pmt \cap m_pat_pmt_pids'
      /\ \A p \in DOMAIN m_pmt' : m_pmt'[p] = m_pmt[p]
  BY DEF PsiInv, TablesFitPat, EraseUnlisted
<1>5. m_dirty' \in BOOLEAN /\ (~m_dirty' => ~m_dirty /\ m_pat_pmt_pids' = m_pat_pmt_pids)
  BY DEF PsiTypeOK
<1>6. ~m_dirty' => m_pmt' = m_pmt
  BY <1>5
<1>7. PsiTypeOK'
  BY <1>1, <1>3, <1>4, <1>5 DEF PsiTypeOK
<1>8. PacketKnown'
  BY TsPidsFact DEF PacketKnown, NoPacket, PSI_PID_PAT
<1>9. TablesFitPat'
  BY <1>4, <1>5 DEF PsiInv, TablesFitPat, AllOf
<1>10. WithinLimit' /\ (~m_dirty' => ReportFits')
  BY <1>5, <1>6 DEF PsiInv, WithinLimit, ReportFits, EveryPmtPid
<1> QED BY <1>7, <1>8, <1>9, <1>10 DEF PsiInv

LEMMA CollectedPids ==
    ASSUME NEW descriptors \in SUBSET Descriptors
    PROVE  CollectCaDescriptors(descriptors) \in SUBSET TsPids
  BY DEF CollectCaDescriptors, Descriptors

LEMMA ParseCATStep ==
    ASSUME PsiTypeOK, PsiInv, NEW sec \in CatInputs, ParseCAT(sec)
    PROVE  PsiTypeOK' /\ PsiInv'
<1> USE DEF ParseCAT, resultVars, patVars
<1>1. /\ sec.version \in Versions /\ sec.section_number \in SectionNumbers
      /\ sec.descriptors \subseteq Descriptors
  BY PsiAssumption
<1>2. CollectCaDescriptors(sec.descriptors) \in SUBSET TsPids
  BY <1>1, CollectedPids
<1>3. DOMAIN m_cat_sections' \subseteq SectionNumbers /\ AllOf(m_cat_sections') \subseteq TsPids
  <2>1. DOMAIN m_cat_sections \subseteq SectionNumbers /\ AllOf(m_cat_sections) \subseteq TsPids
    BY DEF PsiTypeOK, PsiInv, TablesFitPat
  <2>2. (sec.version = m_cat_version) \in BOOLEAN
    OBVIOUS
  <2>3. m_cat_sections' = WithSection(m_cat_sections, sec.version = m_cat_version,
                              sec.section_number, CollectCaDescriptors(sec.descriptors))
    OBVIOUS
  <2> QED BY ONLY <1>1, <1>2, <2>1, <2>2, <2>3, WithSectionPids
<1>4. m_dirty' \in BOOLEAN /\ (~m_dirty' => ~m_dirty /\ m_emm_pids' = m_emm_pids)
  BY DEF PsiTypeOK
<1>5. PsiTypeOK'
  BY <1>1, <1>3, <1>4 DEF PsiTypeOK
<1>6. PacketKnown'
  BY DEF PacketKnown, NoPacket, PSI_PID_CAT
<1>7. TablesFitPat'
  BY <1>4 DEF PsiInv, TablesFitPat, AllOf
<1>8. WithinLimit' /\ (~m_dirty' => ReportFits')
  BY <1>4 DEF PsiInv, WithinLimit, ReportFits, EveryPmtPid
<1> QED BY <1>5, <1>6, <1>7, <1>8 DEF PsiInv

(* What ParsePMT does to m_pmt, entry by entry. *)
LEMMA ParsedEntry ==
    ASSUME PsiTypeOK, NEW sec \in PmtInputs, ParsePMT(sec)
    PROVE  /\ DOMAIN m_pmt' = DOMAIN m_pmt \cup {sec.pid}
           /\ m_pmt'[sec.pid] = ParsedPmt(sec) /\ ParsedPmt(sec) \in PmtInfo
           /\ \A p \in DOMAIN m_pmt \ {sec.pid} : m_pmt'[p] = m_pmt[p]
           /\ PmtOf(sec.pid) \in PmtInfo
           /\ m_dirty' \in BOOLEAN
           /\ ~m_dirty' => ~m_dirty /\ m_pmt'[sec.pid].ecm_pids = PmtOf(sec.pid).ecm_pids
<1>1. /\ DOMAIN m_pmt' = DOMAIN m_pmt \cup {sec.pid}
      /\ m_pmt'[sec.pid] = ParsedPmt(sec)
      /\ \A p \in DOMAIN m_pmt \ {sec.pid} : m_pmt'[p] = m_pmt[p]
  BY DEF ParsePMT
<1>2. PmtOf(sec.pid) \in PmtInfo
  BY DEF PsiTypeOK, PmtOf, NoPmt, PmtInfo
<1>3. ParsedPmt(sec) \in PmtInfo
  <2>1. sec.version \in Versions /\ sec.es \subseteq TsPids /\ sec.descriptors \subseteq Descriptors
    BY PsiAssumption
  <2>2. CollectCaDescriptors(sec.descriptors) \in SUBSET TsPids
    BY <2>1, CollectedPids
  <2> QED BY <1>2, <2>1, <2>2 DEF ParsedPmt, PmtInfo
<1>4. /\ m_dirty' \in BOOLEAN
      /\ ~m_dirty' => ~m_dirty /\ ParsedPmt(sec).ecm_pids = PmtOf(sec.pid).ecm_pids
  BY DEF ParsePMT, PsiTypeOK
<1> QED BY <1>1, <1>2, <1>3, <1>4

LEMMA ParsePMTStep ==
    ASSUME PsiTypeOK, PsiInv, NEW sec \in PmtInputs, ParsePMT(sec)
    PROVE  PsiTypeOK' /\ PsiInv'
<1> USE DEF resultVars, patVars, catVars
<1>1. /\ DOMAIN m_pmt' = DOMAIN m_pmt \cup {sec.pid}
      /\ m_pmt'[sec.pid] = ParsedPmt(sec) /\ ParsedPmt(sec) \in PmtInfo
      /\ \A p \in DOMAIN m_pmt \ {sec.pid} : m_pmt'[p] = m_pmt[p]
      /\ m_dirty' \in BOOLEAN
      /\ ~m_dirty' => ~m_dirty /\ m_pmt'[sec.pid].ecm_pids = PmtOf(sec.pid).ecm_pids
  BY ParsedEntry
<1>2. /\ packet = sec.pid /\ packet \in TsPids
      /\ packet \notin {NoPacket, PSI_PID_PAT, PSI_PID_CAT}
      /\ UNCHANGED <<m_joined_pids, resultVars, patVars, catVars, packet>>
  BY PsiAssumption, TsPidsFact DEF ParsePMT, NoPacket
<1>3. sec.pid \in m_pat_pmt_pids
  BY <1>2 DEF PsiInv, PacketKnown
<1>4. PsiTypeOK'
  BY <1>1, <1>2 DEF PsiTypeOK
<1>5. PacketKnown'
  BY <1>2 DEF PsiInv, PacketKnown
<1>6. TablesFitPat'
  BY <1>1, <1>2, <1>3 DEF PsiInv, TablesFitPat, AllOf
<1>7. ASSUME ~m_dirty' PROVE ReportFits'
  <2>1. \A p \in DOMAIN m_pmt : m_pmt'[p].ecm_pids = m_pmt[p].ecm_pids
    BY <1>1, <1>7 DEF PmtOf
  <2>2. EveryPmtPid \subseteq EveryPmtPid'
    BY <1>1, <2>1 DEF EveryPmtPid
  <2>3. ReportFits
    BY <1>1, <1>7 DEF PsiInv
  <2> HIDE DEF resultVars, patVars, catVars
  <2>4. /\ m_derived_pids' = m_derived_pids /\ m_emm_pids' = m_emm_pids
        /\ m_pat_pmt_pids' = m_pat_pmt_pids
    BY <1>2 DEF resultVars, patVars, catVars
  <2> QED BY <2>2, <2>3, <2>4 DEF ReportFits
<1>8. WithinLimit'
  BY <1>2 DEF PsiInv, WithinLimit
<1> QED BY <1>4, <1>5, <1>6, <1>7, <1>8 DEF PsiInv

LEMMA PsiStep == PsiTypeOK /\ PsiInv /\ [PsiNext]_psiVars => PsiTypeOK' /\ PsiInv'
<1> SUFFICES ASSUME PsiTypeOK, PsiInv, [PsiNext]_psiVars
             PROVE  PsiTypeOK' /\ PsiInv'
  OBVIOUS
<1>1. CASE Reset
  BY <1>1, ResetStep
<1>2. CASE \E pids \in SUBSET JoinablePids : SetJoinedPids(pids)
  BY <1>2, SetJoinedPidsStep
<1>3. CASE \E pid \in m_watched_pids : BeginPacket(pid)
  BY <1>3, BeginPacketStep
<1>4. CASE \E sec \in PatInputs : ParsePAT(sec)
  BY <1>4, ParsePATStep
<1>5. CASE \E sec \in CatInputs : ParseCAT(sec)
  BY <1>5, ParseCATStep
<1>6. CASE \E sec \in PmtInputs : ParsePMT(sec)
  BY <1>6, ParsePMTStep
<1>7. CASE EndPacket
  BY <1>7, EndPacketStep
<1>8. CASE UNCHANGED psiVars
  <2> USE <1>8 DEF psiVars, resultVars, patVars, catVars
  <2>1. PsiTypeOK'
    BY DEF PsiTypeOK
  <2> QED
    BY <2>1 DEF PsiInv, PacketKnown, TablesFitPat, AllOf, WithinLimit, ReportFits, EveryPmtPid
<1> QED
  BY <1>1, <1>2, <1>3, <1>4, <1>5, <1>6, <1>7, <1>8 DEF PsiNext, HandleSection

LEMMA PsiInvariant == PsiSpec => [](PsiTypeOK /\ PsiInv)
  BY PsiInitInv, PsiStep, PTL DEF PsiSpec

-----------------------------------------------------------------------------
(* Whatever sections arrive, the tables of the parser have their types.    *)
THEOREM PsiTypeCorrect == PsiSpec => []PsiTypeOK
  BY PsiInvariant, PTL

(* parsePAT, parsePMT and reset keep m_pmt within the services the PAT     *)
(* lists, and recompute watches all of them.                               *)
THEOREM PsiTablesFitPat == PsiSpec => []TablesFitPat
<1>1. PsiInv => TablesFitPat
  BY DEF PsiInv
<1> QED BY <1>1, PsiInvariant, PTL

(* For every limit of at least two, recompute reports no more pids than    *)
(* the limit and never cuts PAT or CAT.                                    *)
THEOREM PsiWithinLimit == PsiSpec => []WithinLimit
<1>1. PsiInv => WithinLimit
  BY DEF PsiInv
<1> QED BY <1>1, PsiInvariant, PTL

(* Between packets every reported pid belongs to a table that is still     *)
(* valid, and no EMM pid within the limit is missing.                      *)
THEOREM PsiNothingForeign == PsiSpec => []NothingForeign
<1>1. PsiInv => NothingForeign
  BY DEF PsiInv, PacketKnown, ReportFits, NothingForeign
<1> QED BY <1>1, PsiInvariant, PTL

(* The body of WholeServices. *)
ReportOf(active) == m_derived_pids = Truncated(PidsFor(m_emm_pids, m_pmt, active))
SomeServices     == \E active \in SUBSET DOMAIN m_pmt : ReportOf(active)

LEMMA RecomputeReportsServices == Recompute => SomeServices'
<1> SUFFICES ASSUME Recompute PROVE SomeServices'
  OBVIOUS
<1> DEFINE A == Active(m_pat_pmt_pids, m_pmt, m_joined_pids)
<1>1. A' \in SUBSET DOMAIN m_pmt'
  BY DEF Active
<1>2. m_derived_pids' = Truncated(PidsFor(m_emm_pids', m_pmt', A'))
  BY DEF Recompute, Implied
<1> QED BY <1>1, <1>2 DEF SomeServices, ReportOf

(* A report stays that of its services as long as the EMM pids and the ECM *)
(* pids of the known services stay.                                        *)
LEMMA SomeServicesKept ==
    ASSUME SomeServices,
           m_derived_pids' = m_derived_pids, m_emm_pids' = m_emm_pids,
           DOMAIN m_pmt \subseteq DOMAIN m_pmt',
           \A p \in DOMAIN m_pmt : m_pmt'[p].ecm_pids = m_pmt[p].ecm_pids
    PROVE  SomeServices'
<1>1. PICK A \in SUBSET DOMAIN m_pmt : ReportOf(A)
  BY DEF SomeServices
<1>2. UNION {m_pmt'[p].ecm_pids : p \in A} = UNION {m_pmt[p].ecm_pids : p \in A}
  OBVIOUS
<1>3. PidsFor(m_emm_pids', m_pmt', A) = PidsFor(m_emm_pids, m_pmt, A)
  BY <1>2 DEF PidsFor
<1>4. ReportOf(A)'
  BY <1>1, <1>3 DEF ReportOf
<1>5. A \in SUBSET DOMAIN m_pmt'
  OBVIOUS
<1> QED BY <1>4, <1>5 DEF SomeServices

LEMMA WholeStep ==
    ASSUME PsiTypeOK, PsiInv, [PsiNext]_psiVars, ~m_dirty => SomeServices, ~m_dirty'
    PROVE  SomeServices'
<1> USE DEF resultVars, patVars, catVars
<1>1. CASE Reset
  BY <1>1, RecomputeReportsServices DEF Reset
<1>2. ASSUME NEW pids \in SUBSET JoinablePids, SetJoinedPids(pids) PROVE SomeServices'
  BY <1>2, RecomputeReportsServices, SomeServicesKept DEF SetJoinedPids
<1>3. ASSUME NEW pid \in m_watched_pids, BeginPacket(pid) PROVE SomeServices'
  BY <1>3, SomeServicesKept DEF BeginPacket
<1>4. CASE EndPacket
  BY <1>4, RecomputeReportsServices, SomeServicesKept DEF EndPacket
<1>5. ASSUME NEW sec \in PatInputs, ParsePAT(sec) PROVE SomeServices'
  <2>1. ~m_dirty /\ m_pat_pmt_pids' = m_pat_pmt_pids
    BY <1>5 DEF ParsePAT
  <2> QED BY <1>5, <2>1, SomeServicesKept DEF ParsePAT
<1>6. ASSUME NEW sec \in CatInputs, ParseCAT(sec) PROVE SomeServices'
  <2>1. ~m_dirty /\ m_emm_pids' = m_emm_pids
    BY <1>6 DEF ParseCAT
  <2> QED BY <1>6, <2>1, SomeServicesKept DEF ParseCAT
<1>7. ASSUME NEW sec \in PmtInputs, ParsePMT(sec) PROVE SomeServices'
  <2>1. /\ DOMAIN m_pmt' = DOMAIN m_pmt \cup {sec.pid}
        /\ \A p \in DOMAIN m_pmt \ {sec.pid} : m_pmt'[p] = m_pmt[p]
        /\ ~m_dirty /\ m_pmt'[sec.pid].ecm_pids = PmtOf(sec.pid).ecm_pids
    BY <1>7, ParsedEntry
  <2>2. \A p \in DOMAIN m_pmt : m_pmt'[p].ecm_pids = m_pmt[p].ecm_pids
    BY <2>1 DEF PmtOf
  <2>3. m_derived_pids' = m_derived_pids /\ m_emm_pids' = m_emm_pids
    BY <1>7 DEF ParsePMT
  <2> QED BY <2>1, <2>2, <2>3, SomeServicesKept
<1>8. CASE UNCHANGED psiVars
  BY <1>8, SomeServicesKept DEF psiVars
<1> QED BY <1>1, <1>2, <1>3, <1>4, <1>5, <1>6, <1>7, <1>8 DEF PsiNext, HandleSection

(* For every limit and every sequence of sections, zaps and retunes, no    *)
(* service is reported by half: the report may be out of date in which     *)
(* services count as received (parsePMT raises m_dirty for ECM pids only), *)
(* never in the ECM pids of those it contains.                             *)
THEOREM PsiWholeServices == PsiSpec => []WholeServices
<1> DEFINE Whole == ~m_dirty => SomeServices
<1>1. PsiInit => Whole
  <2> SUFFICES ASSUME PsiInit PROVE SomeServices
    OBVIOUS
  <2>1. PidsFor(m_emm_pids, m_pmt, {}) = BasePids
    BY DEF PsiInit, PidsFor
  <2>2. BasePids \in SUBSET TsPids
    BY TsPidsFact DEF BasePids, PSI_PID_PAT, PSI_PID_CAT
  <2>3. Truncated(BasePids) = BasePids
    BY <2>2, TruncatedKeepsBase DEF Truncated
  <2>4. ReportOf({})
    BY <2>1, <2>3 DEF ReportOf, PsiInit
  <2> QED BY <2>4 DEF SomeServices
<1>2. PsiTypeOK /\ PsiInv /\ Whole /\ [PsiNext]_psiVars => Whole'
  BY WholeStep
<1>3. PsiInv /\ Whole => WholeServices
  BY DEF PsiInv, PacketKnown, SomeServices, ReportOf, WholeServices
<1> QED BY <1>1, <1>2, <1>3, PsiInvariant, PTL DEF PsiSpec

-----------------------------------------------------------------------------
(***************************************************************************)
(* Action properties                                                       *)
(***************************************************************************)

(* Whatever recompute leaves is what the tables imply. *)
LEMMA RecomputeIsFresh == Recompute => Fresh'
  BY DEF Recompute, Fresh, DerivedNow

(* A report made from tables that did not change is as fresh as it was. *)
LEMMA FreshKept ==
    UNCHANGED <<m_derived_pids, m_emm_pids, m_pat_pmt_pids, m_pmt, m_joined_pids>>
        => Fresh' = Fresh
  BY DEF Fresh, DerivedNow

(* The two tables imply the same pids when a PMT was replaced by one with  *)
(* the same elementary streams and the same ECM pids.                      *)
LEMMA SameContribution ==
    ASSUME NEW emm, NEW pmtPids, NEW pmt, NEW new, NEW joined, NEW pid, NEW old,
           DOMAIN new = DOMAIN pmt \cup {pid},
           \A p \in DOMAIN pmt \ {pid} : new[p] = pmt[p],
           old = IF pid \in DOMAIN pmt THEN pmt[pid] ELSE NoPmt,
           new[pid].es_pids = old.es_pids, new[pid].ecm_pids = old.ecm_pids
    PROVE  Implied(emm, pmtPids, new, joined) = Implied(emm, pmtPids, pmt, joined)
<1>1. \A p \in DOMAIN pmt : new[p].es_pids = pmt[p].es_pids /\ new[p].ecm_pids = pmt[p].ecm_pids
  OBVIOUS
<1>2. pid \notin DOMAIN pmt => new[pid].es_pids = {}
  BY DEF NoPmt
<1>3. Active(pmtPids, new, joined) = Active(pmtPids, pmt, joined)
  BY <1>1, <1>2 DEF Active
<1>4. \A p \in Active(pmtPids, pmt, joined) : new[p].ecm_pids = pmt[p].ecm_pids
  BY <1>1 DEF Active
<1>5. UNION {new[p].ecm_pids : p \in Active(pmtPids, pmt, joined)}
          = UNION {pmt[p].ecm_pids : p \in Active(pmtPids, pmt, joined)}
  BY <1>4
<1> QED BY <1>3, <1>5 DEF Implied, PidsFor

(* The ECM pids of the services, as StaleOnlyByStreams lists them. *)
LEMMA SameEcms ==
    ASSUME NEW pmt, NEW new, NEW pid, NEW old,
           DOMAIN new = DOMAIN pmt \cup {pid},
           \A p \in DOMAIN pmt \ {pid} : new[p] = pmt[p],
           old = IF pid \in DOMAIN pmt THEN pmt[pid] ELSE NoPmt,
           new[pid].ecm_pids = old.ecm_pids
    PROVE  EcmsOf(new) = EcmsOf(pmt)
<1>1. \A p \in DOMAIN pmt : new[p].ecm_pids = pmt[p].ecm_pids
  OBVIOUS
<1>2. pid \notin DOMAIN pmt => new[pid].ecm_pids = {}
  BY DEF NoPmt
<1>3. {q \in DOMAIN new : new[q].ecm_pids # {}} = {q \in DOMAIN pmt : pmt[q].ecm_pids # {}}
  BY <1>1, <1>2
<1>4. \A p \in {q \in DOMAIN pmt : pmt[q].ecm_pids # {}} :
          <<p, new[p].ecm_pids>> = <<p, pmt[p].ecm_pids>>
  BY <1>1
<1> QED BY <1>3, <1>4 DEF EcmsOf

(* The one way a report gets stale while m_dirty is down: parsePMT found   *)
(* other elementary streams and the same ECM pids.  Every other handler    *)
(* either recomputes, or leaves what the report was made from alone, or    *)
(* raises m_dirty.                                                         *)
THEOREM PsiStaleOnlyByStreams == PsiSpec => StaleOnlyByStreams
<1> DEFINE Stale == /\ packet \in DOMAIN m_pmt'
                    /\ m_pat_pmt_pids' = m_pat_pmt_pids
                    /\ m_emm_pids' = m_emm_pids
                    /\ EcmsOf(m_pmt') = EcmsOf(m_pmt)
                    /\ m_pmt'[packet].es_pids # PmtOf(packet).es_pids
<1>1. ASSUME PsiTypeOK, [PsiNext]_psiVars, Fresh \/ m_dirty, ~(Fresh' \/ m_dirty')
      PROVE  Stale
  <2> USE DEF resultVars, patVars, catVars
  <2>1. CASE Reset
    BY <2>1, <1>1, RecomputeIsFresh DEF Reset
  <2>2. ASSUME NEW pids \in SUBSET JoinablePids, SetJoinedPids(pids) PROVE FALSE
    BY <2>2, <1>1, RecomputeIsFresh, FreshKept DEF SetJoinedPids
  <2>3. ASSUME NEW pid \in m_watched_pids, BeginPacket(pid) PROVE FALSE
    BY <2>3, <1>1, FreshKept DEF BeginPacket
  <2>4. CASE EndPacket
    BY <2>4, <1>1, RecomputeIsFresh, FreshKept DEF EndPacket
  <2>5. ASSUME NEW sec \in PatInputs, ParsePAT(sec) PROVE FALSE
    <3>1. ~m_dirty /\ m_pat_pmt_pids' = m_pat_pmt_pids
      BY <2>5, <1>1 DEF ParsePAT
    <3> QED BY <2>5, <1>1, <3>1, FreshKept DEF ParsePAT
  <2>6. ASSUME NEW sec \in CatInputs, ParseCAT(sec) PROVE FALSE
    <3>1. ~m_dirty /\ m_emm_pids' = m_emm_pids
      BY <2>6, <1>1 DEF ParseCAT
    <3> QED BY <2>6, <1>1, <3>1, FreshKept DEF ParseCAT
  <2>7. ASSUME NEW sec \in PmtInputs, ParsePMT(sec) PROVE Stale
    <3>1. /\ DOMAIN m_pmt' = DOMAIN m_pmt \cup {sec.pid}
          /\ \A p \in DOMAIN m_pmt \ {sec.pid} : m_pmt'[p] = m_pmt[p]
          /\ ~m_dirty /\ m_pmt'[sec.pid].ecm_pids = PmtOf(sec.pid).ecm_pids
      BY <1>1, <2>7, ParsedEntry
    <3>2. PmtOf(sec.pid) = IF sec.pid \in DOMAIN m_pmt THEN m_pmt[sec.pid] ELSE NoPmt
      BY DEF PmtOf
    <3>3. packet = sec.pid /\ UNCHANGED <<m_joined_pids, resultVars, patVars, catVars>>
      BY <2>7 DEF ParsePMT
    <3>4. EcmsOf(m_pmt') = EcmsOf(m_pmt)
      BY <3>1, <3>2, SameEcms
    <3>5. ASSUME m_pmt'[sec.pid].es_pids = PmtOf(sec.pid).es_pids PROVE FALSE
      <4>1. Implied(m_emm_pids, m_pat_pmt_pids, m_pmt', m_joined_pids)
                = Implied(m_emm_pids, m_pat_pmt_pids, m_pmt, m_joined_pids)
        BY <3>1, <3>2, <3>5, SameContribution
      <4> QED BY <4>1, <3>1, <3>3, <1>1 DEF Fresh, DerivedNow
    <3> QED BY <3>1, <3>3, <3>4, <3>5
  <2>8. CASE UNCHANGED psiVars
    BY <2>8, <1>1, FreshKept DEF psiVars
  <2> QED BY <1>1, <2>1, <2>2, <2>3, <2>4, <2>5, <2>6, <2>7, <2>8 DEF PsiNext, HandleSection
<1>2. PsiTypeOK /\ [PsiNext]_psiVars
          => [(Fresh \/ m_dirty) /\ ~(Fresh' \/ m_dirty') => Stale]_psiVars
  BY <1>1
<1> QED BY <1>2, PsiTypeCorrect, PTL DEF PsiSpec, StaleOnlyByStreams
=============================================================================
