---------------------------- MODULE VtunerProofs ----------------------------
(***************************************************************************)
(* Proofs about the two directions of the kernel interface: what the       *)
(* kernel is told (module FrontendStatus), for every interleaving of the   *)
(* two threads and any number of tries, and what the kernel asks for       *)
(* (module Tuning), for every parameter value.                             *)
(***************************************************************************)
EXTENDS FrontendStatus, Tuning, SequenceTheorems, TLAPS

-----------------------------------------------------------------------------
(***************************************************************************)
(* The stores a thread still has to make                                   *)
(***************************************************************************)

In(store, queue) == \E i \in 1..Len(queue) : queue[i] = store

ClearQueues ==
    { unset, <<"lock_0", "quality_0">>, <<"quality_0">>, <<>> }
ReportQueues ==
    { <<"strength_0", "lock_0", "quality_0", "strength", "lock", "quality">>,
      <<"lock_0", "quality_0", "strength", "lock", "quality">>,
      <<"quality_0", "strength", "lock", "quality">>,
      <<"strength", "lock", "quality">>,
      <<"lock", "quality">>, <<"quality">>, <<"quality_held">>, <<>> }
AllQueues == ClearQueues \cup ReportQueues

(* One store is made: the others are still to come, once each. *)
Advance(queue) ==
    /\ Head(queue) \in Stores
    /\ In(Head(queue), queue)
    /\ \A x \in Stores : In(x, Tail(queue)) <=> In(x, queue) /\ x # Head(queue)

LEMMA EmptyQueue == \A x : ~In(x, <<>>)
  BY DEF In

LEMMA ClearAdvance ==
    ASSUME NEW q \in ClearQueues, q # <<>>
    PROVE  Tail(q) \in ClearQueues /\ Advance(q) /\ Zero(Head(q))
<1>1. CASE q = unset
  BY <1>1 DEF unset, ClearQueues, Advance, In, Stores, Zero
<1>2. CASE q = <<"lock_0", "quality_0">>
  BY <1>2 DEF ClearQueues, Advance, In, Stores, Zero
<1>3. CASE q = <<"quality_0">>
  BY <1>3 DEF ClearQueues, Advance, In, Stores, Zero
<1> QED BY <1>1, <1>2, <1>3 DEF ClearQueues

LEMMA ReportAdvance ==
    ASSUME NEW q \in ReportQueues, q # <<>>
    PROVE  Tail(q) \in ReportQueues /\ Advance(q)
<1> USE DEF ReportQueues, Advance, In, Stores
<1>1. CASE q = <<"strength_0", "lock_0", "quality_0", "strength", "lock", "quality">>
  BY <1>1
<1>2. CASE q = <<"lock_0", "quality_0", "strength", "lock", "quality">>
  BY <1>2
<1>3. CASE q = <<"quality_0", "strength", "lock", "quality">>
  BY <1>3
<1>4. CASE q = <<"strength", "lock", "quality">>
  BY <1>4
<1>5. CASE q = <<"lock", "quality">>
  BY <1>5
<1>6. CASE q = <<"quality">>
  BY <1>6
<1>7. CASE q = <<"quality_held">>
  BY <1>7
<1> QED BY <1>1, <1>2, <1>3, <1>4, <1>5, <1>6, <1>7

(* A zero comes before the value of a report, and the quality comes last. *)
LEMMA ReportOrder ==
    ASSUME NEW q \in ReportQueues
    PROVE  /\ In("strength_0", q) => In("strength", q)
           /\ In("lock_0", q) => In("lock", q)
           /\ In("quality_0", q) => In("quality", q)
           /\ q # <<>> /\ Head(q) = "lock" => ~In("lock_0", q)
           /\ q # <<>> /\ Head(q) = "quality" => q = <<"quality">>
           /\ q # <<>> /\ Head(q) = "quality_held" => q = <<"quality_held">>
<1> USE DEF ReportQueues, In
<1>1. CASE q = <<"strength_0", "lock_0", "quality_0", "strength", "lock", "quality">>
  BY <1>1
<1>2. CASE q = <<"lock_0", "quality_0", "strength", "lock", "quality">>
  BY <1>2
<1>3. CASE q = <<"quality_0", "strength", "lock", "quality">>
  BY <1>3
<1>4. CASE q = <<"strength", "lock", "quality">>
  BY <1>4
<1>5. CASE q = <<"lock", "quality">>
  BY <1>5
<1>6. CASE q = <<"quality">>
  BY <1>6
<1>7. CASE q = <<"quality_held">>
  BY <1>7
<1>8. CASE q = <<>>
  BY <1>8
<1> QED BY <1>1, <1>2, <1>3, <1>4, <1>5, <1>6, <1>7, <1>8

-----------------------------------------------------------------------------
(***************************************************************************)
(* The invariant of the members                                            *)
(***************************************************************************)

QueuesFit ==
    /\ rtp \in AllQueues
    /\ last # {} => rtp \in ReportQueues
    /\ session \in ClearQueues
    /\ session # <<>> => cleared

(* Once its zero is stored, a member says no more than the last report;    *)
(* before that, a lock can only be the one of the report before.  The      *)
(* quality is stored late, from a lock that was read earlier.              *)
NoMoreThanReported ==
    /\ ~In("strength_0", rtp) /\ m_signalStrength => "level" \in last
    /\ ~In("lock_0", rtp) /\ m_hasLock => "lock" \in last
    /\ In("lock_0", rtp) /\ m_hasLock => "lock" \in before
    /\ ~In("quality_0", rtp) /\ m_signalQuality => "lock" \in last /\ "quality" \in last
    /\ In("quality_held", rtp) => "lock" \in last

(* Without a tuning, a member whose value is stored says no less. *)
NoLessThanReported ==
    ~cleared =>
        /\ "level" \in last /\ ~In("strength", rtp) => m_signalStrength
        /\ "lock" \in last /\ ~In("lock", rtp) => m_hasLock
        /\ /\ "lock" \in last /\ "quality" \in last
           /\ ~In("quality", rtp) /\ ~In("quality_held", rtp)
           => m_signalQuality

StatusInv ==
    /\ QueuesFit
    /\ NoMoreThanReported
    /\ NoLessThanReported
    /\ ToldAsReported

LEMMA QueuesTyped == \A q \in AllQueues : q \in Seq(Stores)
<1>1. \A q \in ClearQueues : q \in Seq(Stores)
  <2>1. /\ <<"strength_0", "lock_0", "quality_0">> \in Seq(Stores)
        /\ <<"lock_0", "quality_0">> \in Seq(Stores)
        /\ <<"quality_0">> \in Seq(Stores) /\ <<>> \in Seq(Stores)
    BY DEF Stores
  <2> QED BY <2>1 DEF ClearQueues, unset
<1>2. /\ <<"strength_0", "lock_0", "quality_0", "strength", "lock", "quality">> \in Seq(Stores)
      /\ <<"lock_0", "quality_0", "strength", "lock", "quality">> \in Seq(Stores)
      /\ <<"quality_0", "strength", "lock", "quality">> \in Seq(Stores)
  BY DEF Stores
<1>3. /\ <<"strength", "lock", "quality">> \in Seq(Stores)
      /\ <<"lock", "quality">> \in Seq(Stores) /\ <<"quality">> \in Seq(Stores)
      /\ <<"quality_held">> \in Seq(Stores) /\ <<>> \in Seq(Stores)
  BY DEF Stores
<1> QED BY <1>1, <1>2, <1>3 DEF ReportQueues, AllQueues

LEMMA WholeQueue ==
    unset \o <<"strength", "lock", "quality">>
        = <<"strength_0", "lock_0", "quality_0", "strength", "lock", "quality">>
<1> DEFINE a == unset
           b == <<"strength", "lock", "quality">>
           c == <<"strength_0", "lock_0", "quality_0", "strength", "lock", "quality">>
<1>1. a \in Seq(Stores) /\ b \in Seq(Stores) /\ Len(a) = 3 /\ Len(b) = 3
  BY DEF unset, Stores
<1>2. c \in Seq(Stores) /\ Len(c) = 6
  BY DEF Stores
<1>3. \A i \in 1..3 : a[i] = c[i] /\ b[i] = c[i + 3]
  BY DEF unset
<1> HIDE DEF a, b, c
<1>4. /\ a \o b \in Seq(Stores) /\ Len(a \o b) = Len(a) + Len(b)
      /\ \A i \in 1..Len(a) + Len(b) :
             (a \o b)[i] = IF i <= Len(a) THEN a[i] ELSE b[i - Len(a)]
  BY <1>1, ConcatProperties
<1>5. ASSUME NEW i \in 1..6 PROVE (a \o b)[i] = c[i]
  <2>1. CASE i <= 3
    BY <1>1, <1>3, <1>4, <2>1
  <2>2. CASE ~(i <= 3)
    <3>1. (a \o b)[i] = b[i - 3] /\ i - 3 \in 1..3 /\ (i - 3) + 3 = i
      BY <1>1, <1>4, <2>2
    <3> QED BY <1>3, <3>1
  <2> QED BY <2>1, <2>2
<1>6. a \o b = c
  BY <1>1, <1>2, <1>4, <1>5, SeqEqual
<1> QED BY <1>6 DEF a, b, c

LEMMA StatusTypes ==
    StatusTypeOK <=>
        /\ m_hasLock \in BOOLEAN /\ m_signalStrength \in BOOLEAN /\ m_signalQuality \in BOOLEAN
        /\ timeout \in BOOLEAN /\ cleared \in BOOLEAN
        /\ rtp \in Seq(Stores) /\ session \in Seq(Stores)
        /\ tune_tries \in 0..MaxTries
        /\ told \subseteq {"FE_HAS_LOCK", "FE_TIMEDOUT", "FE_HAS_SIGNAL"}
        /\ last \in SUBSET Values /\ before \in SUBSET Values
        /\ expected \in {"lock", "no lock", "either"}
  BY DEF StatusTypeOK

LEMMA StatusInitInv == StatusInit => StatusTypeOK /\ StatusInv
<1> SUFFICES ASSUME StatusInit PROVE StatusTypeOK /\ StatusInv
  OBVIOUS
<1>1. /\ m_hasLock \in BOOLEAN /\ m_signalStrength \in BOOLEAN /\ m_signalQuality \in BOOLEAN
      /\ timeout \in BOOLEAN /\ cleared \in BOOLEAN
  BY DEF StatusInit
<1>2. rtp \in ClearQueues /\ session \in ClearQueues
  BY DEF StatusInit, ClearQueues
<1>3. tune_tries \in 0..MaxTries
  BY FrontendAssumption DEF StatusInit
<1>4. StatusTypeOK
  BY <1>1, <1>2, <1>3, QueuesTyped, StatusTypes DEF StatusInit, AllQueues
<1>5. \A x : ~In(x, rtp)
  BY EmptyQueue DEF StatusInit
<1> QED
  BY <1>2, <1>4, <1>5 DEF StatusInit, StatusInv, QueuesFit, AllQueues, NoMoreThanReported,
                          NoLessThanReported, ToldAsReported

LEMMA RtcpDataStep ==
    ASSUME StatusTypeOK, StatusInv, RtcpData
    PROVE  StatusTypeOK' /\ StatusInv'
<1> USE DEF signalVars, tuneVars
<1>1. PICK report \in Reports : rtp' = ParseRtcpAppPayload(report) /\ last' = report.values
  BY DEF RtcpData
<1>2. /\ rtp = <<>> /\ before' = last /\ cleared' = (session # <<>>)
      /\ UNCHANGED <<signalVars, session, tuneVars, told, expected>>
  BY DEF RtcpData
<1>3. /\ rtp' \in AllQueues /\ (last' # {} => rtp' \in ReportQueues)
      /\ In("strength_0", rtp') /\ In("lock_0", rtp') /\ In("quality_0", rtp')
      /\ ~In("quality_held", rtp')
      /\ last' # {} => In("strength", rtp') /\ In("lock", rtp') /\ In("quality", rtp')
  <2>1. CASE ~report.tuner
    BY <1>1, <2>1 DEF Reports, ParseRtcpAppPayload, unset, AllQueues, ClearQueues, In
  <2>2. CASE report.tuner
    <3>1. rtp' = <<"strength_0", "lock_0", "quality_0", "strength", "lock", "quality">>
      BY <1>1, <2>2, WholeQueue DEF ParseRtcpAppPayload
    <3> QED BY <1>1, <2>2, <3>1 DEF AllQueues, ReportQueues, In
  <2> QED BY <2>1, <2>2
<1>4. cleared' \in BOOLEAN
  BY <1>2
<1>5. StatusTypeOK'
  BY <1>1, <1>2, <1>3, <1>4, QueuesTyped DEF StatusTypeOK, Reports
<1>6. QueuesFit'
  BY <1>2, <1>3 DEF StatusInv, QueuesFit
<1>7. m_hasLock => "lock" \in last
  BY <1>2, EmptyQueue DEF StatusInv, NoMoreThanReported
<1>8. NoMoreThanReported' /\ NoLessThanReported'
  BY <1>2, <1>3, <1>7 DEF NoMoreThanReported, NoLessThanReported
<1>9. ToldAsReported'
  BY <1>2 DEF StatusInv, ToldAsReported
<1> QED BY <1>5, <1>6, <1>8, <1>9 DEF StatusInv

(* The RTP thread makes one store of a report. *)
LEMMA RtpStepStep ==
    ASSUME StatusTypeOK, StatusInv, RtpStep
    PROVE  StatusTypeOK' /\ StatusInv'
<1> USE DEF signalVars, tuneVars, historyVars
<1>1. rtp # <<>> /\ UNCHANGED <<session, tuneVars, told, historyVars, expected>>
  BY DEF RtpStep
<1>2. /\ m_hasLock \in BOOLEAN /\ m_signalStrength \in BOOLEAN /\ m_signalQuality \in BOOLEAN
      /\ last \in SUBSET Values /\ cleared \in BOOLEAN
  BY StatusTypes
<1>3. /\ Advance(rtp) /\ Tail(rtp) \in AllQueues
      /\ last # {} => Tail(rtp) \in ReportQueues
  BY <1>1, ClearAdvance, ReportAdvance DEF StatusInv, QueuesFit, AllQueues
<1>4. last # {} =>
          /\ In("strength_0", rtp) => In("strength", rtp)
          /\ In("lock_0", rtp) => In("lock", rtp)
          /\ In("quality_0", rtp) => In("quality", rtp)
  BY <1>1, ReportOrder DEF StatusInv, QueuesFit
<1>5. /\ Head(rtp) = "lock" => ~In("lock_0", rtp)
      /\ Head(rtp) = "quality" => rtp = <<"quality">>
      /\ Head(rtp) = "quality_held" => rtp = <<"quality_held">>
  <2>1. CASE rtp \in ReportQueues
    BY <1>1, <2>1, ReportOrder
  <2>2. CASE rtp \in ClearQueues
    BY <1>1, <2>2, ClearAdvance DEF Zero
  <2> QED BY <2>1, <2>2 DEF StatusInv, QueuesFit, AllQueues
<1>6. \A x : In(x, <<"quality">>) <=> x = "quality"
  BY DEF In
<1>7. \A x : In(x, <<"quality_held">>) <=> x = "quality_held"
  BY DEF In
<1>8. CASE Head(rtp) = "quality" /\ m_hasLock
  <2>1. rtp' = <<"quality_held">> /\ UNCHANGED signalVars
    BY <1>8 DEF RtpStep
  <2>2. rtp = <<"quality">> /\ "lock" \in last
    BY <1>4, <1>5, <1>6, <1>8 DEF StatusInv, NoMoreThanReported
  <2>3. rtp' \in AllQueues /\ rtp' \in ReportQueues
    BY <2>1 DEF AllQueues, ReportQueues
  <2>4. StatusTypeOK'
    BY <1>1, <2>1, <2>3, QueuesTyped DEF StatusTypeOK
  <2>5. QueuesFit'
    BY <1>1, <2>3 DEF StatusInv, QueuesFit
  <2>6. NoMoreThanReported' /\ NoLessThanReported'
    BY <1>1, <1>6, <1>7, <2>1, <2>2 DEF StatusInv, NoMoreThanReported, NoLessThanReported
  <2>7. ToldAsReported'
    BY <1>1 DEF StatusInv, ToldAsReported
  <2> QED BY <2>4, <2>5, <2>6, <2>7 DEF StatusInv
<1>9. CASE ~(Head(rtp) = "quality" /\ m_hasLock)
  <2>1. /\ rtp' = Tail(rtp)
        /\ IF Zero(Head(rtp)) THEN StoreZero(Head(rtp)) ELSE StoreReport(Head(rtp))
    BY <1>9 DEF RtpStep
  <2>2. /\ m_hasLock' \in BOOLEAN /\ m_signalStrength' \in BOOLEAN /\ m_signalQuality' \in BOOLEAN
    <3>1. CASE Zero(Head(rtp))
      BY <2>1, <3>1, Zenon DEF StoreZero
    <3>2. CASE ~Zero(Head(rtp))
      <4>1. StoreReport(Head(rtp))
        BY <2>1, <3>2
      <4>2. m_signalStrength' \in BOOLEAN
        <5>1. CASE Head(rtp) = "strength"
          <6>1. m_signalStrength' = ("level" \in last)
            BY <4>1, <5>1, Zenon DEF StoreReport
          <6> QED BY <6>1, SMT
        <5>2. CASE Head(rtp) # "strength"
          BY <1>2, <4>1, <5>2 DEF StoreReport
        <5> QED BY <5>1, <5>2
      <4>3. m_hasLock' \in BOOLEAN
        <5>1. CASE Head(rtp) = "lock"
          <6>1. m_hasLock' = ("lock" \in last)
            BY <4>1, <5>1, Zenon DEF StoreReport
          <6> QED BY <6>1, SMT
        <5>2. CASE Head(rtp) # "lock"
          BY <1>2, <4>1, <5>2 DEF StoreReport
        <5> QED BY <5>1, <5>2
      <4>4. m_signalQuality' \in BOOLEAN
        <5>1. CASE Head(rtp) = "quality_held"
          <6>1. m_signalQuality' = ("quality" \in last)
            BY <4>1, <5>1, Zenon DEF StoreReport
          <6> QED BY <6>1, SMT
        <5>2. CASE Head(rtp) # "quality_held"
          BY <1>2, <4>1, <5>2 DEF StoreReport
        <5> QED BY <5>1, <5>2
      <4> QED BY <4>2, <4>3, <4>4
    <3> QED BY <3>1, <3>2
  <2>3. rtp' \in AllQueues /\ (last' # {} => rtp' \in ReportQueues)
    BY <1>1, <1>3, <2>1
  <2>4. StatusTypeOK'
    BY <1>1, <2>2, <2>3, QueuesTyped DEF StatusTypeOK
  <2>5. QueuesFit'
    BY <1>1, <2>3 DEF StatusInv, QueuesFit
  <2>6. /\ Head(rtp) \in Stores
        /\ \A x \in Stores : In(x, rtp') <=> In(x, rtp) /\ x # Head(rtp)
    BY <1>3, <2>1 DEF Advance
  <2>7. Head(rtp) = "quality_held" => "lock" \in last
    BY <1>3 DEF Advance, StatusInv, NoMoreThanReported
  <2>8. NoMoreThanReported'
    BY <1>1, <1>2, <1>3, <1>4, <1>5, <1>9, <2>1, <2>6, <2>7
    DEF StatusInv, NoMoreThanReported, StoreZero, StoreReport, Zero, Stores
  <2>9. NoLessThanReported'
    <3> SUFFICES ASSUME ~cleared
                 PROVE  /\ "level" \in last /\ ~In("strength", rtp') => m_signalStrength'
                        /\ "lock" \in last /\ ~In("lock", rtp') => m_hasLock'
                        /\ /\ "lock" \in last /\ "quality" \in last
                           /\ ~In("quality", rtp') /\ ~In("quality_held", rtp')
                           => m_signalQuality'
      BY <1>1 DEF NoLessThanReported
    <3>1. /\ "level" \in last /\ ~In("strength", rtp) => m_signalStrength
          /\ "lock" \in last /\ ~In("lock", rtp) => m_hasLock
          /\ /\ "lock" \in last /\ "quality" \in last
             /\ ~In("quality", rtp) /\ ~In("quality_held", rtp)
             => m_signalQuality
      BY DEF StatusInv, NoLessThanReported
    <3>2. ASSUME "level" \in last, ~In("strength", rtp') PROVE m_signalStrength'
      BY <1>2, <1>3, <1>4, <2>1, <2>6, <3>1, <3>2
      DEF StoreZero, StoreReport, Zero, Stores, Advance
    <3>3. ASSUME "lock" \in last, ~In("lock", rtp') PROVE m_hasLock'
      BY <1>2, <1>3, <1>4, <2>1, <2>6, <3>1, <3>3
      DEF StoreZero, StoreReport, Zero, Stores, Advance
    <3>4. ASSUME "lock" \in last PROVE Head(rtp) # "quality"
      BY <1>5, <1>6, <1>9, <3>1, <3>4
    <3>5. ASSUME "lock" \in last, "quality" \in last,
                 ~In("quality", rtp'), ~In("quality_held", rtp')
          PROVE  m_signalQuality'
      BY <1>2, <1>3, <1>4, <2>1, <2>6, <3>1, <3>4, <3>5
      DEF StoreZero, StoreReport, Zero, Stores, Advance
    <3> QED BY <3>2, <3>3, <3>5
  <2>10. ToldAsReported'
    BY <1>1 DEF StatusInv, ToldAsReported
  <2> QED BY <2>4, <2>5, <2>8, <2>9, <2>10 DEF StatusInv
<1> QED BY <1>8, <1>9

(* The session thread stores a zero: a tuning has cleared the status. *)
LEMMA SessionStepStep ==
    ASSUME StatusTypeOK, StatusInv, SessionStep
    PROVE  StatusTypeOK' /\ StatusInv'
<1> USE DEF tuneVars, historyVars
<1>1. /\ session # <<>> /\ session' = Tail(session) /\ StoreZero(Head(session))
      /\ UNCHANGED <<rtp, tuneVars, told, historyVars, expected>>
  BY DEF SessionStep
<1>2. session \in ClearQueues /\ cleared
  BY <1>1 DEF StatusInv, QueuesFit
<1>3. session' \in ClearQueues
  BY <1>1, <1>2, ClearAdvance
<1>4. /\ m_hasLock \in BOOLEAN /\ m_signalStrength \in BOOLEAN /\ m_signalQuality \in BOOLEAN
  BY StatusTypes
<1>5. /\ m_hasLock' \in BOOLEAN /\ m_signalStrength' \in BOOLEAN /\ m_signalQuality' \in BOOLEAN
      /\ m_hasLock' => m_hasLock
      /\ m_signalStrength' => m_signalStrength
      /\ m_signalQuality' => m_signalQuality
  BY <1>1, <1>4 DEF StoreZero
<1>6. StatusTypeOK'
  BY <1>1, <1>3, <1>5, QueuesTyped DEF StatusTypeOK, AllQueues
<1>7. QueuesFit' /\ NoLessThanReported'
  BY <1>1, <1>2, <1>3 DEF StatusInv, QueuesFit, NoLessThanReported
<1>8. NoMoreThanReported' /\ ToldAsReported'
  BY <1>1, <1>5 DEF StatusInv, NoMoreThanReported, ToldAsReported
<1> QED BY <1>6, <1>7, <1>8 DEF StatusInv

LEMMA ReadStatusStep ==
    ASSUME StatusTypeOK, StatusInv, ReadStatus
    PROVE  StatusTypeOK' /\ StatusInv'
<1> USE DEF signalVars, tuneVars, historyVars
<1>1. /\ told' = Status /\ expected' = Expected
      /\ UNCHANGED <<signalVars, rtp, session, tuneVars, historyVars>>
  BY DEF ReadStatus
<1>2. Status \subseteq {"FE_HAS_LOCK", "FE_TIMEDOUT", "FE_HAS_SIGNAL"}
  BY DEF Status
<1>3. Expected \in {"lock", "no lock", "either"}
  BY DEF Expected
<1>4. StatusTypeOK'
  BY <1>1, <1>2, <1>3 DEF StatusTypeOK
<1>5. m_hasLock <=> "FE_HAS_LOCK" \in Status
  BY DEF Status
<1>6. Expected = "lock" => m_hasLock
  BY EmptyQueue DEF Expected, StatusInv, NoLessThanReported
<1>7. Expected = "no lock" => ~m_hasLock
  BY EmptyQueue DEF Expected, StatusInv, NoMoreThanReported
<1>8. ToldAsReported'
  BY <1>1, <1>5, <1>6, <1>7 DEF ToldAsReported
<1> QED
  BY <1>1, <1>4, <1>8 DEF StatusInv, QueuesFit, NoMoreThanReported, NoLessThanReported

LEMMA StatusStep ==
    StatusTypeOK /\ StatusInv /\ [StatusNext]_statusVars => StatusTypeOK' /\ StatusInv'
<1> SUFFICES ASSUME StatusTypeOK, StatusInv, [StatusNext]_statusVars
             PROVE  StatusTypeOK' /\ StatusInv'
  OBVIOUS
<1> USE DEF signalVars, tuneVars, historyVars
<1>1. CASE RtcpData
  BY <1>1, RtcpDataStep
<1>2. CASE RtpStep
  BY <1>2, RtpStepStep
<1>3. CASE GetTuneSettings
  <2>1. session' \in ClearQueues
    BY <1>3 DEF GetTuneSettings, ClearQueues
  <2>2. tune_tries' \in 0..MaxTries
    BY <1>3, FrontendAssumption DEF GetTuneSettings
  <2>3. timeout' \in BOOLEAN /\ cleared' \in BOOLEAN /\ cleared'
    BY <1>3 DEF GetTuneSettings
  <2>4. StatusTypeOK'
    BY <1>3, <2>1, <2>2, <2>3, QueuesTyped DEF GetTuneSettings, StatusTypeOK, AllQueues
  <2> QED
    BY <1>3, <2>1, <2>3, <2>4 DEF GetTuneSettings, StatusInv, QueuesFit, NoMoreThanReported,
                                  NoLessThanReported, ToldAsReported
<1>4. CASE SessionStep
  BY <1>4, SessionStepStep
<1>5. CASE SetFrontend
  <2>1. tune_tries' \in 0..MaxTries
    <3>1. MaxTries \in Nat /\ tune_tries \in 0..MaxTries
      BY FrontendAssumption, StatusTypes
    <3>2. tune_tries < MaxTries /\ tune_tries' = tune_tries + 1
      BY <1>5 DEF SetFrontend
    <3> QED BY <3>1, <3>2
  <2>2. StatusTypeOK'
    BY <1>5, <2>1 DEF SetFrontend, StatusTypeOK
  <2> QED
    BY <1>5, <2>2 DEF SetFrontend, StatusInv, QueuesFit, NoMoreThanReported,
                      NoLessThanReported, ToldAsReported
<1>6. CASE ReadStatus
  BY <1>6, ReadStatusStep
<1>7. CASE TimeUp
  <2>1. timeout' \in BOOLEAN
    BY <1>7 DEF TimeUp
  <2>2. StatusTypeOK'
    BY <1>7, <2>1 DEF TimeUp, StatusTypeOK
  <2> QED
    BY <1>7, <2>2 DEF TimeUp, StatusInv, QueuesFit, NoMoreThanReported,
                      NoLessThanReported, ToldAsReported
<1>8. CASE UNCHANGED statusVars
  <2>1. StatusTypeOK'
    BY <1>8 DEF statusVars, StatusTypeOK
  <2> QED
    BY <1>8, <2>1 DEF statusVars, StatusInv, QueuesFit, NoMoreThanReported,
                      NoLessThanReported, ToldAsReported
<1> QED BY <1>1, <1>2, <1>3, <1>4, <1>5, <1>6, <1>7, <1>8 DEF StatusNext

LEMMA StatusInvariant == StatusSpec => [](StatusTypeOK /\ StatusInv)
  BY StatusInitInv, StatusStep, PTL DEF StatusSpec

(* The members the two threads share, and the answers, have their types.   *)
THEOREM StatusTypeCorrect == StatusSpec => []StatusTypeOK
  BY StatusInvariant, PTL

(* However the stores of rtcpData and of vtunerEvent interleave, the lock  *)
(* and the signal values between reports are those of the last report, or  *)
(* what a tuning has cleared.                                              *)
THEOREM StatusSignalFollowsReport == StatusSpec => []SignalFollowsReport
<1>1. StatusTypeOK /\ StatusInv => SignalFollowsReport
  <2> SUFFICES ASSUME StatusTypeOK, StatusInv, Quiet PROVE SignalFollowsReport
    BY DEF SignalFollowsReport
  <2>1. \A x : ~In(x, rtp)
    BY EmptyQueue DEF Quiet
  <2>2. /\ m_hasLock \in BOOLEAN /\ m_signalStrength \in BOOLEAN /\ m_signalQuality \in BOOLEAN
    BY StatusTypes
  <2> QED
    BY <2>1, <2>2 DEF StatusInv, NoMoreThanReported, NoLessThanReported, SignalFollowsReport
<1> QED BY <1>1, StatusInvariant, PTL

(* MSG_READ_STATUS never answers with a lock older than the report being   *)
(* stored, and never hides the lock of a report that has been stored.      *)
THEOREM StatusToldAsReported == StatusSpec => []ToldAsReported
<1>1. StatusInv => ToldAsReported
  BY DEF StatusInv
<1> QED BY <1>1, StatusInvariant, PTL

-----------------------------------------------------------------------------
(***************************************************************************)
(* Tuning                                                                  *)
(***************************************************************************)

SecAsked  == [tone : {"SEC_TONE_ON", "SEC_TONE_OFF"}, pol : {"h", "v"}, src : 1..16]
PropAsked == [freq : Nat \cup {Absent}, sr : Nat, fec : 0..FEC_9_10, msys : {"SYS_UNDEFINED", "first", "second"},
              plp : Nat \cup {NO_STREAM_ID_FILTER}, pls : Nat]

(* The frequency, converted as a whole with the oscillator of the tone. *)
FrequencyAsked ==
    IF asked.prop.freq = Absent THEN 0
    ELSE IF m_fe_type = "SAT"
         THEN (asked.prop.freq + OscillatorKHz(asked.sec.tone)) \div 100
         ELSE asked.prop.freq \div 100000

(* Every member is the conversion of what the kernel said last.  The       *)
(* frequency was converted with the tone of its moment, which is the       *)
(* current one until the kernel turns to the LNB again.                    *)
MembersAsAsked ==
    /\ asked \in [sec : SecAsked, prop : PropAsked]
    /\ m_tone = asked.sec.tone /\ m_pol = asked.sec.pol /\ m_signal_source = asked.sec.src
    /\ m_symrate = asked.prop.sr \div 1000 /\ m_fec = asked.prop.fec
    /\ m_msys = asked.prop.msys /\ m_plpid = asked.prop.plp /\ m_pls_code = asked.prop.pls
    /\ phase # "sec" => m_frequency = FrequencyAsked

TuningInv == MembersAsAsked /\ SettledAsAsked

(* The oscillator is a multiple of the unit the request uses. *)
LEMMA OscillatorUnits ==
    ASSUME NEW data \in Nat
    PROVE  /\ data \div 100 + 106000 = (data + 10600000) \div 100
           /\ data \div 100 + 97500 = (data + 9750000) \div 100
           /\ data \div 100 \in Nat /\ data \div 1000 \in Nat /\ data \div 100000 \in Nat
  OBVIOUS

(* A request built from members that are as asked is the one asked for. *)
LEMMA RequestAsAsked ==
    ASSUME TuningTypeOK, MembersAsAsked, phase # "sec"
    PROVE  GetTuningData = Asked
<1>1. CASE m_fe_type = "SAT"
  BY <1>1 DEF MembersAsAsked, FrequencyAsked, GetTuningData, Asked, Sat
<1>2. CASE m_fe_type = "CABLE"
  BY <1>2 DEF MembersAsAsked, FrequencyAsked, GetTuningData, Asked, WholeFrequency
<1>3. CASE m_fe_type = "TERRESTRIAL"
  BY <1>3 DEF MembersAsAsked, FrequencyAsked, GetTuningData, Asked, WholeFrequency
<1> QED BY <1>1, <1>2, <1>3 DEF TuningTypeOK

LEMMA TuningInitInv == TuningInit => TuningTypeOK /\ TuningInv
<1> SUFFICES ASSUME TuningInit PROVE TuningTypeOK /\ TuningInv
  OBVIOUS
<1>1. TuningTypeOK
  BY DEF TuningInit, TuningTypeOK, FEC_AUTO, FEC_9_10
<1>2. MembersAsAsked
  BY DEF TuningInit, MembersAsAsked, NoSec, NoProperties, SecAsked, PropAsked, Absent,
      FEC_AUTO, FEC_9_10
<1>3. SettledAsAsked
  BY DEF TuningInit, SettledAsAsked
<1> QED BY <1>1, <1>2, <1>3 DEF TuningInv

(* The LNB: the kernel leaves the phase in which the frequency counts. *)
LEMMA SecStep ==
    ASSUME TuningTypeOK, TuningInv, phase' = "sec", UNCHANGED <<m_fe_type, propVars, sent>>,
           m_status' \in {m_status, "INVALID"},
           NEW sec \in SecAsked, asked' = [asked EXCEPT !.sec = sec],
           m_tone' = sec.tone, m_pol' = sec.pol, m_signal_source' = sec.src
    PROVE  TuningTypeOK' /\ TuningInv'
<1> USE DEF propVars
<1>1. TuningTypeOK'
  BY DEF TuningTypeOK, SecAsked
<1>2. MembersAsAsked'
  BY DEF TuningInv, MembersAsAsked
<1> QED BY <1>1, <1>2 DEF TuningInv, SettledAsAsked

LEMMA SecMessageStep ==
    ASSUME TuningTypeOK, TuningInv,
           \/ \E tone \in {"SEC_TONE_ON", "SEC_TONE_OFF"} : SetTone(tone)
           \/ \E pol \in {"h", "v"} : SetVoltage(pol)
           \/ VoltageOff
           \/ \E byte \in Switches : CommittedSwitch(byte) \/ UncommittedSwitch(byte)
           \/ \E position \in {1, 2} : SendBurst(position)
    PROVE  TuningTypeOK' /\ TuningInv'
<1> USE DEF SecMessage, secVars
<1>1. /\ asked \in [sec : SecAsked, prop : PropAsked] /\ asked.sec \in SecAsked
      /\ m_tone = asked.sec.tone /\ m_pol = asked.sec.pol /\ m_signal_source = asked.sec.src
  BY DEF TuningInv, MembersAsAsked
<1>2. ASSUME NEW tone \in {"SEC_TONE_ON", "SEC_TONE_OFF"}, SetTone(tone)
      PROVE  TuningTypeOK' /\ TuningInv'
  <2> DEFINE sec == [asked.sec EXCEPT !.tone = tone]
  <2>1. sec \in SecAsked /\ sec.tone = tone /\ sec.pol = m_pol /\ sec.src = m_signal_source
    BY <1>1 DEF SecAsked
  <2>2. asked' = [asked EXCEPT !.sec = sec]
    BY <1>1, <1>2 DEF SetTone
  <2> HIDE DEF sec
  <2> QED BY <1>2, <2>1, <2>2, SecStep DEF SetTone
<1>3. ASSUME NEW pol \in {"h", "v"}, SetVoltage(pol)
      PROVE  TuningTypeOK' /\ TuningInv'
  <2> DEFINE sec == [asked.sec EXCEPT !.pol = pol]
  <2>1. sec \in SecAsked /\ sec.tone = m_tone /\ sec.pol = pol /\ sec.src = m_signal_source
    BY <1>1 DEF SecAsked
  <2>2. asked' = [asked EXCEPT !.sec = sec]
    BY <1>1, <1>3 DEF SetVoltage
  <2> HIDE DEF sec
  <2> QED BY <1>3, <2>1, <2>2, SecStep DEF SetVoltage
<1>4. CASE VoltageOff
  <2>1. asked' = [asked EXCEPT !.sec = asked.sec]
    BY <1>1, <1>4 DEF VoltageOff
  <2> QED BY <1>1, <1>4, <2>1, SecStep DEF VoltageOff
<1>5. ASSUME NEW byte \in Switches, CommittedSwitch(byte)
      PROVE  TuningTypeOK' /\ TuningInv'
  <2>1. byte \in 0..255
    BY TuningAssumption
  <2>2. m_tone' \in {"SEC_TONE_ON", "SEC_TONE_OFF"} /\ m_pol' \in {"h", "v"}
    BY <1>5 DEF CommittedSwitch, Switched, TuningTypeOK
  <2>3. m_signal_source' \in 1..16
    BY <1>5, <2>1 DEF CommittedSwitch
  <2> DEFINE sec == [tone |-> m_tone', pol |-> m_pol', src |-> m_signal_source']
  <2>4. sec \in SecAsked /\ sec.tone = m_tone' /\ sec.pol = m_pol' /\ sec.src = m_signal_source'
    BY <2>2, <2>3 DEF SecAsked
  <2>5. asked' = [asked EXCEPT !.sec = sec]
    BY <1>5 DEF CommittedSwitch
  <2> HIDE DEF sec
  <2> QED BY <1>5, <2>4, <2>5, SecStep DEF CommittedSwitch
<1>6. ASSUME NEW byte \in Switches, UncommittedSwitch(byte)
      PROVE  TuningTypeOK' /\ TuningInv'
  <2>1. byte \in 0..255
    BY TuningAssumption
  <2>2. m_signal_source' \in 1..16
    BY <1>6, <2>1 DEF UncommittedSwitch
  <2> DEFINE sec == [asked.sec EXCEPT !.src = m_signal_source']
  <2>3. sec \in SecAsked /\ sec.tone = m_tone /\ sec.pol = m_pol /\ sec.src = m_signal_source'
    BY <1>1, <2>2 DEF SecAsked
  <2>4. asked' = [asked EXCEPT !.sec = sec]
    BY <1>1, <1>6 DEF UncommittedSwitch
  <2> HIDE DEF sec
  <2> QED BY <1>6, <2>3, <2>4, SecStep DEF UncommittedSwitch
<1>7. ASSUME NEW position \in {1, 2}, SendBurst(position)
      PROVE  TuningTypeOK' /\ TuningInv'
  <2> DEFINE sec == [asked.sec EXCEPT !.src = position]
  <2>1. sec \in SecAsked /\ sec.tone = m_tone /\ sec.pol = m_pol /\ sec.src = position
    BY <1>1 DEF SecAsked
  <2>2. asked' = [asked EXCEPT !.sec = sec]
    BY <1>1, <1>7 DEF SendBurst
  <2> HIDE DEF sec
  <2> QED BY <1>7, <2>1, <2>2, SecStep DEF SendBurst
<1> QED BY <1>2, <1>3, <1>4, <1>5, <1>6, <1>7

(* A property: its member follows, and no request is settled yet. *)
LEMMA PropertyStep ==
    ASSUME TuningTypeOK, TuningInv, phase' = "properties",
           UNCHANGED <<m_fe_type, secVars, m_status, sent>>,
           NEW prop \in PropAsked, asked' = [asked EXCEPT !.prop = prop],
           m_symrate' = prop.sr \div 1000, m_fec' = prop.fec, m_msys' = prop.msys, m_plpid' = prop.plp,
           m_pls_code' = prop.pls, m_frequency' = FrequencyAsked', m_frequency' \in Nat
    PROVE  TuningTypeOK' /\ TuningInv'
<1> USE DEF secVars
<1>1. prop.sr \in Nat /\ prop.sr \div 1000 \in Nat
  BY OscillatorUnits DEF PropAsked
<1>2. TuningTypeOK'
  BY <1>1 DEF TuningTypeOK, PropAsked
<1>3. asked' \in [sec : SecAsked, prop : PropAsked] /\ asked'.prop = prop /\ asked'.sec = asked.sec
  BY DEF TuningInv, MembersAsAsked
<1>4. MembersAsAsked'
  BY <1>3 DEF TuningInv, MembersAsAsked
<1> QED BY <1>2, <1>4 DEF TuningInv, SettledAsAsked

LEMMA SetFrequencyStep ==
    ASSUME TuningTypeOK, TuningInv, NEW data \in Frequencies, SetFrequency(data)
    PROVE  TuningTypeOK' /\ TuningInv'
<1> DEFINE prop == [asked.prop EXCEPT !.freq = data]
<1>1. asked \in [sec : SecAsked, prop : PropAsked] /\ asked.prop \in PropAsked
  BY DEF TuningInv, MembersAsAsked
<1>2. data \in Nat /\ data # Absent
  BY TuningAssumption DEF Absent
<1>3. /\ prop \in PropAsked /\ prop.freq = data /\ prop.sr = asked.prop.sr
      /\ prop.fec = asked.prop.fec /\ prop.msys = asked.prop.msys /\ prop.plp = asked.prop.plp /\ prop.pls = asked.prop.pls
  BY <1>1, <1>2 DEF PropAsked
<1>4. asked' = [asked EXCEPT !.prop = prop]
  BY <1>1 DEF SetFrequency, Property
<1> HIDE DEF prop
<1>5. asked'.prop = prop /\ asked'.sec = asked.sec
  BY <1>1, <1>4
<1>6. /\ m_frequency' = FrequencyOf(data)
      /\ UNCHANGED <<m_symrate, m_fec, m_msys, m_plpid, m_pls_code, m_fe_type, secVars, m_status, sent>>
      /\ phase' = "properties"
  BY DEF SetFrequency, Property
<1>7. m_frequency' = FrequencyAsked' /\ m_frequency' \in Nat
  <2>1. m_tone = asked.sec.tone /\ m_fe_type' = m_fe_type
    BY <1>6 DEF TuningInv, MembersAsAsked
  <2> QED
    BY <1>2, <1>3, <1>5, <1>6, <2>1, OscillatorUnits
    DEF FrequencyOf, FrequencyAsked, OscillatorKHz
<1>8. /\ m_symrate' = prop.sr \div 1000 /\ m_fec' = prop.fec /\ m_msys' = prop.msys
      /\ m_plpid' = prop.plp /\ m_pls_code' = prop.pls
  BY <1>3, <1>6 DEF TuningInv, MembersAsAsked
<1> QED BY <1>3, <1>4, <1>6, <1>7, <1>8, PropertyStep

(* The other properties leave the frequency and its tone alone. *)
LEMMA OtherPropertyStep ==
    ASSUME TuningTypeOK, TuningInv, phase = "properties", phase' = phase,
           UNCHANGED <<m_fe_type, secVars, m_frequency, m_status, sent>>,
           NEW prop \in PropAsked, prop.freq = asked.prop.freq,
           asked' = [asked EXCEPT !.prop = prop],
           m_symrate' = prop.sr \div 1000, m_fec' = prop.fec, m_msys' = prop.msys, m_plpid' = prop.plp,
           m_pls_code' = prop.pls
    PROVE  TuningTypeOK' /\ TuningInv'
<1>1. asked \in [sec : SecAsked, prop : PropAsked] /\ m_frequency = FrequencyAsked
  BY DEF TuningInv, MembersAsAsked
<1>2. asked'.prop.freq = asked.prop.freq /\ asked'.sec = asked.sec
  BY <1>1
<1>3. m_frequency' = FrequencyAsked'
  BY <1>1, <1>2 DEF FrequencyAsked, OscillatorKHz
<1>4. m_frequency' \in Nat
  BY DEF TuningTypeOK
<1> QED BY <1>3, <1>4, PropertyStep

LEMMA SetPropertyStep ==
    ASSUME TuningTypeOK, TuningInv, SetProperty
    PROVE  TuningTypeOK' /\ TuningInv'
<1> USE DEF Property
<1>1. /\ asked \in [sec : SecAsked, prop : PropAsked] /\ asked.prop \in PropAsked
      /\ m_symrate = asked.prop.sr \div 1000 /\ m_fec = asked.prop.fec
      /\ m_msys = asked.prop.msys /\ m_plpid = asked.prop.plp /\ m_pls_code = asked.prop.pls
  BY DEF TuningInv, MembersAsAsked
<1>2. CASE ClearProperty
  <2>1. /\ NoProperties \in PropAsked /\ NoProperties.freq = Absent
        /\ NoProperties.sr \div 1000 = 0 /\ NoProperties.fec = FEC_AUTO /\ NoProperties.msys = "SYS_UNDEFINED"
        /\ NoProperties.plp = 0 /\ NoProperties.pls = 0
    BY DEF NoProperties, PropAsked, Absent, FEC_AUTO, FEC_9_10
  <2> HIDE DEF NoProperties
  <2>2. asked' = [asked EXCEPT !.prop = NoProperties]
    BY <1>2 DEF ClearProperty
  <2>3. asked'.prop = NoProperties
    BY <1>1, <2>2
  <2>4. m_frequency' = FrequencyAsked' /\ m_frequency' \in Nat
    BY <1>2, <2>1, <2>3 DEF ClearProperty, FrequencyAsked
  <2> QED BY <1>2, <2>1, <2>2, <2>4, PropertyStep DEF ClearProperty
<1>3. ASSUME NEW data \in SymbolRates, SetSymrate(data)
      PROVE  TuningTypeOK' /\ TuningInv'
  <2> DEFINE prop == [asked.prop EXCEPT !.sr = data]
  <2>1. data \in Nat
    BY TuningAssumption
  <2>2. /\ prop \in PropAsked /\ prop.freq = asked.prop.freq /\ prop.sr = data
        /\ prop.fec = asked.prop.fec
        /\ prop.msys = asked.prop.msys /\ prop.plp = asked.prop.plp /\ prop.pls = asked.prop.pls
    BY <1>1, <2>1 DEF PropAsked
  <2>3. asked' = [asked EXCEPT !.prop = prop]
    BY <1>1, <1>3 DEF SetSymrate
  <2> HIDE DEF prop
  <2> QED BY <1>1, <1>3, <2>2, <2>3, OtherPropertyStep DEF SetSymrate
<1>4. ASSUME NEW system \in {"first", "second"}, SetModsys(system)
      PROVE  TuningTypeOK' /\ TuningInv'
  <2> DEFINE prop == [asked.prop EXCEPT !.msys = system]
  <2>1. /\ prop \in PropAsked /\ prop.freq = asked.prop.freq /\ prop.sr = asked.prop.sr
        /\ prop.fec = asked.prop.fec
        /\ prop.msys = system /\ prop.plp = asked.prop.plp /\ prop.pls = asked.prop.pls
    BY <1>1 DEF PropAsked
  <2>2. asked' = [asked EXCEPT !.prop = prop]
    BY <1>1, <1>4 DEF SetModsys
  <2> HIDE DEF prop
  <2> QED BY <1>1, <1>4, <2>1, <2>2, OtherPropertyStep DEF SetModsys
<1>5. ASSUME NEW data \in StreamIds, SetPLP(data)
      PROVE  TuningTypeOK' /\ TuningInv'
  <2> DEFINE prop == [asked.prop EXCEPT !.plp = data]
  <2>1. data \in Nat \cup {NO_STREAM_ID_FILTER}
    BY TuningAssumption
  <2>2. /\ prop \in PropAsked /\ prop.freq = asked.prop.freq /\ prop.sr = asked.prop.sr
        /\ prop.fec = asked.prop.fec
        /\ prop.msys = asked.prop.msys /\ prop.plp = data /\ prop.pls = asked.prop.pls
    BY <1>1, <2>1 DEF PropAsked
  <2>3. asked' = [asked EXCEPT !.prop = prop]
    BY <1>1, <1>5 DEF SetPLP
  <2> HIDE DEF prop
  <2> QED BY <1>1, <1>5, <2>2, <2>3, OtherPropertyStep DEF SetPLP
<1>6. ASSUME NEW data \in PlsCodes, SetPLScode(data)
      PROVE  TuningTypeOK' /\ TuningInv'
  <2> DEFINE prop == [asked.prop EXCEPT !.pls = data]
  <2>1. data \in Nat
    BY TuningAssumption
  <2>2. /\ prop \in PropAsked /\ prop.freq = asked.prop.freq /\ prop.sr = asked.prop.sr
        /\ prop.fec = asked.prop.fec
        /\ prop.msys = asked.prop.msys /\ prop.plp = asked.prop.plp /\ prop.pls = data
    BY <1>1, <2>1 DEF PropAsked
  <2>3. asked' = [asked EXCEPT !.prop = prop]
    BY <1>1, <1>6 DEF SetPLScode
  <2> HIDE DEF prop
  <2> QED BY <1>1, <1>6, <2>2, <2>3, OtherPropertyStep DEF SetPLScode
<1>7. ASSUME NEW fec \in 0..FEC_9_10, Property("fec", fec), m_fec' = fec,
             UNCHANGED <<m_frequency, m_symrate, m_msys, m_plpid, m_pls_code>>
      PROVE  TuningTypeOK' /\ TuningInv'
  <2> DEFINE prop == [asked.prop EXCEPT !.fec = fec]
  <2>1. /\ prop \in PropAsked /\ prop.freq = asked.prop.freq /\ prop.sr = asked.prop.sr
        /\ prop.fec = fec
        /\ prop.msys = asked.prop.msys /\ prop.plp = asked.prop.plp /\ prop.pls = asked.prop.pls
    BY <1>1 DEF PropAsked
  <2>2. asked' = [asked EXCEPT !.prop = prop]
    BY <1>1, <1>7
  <2> HIDE DEF prop
  <2> QED BY <1>1, <1>7, <2>1, <2>2, OtherPropertyStep
<1>8. ASSUME NEW data \in InnerFecs, SetFec(data)
      PROVE  TuningTypeOK' /\ TuningInv'
  <2> DEFINE fec == IF FecKnown(data) THEN FecOf(data) ELSE m_fec
  <2>1. data \in Nat /\ FecOf(data) \in Nat
    BY TuningAssumption DEF FecOf
  <2>2. fec \in 0..FEC_9_10
    BY <2>1 DEF FecKnown, FEC_9_10, TuningTypeOK
  <2>3. m_fec' = fec /\ Property("fec", fec)
    BY <1>1, <1>8 DEF SetFec
  <2> HIDE DEF fec
  <2> QED BY <1>7, <1>8, <2>2, <2>3 DEF SetFec
<1>9. CASE SetCodeRate
  <2>1. FEC_AUTO \in 0..FEC_9_10
    BY DEF FEC_AUTO, FEC_9_10
  <2> QED BY <1>7, <1>9, <2>1 DEF SetCodeRate
<1>10. CASE SetChannelChanged
  <2> USE <1>10 DEF SetChannelChanged, secVars, propVars
  <2>1. TuningTypeOK'
    BY DEF TuningTypeOK
  <2>2. MembersAsAsked'
    BY DEF TuningInv, MembersAsAsked, FrequencyAsked, OscillatorKHz
  <2> QED BY <2>1, <2>2 DEF TuningInv, SettledAsAsked
<1> QED BY <1>2, <1>3, <1>4, <1>5, <1>6, <1>8, <1>9, <1>10, SetFrequencyStep DEF SetProperty

LEMMA TuningStep ==
    TuningTypeOK /\ TuningInv /\ [TuningNext]_tuningVars => TuningTypeOK' /\ TuningInv'
<1> SUFFICES ASSUME TuningTypeOK, TuningInv, [TuningNext]_tuningVars
             PROVE  TuningTypeOK' /\ TuningInv'
  OBVIOUS
<1> USE DEF secVars, propVars
<1>1. CASE VtunerEvent
  BY <1>1, SecMessageStep, SetPropertyStep DEF VtunerEvent
<1>2. ASSUME UNCHANGED <<m_fe_type, secVars, propVars, asked, phase>>
      PROVE  MembersAsAsked' /\ Asked' = Asked
  <2>1. FrequencyAsked' = FrequencyAsked
    BY <1>2 DEF FrequencyAsked, OscillatorKHz
  <2>2. MembersAsAsked'
    BY <1>2, <2>1 DEF TuningInv, MembersAsAsked
  <2>3. Asked' = Asked
    BY <1>2 DEF Asked, OscillatorKHz, WholeFrequency
  <2> QED BY <2>2, <2>3
<1>3. CASE Request
  <2>1. TuningTypeOK'
    BY <1>3 DEF Request, TuningTypeOK
  <2>2. phase = "done" => GetTuningData = Asked
    BY RequestAsAsked DEF TuningInv
  <2>3. SettledAsAsked'
    BY <1>2, <1>3, <2>2 DEF Request, SettledAsAsked
  <2> QED BY <1>2, <1>3, <2>1, <2>3 DEF Request, TuningInv
<1>4. CASE SetChannelRetry
  <2>1. TuningTypeOK'
    BY <1>4 DEF SetChannelRetry, TuningTypeOK
  <2> QED BY <1>2, <1>4, <2>1 DEF SetChannelRetry, TuningInv, SettledAsAsked
<1>5. CASE UNCHANGED tuningVars
  <2>1. TuningTypeOK'
    BY <1>5 DEF tuningVars, TuningTypeOK
  <2> QED BY <1>2, <1>5, <2>1 DEF tuningVars, TuningInv, SettledAsAsked
<1> QED BY <1>1, <1>3, <1>4, <1>5 DEF TuningNext

LEMMA TuningInvariant == TuningSpec => [](TuningTypeOK /\ TuningInv)
  BY TuningInitInv, TuningStep, PTL DEF TuningSpec

(* Whatever the kernel sends, the members of satipConfig have their types. *)
THEOREM TuningTypeCorrect == TuningSpec => []TuningTypeOK
  BY TuningInvariant, PTL

(* For every frequency, symbol rate, stream id, code and switch command: a *)
(* channel that is settled after DTV_TUNE was requested with exactly the   *)
(* values the kernel gave, whatever requests and retries fell between its  *)
(* messages.                                                               *)
THEOREM TuningSettledAsAsked == TuningSpec => []SettledAsAsked
<1>1. TuningInv => SettledAsAsked
  BY DEF TuningInv
<1> QED BY <1>1, TuningInvariant, PTL
=============================================================================
