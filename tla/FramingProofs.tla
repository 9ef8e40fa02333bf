--------------------------- MODULE FramingProofs ---------------------------
(***************************************************************************)
(* Proofs about the two places where a stream of bytes that was cut        *)
(* anywhere becomes messages again: the section assembler of the PSI       *)
(* parser (module SectionAssembler), for every stream of packets and every *)
(* limit, and the receive buffer of the RTSP socket (module RxBuffer), for *)
(* every buffer size and every length of packets and answers.              *)
(***************************************************************************)
EXTENDS SectionAssembler, RxBuffer, WellFoundedInduction, TLAPS

-----------------------------------------------------------------------------
(***************************************************************************)
(* The section assembler                                                   *)
(***************************************************************************)

(* A section that has been received without a gap is the one in the        *)
(* buffer, its length is the one the header announced, and its last byte   *)
(* is still to come.                                                       *)
UnbrokenIsHeld ==
    unbroken # None =>
        /\ owner = unbroken
        /\ len > 0 /\ len < SectionLen[unbroken]
        /\ expected # 0 => expected = SectionLen[unbroken]

AssemblerInv ==
    /\ BufferBounds
    /\ UnbrokenIsHeld
    /\ UnbrokenHandled

FeedCall == [buf : Seq(TsBytes), allow_start : BOOLEAN]
TsPacket == [start : BOOLEAN, tail : Seq(TsBytes), body : Seq(TsBytes)]

LEMMA SectionsFact ==
    /\ MIN_SECTION_LEN \in Nat /\ MIN_SECTION_LEN > 3
    /\ PSI_MAX_SECTION_LEN \in Nat /\ PSI_MAX_SECTION_LEN >= MIN_SECTION_LEN
    /\ \A s \in Sections : /\ SectionLen[s] \in Nat
                           /\ SectionLen[s] >= MIN_SECTION_LEN
                           /\ SectionLen[s] <= PSI_MAX_SECTION_LEN
    /\ Mixed \notin Sections /\ None \notin Sections
    /\ Stuffing \notin Sections \X Nat
  BY AssemblerAssumption DEF HeaderLen, Stuffing

LEMMA PositionFact ==
    position \in 1..Len(Packets) => /\ NextPosition \in 1..Len(Packets)
                                    /\ FeedCalls(Packets[position]) \in Seq(FeedCall)
<1> SUFFICES ASSUME position \in 1..Len(Packets)
             PROVE  /\ NextPosition \in 1..Len(Packets)
                    /\ FeedCalls(Packets[position]) \in Seq(FeedCall)
  OBVIOUS
<1>1. Len(Packets) \in Nat /\ Len(Packets) > 0
  BY AssemblerAssumption
<1>2. NextPosition \in 1..Len(Packets)
  BY <1>1 DEF NextPosition
<1>3. Packets \in Seq(TsPacket)
  BY AssemblerAssumption DEF TsPacket
<1>4. Packets[position] \in TsPacket
  BY <1>3
<1> DEFINE p == Packets[position]
           before_start == [buf |-> p.tail, allow_start |-> FALSE]
           payload == [buf |-> p.body, allow_start |-> p.start]
<1>5. before_start \in FeedCall /\ payload \in FeedCall
  BY <1>4 DEF TsPacket, FeedCall
<1>6. FeedCalls(p) = (IF p.start /\ p.tail # <<>> THEN <<before_start>> ELSE <<>>) \o <<payload>>
  BY DEF FeedCalls
<1> HIDE DEF p, before_start, payload
<1>7. <<before_start>> \o <<payload>> \in Seq(FeedCall) /\ <<>> \o <<payload>> \in Seq(FeedCall)
  BY <1>5
<1>8. FeedCalls(p) \in Seq(FeedCall)
  BY <1>6, <1>7
<1> QED BY <1>2, <1>8 DEF p

(* The bytes a turn of the loop takes, and the calls that remain. *)
LEMMA TakenFact ==
    ASSUME AssemblerTypeOK, calls # <<>>, NEW n \in 1..Len(Call.buf)
    PROVE  /\ Taken(n) \in Seq(TsBytes) /\ Len(Taken(n)) = n
           /\ Taken(n)[1] = Call.buf[1] /\ Taken(n)[1] \in TsBytes
           /\ Consume(n) => calls' \in Seq(FeedCall)
<1>1. calls \in Seq(FeedCall) /\ Call \in FeedCall /\ Tail(calls) \in Seq(FeedCall)
  <2>1. calls \in Seq(FeedCall)
    BY DEF AssemblerTypeOK, FeedCall
  <2> QED BY <2>1 DEF Call
<1>2. Call.buf \in Seq(TsBytes)
  BY <1>1 DEF FeedCall
<1>3. /\ Taken(n) \in Seq(TsBytes) /\ Len(Taken(n)) = n
      /\ Taken(n)[1] = Call.buf[1] /\ Taken(n)[1] \in TsBytes
  BY <1>2 DEF Taken
<1>4. SubSeq(Call.buf, n + 1, Len(Call.buf)) \in Seq(TsBytes)
  BY <1>2
<1>5. [Call EXCEPT !.buf = SubSeq(@, n + 1, Len(@))] \in FeedCall
  BY <1>1, <1>4 DEF FeedCall
<1>6. <<[Call EXCEPT !.buf = SubSeq(@, n + 1, Len(@))]>> \o Tail(calls) \in Seq(FeedCall)
  BY <1>1, <1>5
<1> QED BY <1>1, <1>3, <1>6 DEF Consume

LEMMA ReturnFact ==
    ASSUME AssemblerTypeOK, calls # <<>>, Return
    PROVE  calls' \in Seq(FeedCall)
  BY DEF AssemblerTypeOK, Return, FeedCall

LEMMA AssemblerInitInv == AssemblerInit => AssemblerTypeOK /\ AssemblerInv
  BY SectionsFact DEF AssemblerInit, AssemblerTypeOK, AssemblerInv, BufferBounds,
     UnbrokenIsHeld, UnbrokenHandled, HeaderLen

(* What one turn of the loop does to the section that is being received:   *)
(* `bytes` are at least one byte of the stream.                            *)
LEMMA FollowFact ==
    ASSUME AssemblerTypeOK, AssemblerInv,
           NEW bytes \in Seq(TsBytes), Len(bytes) >= 1, len = 0 => Len(bytes) = 1,
           Follow(bytes), owner' = OwnerAfter(bytes)
    PROVE  /\ owner' \in Sections \cup {Mixed}
           /\ completed' \in Sections \cup {None} /\ unbroken' \in Sections \cup {None}
           /\ completed' # None =>
                  owner' = completed' /\ len + Len(bytes) = SectionLen[completed'] /\ len # 0
           /\ unbroken' # None =>
                  owner' = unbroken' /\ len + Len(bytes) # SectionLen[unbroken']
           /\ len # 0 => completed' \in {unbroken, None} /\ unbroken' \in {unbroken, None}
<1>1. bytes[1] \in TsBytes
  OBVIOUS
<1>2. owner' \in Sections \cup {Mixed}
  BY DEF OwnerAfter, AssemblerTypeOK
<1>3. CASE len = 0
  <2> DEFINE s == IF bytes[1] # Stuffing /\ bytes[1][2] = 0 THEN bytes[1][1] ELSE None
  <2>1. /\ completed' = IF s # None /\ Continue(bytes, s, len) /\ len + Len(bytes) = SectionLen[s]
                        THEN s ELSE None
        /\ unbroken' = IF s # None /\ Continue(bytes, s, len) /\ len + Len(bytes) # SectionLen[s]
                       THEN s ELSE None
    BY <1>3 DEF Follow
  <2>2. s # None => s \in Sections /\ bytes[1] = <<s, 0>>
    BY <1>1 DEF TsBytes
  <2>3. ASSUME s # None PROVE owner' = s
    <3>1. \A t \in Sections : Continue(bytes, t, 0) <=> t = s
      BY <1>3, <2>2, <2>3 DEF Continue
    <3> QED BY <1>3, <2>2, <2>3, <3>1 DEF OwnerAfter
  <2>4. s # None => len + Len(bytes) # SectionLen[s]
    BY <1>3, <2>2, SectionsFact
  <2> HIDE DEF s
  <2> QED BY <1>2, <1>3, <2>1, <2>2, <2>3, <2>4
<1>4. CASE len # 0
  <2>1. /\ completed' = IF unbroken # None /\ Continue(bytes, unbroken, len)
                             /\ len + Len(bytes) = SectionLen[unbroken]
                        THEN unbroken ELSE None
        /\ unbroken' = IF unbroken # None /\ Continue(bytes, unbroken, len)
                             /\ len + Len(bytes) # SectionLen[unbroken]
                       THEN unbroken ELSE None
    BY <1>4 DEF Follow
  <2>2. unbroken # None => owner = unbroken /\ unbroken \in Sections /\ unbroken # Mixed
    BY SectionsFact DEF AssemblerInv, UnbrokenIsHeld, AssemblerTypeOK
  <2>3. unbroken # None /\ Continue(bytes, unbroken, len) => owner' = unbroken
    BY <1>4, <2>2 DEF OwnerAfter
  <2> QED BY <1>2, <1>4, <2>1, <2>2, <2>3
<1> QED BY <1>3, <1>4, SectionsFact DEF AssemblerTypeOK

LEMMA FeedHeaderStep ==
    ASSUME AssemblerTypeOK, AssemblerInv, FeedHeader
    PROVE  AssemblerTypeOK' /\ AssemblerInv'
<1> DEFINE bytes == Taken(1)
<1>1. /\ calls # <<>> /\ expected = 0 /\ Follow(bytes) /\ owner' = OwnerAfter(bytes)
      /\ handled' = None /\ position' = position
  BY DEF FeedHeader
<1>2. 1 \in 1..Len(Call.buf)
  <2>1. calls \in Seq(FeedCall) /\ Call \in FeedCall
    <3>1. calls \in Seq(FeedCall)
      BY DEF AssemblerTypeOK, FeedCall
    <3> QED BY <3>1, <1>1 DEF Call
  <2>2. Call.buf \in Seq(TsBytes) /\ Call.buf # <<>>
    BY <2>1 DEF FeedCall, FeedHeader
  <2> QED BY <2>2
<1>3. bytes \in Seq(TsBytes) /\ Len(bytes) = 1 /\ (Consume(1) => calls' \in Seq(FeedCall))
  BY <1>1, <1>2, TakenFact
<1> HIDE DEF bytes
<1>4. /\ owner' \in Sections \cup {Mixed}
      /\ completed' \in Sections \cup {None} /\ unbroken' \in Sections \cup {None}
      /\ completed' # None =>
             owner' = completed' /\ len + Len(bytes) = SectionLen[completed'] /\ len # 0
      /\ unbroken' # None =>
             owner' = unbroken' /\ len + Len(bytes) # SectionLen[unbroken']
  <2>1. bytes \in Seq(TsBytes) /\ Len(bytes) >= 1 /\ (len = 0 => Len(bytes) = 1)
    BY <1>3
  <2> QED BY <1>1, <2>1, FollowFact
<1>5. len \in Nat /\ len < 3
  BY <1>1 DEF AssemblerTypeOK, AssemblerInv, BufferBounds, HeaderLen
<1>6. completed' = None
  BY <1>3, <1>4, <1>5, SectionsFact
<1>7. ASSUME len + 1 < HeaderLen
      PROVE  len' = len + 1 /\ expected' = 0 /\ calls' \in Seq(FeedCall)
  BY <1>3, <1>7 DEF FeedHeader
<1>8. ASSUME ~(len + 1 < HeaderLen)
      PROVE  \E n \in HeaderLengths(owner') :
                 /\ calls' \in Seq(FeedCall)
                 /\ \/ Bogus(n) /\ len' = 0 /\ expected' = 0
                    \/ ~Bogus(n) /\ len' = len + 1 /\ expected' = n
  BY <1>1, <1>3, <1>8, ReturnFact DEF FeedHeader
<1>9. CASE len + 1 < HeaderLen
  <2>1. BufferBounds'
    BY <1>5, <1>7, <1>9, SectionsFact DEF BufferBounds, HeaderLen
  <2>2. UnbrokenIsHeld'
    BY <1>4, <1>5, <1>7, <1>9, SectionsFact DEF UnbrokenIsHeld
  <2>3. AssemblerTypeOK'
    BY <1>1, <1>4, <1>5, <1>6, <1>7, <1>9 DEF AssemblerTypeOK, FeedCall
  <2> QED BY <1>6, <2>1, <2>2, <2>3 DEF AssemblerInv, UnbrokenHandled
<1>10. CASE ~(len + 1 < HeaderLen)
  <2>1. len + 1 = 3
    BY <1>5, <1>10 DEF HeaderLen
  <2>2. PICK n \in HeaderLengths(owner') :
            /\ calls' \in Seq(FeedCall)
            /\ \/ Bogus(n) /\ len' = 0 /\ expected' = 0
               \/ ~Bogus(n) /\ len' = len + 1 /\ expected' = n
    BY <1>8, <1>10
  <2>3. n \in Nat
    BY <1>4, SectionsFact DEF HeaderLengths
  <2>4. unbroken' # None => n = SectionLen[unbroken'] /\ ~Bogus(n)
    BY <1>4, <2>2, SectionsFact DEF HeaderLengths, Bogus
  <2>5. ~Bogus(n) => n >= MIN_SECTION_LEN /\ n <= PSI_MAX_SECTION_LEN
    BY <2>3, SectionsFact DEF Bogus
  <2>6. BufferBounds'
    BY <2>1, <2>2, <2>3, <2>5, SectionsFact DEF BufferBounds, HeaderLen
  <2>7. UnbrokenIsHeld'
    BY <1>4, <2>1, <2>2, <2>4, SectionsFact DEF UnbrokenIsHeld
  <2>8. AssemblerTypeOK'
    BY <1>1, <1>4, <1>5, <1>6, <2>2, <2>3 DEF AssemblerTypeOK, FeedCall
  <2> QED BY <1>6, <2>6, <2>7, <2>8 DEF AssemblerInv, UnbrokenHandled
<1> QED BY <1>9, <1>10

LEMMA FeedCopyStep ==
    ASSUME AssemblerTypeOK, AssemblerInv, FeedCopy
    PROVE  AssemblerTypeOK' /\ AssemblerInv'
<1> DEFINE bytes == Taken(Take)
<1>1. /\ calls # <<>> /\ expected # 0 /\ Follow(bytes) /\ owner' = OwnerAfter(bytes)
      /\ Consume(Take) /\ position' = position
  BY DEF FeedCopy
<1>2. Call.buf \in Seq(TsBytes) /\ Call.buf # <<>>
  <2>1. calls \in Seq(FeedCall)
    BY DEF AssemblerTypeOK, FeedCall
  <2>2. Call \in FeedCall
    BY <2>1, <1>1 DEF Call
  <2> QED BY <2>2 DEF FeedCall, FeedCopy
<1>3. /\ len \in Nat /\ expected \in Nat /\ expected <= PSI_MAX_SECTION_LEN
      /\ 3 <= len /\ len < expected
  BY <1>1 DEF AssemblerTypeOK, AssemblerInv, BufferBounds, HeaderLen
<1>4. Take \in 1..Len(Call.buf) /\ Take <= expected - len
  <2>1. Len(Call.buf) \in Nat /\ Len(Call.buf) > 0
    BY <1>2
  <2> QED BY <2>1, <1>3 DEF Take
<1>5. bytes \in Seq(TsBytes) /\ Len(bytes) = Take /\ calls' \in Seq(FeedCall)
  BY <1>1, <1>4, TakenFact
<1> HIDE DEF bytes
<1>6. /\ owner' \in Sections \cup {Mixed}
      /\ completed' \in Sections \cup {None} /\ unbroken' \in Sections \cup {None}
      /\ completed' # None =>
             owner' = completed' /\ len + Len(bytes) = SectionLen[completed']
      /\ unbroken' # None =>
             owner' = unbroken' /\ len + Len(bytes) # SectionLen[unbroken']
      /\ completed' \in {unbroken, None} /\ unbroken' \in {unbroken, None}
  BY <1>1, <1>3, <1>4, <1>5, FollowFact
<1>7. unbroken # None => expected = SectionLen[unbroken]
  BY <1>1 DEF AssemblerInv, UnbrokenIsHeld
<1>8. CASE len + Take = expected
  <2>1. handled' = HandleSection /\ len' = 0 /\ expected' = 0
    BY <1>8 DEF FeedCopy
  <2>2. unbroken' = None
    BY <1>5, <1>6, <1>7, <1>8
  <2>3. UnbrokenHandled'
    BY <1>6, <1>7, <2>1, SectionsFact DEF UnbrokenHandled, HandleSection
  <2>4. BufferBounds' /\ UnbrokenIsHeld'
    BY <2>1, <2>2, SectionsFact DEF BufferBounds, UnbrokenIsHeld, HeaderLen
  <2>5. handled' \in Sections \cup {None}
    BY <1>6, <2>1 DEF HandleSection
  <2>6. AssemblerTypeOK'
    BY <1>1, <1>5, <1>6, <2>1, <2>5 DEF AssemblerTypeOK, FeedCall
  <2> QED BY <2>3, <2>4, <2>6 DEF AssemblerInv
<1>9. CASE len + Take # expected
  <2>1. handled' = None /\ len' = len + Take /\ expected' = expected
    BY <1>9 DEF FeedCopy
  <2>2. completed' = None
    BY <1>5, <1>6, <1>7, <1>9
  <2>3. len' \in Nat /\ 3 <= len' /\ len' < expected
    BY <1>3, <1>4, <1>9, <2>1
  <2>4. BufferBounds'
    BY <1>1, <1>3, <2>1, <2>3 DEF BufferBounds, HeaderLen
  <2>5. UnbrokenIsHeld'
    BY <1>6, <1>7, <2>1, <2>3 DEF UnbrokenIsHeld
  <2>6. AssemblerTypeOK'
    BY <1>1, <1>3, <1>5, <1>6, <2>1, <2>3 DEF AssemblerTypeOK, FeedCall
  <2> QED BY <2>2, <2>4, <2>5, <2>6 DEF AssemblerInv, UnbrokenHandled
<1> QED BY <1>8, <1>9

LEMMA AssemblerStep ==
    AssemblerTypeOK /\ AssemblerInv /\ [AssemblerNext]_vars => AssemblerTypeOK' /\ AssemblerInv'
<1> SUFFICES ASSUME AssemblerTypeOK, AssemblerInv, [AssemblerNext]_vars
             PROVE  AssemblerTypeOK' /\ AssemblerInv'
  OBVIOUS
<1> USE DEF assemblerVars, historyVars
<1>1. CASE ReceivePacket
  <2>1. calls' \in Seq(FeedCall) /\ position' \in 1..Len(Packets)
    BY <1>1, PositionFact DEF ReceivePacket, AssemblerTypeOK
  <2>2. AssemblerTypeOK'
    BY <1>1, <2>1 DEF ReceivePacket, AssemblerTypeOK, FeedCall
  <2> QED
    BY <1>1, <2>2 DEF ReceivePacket, AssemblerInv, BufferBounds, UnbrokenIsHeld, UnbrokenHandled
<1>2. CASE LosePacket
  <2>1. position' \in 1..Len(Packets)
    BY <1>2, PositionFact DEF LosePacket, AssemblerTypeOK
  <2>2. AssemblerTypeOK'
    BY <1>2, <2>1 DEF LosePacket, AssemblerTypeOK
  <2> QED
    BY <1>2, <2>2 DEF LosePacket, AssemblerInv, BufferBounds, UnbrokenIsHeld, UnbrokenHandled
<1>3. CASE ForgetPid
  <2>1. AssemblerTypeOK'
    BY <1>3 DEF ForgetPid, AssemblerTypeOK
  <2> QED
    BY <1>3, <2>1, SectionsFact
    DEF ForgetPid, AssemblerInv, BufferBounds, UnbrokenIsHeld, UnbrokenHandled, HeaderLen
<1>4. CASE FeedReturn
  <2>1. calls' \in Seq(FeedCall)
    BY <1>4, ReturnFact DEF FeedReturn
  <2>2. AssemblerTypeOK'
    BY <1>4, <2>1 DEF FeedReturn, AssemblerTypeOK, FeedCall
  <2> QED
    BY <1>4, <2>2 DEF FeedReturn, AssemblerInv, BufferBounds, UnbrokenIsHeld, UnbrokenHandled
<1>5. CASE FeedHeader
  BY <1>5, FeedHeaderStep
<1>6. CASE FeedCopy
  BY <1>6, FeedCopyStep
<1>7. CASE UNCHANGED vars
  <2>1. AssemblerTypeOK'
    BY <1>7 DEF vars, AssemblerTypeOK
  <2> QED BY <1>7, <2>1 DEF vars, AssemblerInv, BufferBounds, UnbrokenIsHeld, UnbrokenHandled
<1> QED BY <1>1, <1>2, <1>3, <1>4, <1>5, <1>6, <1>7 DEF AssemblerNext

LEMMA AssemblerInvariant == AssemblerSpec => [](AssemblerTypeOK /\ AssemblerInv)
  BY AssemblerInitInv, AssemblerStep, PTL DEF AssemblerSpec

(* For every stream of packets, however sections are cut and whatever is   *)
(* lost, the state of feed has its types.                                  *)
THEOREM AssemblerTypeCorrect == AssemblerSpec => []AssemblerTypeOK
  BY AssemblerInvariant, PTL

(* feed never copies beyond the section buffer, whatever length a header   *)
(* announces, and never holds more than three bytes of an unread header.   *)
THEOREM AssemblerBufferBounds == AssemblerSpec => []BufferBounds
<1>1. AssemblerInv => BufferBounds
  BY DEF AssemblerInv
<1> QED BY <1>1, AssemblerInvariant, PTL

(* feed hands on every section that arrives without a gap, in the turn     *)
(* that takes its last byte, for every stream and every cut.               *)
THEOREM AssemblerUnbrokenHandled == AssemblerSpec => []UnbrokenHandled
<1>1. AssemblerInv => UnbrokenHandled
  BY DEF AssemblerInv
<1> QED BY <1>1, AssemblerInvariant, PTL

-----------------------------------------------------------------------------
(***************************************************************************)
(* The receive buffer                                                      *)
(***************************************************************************)

(* ends[i] is the number of bytes up to the end of the i-th message. *)
EndsOf(ends, msgs) ==
    /\ ends \in [0..Len(msgs) -> Int]
    /\ ends[0] = 0
    /\ \A i \in 1..Len(msgs) : ends[i] = ends[i - 1] + msgs[i].left

(* BytesAccounted without recursion: a function that adds up the lengths   *)
(* exists, and the last message ends where the bytes do.                   *)
AddUp(total, msgs) == \E ends : EndsOf(ends, msgs) /\ ends[Len(msgs)] = total
BytesAddUp         == AddUp(m_rx_data_pos + unread, messages)

(* Only a request that was pending when the call began can complete in it. *)
AwaitedSinceCall ==
    /\ pc = "again" /\ m_rtsp_request = "SENT" => awaited = "SENT"
    /\ res = "RTSP_RESPONSE_COMPLETE" => awaited = "SENT"

BufferInv ==
    /\ InBuffer
    /\ BytesAddUp
    /\ NothingLeftBehind
    /\ AwaitedSinceCall

(* The sum of the lengths, for the ways in which the queue changes. *)
LEMMA AddUpEmpty == AddUp(0, <<>>)
<1> DEFINE ends == [i \in 0..0 |-> 0]
<1>1. EndsOf(ends, <<>>) /\ ends[Len(<<>>)] = 0
  BY DEF EndsOf
<1> QED BY <1>1 DEF AddUp

LEMMA AddUpNothing ==
    ASSUME NEW total \in Nat, AddUp(total, <<>>)
    PROVE  total = 0
  BY DEF AddUp, EndsOf

LEMMA LeftFact ==
    ASSUME NEW msgs \in Seq(Message), NEW i \in 1..Len(msgs)
    PROVE  msgs[i].left \in Nat /\ msgs[i].left > 0
<1>1. msgs[i] \in Message
  OBVIOUS
<1> QED BY <1>1 DEF Message

LEMMA AddUpAppend ==
    ASSUME NEW msgs \in Seq(Message), NEW m \in Message, NEW total \in Nat, AddUp(total, msgs)
    PROVE  AddUp(total + m.left, Append(msgs, m))
<1>1. PICK ends : EndsOf(ends, msgs) /\ ends[Len(msgs)] = total
  BY DEF AddUp
<1> DEFINE k == Len(msgs)
           new == [i \in 0..k + 1 |-> IF i = k + 1 THEN total + m.left ELSE ends[i]]
<1>2. k \in Nat /\ Len(Append(msgs, m)) = k + 1 /\ m.left \in Nat
  BY DEF Message
<1>3. new \in [0..k + 1 -> Int] /\ new[0] = 0 /\ new[k + 1] = total + m.left
  BY <1>1, <1>2 DEF EndsOf
<1>4. ASSUME NEW i \in 1..k + 1 PROVE new[i] = new[i - 1] + Append(msgs, m)[i].left
  <2>1. CASE i = k + 1
    BY <1>1, <1>2, <2>1
  <2>2. CASE i \in 1..k
    BY <1>1, <1>2, <2>2 DEF EndsOf
  <2> QED BY <1>2, <2>1, <2>2
<1> HIDE DEF new, k
<1>5. EndsOf(new, Append(msgs, m)) /\ new[Len(Append(msgs, m))] = total + m.left
  BY <1>2, <1>3, <1>4 DEF EndsOf
<1> QED BY <1>5 DEF AddUp

LEMMA AddUpTail ==
    ASSUME NEW msgs \in Seq(Message), msgs # <<>>, NEW total \in Nat, AddUp(total, msgs)
    PROVE  AddUp(total - msgs[1].left, Tail(msgs))
<1>1. PICK ends : EndsOf(ends, msgs) /\ ends[Len(msgs)] = total
  BY DEF AddUp
<1> DEFINE k == Len(msgs)
           l == msgs[1].left
           new == [i \in 0..k - 1 |-> ends[i + 1] - l]
<1>2. /\ k \in Nat /\ k > 0 /\ Len(Tail(msgs)) = k - 1
      /\ \A i \in 1..k - 1 : Tail(msgs)[i] = msgs[i + 1]
  OBVIOUS
<1>3. l \in Nat /\ \A i \in 1..k : msgs[i].left \in Nat
  BY <1>2, LeftFact
<1>4. new \in [0..k - 1 -> Int] /\ new[0] = 0 /\ new[k - 1] = total - l
  BY <1>1, <1>2, <1>3 DEF EndsOf
<1>5. ASSUME NEW i \in 1..k - 1 PROVE new[i] = new[i - 1] + Tail(msgs)[i].left
  <2>1. /\ i + 1 \in 1..k /\ i \in 0..k - 1 /\ i - 1 \in 0..k - 1
        /\ (i + 1) - 1 = i /\ (i - 1) + 1 = i
    BY <1>2
  <2>2. ends[i + 1] = ends[i] + msgs[i + 1].left
    BY <1>1, <2>1 DEF EndsOf
  <2>3. ends[i + 1] \in Int /\ ends[i] \in Int /\ msgs[i + 1].left \in Nat
    BY <1>1, <1>3, <2>1 DEF EndsOf
  <2>4. new[i] = ends[i + 1] - l /\ new[i - 1] = ends[i] - l
    BY <2>1
  <2>5. Tail(msgs)[i].left = msgs[i + 1].left
    BY <1>2
  <2> HIDE DEF new, l
  <2> QED BY <1>3, <2>2, <2>3, <2>4, <2>5
<1> HIDE DEF new, k, l
<1>6. EndsOf(new, Tail(msgs)) /\ new[Len(Tail(msgs))] = total - l
  BY <1>2, <1>4, <1>5 DEF EndsOf
<1> QED BY <1>6 DEF AddUp, l

(* The first message loses its first n bytes. *)
LEMMA AddUpCut ==
    ASSUME NEW msgs \in Seq(Message), msgs # <<>>, NEW total \in Nat, AddUp(total, msgs),
           NEW n \in Nat, n < msgs[1].left,
           NEW cut \in Seq(Message), Len(cut) = Len(msgs), cut[1].left = msgs[1].left - n,
           \A i \in 2..Len(msgs) : cut[i] = msgs[i]
    PROVE  AddUp(total - n, cut)
<1>1. PICK ends : EndsOf(ends, msgs) /\ ends[Len(msgs)] = total
  BY DEF AddUp
<1> DEFINE k == Len(msgs)
           new == [i \in 0..k |-> IF i = 0 THEN 0 ELSE ends[i] - n]
<1>2. k \in Nat /\ k > 0
  OBVIOUS
<1>3. \A i \in 1..k : msgs[i].left \in Nat
  BY LeftFact
<1>4. new \in [0..k -> Int] /\ new[0] = 0 /\ new[k] = total - n
  BY <1>1, <1>2 DEF EndsOf
<1>5. ASSUME NEW i \in 1..k PROVE new[i] = new[i - 1] + cut[i].left
  <2>1. CASE i = 1
    BY <1>1, <1>2, <1>3, <2>1 DEF EndsOf
  <2>2. CASE i \in 2..k
    <3>1. ends[i] = ends[i - 1] + msgs[i].left /\ cut[i] = msgs[i]
      BY <1>1, <2>2 DEF EndsOf
    <3>2. i \in 0..k /\ i - 1 \in 0..k /\ i # 0 /\ i - 1 # 0
      BY <1>2, <2>2
    <3>3. ends[i] \in Int /\ ends[i - 1] \in Int /\ msgs[i].left \in Nat
      BY <1>1, <1>3, <3>2 DEF EndsOf
    <3>4. new[i] = ends[i] - n /\ new[i - 1] = ends[i - 1] - n
      BY <3>2
    <3> HIDE DEF new
    <3> QED BY <3>1, <3>3, <3>4
  <2> QED BY <1>2, <2>1, <2>2
<1> HIDE DEF new, k
<1>6. EndsOf(new, cut) /\ new[Len(cut)] = total - n
  BY <1>2, <1>4, <1>5 DEF EndsOf, k
<1> QED BY <1>6 DEF AddUp

LEMMA BufferFact == m_rx_data_len \in Nat /\ m_rx_data_len > 5
  BY BufferAssumption

(* The positions, and the first message while there are bytes. *)
LEMMA FirstMessage ==
    ASSUME BufferTypeOK, BufferInv
    PROVE  /\ m_rx_data_pos \in Nat /\ unread \in Nat /\ m_rx_data_pos < m_rx_data_len
           /\ messages \in Seq(Message)
           /\ messages = <<>> => m_rx_data_pos = 0 /\ unread = 0
           /\ messages # <<>> => /\ messages[1] \in Message
                                 /\ messages[1].left \in Nat /\ messages[1].left > 0
<1>1. /\ m_rx_data_pos \in Nat /\ unread \in Nat /\ m_rx_data_pos < m_rx_data_len
      /\ messages \in Seq(Message)
  BY DEF BufferTypeOK, BufferInv, InBuffer
<1>2. messages = <<>> => m_rx_data_pos + unread = 0
  BY <1>1, AddUpNothing DEF BufferInv, BytesAddUp
<1>3. messages # <<>> => messages[1] \in Message /\ 1 \in 1..Len(messages)
  BY <1>1
<1>4. messages # <<>> => messages[1].left \in Nat /\ messages[1].left > 0
  BY <1>1, <1>3, LeftFact
<1> QED BY <1>1, <1>2, <1>3, <1>4

LEMMA BufferInitInv == BufferInit => BufferTypeOK /\ BufferInv
<1> SUFFICES ASSUME BufferInit PROVE BufferTypeOK /\ BufferInv
  OBVIOUS
<1>1. m_timer_reset_connect \in BOOLEAN
  BY DEF BufferInit
<1>2. BufferTypeOK
  BY <1>1 DEF BufferInit, BufferTypeOK
<1>3. BytesAddUp
  BY AddUpEmpty DEF BufferInit, BytesAddUp
<1> QED
  BY <1>2, <1>3, BufferFact
  DEF BufferInit, BufferInv, InBuffer, NothingLeftBehind, Whole, AwaitedSinceCall

LEMMA ServerStep ==
    ASSUME BufferTypeOK, BufferInv,
           NEW kind \in {Packet, Ok, Refused}, NEW lens, lens \subseteq {n \in Nat : n >= 4},
           ServerSends(kind, lens)
    PROVE  BufferTypeOK' /\ BufferInv'
<1>1. PICK n \in lens :
          /\ messages' = Append(messages, [kind |-> kind, left |-> n, intact |-> TRUE])
          /\ unread' = unread + n
  BY DEF ServerSends
<1> DEFINE m == [kind |-> kind, left |-> n, intact |-> TRUE]
<1>2. m \in Message /\ m.left = n /\ n \in Nat /\ n >= 4
  BY DEF Message
<1> HIDE DEF m
<1>3. messages' = Append(messages, m)
  BY <1>1 DEF m
<1>4. UNCHANGED <<m_rx_data_pos, m_rtsp_request, m_timer_reset_connect, pc, res, awaited>>
  BY DEF ServerSends
<1>5. /\ m_rx_data_pos \in Nat /\ unread \in Nat /\ m_rx_data_pos < m_rx_data_len
      /\ messages \in Seq(Message)
      /\ messages = <<>> => m_rx_data_pos = 0 /\ unread = 0
  BY FirstMessage
<1>6. messages' \in Seq(Message) /\ messages' # <<>>
      /\ messages'[1] = IF messages = <<>> THEN m ELSE messages[1]
  BY <1>2, <1>3, <1>5
<1>7. BufferTypeOK'
  BY <1>1, <1>2, <1>4, <1>5, <1>6 DEF BufferTypeOK
<1>8. BytesAddUp'
  <2>1. AddUp((m_rx_data_pos + unread) + m.left, Append(messages, m))
    BY <1>2, <1>5, AddUpAppend DEF BufferInv, BytesAddUp
  <2>2. m_rx_data_pos' + unread' = (m_rx_data_pos + unread) + m.left
    BY <1>1, <1>2, <1>4, <1>5
  <2> QED BY <1>3, <2>1, <2>2 DEF BytesAddUp
<1>9. NothingLeftBehind'
  BY <1>2, <1>4, <1>5, <1>6 DEF BufferInv, NothingLeftBehind, Whole
<1>10. InBuffer' /\ AwaitedSinceCall'
  BY <1>4 DEF BufferInv, InBuffer, AwaitedSinceCall
<1> QED BY <1>7, <1>8, <1>9, <1>10 DEF BufferInv

(* The connection is closed, by the timer or after a refusal. *)
LEMMA ResetConnectStep ==
    ASSUME BufferTypeOK, BufferInv, ResetConnect, awaited' = awaited,
           pc' = "idle", res' \in {res, "RTSP_ERROR"}
    PROVE  BufferTypeOK' /\ BufferInv'
<1>1. m_timer_reset_connect' \in BOOLEAN
  BY DEF ResetConnect
<1>2. BufferTypeOK'
  BY <1>1 DEF ResetConnect, BufferTypeOK
<1>3. BytesAddUp'
  BY AddUpEmpty DEF ResetConnect, BytesAddUp
<1> QED
  BY <1>2, <1>3, BufferFact
  DEF ResetConnect, BufferInv, InBuffer, NothingLeftBehind, Whole, AwaitedSinceCall

LEMMA OverflowStep ==
    ASSUME BufferTypeOK, BufferInv, Overflow
    PROVE  BufferTypeOK' /\ BufferInv'
<1>1. /\ m_rx_data_pos \in Nat /\ unread \in Nat /\ unread > 0
      /\ messages \in Seq(Message) /\ messages # <<>> /\ messages[1] \in Message
      /\ messages[1].left \in Nat /\ messages[1].left > m_rx_data_pos
  BY FirstMessage DEF Overflow, BufferInv, NothingLeftBehind, Whole
<1> DEFINE rest == [messages[1] EXCEPT !.left = @ - m_rx_data_pos, !.intact = FALSE]
<1>2. rest \in Message /\ rest.left = messages[1].left - m_rx_data_pos
  <2>1. PICK first \in Message : first = messages[1]
    BY <1>1
  <2>2. first.left - m_rx_data_pos \in Nat \ {0} /\ FALSE \in BOOLEAN
    BY <1>1, <2>1
  <2>3. [first EXCEPT !.left = @ - m_rx_data_pos, !.intact = FALSE] \in Message
    BY <2>2 DEF Message
  <2>4. [first EXCEPT !.left = @ - m_rx_data_pos, !.intact = FALSE].left
            = first.left - m_rx_data_pos
    BY DEF Message
  <2> QED BY <2>1, <2>3, <2>4
<1>3. messages' = [messages EXCEPT ![1] = rest]
  BY <1>1 DEF Overflow, Message
<1> HIDE DEF rest
<1>4. /\ messages' \in Seq(Message) /\ Len(messages') = Len(messages)
      /\ messages'[1] = rest /\ \A i \in 2..Len(messages) : messages'[i] = messages[i]
  BY <1>1, <1>2, <1>3
<1>5. /\ m_rx_data_pos' = 0 /\ res' = "RTSP_ERROR" /\ awaited' = m_rtsp_request /\ pc = "idle"
      /\ UNCHANGED <<unread, m_rtsp_request, m_timer_reset_connect, pc>>
  BY DEF Overflow
<1>6. BufferTypeOK'
  BY <1>4, <1>5 DEF BufferTypeOK
<1>7. BytesAddUp'
  <2>1. AddUp((m_rx_data_pos + unread) - m_rx_data_pos, messages')
    BY <1>1, <1>2, <1>4, AddUpCut DEF BufferInv, BytesAddUp
  <2>2. m_rx_data_pos' + unread' = (m_rx_data_pos + unread) - m_rx_data_pos
    BY <1>1, <1>5
  <2> QED BY <2>1, <2>2 DEF BytesAddUp
<1>8. NothingLeftBehind' /\ InBuffer' /\ AwaitedSinceCall'
  BY <1>1, <1>2, <1>4, <1>5, BufferFact DEF NothingLeftBehind, Whole, InBuffer, AwaitedSinceCall
<1> QED BY <1>6, <1>7, <1>8 DEF BufferInv

LEMMA RecvStep ==
    ASSUME BufferTypeOK, BufferInv, Recv
    PROVE  BufferTypeOK' /\ BufferInv'
<1>1. PICK n \in 1..unread : /\ n <= Room
                             /\ m_rx_data_pos' = m_rx_data_pos + n
                             /\ unread' = unread - n
  BY DEF Recv
<1>2. m_rx_data_pos \in Nat /\ unread \in Nat
  BY DEF BufferTypeOK
<1>3. /\ m_rx_data_pos' \in Nat /\ unread' \in Nat /\ m_rx_data_pos' < m_rx_data_len
      /\ m_rx_data_pos' + unread' = m_rx_data_pos + unread
  BY <1>1, <1>2, BufferFact DEF Room
<1>4. /\ pc' = "again" /\ res' = "RTSP_ERROR" /\ awaited' = m_rtsp_request
      /\ UNCHANGED <<messages, m_rtsp_request, m_timer_reset_connect>>
  BY DEF Recv
<1>5. BufferTypeOK'
  BY <1>3, <1>4 DEF BufferTypeOK
<1>6. BytesAddUp'
  BY <1>3, <1>4 DEF BufferInv, BytesAddUp
<1> QED
  BY <1>3, <1>4, <1>5, <1>6 DEF BufferInv, InBuffer, NothingLeftBehind, AwaitedSinceCall

(* A whole message is taken out of the buffer. *)
LEMMA ConsumeFact ==
    ASSUME BufferTypeOK, BufferInv, Whole, ConsumeMessage, unread' = unread
    PROVE  /\ messages' \in Seq(Message)
           /\ m_rx_data_pos' \in Nat
           /\ InBuffer' /\ BytesAddUp'
           /\ m_rx_data_pos' = 0 => ~Whole'
<1>1. /\ m_rx_data_pos \in Nat /\ unread \in Nat /\ m_rx_data_pos < m_rx_data_len
      /\ messages \in Seq(Message) /\ messages # <<>>
      /\ messages[1].left \in Nat /\ messages[1].left > 0 /\ messages[1].left <= m_rx_data_pos
  BY FirstMessage DEF Whole
<1>2. messages' = Tail(messages) /\ m_rx_data_pos' = m_rx_data_pos - messages[1].left
  BY DEF ConsumeMessage
<1>3. messages' \in Seq(Message)
  BY <1>1, <1>2
<1>4. m_rx_data_pos' \in Nat /\ m_rx_data_pos' < m_rx_data_len
  BY <1>1, <1>2, BufferFact
<1>5. BytesAddUp'
  <2>1. AddUp((m_rx_data_pos + unread) - messages[1].left, Tail(messages))
    BY <1>1, AddUpTail DEF BufferInv, BytesAddUp
  <2>2. m_rx_data_pos' + unread' = (m_rx_data_pos + unread) - messages[1].left
    BY <1>1, <1>2
  <2> QED BY <1>2, <2>1, <2>2 DEF BytesAddUp
<1>6. messages' # <<>> => 1 \in 1..Len(messages')
  BY <1>3
<1>7. messages' # <<>> => messages'[1].left \in Nat /\ messages'[1].left > 0
  BY <1>3, <1>6, LeftFact
<1>8. m_rx_data_pos' = 0 => ~Whole'
  BY <1>7 DEF Whole
<1> QED BY <1>3, <1>4, <1>5, <1>8 DEF InBuffer

LEMMA HandlePacketStep ==
    ASSUME BufferTypeOK, BufferInv, HandlePacket
    PROVE  BufferTypeOK' /\ BufferInv'
<1>1. /\ pc = "again" /\ Whole /\ ConsumeMessage /\ m_timer_reset_connect' = TRUE
      /\ UNCHANGED <<unread, m_rtsp_request, pc, res, awaited>>
  BY DEF HandlePacket
<1>2. /\ messages' \in Seq(Message) /\ m_rx_data_pos' \in Nat /\ InBuffer' /\ BytesAddUp'
  BY <1>1, ConsumeFact
<1>3. m_timer_reset_connect' \in BOOLEAN
  BY <1>1
<1>4. BufferTypeOK'
  BY <1>1, <1>2, <1>3 DEF BufferTypeOK
<1> QED BY <1>1, <1>2, <1>4 DEF BufferInv, NothingLeftBehind, AwaitedSinceCall

LEMMA AnswerOkStep ==
    ASSUME BufferTypeOK, BufferInv, AnswerOk
    PROVE  BufferTypeOK' /\ BufferInv'
<1>1. /\ pc = "again" /\ Whole /\ ConsumeMessage /\ m_rtsp_request' = "NONE"
      /\ m_timer_reset_connect' = FALSE /\ res' = "RTSP_RESPONSE_COMPLETE"
      /\ pc' = IF m_rx_data_pos' > 0 THEN "again" ELSE "idle"
      /\ ResultOf(messages[1]) = "RTSP_RESPONSE_COMPLETE"
      /\ UNCHANGED <<unread, awaited>>
  BY DEF AnswerOk
<1>2. /\ messages' \in Seq(Message) /\ m_rx_data_pos' \in Nat /\ InBuffer' /\ BytesAddUp'
      /\ m_rx_data_pos' = 0 => ~Whole'
  BY <1>1, ConsumeFact
<1>3. m_timer_reset_connect' \in BOOLEAN
  BY <1>1
<1>4. BufferTypeOK'
  BY <1>1, <1>2, <1>3 DEF BufferTypeOK
<1>5. awaited = "SENT"
  BY <1>1 DEF ResultOf, BufferTypeOK, BufferInv, AwaitedSinceCall
<1>6. AwaitedSinceCall'
  BY <1>1, <1>5 DEF AwaitedSinceCall
<1>7. NothingLeftBehind'
  BY <1>1, <1>2 DEF NothingLeftBehind
<1> QED BY <1>2, <1>4, <1>6, <1>7 DEF BufferInv

LEMMA BufferStep ==
    BufferTypeOK /\ BufferInv /\ [BufferNext]_bufferVars => BufferTypeOK' /\ BufferInv'
<1> SUFFICES ASSUME BufferTypeOK, BufferInv, [BufferNext]_bufferVars
             PROVE  BufferTypeOK' /\ BufferInv'
  OBVIOUS
<1>1. CASE SendPacket \/ SendAnswer
  <2>1. PacketLens \subseteq {n \in Nat : n >= 4} /\ AnswerLens \subseteq {n \in Nat : n >= 4}
    BY BufferAssumption
  <2> QED BY <1>1, <2>1, ServerStep DEF SendPacket, SendAnswer
<1>2. CASE SendRequest
  <2>1. m_timer_reset_connect' \in BOOLEAN
    BY <1>2 DEF SendRequest
  <2>2. BufferTypeOK'
    BY <1>2, <2>1 DEF SendRequest, BufferTypeOK, serverVars
  <2> QED
    BY <1>2, <2>2 DEF SendRequest, serverVars, BufferInv, InBuffer, BytesAddUp,
                      NothingLeftBehind, Whole, AwaitedSinceCall
<1>3. CASE TimeoutConnect
  BY <1>3, ResetConnectStep DEF TimeoutConnect
<1>4. CASE Overflow
  BY <1>4, OverflowStep
<1>5. CASE Recv
  BY <1>5, RecvStep
<1>6. CASE Incomplete
  <2>1. BufferTypeOK'
    BY <1>6 DEF Incomplete, ReturnWith, BufferTypeOK, serverVars
  <2> QED
    BY <1>6, <2>1 DEF Incomplete, ReturnWith, serverVars, BufferInv, InBuffer, BytesAddUp,
                      NothingLeftBehind, Whole, AwaitedSinceCall
<1>7. CASE HandlePacket
  BY <1>7, HandlePacketStep
<1>8. CASE AnswerError
  BY <1>8, ResetConnectStep DEF AnswerError, ReturnWith
<1>9. CASE AnswerOk
  BY <1>9, AnswerOkStep
<1>10. CASE UNCHANGED bufferVars
  <2>1. BufferTypeOK'
    BY <1>10 DEF bufferVars, serverVars, BufferTypeOK
  <2> QED
    BY <1>10, <2>1 DEF bufferVars, serverVars, BufferInv, InBuffer, BytesAddUp,
                       NothingLeftBehind, Whole, AwaitedSinceCall
<1> QED
  BY <1>1, <1>2, <1>3, <1>4, <1>5, <1>6, <1>7, <1>8, <1>9, <1>10 DEF BufferNext, HandleResponse

LEMMA BufferInvariant == BufferSpec => [](BufferTypeOK /\ BufferInv)
  BY BufferInitInv, BufferStep, PTL DEF BufferSpec

(* Whatever recv returns, positions and messages have their types.         *)
THEOREM BufferTypeCorrect == BufferSpec => []BufferTypeOK
  BY BufferInvariant, PTL

(* For every size of m_rx_data, the zero handleResponse writes behind the  *)
(* received bytes stays in the buffer.                                     *)
THEOREM BufferInBuffer == BufferSpec => []InBuffer
<1>1. BufferInv => InBuffer
  BY DEF BufferInv
<1> QED BY <1>1, BufferInvariant, PTL

(* Induction over the naturals, for a set of them. *)
LEMMA AllNaturals ==
    ASSUME NEW S \in SUBSET Nat, 0 \in S, \A n \in S : n + 1 \in S
    PROVE  S = Nat
<1> SUFFICES ASSUME NEW B, B = Nat \ S, B # {} PROVE FALSE
  OBVIOUS
<1>1. PICK x \in B : \A y \in B : ~ (<<y, x>> \in OpToRel(<, Nat))
  <2>1. B \in SUBSET Nat
    OBVIOUS
  <2> QED BY <2>1, NatLessThanWellFounded, WFMin
<1>2. x \in Nat /\ x # 0 /\ x - 1 \in Nat /\ x - 1 < x /\ (x - 1) + 1 = x
  OBVIOUS
<1>3. x - 1 \in B
  BY <1>2
<1>4. <<x - 1, x>> \in Nat \X Nat
  BY <1>2
<1>5. <<x - 1, x>> \in OpToRel(<, Nat)
  BY <1>2, <1>4 DEF OpToRel
<1> QED BY <1>1, <1>3, <1>5

(* Where the lengths can be added up at all, Ends does it. *)
LEMMA EndsAddUp ==
    ASSUME NEW msgs \in Seq(Message), NEW total, AddUp(total, msgs)
    PROVE  Ends(msgs)[Len(msgs)] = total
<1>1. PICK e : EndsOf(e, msgs) /\ e[Len(msgs)] = total
  BY DEF AddUp
<1> DEFINE k == Len(msgs)
           P(f) == f = [i \in 0..k |-> IF i = 0 THEN 0 ELSE f[i - 1] + msgs[i].left]
<1>2. k \in Nat
  OBVIOUS
<1>3. P(e)
  <2>1. \A i \in 0..k : e[i] = IF i = 0 THEN 0 ELSE e[i - 1] + msgs[i].left
    BY <1>1, <1>2 DEF EndsOf
  <2> QED BY <1>1, <2>1 DEF EndsOf
<1>4. Ends(msgs) = CHOOSE f : P(f)
  BY Zenon DEF Ends
<1> HIDE DEF P
<1>5. P(Ends(msgs))
  BY <1>3, <1>4
<1> DEFINE S == {n \in Nat : n <= k => Ends(msgs)[n] = e[n]}
<1>6. 0 \in S
  BY <1>1, <1>2, <1>5 DEF P, EndsOf
<1>7. ASSUME NEW n \in S PROVE n + 1 \in S
  <2> SUFFICES ASSUME n + 1 <= k PROVE Ends(msgs)[n + 1] = e[n + 1]
    OBVIOUS
  <2>1. n \in Nat /\ n <= k /\ n + 1 \in 1..k /\ n + 1 \in 0..k /\ (n + 1) - 1 = n /\ n + 1 # 0
    BY <1>2
  <2>2. Ends(msgs)[n + 1] = Ends(msgs)[n] + msgs[n + 1].left
    BY <1>5, <2>1 DEF P
  <2>3. e[n + 1] = e[n] + msgs[n + 1].left
    BY <1>1, <2>1 DEF EndsOf
  <2>4. Ends(msgs)[n] = e[n]
    BY <2>1
  <2> QED BY <2>2, <2>3, <2>4
<1> HIDE DEF S
<1>8. k \in S
  <2>1. S \in SUBSET Nat
    BY DEF S
  <2>2. S = Nat
    BY <1>6, <1>7, <2>1, AllNaturals
  <2> QED BY <1>2, <2>2
<1> QED BY <1>1, <1>2, <1>8 DEF S

(* The buffer begins where a message does and holds its bytes in order,    *)
(* after consumed packets, answers, an overflow and a new connection.      *)
THEOREM BufferBytesAccounted == BufferSpec => []BytesAccounted
<1>1. BufferTypeOK /\ BufferInv => BytesAccounted
  BY EndsAddUp DEF BufferTypeOK, BufferInv, BytesAddUp, BytesAccounted
<1> QED BY <1>1, BufferInvariant, PTL

(* handleResponse never returns with a whole message in the buffer, which  *)
(* poll would not wake the thread for.                                     *)
THEOREM BufferNothingLeftBehind == BufferSpec => []NothingLeftBehind
<1>1. BufferInv => NothingLeftBehind
  BY DEF BufferInv
<1> QED BY <1>1, BufferInvariant, PTL

(* handleResponse reports a complete response only for a request that was  *)
(* pending when it was called.                                             *)
THEOREM BufferCompleteIsAnswered == BufferSpec => []CompleteIsAnswered
<1>1. BufferInv => CompleteIsAnswered
  BY DEF BufferInv, AwaitedSinceCall, CompleteIsAnswered
<1> QED BY <1>1, BufferInvariant, PTL
=============================================================================
