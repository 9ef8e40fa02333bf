-------------------------- MODULE SectionAssembler --------------------------
(***************************************************************************)
(* How sections come out of TS packets: processTS, feed and the head of    *)
(* handleSection (psi.cpp), for one watched pid.  Packets can be lost,     *)
(* unusable or overtaken by a reset; a packet without a payload start is   *)
(* just more bytes, so that the assembler can glue bytes of two sections.  *)
(*                                                                         *)
(* A byte of the stream is <<s, i>>, the i-th byte of section s (counted   *)
(* from 0), or Stuffing (0xff).  Of the bytes an assembler holds only one  *)
(* thing matters: whether they are the first bytes of one section.  The    *)
(* crc is right exactly for the bytes of one whole section (external).     *)
(***************************************************************************)
EXTENDS Integers, Sequences

CONSTANTS
    Sections,             \* the sections on this pid
    SectionLen,           \* length of every section, header and crc included
    Packets,              \* the stream, repeated for ever: [start, tail, body]
    MIN_SECTION_LEN,      \* 3 + 9 in the code
    PSI_MAX_SECTION_LEN   \* 4096 in the code

Stuffing  == <<"ff", 0>>
Mixed     == "mixed"
None      == "none"
HeaderLen == 3
TsBytes   == (Sections \X Nat) \cup {Stuffing}

ASSUME AssemblerAssumption ==
    /\ MIN_SECTION_LEN \in Nat /\ MIN_SECTION_LEN > HeaderLen
    /\ PSI_MAX_SECTION_LEN \in Nat /\ PSI_MAX_SECTION_LEN >= MIN_SECTION_LEN
    /\ SectionLen \in [Sections -> MIN_SECTION_LEN..PSI_MAX_SECTION_LEN]
    /\ Sections \cap {"ff", Mixed, None} = {}
    /\ Packets \in Seq([start : BOOLEAN, tail : Seq(TsBytes), body : Seq(TsBytes)])
    /\ Packets # <<>>

VARIABLES
    position,  \* external: the packet the server sends next
    calls,     \* calls of feed still to be made for this packet: [buf, allow_start]
    owner,     \* the section whose first bytes the assembler holds, or Mixed
    len,       \* number of bytes it holds
    expected,  \* total size of the section, 0 while the header is collected
    handled,   \* the section the last step handed on, or None
    unbroken,  \* history: the section received without a gap since it was begun, or None
    completed  \* history: the section whose last byte the last step consumed, or None

assemblerVars == <<owner, len, expected>>
historyVars   == <<unbroken, completed>>
vars == <<position, calls, assemblerVars, handled, historyVars>>

(* Indices, lengths and section names have their types. *)
AssemblerTypeOK ==
    /\ position \in 1..Len(Packets)
    /\ calls \in Seq([buf : Seq(TsBytes), allow_start : BOOLEAN])
    /\ owner \in Sections \cup {Mixed}
    /\ len \in Nat
    /\ expected \in Nat
    /\ handled \in Sections \cup {None}
    /\ unbroken \in Sections \cup {None}
    /\ completed \in Sections \cup {None}

AssemblerInit ==
    /\ position \in 1..Len(Packets)
    /\ calls = <<>>
    /\ owner = Mixed /\ len = 0 /\ expected = 0
    /\ handled = None
    /\ unbroken = None /\ completed = None

-----------------------------------------------------------------------------
(***************************************************************************)
(* processTS                                                               *)
(***************************************************************************)

NextPosition == (position % Len(Packets)) + 1

(* With a payload start the bytes before it belong to the section before.  *)
FeedCalls(p) ==
    (IF p.start /\ p.tail # <<>> THEN <<[buf |-> p.tail, allow_start |-> FALSE]>> ELSE <<>>)
    \o <<[buf |-> p.body, allow_start |-> p.start]>>

ReceivePacket ==
    /\ calls = <<>>
    /\ calls' = FeedCalls(Packets[position])
    /\ position' = NextPosition
    /\ handled' = None /\ completed' = None
    /\ UNCHANGED <<assemblerVars, unbroken>>

(* Lost, scrambled, not aligned, without payload, or with a pointer field  *)
(* or an adaptation field that points outside.                             *)
LosePacket ==
    /\ calls = <<>>
    /\ position' = NextPosition
    /\ unbroken' = None
    /\ handled' = None /\ completed' = None
    /\ UNCHANGED <<calls, assemblerVars>>

(* reset, or recompute no longer watches the pid: m_assembler is erased.   *)
ForgetPid ==
    /\ calls = <<>>
    /\ owner' = Mixed /\ len' = 0 /\ expected' = 0
    /\ unbroken' = None
    /\ handled' = None /\ completed' = None
    /\ UNCHANGED <<position, calls>>

-----------------------------------------------------------------------------
(***************************************************************************)
(* feed: one action per turn of its loop                                   *)
(***************************************************************************)

Call  == Head(calls)
Taken(n) == SubSeq(Call.buf, 1, n)

(* The loop goes on with the rest, or feed returns when nothing is left.   *)
Consume(n) ==
    calls' = IF n = Len(Call.buf)
             THEN Tail(calls)
             ELSE <<[Call EXCEPT !.buf = SubSeq(@, n + 1, Len(@))]>> \o Tail(calls)

Return == calls' = Tail(calls)

(* Do the bytes continue the first `have` bytes of section s? *)
Continue(bytes, s, have) ==
    \A i \in 1..Len(bytes) : bytes[i] = <<s, have + i - 1>>

(* Whose first bytes the assembler holds after these were appended. *)
OwnerAfter(bytes) ==
    IF len = 0
    THEN IF \E s \in Sections : Continue(bytes, s, 0)
         THEN CHOOSE s \in Sections : Continue(bytes, s, 0) ELSE Mixed
    ELSE IF owner # Mixed /\ Continue(bytes, owner, len) THEN owner ELSE Mixed

(* History.  A section counts as unbroken from a first byte at which the   *)
(* assembler is free, as long as its bytes follow each other.              *)
Follow(bytes) ==
    LET s == IF len = 0
             THEN IF bytes[1] # Stuffing /\ bytes[1][2] = 0 THEN bytes[1][1] ELSE None
             ELSE unbroken
        holds == /\ s # None /\ Continue(bytes, s, len)
        done == holds /\ len + Len(bytes) = SectionLen[s]
    IN  /\ completed' = IF done THEN s ELSE None
        /\ unbroken' = IF holds /\ ~done THEN s ELSE None

(* Without a pointer field the start cannot be found; 0xff is stuffing.    *)
CannotStart == len = 0 /\ (~Call.allow_start \/ Call.buf[1] = Stuffing)

FeedReturn ==
    /\ calls # <<>>
    /\ \/ Call.buf = <<>>
       \/ expected = 0 /\ Call.buf # <<>> /\ CannotStart
    /\ Return
    /\ handled' = None /\ completed' = None
    /\ UNCHANGED <<position, assemblerVars, unbroken>>

(* section_length of a header glued from two sections can be anything.     *)
HeaderLengths(s) ==
    IF s = Mixed THEN 0..PSI_MAX_SECTION_LEN + 1 ELSE {SectionLen[s]}

(* Mutant: the upper limit is forgotten. *)
Bogus_NoLimit(n) == n < MIN_SECTION_LEN

Bogus(n) == n < MIN_SECTION_LEN \/ n > PSI_MAX_SECTION_LEN

FeedHeader ==
    /\ calls # <<>>
    /\ expected = 0 /\ Call.buf # <<>> /\ ~CannotStart
    /\ Follow(Taken(1))
    /\ handled' = None
    /\ owner' = OwnerAfter(Taken(1))
    /\ IF len + 1 < HeaderLen
       THEN len' = len + 1 /\ expected' = 0 /\ Consume(1)
       ELSE \E n \in HeaderLengths(owner') :
                IF Bogus(n)
                THEN len' = 0 /\ expected' = 0 /\ Return
                ELSE len' = len + 1 /\ expected' = n /\ Consume(1)
    /\ UNCHANGED position

Take == IF Len(Call.buf) < expected - len THEN Len(Call.buf) ELSE expected - len

(* Mutant: a section that fills the buffer is taken for a broken one. *)
HandleSection_NotFull ==
    IF owner' # Mixed /\ expected = SectionLen[owner'] /\ expected < PSI_MAX_SECTION_LEN
    THEN owner' ELSE None

(* handleSection hands a section with a right crc to the parser of its     *)
(* table; anything else is dropped.                                        *)
HandleSection ==
    IF owner' # Mixed /\ expected = SectionLen[owner'] THEN owner' ELSE None

FeedCopy ==
    /\ calls # <<>>
    /\ expected # 0 /\ Call.buf # <<>>
    /\ Follow(Taken(Take))
    /\ owner' = OwnerAfter(Taken(Take))
    /\ IF len + Take = expected
       THEN /\ handled' = HandleSection
            /\ len' = 0 /\ expected' = 0
       ELSE /\ handled' = None
            /\ len' = len + Take
            /\ UNCHANGED expected
    /\ Consume(Take)
    /\ UNCHANGED position

AssemblerNext ==
    \/ ReceivePacket
    \/ LosePacket
    \/ ForgetPid
    \/ FeedReturn
    \/ FeedHeader
    \/ FeedCopy

AssemblerSpec == AssemblerInit /\ [][AssemblerNext]_vars

-----------------------------------------------------------------------------
(***************************************************************************)
(* Properties                                                              *)
(***************************************************************************)

(* The buffer of PSI_MAX_SECTION_LEN bytes is never overrun and a header   *)
(* never has more than its three bytes, whatever lengths glued headers     *)
(* announce.                                                               *)
BufferBounds ==
    /\ expected <= PSI_MAX_SECTION_LEN
    /\ expected = 0 => len < HeaderLen
    /\ expected # 0 => HeaderLen <= len /\ len < expected

(* Against the reference: a section whose bytes arrive without a gap, from *)
(* a start at which the assembler is free, is handed on with its last      *)
(* byte, wherever the packets are cut: in the header, before the crc, with *)
(* another section in front of it or behind it.                            *)
UnbrokenHandled == completed # None => handled = completed
=============================================================================
