------------------------------ MODULE RxBuffer ------------------------------
(***************************************************************************)
(* The receive buffer of the RTSP socket: handleResponse (rtsp.cpp) in TCP *)
(* data mode, where packets of the stream ('$', channel, length, payload)  *)
(* and RTSP answers arrive on one socket and recv cuts the bytes anywhere. *)
(*                                                                         *)
(* The stream is external: a queue of messages of which m_rx_data holds    *)
(* the first m_rx_data_pos bytes; unread bytes wait in the socket.  Of a   *)
(* message only its kind, the bytes still to be consumed and whether its   *)
(* beginning is still there are kept.  The end of an answer is its last    *)
(* four bytes (CRLF CRLF).                                                 *)
(***************************************************************************)
EXTENDS Integers, Sequences

CONSTANTS
    m_rx_data_len,    \* size of the buffer, 256*1024 in the code
    PacketLens,       \* lengths of interleaved packets, '$' header included
    AnswerLens,       \* lengths of answers, CRLF CRLF included
    MaxMessages       \* bound: messages on the way at the same time

(* An answer that overflows the buffer is not cut within its CRLF CRLF. *)
ASSUME BufferAssumption ==
    /\ m_rx_data_len \in Nat /\ m_rx_data_len > 5
    /\ PacketLens \subseteq 4..(m_rx_data_len - 1)
    /\ AnswerLens \subseteq {n \in Nat : n >= 4 /\ n % (m_rx_data_len - 1) \notin 1..3}
    /\ MaxMessages \in Nat \ {0}

Packet  == "packet"
Ok      == "200"
Refused == "refused"    \* not 200, or a SETUP answer without the ids
Message == [kind : {Packet, Ok, Refused}, left : Nat \ {0}, intact : BOOLEAN]

VARIABLES
    messages,                \* external: what the server sent and is not consumed
    unread,                  \* external: bytes of it recv has not returned
    m_rx_data_pos,           \* bytes in the buffer
    m_rtsp_request,          \* "NONE", or "SENT" while an answer is awaited
    m_timer_reset_connect,   \* whether it is active
    pc,                      \* "idle" outside handleResponse, else "again"
    res,                     \* its result so far; of the last call when idle
    awaited                  \* history: m_rtsp_request when the call began

serverVars == <<messages, unread>>
bufferVars == <<serverVars, m_rx_data_pos, m_rtsp_request, m_timer_reset_connect, pc, res, awaited>>

(* Positions, messages and results have their types. *)
BufferTypeOK ==
    /\ messages \in Seq(Message)
    /\ unread \in Nat
    /\ m_rx_data_pos \in Nat
    /\ m_rtsp_request \in {"NONE", "SENT"}
    /\ m_timer_reset_connect \in BOOLEAN
    /\ pc \in {"idle", "again"}
    /\ res \in {"RTSP_OK", "RTSP_RESPONSE_COMPLETE", "RTSP_ERROR"}
    /\ awaited \in {"NONE", "SENT"}

BufferInit ==
    /\ messages = <<>> /\ unread = 0
    /\ m_rx_data_pos = 0
    /\ m_rtsp_request = "NONE"
    /\ m_timer_reset_connect = FALSE
    /\ pc = "idle" /\ res = "RTSP_OK"
    /\ awaited = "NONE"

-----------------------------------------------------------------------------
(***************************************************************************)
(* The server, sendRequest and resetConnect                                *)
(***************************************************************************)

ServerSends(kind, lens) ==
    /\ Len(messages) < MaxMessages
    /\ \E n \in lens :
           /\ messages' = Append(messages, [kind |-> kind, left |-> n, intact |-> TRUE])
           /\ unread' = unread + n
    /\ UNCHANGED <<m_rx_data_pos, m_rtsp_request, m_timer_reset_connect, pc, res, awaited>>

SendPacket == ServerSends(Packet, PacketLens)
SendAnswer == ServerSends(Ok, AnswerLens) \/ ServerSends(Refused, AnswerLens)

SendRequest ==
    /\ pc = "idle"
    /\ m_rtsp_request = "NONE"
    /\ m_rtsp_request' = "SENT"
    /\ m_timer_reset_connect' = TRUE
    /\ UNCHANGED <<serverVars, m_rx_data_pos, pc, res, awaited>>

(* Mutant: the bytes of the lost connection stay in the buffer. *)
ResetConnect_KeepsBytes ==
    /\ messages' = <<>> /\ unread' = 0
    /\ m_rtsp_request' = "NONE"
    /\ m_timer_reset_connect' = FALSE
    /\ UNCHANGED m_rx_data_pos

(* The connection is closed and what was on it is gone. *)
ResetConnect ==
    /\ messages' = <<>> /\ unread' = 0
    /\ m_rx_data_pos' = 0
    /\ m_rtsp_request' = "NONE"
    /\ m_timer_reset_connect' = FALSE

TimeoutConnect ==
    /\ pc = "idle"
    /\ m_timer_reset_connect
    /\ ResetConnect
    /\ UNCHANGED <<pc, res, awaited>>

-----------------------------------------------------------------------------
(***************************************************************************)
(* handleResponse                                                          *)
(***************************************************************************)

(* Mutant: no room is kept for the terminating zero. *)
Room_NoZero == m_rx_data_len - m_rx_data_pos

Room == m_rx_data_len - m_rx_data_pos - 1

(* The buffer is full of one unfinished message: it is emptied, and the    *)
(* rest of the message will arrive without its beginning.                  *)
Overflow ==
    /\ pc = "idle" /\ unread > 0
    /\ Room = 0
    /\ messages' = [messages EXCEPT ![1].left = @ - m_rx_data_pos, ![1].intact = FALSE]
    /\ m_rx_data_pos' = 0
    /\ res' = "RTSP_ERROR"
    /\ awaited' = m_rtsp_request
    /\ UNCHANGED <<unread, m_rtsp_request, m_timer_reset_connect, pc>>

Recv ==
    /\ pc = "idle"
    /\ \E n \in 1..unread :
           /\ n <= Room
           /\ m_rx_data_pos' = m_rx_data_pos + n
           /\ unread' = unread - n
    /\ pc' = "again"
    /\ res' = "RTSP_ERROR"
    /\ awaited' = m_rtsp_request
    /\ UNCHANGED <<messages, m_rtsp_request, m_timer_reset_connect>>

ReturnWith(result) == pc' = "idle" /\ res' = result

Whole == messages # <<>> /\ messages[1].left <= m_rx_data_pos

(* The header or the body of the packet, or the end of the answer, is      *)
(* still to come.  After the last packet the buffer is empty, but its      *)
(* first byte is still the '$' of that packet.                             *)
Incomplete ==
    /\ pc = "again"
    /\ ~Whole
    /\ ReturnWith("RTSP_OK")
    /\ UNCHANGED <<serverVars, m_rx_data_pos, m_rtsp_request, m_timer_reset_connect, awaited>>

(* The message is moved out of the buffer.  Its length is taken as given:  *)
(* how the code reads it from a packet's header, or finds the end of an    *)
(* answer, is not modelled.                                                *)
ConsumeMessage ==
    /\ messages' = Tail(messages)
    /\ m_rx_data_pos' = m_rx_data_pos - messages[1].left

(* rtpTcpData always returns 0; the loop goes on with what follows. *)
HandlePacket ==
    /\ pc = "again"
    /\ Whole /\ messages[1].kind = Packet
    /\ ConsumeMessage
    /\ m_timer_reset_connect' = TRUE
    /\ UNCHANGED <<unread, m_rtsp_request, pc, res, awaited>>

(* Mutant: an answer nobody awaits is skipped quietly. *)
ResultOf_SkipIsComplete(m) ==
    IF m.kind = Ok /\ m.intact THEN "RTSP_RESPONSE_COMPLETE" ELSE "RTSP_ERROR"

(* Without "RTSP/x 200" at the beginning the answer is a refusal.  An      *)
(* answer nobody awaits leaves the result as it is.                        *)
ResultOf(m) ==
    IF m.kind = Refused \/ ~m.intact THEN "RTSP_ERROR"
    ELSE IF m_rtsp_request = "NONE"  THEN res
    ELSE "RTSP_RESPONSE_COMPLETE"

AnswerError ==
    /\ pc = "again"
    /\ Whole /\ messages[1].kind # Packet
    /\ ResultOf(messages[1]) = "RTSP_ERROR"
    /\ ResetConnect
    /\ ReturnWith("RTSP_ERROR")
    /\ UNCHANGED awaited

(* Mutant: one answer per call. *)
AnswerOk_NoAgain ==
    /\ pc = "again"
    /\ Whole /\ messages[1].kind # Packet
    /\ ResultOf(messages[1]) = "RTSP_RESPONSE_COMPLETE"
    /\ ConsumeMessage
    /\ m_rtsp_request' = "NONE"
    /\ m_timer_reset_connect' = FALSE
    /\ ReturnWith("RTSP_RESPONSE_COMPLETE")
    /\ UNCHANGED <<unread, awaited>>

(* Mutant: the request stays pending. *)
AnswerOk_KeepsRequest ==
    /\ pc = "again"
    /\ Whole /\ messages[1].kind # Packet
    /\ ResultOf(messages[1]) = "RTSP_RESPONSE_COMPLETE"
    /\ ConsumeMessage
    /\ m_timer_reset_connect' = FALSE
    /\ res' = "RTSP_RESPONSE_COMPLETE"
    /\ pc' = IF m_rx_data_pos' > 0 THEN "again" ELSE "idle"
    /\ UNCHANGED <<unread, m_rtsp_request, awaited>>

(* Bytes behind the answer are looked at in the same call. *)
AnswerOk ==
    /\ pc = "again"
    /\ Whole /\ messages[1].kind # Packet
    /\ ResultOf(messages[1]) = "RTSP_RESPONSE_COMPLETE"
    /\ ConsumeMessage
    /\ m_rtsp_request' = "NONE"
    /\ m_timer_reset_connect' = FALSE
    /\ res' = "RTSP_RESPONSE_COMPLETE"
    /\ pc' = IF m_rx_data_pos' > 0 THEN "again" ELSE "idle"
    /\ UNCHANGED <<unread, awaited>>

HandleResponse ==
    Overflow \/ Recv \/ Incomplete \/ HandlePacket \/ AnswerError \/ AnswerOk

BufferNext == SendPacket \/ SendAnswer \/ SendRequest \/ TimeoutConnect \/ HandleResponse

BufferSpec == BufferInit /\ [][BufferNext]_bufferVars

(* poll is level triggered, so a session thread that runs reads whatever   *)
(* is there, and a call that has begun returns.                            *)
LiveSpec == BufferSpec /\ WF_bufferVars(HandleResponse)

-----------------------------------------------------------------------------
(* Room for the zero that ends the text is left whatever recv returned:    *)
(* m_rx_data[m_rx_data_pos] is inside the buffer.                          *)
InBuffer == m_rx_data_pos < m_rx_data_len

(* No byte is lost or taken twice: buffer and socket together hold exactly *)
(* the unconsumed bytes of the messages, so the buffer begins where the    *)
(* first of them does.                                                     *)
Ends(msgs) ==
    LET ends[i \in 0..Len(msgs)] == IF i = 0 THEN 0 ELSE ends[i - 1] + msgs[i].left
    IN  ends
BytesAccounted == m_rx_data_pos + unread = Ends(messages)[Len(messages)]

(* When handleResponse returns no whole message is left in the buffer: the *)
(* next one is waited for by poll, which knows nothing of the buffer.      *)
NothingLeftBehind == pc = "idle" => ~Whole

(* A call that reports a complete response has consumed the answer of the  *)
(* request that was pending when it began.                                 *)
CompleteIsAnswered ==
    (pc = "idle" /\ res = "RTSP_RESPONSE_COMPLETE") => awaited = "SENT"

(* A pending request whose answer has been sent is done with, by the       *)
(* answer or by a new connection, whatever the answer is wrapped in.       *)
AnswerReachesRequest ==
    (m_rtsp_request = "SENT" /\ \E i \in 1..Len(messages) : messages[i].kind # Packet)
        ~> m_rtsp_request = "NONE"
=============================================================================
