------------------------ MODULE MCSectionAssembler ------------------------
(***************************************************************************)
(* Six payload bytes per packet.  Sections a, b and c end with a packet,   *)
(* with the next packet's pointer field and with stuffing, share a packet, *)
(* and are cut inside the header and inside the body.                      *)
(***************************************************************************)
EXTENDS SectionAssembler

MCSections   == {"a", "b", "c"}
MCSectionLen == [s \in MCSections |-> CASE s = "a" -> 5 [] s = "b" -> 9 [] s = "c" -> 4]

Bytes(s, from, to) == [i \in 1..(to - from + 1) |-> <<s, from + i - 1>>]
Stuff(n)           == [i \in 1..n |-> Stuffing]
Start(tail, body)  == [start |-> TRUE, tail |-> tail, body |-> body]
More(body)         == [start |-> FALSE, tail |-> <<>>, body |-> body]

MCPackets == <<Start(<<>>, Bytes("a", 0, 4)),
               Start(<<>>, Bytes("b", 0, 4)),
               Start(Bytes("b", 5, 8), Bytes("c", 0, 0)),
               More(Bytes("c", 1, 3) \o Stuff(3)),
               Start(<<>>, Bytes("c", 0, 3) \o Bytes("a", 0, 0)),
               Start(Bytes("a", 1, 4), Bytes("b", 0, 0)),
               More(Bytes("b", 1, 6)),
               Start(Bytes("b", 7, 8), Stuff(3))>>
=============================================================================
