---------------------------- MODULE MCPacketLink ----------------------------
(* Payloads that exercise the framing: a plain byte, a byte each side must   *)
(* escape ('#', which is 0x03 on the wire), an escape, and '+' and '-',      *)
(* which also occur as acknowledgements; a request that need not be          *)
(* answered, and one longer than the packet buffer.                          *)
EXTENDS PacketLink, TLC

Plain   == <<97>>
Signs   == <<ack, ack_err>>
Escaped == <<escape, packet_end>>
Mixed   == <<ack, packet_end>>
Cont    == <<99>>
Long    == <<97, 98, 99, 100>>
MCStop  == <<83, 53>>

\* The response is told from the request: its bytes, the other way round.
MCRespond(r) == Reverse(r) \o <<rle>>

MCRequests     == {Plain, Signs, Escaped}
MCContRequests == {Signs, Mixed, Cont, Long}
MCCont         == {Cont}
=============================================================================
