----------------------------- MODULE PacketWire -----------------------------
(* PacketIO in any surroundings, with a history variable: `wire` remembers   *)
(* the bytes that the latest receive_packet has looked at, whatever it made  *)
(* of them.                                                                  *)
EXTENDS PacketIOOpen, Framing

VARIABLE wire

WireInit == IOInit /\ wire = <<>>

Decode == Receiving /\ wire' = Append(wire, Head(read_buf))

Receive == receive_packet /\ wire' = <<>>

Other == /\ \/ PeerSends \/ PeerReads
            \/ set_no_ack \/ \E p \in Payloads : send_packet(p)
            \/ RecvData \/ Sending
            \/ \E n \in 0..TransportBufferSize : RecvTimeout(n)
            \/ \E n \in 0..WriteBufferSize : Transmit(n) \/ SendTimeout(n)
         /\ UNCHANGED wire

WireNext == Decode \/ Receive \/ Other

WireSpec == WireInit /\ [][WireNext]_<<ioVars, wire>>

(* A packet is delivered only if the bytes the call has looked at end in a   *)
(* packet with a matching checksum that stands for exactly the payload that  *)
(* is delivered, whatever noise, broken frames, rejected packets or timeouts *)
(* came before it.                                                           *)
DeliveredIsFramed ==
    outcome = "packet" /\ ~no_ack => EndsInFrame(wire, recv_buf)
=============================================================================
