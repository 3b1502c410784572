---------------------------- MODULE PacketIOOpen ----------------------------
(* PacketIO with nothing assumed of its surroundings: the peer sends any     *)
(* bytes at any time, the caller receives and sends at will, every timer may *)
(* fire and every send may be cut short.                                     *)
EXTENDS PacketIO

CONSTANTS Arrivals,   \* what the peer may put on the stream at once
          Payloads    \* what the caller may send

ASSUME PacketIOOpenAssumption ==
    /\ Arrivals \subseteq Seq(Byte)
    /\ Payloads \subseteq Seq(Byte)

PeerSends == /\ \E bytes \in Arrivals : rx' = rx \o bytes
             /\ UNCHANGED <<tx, read_buf, pc, outcome, checksum, decoder, encoder>>

PeerReads == /\ tx # <<>>
             /\ tx' = Tail(tx)
             /\ UNCHANGED <<rx, read_buf, pc, outcome, checksum, decoder, encoder>>

Calls == receive_packet \/ set_no_ack \/ \E p \in Payloads : send_packet(p)

IOStep == \/ RecvData \/ Receiving \/ Sending
          \/ \E n \in 0..TransportBufferSize : RecvTimeout(n)
          \/ \E n \in 0..WriteBufferSize : Transmit(n) \/ SendTimeout(n)

OpenNext == PeerSends \/ PeerReads \/ Calls \/ IOStep

OpenSpec == IOInit /\ [][OpenNext]_ioVars
=============================================================================
