----------------------------- MODULE MCPacketIO -----------------------------
(* receive_packet on every stream of up to MaxStream bytes over an alphabet  *)
(* in which frames with right and wrong checksums, escapes, breaks and       *)
(* truncated packets occur.                                                  *)
EXTENDS PacketWire, TLC

CONSTANT MaxStream

\* '$', '#', '}', 0x03, '0', '6', 'A' and a byte whose escaped sum is 10: the
\* frames "$#00", "$00#60" and "$}.#0A" are among the streams.
MCArrivals == {<<b>> : b \in {36, 35, 125, 3, 48, 54, 65, 141}}
MCPayloads == {<<125, 35, 97>>, <<>>, <<97, 97, 97, 97>>}

\* One call: receive_packet on a stream that is complete when it starts, or
\* send_packet while nothing arrives.
Stream == /\ outcome = "none" /\ pc = "idle" /\ Len(rx) < MaxStream
          /\ PeerSends
          /\ UNCHANGED wire

Call   == /\ outcome = "none"
          /\ \/ Receive
             \/ /\ rx = <<>>
                /\ \E p \in Payloads : send_packet(p)
                /\ UNCHANGED wire

MCOther == /\ \/ RecvData \/ Sending
              \/ rx = <<>> /\ RecvTimeout(0)
              \/ \E n \in 0..WriteBufferSize : Transmit(n) \/ SendTimeout(n)
           /\ UNCHANGED wire

MCNext == Stream \/ Call \/ Decode \/ MCOther

MCSpec == WireInit /\ [][MCNext]_<<ioVars, wire>>
=============================================================================
