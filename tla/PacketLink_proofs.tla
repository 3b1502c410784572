------------------------- MODULE PacketLink_proofs --------------------------
(* What PacketIO and the peer make of each other, for any requests,          *)
(* responses, buffer sizes and faults, and that the link they make is an     *)
(* implementation of RequestReply.  (The bytes that PacketIOOpen sends, and  *)
(* the history of PacketWire, play no part here.)                            *)
EXTENDS PacketLink, PacketIO_proofs

\* A response can be sent for whatever was received.
RespondType == \A r \in Seq(Byte) : Respond(r) \in Seq(Byte)

PeerTypes ==
    /\ peer \in {"ready", "unacked", "waiting", "running"}
    /\ asked \in Seq(Requests)
    /\ answered \in Seq(Seq(Byte)) /\ breaks \in Nat
    /\ faults \in Seq(FaultKinds)
    /\ peer # "ready" => asked # <<>>
    /\ peer = "running" \/ breaks > 0 => Silent # {}
    /\ breaks <= MaxBreaks

CallTypes ==
    /\ server \in {"idle", "receiving", "sending", "exited"}
    /\ response \in Seq(Byte) /\ executed \in Seq(Seq(Byte))
    /\ seen_breaks \in Nat

\* What the server waits for is what PacketIO is doing.
CallInv ==
    /\ server \in {"idle", "exited"} => pc = "idle"
    /\ server = "receiving" =>
          /\ pc \in {"idle", "await", "decode"}
          /\ pc = "idle" => outcome \in {"packet", "break", "timed_out",
                                         "buffer_too_small"}
    /\ server = "sending" =>
          /\ pc \in {"idle", "encode", "transmit", "ack"}
          /\ pc = "idle" => outcome \in {"sent", "timed_out",
                                         "buffer_too_small", "runtime_error"}
    /\ pc # "idle" => outcome = "none"
    /\ pc = "decode" /\ state = "initial" => recv_buf = <<>> /\ checksum = 0
    /\ no_ack => TRUE \in Modes

\* What write_buf holds while a response is encoded, and when it is complete.
Encoding ==
    \E done, body \in Seq(Byte) :
        /\ IsBody(body, done) /\ response = done \o send_buf
        /\ write_buf = <<packet_begin>> \o body /\ checksum = Sum(body)

EncodeInv == /\ pc = "encode" => Encoding
             /\ WireFrames

LinkTypes == IOInv /\ PeerTypes /\ CallTypes /\ CallInv

-----------------------------------------------------------------------------
(* Types.                                                                    *)

LEMMA AppendType ==
    ASSUME NEW S, NEW s \in Seq(S), NEW x \in S
    PROVE  Append(s, x) \in Seq(S) /\ Append(s, x) # <<>>
BY AppendProperties

LEMMA FaultType ==
    ASSUME faults \in Seq(FaultKinds), NEW kind, Fault(kind)
    PROVE  faults' \in Seq(FaultKinds)
BY AppendType DEF Fault

LEMMA FrameTypes ==
    ASSUME NEW r \in Seq(Byte)
    PROVE  GoodFrame(r) \in Seq(Byte) /\ BadFrame(r) \in Seq(Byte)
<1> DEFINE b == RequestBytes(r)
           bad == (Sum(b) + 1) % 256
<1>1. b \in Seq(Byte)
  BY RequestFacts
<1>2. Sum(b) \in Byte /\ 1 \in Byte
  <2>1. 1 \in Byte
    BY DEF Byte
  <2> HIDE DEF b
  <2>2. Sum(b) \in Byte
    BY ONLY <1>1, SumFacts
  <2> QED BY ONLY <2>1, <2>2
<1>3. bad \in Byte
  <2> DEFINE sum == Sum(b)
  <2> HIDE DEF b, sum
  <2>1. sum \in Byte /\ 1 \in Byte
    BY <1>2 DEF sum
  <2>2. (sum + 1) % 256 \in Byte
    BY ONLY <2>1, SumIsByte
  <2> QED BY ONLY <2>2 DEF sum
<1> HIDE DEF b, bad
<1>4. ASSUME NEW s \in Byte PROVE Framed(b, s) \in Seq(Byte)
  <2> DEFINE head == <<packet_begin>>
             tail == Trailer(s)
  <2>1. head \in Seq(Byte) /\ tail \in Seq(Byte)
    BY ControlsAreBytes, TrailerType
  <2> HIDE DEF head, tail
  <2>2. (head \o b) \o tail \in Seq(Byte)
    BY <1>1, <2>1, TextConcat
  <2> QED BY <2>2 DEF Framed, head, tail
<1>5. Framed(b, Sum(b)) \in Seq(Byte) /\ Framed(b, bad) \in Seq(Byte)
  BY <1>2, <1>3, <1>4
<1> QED BY <1>5 DEF GoodFrame, BadFrame, b, bad

LEMMA LastAsked ==
    ASSUME PeerTypes, asked # <<>>
    PROVE  /\ Last(asked) = asked[Len(asked)] /\ Last(asked) \in Requests
           /\ Last(asked) \in Seq(Byte) /\ Len(asked) \in Nat \ {0}
<1>1. asked \in Seq(Requests) /\ Requests \subseteq Seq(Byte)
  BY PacketLinkAssumption DEF PeerTypes
<1> QED BY <1>1 DEF Last

\* The peer only writes to the one stream and reads from the other.
LEMMA PeerIOInv ==
    ASSUME IOInv, rx' \in Seq(Byte), tx' \in Seq(Byte),
           UNCHANGED <<read_buf, pc, outcome, checksum, decoder, encoder>>
    PROVE  IOInv'
BY DEF IOInv, TypeOK, ResponseFits, decoder, encoder

LEMMA InitLink == Init => LinkTypes /\ EncodeInv
<1> SUFFICES ASSUME Init PROVE LinkTypes /\ EncodeInv
  OBVIOUS
<1>1. IOInv
  BY InitInv DEF Init
<1>2. /\ \A S : <<>> \in Seq(S)
      /\ 0 \in Nat /\ 0 <= MaxBreaks
  BY PacketLinkAssumption
<1>3. PeerTypes /\ CallTypes
  BY <1>2 DEF Init, PeerTypes, CallTypes
<1>4. CallInv /\ EncodeInv
  BY DEF Init, IOInit, CallInv, EncodeInv, WireFrames
<1> QED BY <1>1, <1>3, <1>4 DEF LinkTypes

-----------------------------------------------------------------------------
(* The peer's steps.                                                         *)

LEMMA PutRequestTypes ==
    ASSUME LinkTypes, NEW r \in Requests, PutRequest(r)
    PROVE  rx' \in Seq(Byte) /\ faults' \in Seq(FaultKinds)
<1>1. /\ rx \in Seq(Byte) /\ r \in Seq(Byte) /\ faults \in Seq(FaultKinds)
  BY PacketLinkAssumption DEF LinkTypes, IOInv, TypeOK, PeerTypes
<1>2. GoodFrame(r) \in Seq(Byte) /\ BadFrame(r) \in Seq(Byte)
  BY <1>1, FrameTypes
<1>3. rx' \in Seq(Byte)
  BY <1>1, <1>2, TextConcat DEF PutRequest
<1> QED BY <1>1, <1>3, FaultType DEF PutRequest

\* What the bytes of a response say to the peer.
LEMMA UnescapedType ==
    ASSUME NEW s \in Seq(Byte) PROVE Unescaped(s) \in Seq(Byte)
BY DecodingFacts DEF Unescaped, Texts

LEMMA FrameLengthsType ==
    ASSUME NEW s, NEW n \in FrameLengths(s)
    PROVE  n \in 4..Len(s)
BY DEF FrameLengths

LEMMA PeerTypesStep ==
    ASSUME LinkTypes, Peer
    PROVE  IOInv' /\ PeerTypes'
<1>1. /\ rx \in Seq(Byte) /\ tx \in Seq(Byte) /\ PeerTypes
  BY DEF LinkTypes, IOInv, TypeOK
<1>2. UNCHANGED <<read_buf, pc, outcome, checksum, decoder, encoder>>
  BY DEF Peer, PeerAsk, PeerAcked, PeerRepeats, PeerResends, PeerSkips,
         PeerReply, PeerBreak, IOElse
<1>3. tx # <<>> => Tail(tx) \in Seq(Byte)
  BY <1>1
<1>4. CASE PeerAsk
  <2>1. PICK r \in Requests : /\ asked' = Append(asked, r) /\ PutRequest(r)
                              /\ peer' = IF no_ack THEN AfterRequest(r)
                                         ELSE "unacked"
    BY <1>4 DEF PeerAsk
  <2>2. rx' \in Seq(Byte) /\ faults' \in Seq(FaultKinds)
    BY <2>1, PutRequestTypes
  <2>3. asked' \in Seq(Requests) /\ asked' # <<>>
    BY <1>1, <2>1, AppendType DEF PeerTypes
  <2>4. IOInv'
    BY <1>1, <1>2, <1>4, <2>2, PeerIOInv DEF PeerAsk, LinkTypes
  <2> QED BY <1>1, <1>4, <2>1, <2>2, <2>3, <2>4
          DEF PeerAsk, PeerTypes, AfterRequest
<1>5. CASE PeerAcked
  <2>1. IOInv'
    BY <1>1, <1>2, <1>3, <1>5, PeerIOInv DEF PeerAcked, LinkTypes
  <2> QED BY <1>1, <1>5, <2>1 DEF PeerAcked, PeerTypes, AfterRequest
<1>6. CASE PeerRepeats
  <2>1. Last(asked) \in Requests
    BY <1>1, <1>6, LastAsked DEF PeerRepeats, PeerTypes
  <2>2. rx' \in Seq(Byte) /\ faults' \in Seq(FaultKinds)
    BY <1>6, <2>1, PutRequestTypes DEF PeerRepeats
  <2>3. IOInv'
    BY <1>1, <1>2, <1>3, <1>6, <2>2, PeerIOInv DEF PeerRepeats, LinkTypes
  <2> QED BY <1>1, <1>6, <2>2, <2>3 DEF PeerRepeats, PeerTypes, peerVars
<1>7. CASE PeerResends
  <2>1. Last(asked) \in Seq(Byte)
    BY <1>1, <1>7, LastAsked DEF PeerResends, PeerTypes
  <2>2. GoodFrame(Last(asked)) \in Seq(Byte)
    BY <2>1, FrameTypes
  <2>3. rx' \in Seq(Byte)
    BY <1>1, <1>7, <2>2, TextConcat DEF PeerResends
  <2>4. faults' \in Seq(FaultKinds)
    BY <1>1, <1>7, FaultType DEF PeerResends, PeerTypes
  <2>5. IOInv'
    BY <1>1, <1>2, <1>7, <2>3, PeerIOInv DEF PeerResends, LinkTypes
  <2> QED BY <1>1, <1>7, <2>4, <2>5 DEF PeerResends, PeerTypes, peerVars
<1>8. CASE PeerSkips
  <2>1. IOInv'
    BY <1>1, <1>2, <1>3, <1>8, PeerIOInv DEF PeerSkips, LinkTypes
  <2> QED BY <1>1, <1>8, <2>1 DEF PeerSkips, PeerTypes, peerVars
<1>9. CASE PeerReply
  <2>1. PICK n \in FrameLengths(tx) : /\ Accepts(n) \/ Rejects
                                      /\ tx' = SubSeq(tx, n + 1, Len(tx))
    BY <1>9 DEF PeerReply
  <2>2. n \in 0..Len(tx) /\ n - 3 \in 1..Len(tx) /\ Len(tx) \in Nat
    BY <1>1, <2>1, FrameLengthsType
  <2>3. tx' \in Seq(Byte) /\ SubSeq(tx, 2, n - 3) \in Seq(Byte)
    BY <1>1, <2>1, <2>2, PrefixType
  <2>4. rx' \in Seq(Byte)
    <3>1. /\ rx' \in {rx, Append(rx, ack), Append(rx, ack_err)}
          /\ ack \in Byte /\ ack_err \in Byte
      BY <2>1, ControlsAreBytes DEF Accepts, Rejects
    <3> QED BY <1>1, <3>1, AppendType
  <2> DEFINE payload == Unescaped(SubSeq(tx, 2, n - 3))
  <2>5. answered' \in Seq(Seq(Byte)) /\ peer' \in {"ready", peer}
    <3>1. payload \in Seq(Byte)
      BY <2>3, UnescapedType
    <3>2. /\ answered' \in {answered, Append(answered, payload)}
          /\ peer' \in {"ready", peer}
      BY <2>1 DEF Accepts, Rejects
    <3>3. answered \in Seq(Seq(Byte))
      BY <1>1 DEF PeerTypes
    <3> HIDE DEF payload
    <3> QED BY <3>1, <3>2, <3>3, AppendType
  <2>6. faults' \in Seq(FaultKinds)
    BY <1>1, <2>1, FaultType DEF Accepts, Rejects, PeerTypes
  <2>7. IOInv'
    BY <1>1, <1>2, <2>3, <2>4, PeerIOInv DEF LinkTypes
  <2> QED BY <1>1, <1>9, <2>5, <2>6, <2>7 DEF PeerReply, PeerTypes
<1>10. CASE PeerBreak
  <2>1. rx' \in Seq(Byte)
    BY <1>1, <1>10, ControlsAreBytes DEF PeerBreak
  <2>2. IOInv'
    BY <1>1, <1>2, <1>10, <2>1, PeerIOInv DEF PeerBreak, LinkTypes
  <2>3. breaks' \in Nat /\ breaks' <= MaxBreaks
    BY <1>1, <1>10, PacketLinkAssumption DEF PeerBreak, PeerTypes
  <2> QED BY <1>1, <1>10, <2>2, <2>3 DEF PeerBreak, PeerTypes
<1> QED BY <1>4, <1>5, <1>6, <1>7, <1>8, <1>9, <1>10 DEF Peer

-----------------------------------------------------------------------------
(* The server's calls, and the steps of PacketIO.                            *)

LEMMA ServerTypes ==
    ASSUME RespondType, LinkTypes, Server
    PROVE  IOInv' /\ CallTypes'
<1>1. recv_buf \in Seq(Byte) /\ CallTypes /\ IOInv
  BY DEF LinkTypes, IOInv, TypeOK
<1>2. Respond(recv_buf) \in Seq(Byte) /\ StopReply \in Seq(Byte)
  BY <1>1, PacketLinkAssumption DEF RespondType
<1>3. UNCHANGED ioVars => IOInv'
  BY <1>1, StepInv
<1>4. CASE ServerNoAck
  BY <1>1, <1>4, SetNoAckInv DEF ServerNoAck, Call, CallTypes
<1>5. CASE ServerReceive
  BY <1>1, <1>5, ReceivePacketInv DEF ServerReceive, Call, CallTypes
<1>6. CASE ServerRetry \/ ServerSent \/ ServerExit
  BY <1>1, <1>3, <1>6 DEF ServerRetry, ServerSent, ServerExit, Call, CallTypes
<1>7. CASE ServerPacket
  <2>1. executed' \in Seq(Seq(Byte)) /\ seen_breaks' = seen_breaks
    BY <1>1, <1>7 DEF ServerPacket, CallTypes
  <2>2. CASE Reply(Respond(recv_buf))
    BY <1>1, <1>2, <2>1, <2>2, SendPacketInv DEF Reply, Call, CallTypes
  <2>3. CASE Call("idle") /\ UNCHANGED <<ioVars, response>>
    BY <1>1, <1>3, <2>1, <2>3 DEF Call, CallTypes
  <2> QED BY <1>7, <2>2, <2>3 DEF ServerPacket
<1>8. CASE ServerBreak
  BY <1>1, <1>2, <1>8, SendPacketInv DEF ServerBreak, Reply, Call, CallTypes
<1> QED BY <1>4, <1>5, <1>6, <1>7, <1>8 DEF Server

LEMMA ServerElse == Server => UNCHANGED <<peerVars, faults>>
BY DEF Server, ServerNoAck, ServerReceive, ServerRetry, ServerPacket,
       ServerBreak, ServerSent, ServerExit, Reply, Call

\* The steps of PacketIO that IO is made of.
IOKind == \/ RecvData \/ Receiving \/ Sending
          \/ \E n \in Nat : RecvTimeout(n) \/ Transmit(n) \/ SendTimeout(n)

LEMMA IOKinds ==
    ASSUME LinkTypes, IO
    PROVE  IOKind /\ NoOneElse /\ faults' \in Seq(FaultKinds)
<1>1. write_buf \in Seq(Byte) /\ rx \in Seq(Byte) /\ faults \in Seq(FaultKinds)
  BY DEF LinkTypes, IOInv, TypeOK, PeerTypes
<1>2. Len(write_buf) \in Nat
  BY <1>1
<1>3. Pieces \subseteq Nat
  BY DEF Pieces
<1>4. NoOneElse /\ faults' \in Seq(FaultKinds)
  BY <1>1, FaultType
  DEF IO, Progress, QuietTimeout, Late, Starved, Lost, Short, Stuck
<1>5. IOKind
  BY <1>2, <1>3
  DEF IO, Progress, QuietTimeout, Late, Starved, Lost, Short, Stuck, IOKind
<1> QED BY <1>4, <1>5

LEMMA IOTypes == ASSUME IOInv, IOKind PROVE IOInv'
<1>1. CASE RecvData \/ Receiving
  BY <1>1, RecvDataInv, DecodeInitialInv, DecodeDataInv, DecodeEscapedInv,
     DecodeCheckHiInv, DecodeCheckLoInv DEF Receiving
<1>2. CASE Sending
  BY <1>2, EncodeByteInv, EncodeEndInv, AwaitAckInv DEF Sending
<1>3. ASSUME NEW n \in Nat, RecvTimeout(n) \/ Transmit(n) \/ SendTimeout(n)
      PROVE  IOInv'
  BY <1>3, RecvTimeoutInv, TransmitInv
<1> QED BY <1>1, <1>2, <1>3 DEF IOKind

\* A call goes on with what it was made for, and ends with what it may return.
LEMMA IOCalls == ASSUME LinkTypes, IOKind, callVars' = callVars PROVE CallInv'
<1>0. CallInv /\ server' = server
  BY DEF LinkTypes, callVars
<1>1. CallInv /\ no_ack' = no_ack /\ server' = server
  <2>1. CASE RecvData \/ Receiving
    BY <1>0, <2>1 DEF RecvData, Receiving, DecodeInitial, DecodeData,
                      DecodeEscaped, DecodeCheckHi, DecodeCheckLo, encoder
  <2>2. CASE Sending
    BY <1>0, <2>2 DEF Sending, EncodeByte, EncodeEnd, AwaitAck
  <2>3. ASSUME NEW n \in Nat, RecvTimeout(n) \/ Transmit(n) \/ SendTimeout(n)
        PROVE  no_ack' = no_ack
    BY <2>3 DEF RecvTimeout, Transmit, SendTimeout, encoder
  <2> QED BY <1>0, <2>1, <2>2, <2>3 DEF IOKind
<1>2. CASE RecvData
  BY <1>1, <1>2 DEF RecvData, AwaitsData, ResetDecoder, decoder, CallInv
<1>3. CASE DecodeInitial
  BY <1>1, <1>3 DEF DecodeInitial, GotByte, Finish, CallInv
<1>4. CASE DecodeData \/ DecodeEscaped
  <2>1. /\ pc = "decode"
        /\ \/ UNCHANGED <<pc, outcome>> /\ state' # "initial"
           \/ pc' = "idle" /\ outcome' = "buffer_too_small"
    <3>1. CASE DecodeData
      BY <3>1 DEF DecodeData, StorePayload, GotByte, Finish
    <3>2. CASE DecodeEscaped
      BY <3>2 DEF DecodeEscaped, StorePayload, GotByte, Finish
    <3> QED BY <1>4, <3>1, <3>2
  <2> QED BY ONLY <1>1, <2>1 DEF CallInv
<1>5. CASE DecodeCheckHi \/ DecodeCheckLo
  <2>1. /\ pc = "decode"
        /\ \/ /\ UNCHANGED <<pc, outcome>>
              /\ state' = "initial" => recv_buf' = <<>> /\ checksum' = 0
           \/ pc' = "idle" /\ outcome' = "packet"
    <3>1. CASE DecodeCheckHi
      BY <3>1 DEF DecodeCheckHi, GotByte
    <3>2. CASE DecodeCheckLo
      BY <3>2 DEF DecodeCheckLo, ResetDecoder, GotByte, Finish
    <3> QED BY <1>5, <3>1, <3>2
  <2> QED BY ONLY <1>1, <2>1 DEF CallInv
<1>6. CASE Sending
  <2>1. /\ pc \in {"encode", "ack"}
        /\ \/ outcome' = outcome /\ pc' \in {"encode", "transmit", "ack"}
           \/ pc' = "idle" /\ outcome' \in {"sent", "buffer_too_small"}
    <3>1. CASE EncodeByte
      BY <3>1 DEF EncodeByte, PutBytes, Finish
    <3>2. CASE EncodeEnd
      BY <3>2 DEF EncodeEnd, PutBytes, Finish
    <3>3. CASE AwaitAck
      BY <3>3 DEF AwaitAck, GotByte, Finish
    <3> QED BY <1>6, <3>1, <3>2, <3>3 DEF Sending
  <2> QED BY ONLY <1>1, <2>1 DEF CallInv
<1>7. ASSUME NEW n \in Nat, RecvTimeout(n) \/ Transmit(n) \/ SendTimeout(n)
      PROVE  CallInv'
  BY <1>1, <1>7 DEF RecvTimeout, AwaitsData, TimedOut, Transmit, SendTimeout,
                    Finish, decoder, CallInv
<1> QED BY <1>2, <1>3, <1>4, <1>5, <1>6, <1>7 DEF IOKind, Receiving

LEMMA ServerCalls == ASSUME LinkTypes, Server PROVE CallInv'
<1>1. CallInv
  BY DEF LinkTypes
<1>2. CASE ServerNoAck \/ ServerReceive
  BY <1>1, <1>2 DEF ServerNoAck, ServerReceive, set_no_ack, receive_packet, Call,
                    ResetDecoder, encoder, CallInv
<1>3. CASE ServerRetry \/ ServerSent \/ ServerExit
  <2>1. /\ UNCHANGED <<pc, outcome, state, recv_buf, checksum, no_ack>>
        /\ server' \in {"idle", "exited"} /\ pc = "idle"
    BY <1>3 DEF ServerRetry, ServerSent, ServerExit, Call, ioVars, decoder, encoder
  <2> QED BY <1>1, <2>1 DEF CallInv
<1>4. ASSUME NEW p, Reply(p) PROVE CallInv'
  BY <1>1, <1>4 DEF Reply, send_packet, Finish, Call, CallInv
<1>5. CASE ServerPacket
  <2>1. CASE Reply(Respond(recv_buf))
    BY <1>4, <2>1
  <2>2. CASE Call("idle") /\ UNCHANGED <<ioVars, response>>
    <3>1. /\ UNCHANGED <<pc, outcome, state, recv_buf, checksum, no_ack>>
          /\ server' = "idle" /\ pc = "idle"
      BY <1>5, <2>2 DEF ServerPacket, Call, ioVars, decoder, encoder
    <3> QED BY <1>1, <3>1 DEF CallInv
  <2> QED BY <1>5, <2>1, <2>2 DEF ServerPacket
<1>6. CASE ServerBreak
  BY <1>4, <1>6 DEF ServerBreak
<1> QED BY <1>2, <1>3, <1>5, <1>6 DEF Server

LEMMA LinkTypesStep ==
    ASSUME RespondType, LinkTypes, [Next]_vars
    PROVE  LinkTypes'
<1>1. CASE Server
  <2>1. PeerTypes'
    BY <1>1, ServerElse DEF peerVars, LinkTypes, PeerTypes
  <2> QED BY <1>1, <2>1, ServerTypes, ServerCalls DEF LinkTypes
<1>2. CASE IO
  <2>1. IOKind /\ NoOneElse /\ faults' \in Seq(FaultKinds)
    BY <1>2, IOKinds
  <2>2. IOInv' /\ CallInv'
    BY <2>1, IOTypes, IOCalls DEF LinkTypes, NoOneElse
  <2> QED BY <2>1, <2>2
          DEF NoOneElse, callVars, peerVars, LinkTypes, PeerTypes, CallTypes
<1>3. CASE Peer
  <2>1. UNCHANGED <<pc, outcome, checksum, decoder, encoder, callVars>>
    BY <1>3 DEF Peer, PeerAsk, PeerAcked, PeerRepeats, PeerResends, PeerSkips,
                PeerReply, PeerBreak, IOElse
  <2> QED BY <1>3, <2>1, PeerTypesStep
          DEF LinkTypes, CallTypes, CallInv, decoder, encoder, callVars
<1>4. CASE UNCHANGED vars
  <2>1. IOInv'
    BY <1>4, StepInv DEF vars, LinkTypes
  <2> QED BY <1>4, <2>1
          DEF vars, ioVars, decoder, encoder, callVars, peerVars, LinkTypes,
              PeerTypes, CallTypes, CallInv
<1> QED BY <1>1, <1>2, <1>3, <1>4 DEF Next

-----------------------------------------------------------------------------
(* What goes out is a frame.                                                 *)

LEMMA ReplyEncodes ==
    ASSUME NEW p \in Seq(Byte), Reply(p) PROVE EncodeInv'
<1>1. /\ send_buf' = p /\ response' = p /\ checksum' = 0
      /\ \/ pc' = "idle"
         \/ pc' = "encode" /\ write_buf' = <<packet_begin>>
  BY DEF Reply, send_packet, Finish
<1>2. CASE pc' = "idle"
  BY <1>2 DEF EncodeInv, WireFrames
<1>3. CASE pc' = "encode" /\ write_buf' = <<packet_begin>>
  <2>1. /\ <<>> \in Seq(Byte) /\ p = <<>> \o p
        /\ <<packet_begin>> = <<packet_begin>> \o <<>>
    BY ControlsAreBytes
  <2>2. IsBody(<<>>, <<>>) /\ Sum(<<>>) = 0
    BY NoBody, SumFacts
  <2>3. Encoding'
    BY <1>1, <1>3, <2>1, <2>2 DEF Encoding
  <2> QED BY <1>3, <2>3 DEF EncodeInv, WireFrames
<1> QED BY <1>1, <1>2, <1>3

LEMMA EncodeByteEncodes ==
    ASSUME LinkTypes, EncodeInv, EncodeByte, response' = response PROVE EncodeInv'
<1> DEFINE c == Head(send_buf)
<1>1. PICK done \in Seq(Byte), body \in Seq(Byte) :
             /\ IsBody(body, done) /\ response = done \o send_buf
             /\ write_buf = <<packet_begin>> \o body /\ checksum = Sum(body)
  BY DEF EncodeInv, EncodeByte, Encoding
<1>2. /\ c \in Byte /\ send_buf \in Seq(Byte) /\ send_buf # <<>>
      /\ send_buf' = Tail(send_buf)
  BY HeadTailType DEF EncodeByte, LinkTypes, IOInv, TypeOK
<1>3. /\ checksum' = (checksum + ChecksumOf(c)) % 256
      /\ PutBytes(EncodedByte(c), "encode")
  BY DEF EncodeByte
<1>4. CASE pc' # "encode"
  <2>1. pc' = "idle"
    BY <1>3, <1>4 DEF PutBytes, Finish
  <2> QED BY <2>1 DEF EncodeInv, WireFrames
<1>5. CASE pc' = "encode"
  <2>1. write_buf' = write_buf \o EncodedByte(c)
    BY <1>3, <1>5 DEF PutBytes, Finish
  <2>2. /\ IsBody(body \o EncodedByte(c), Append(done, c))
        /\ Sum(body \o EncodedByte(c)) = (Sum(body) + ChecksumOf(c)) % 256
    BY <1>1, <1>2, BodyGrows
  <2>3. EncodedByte(c) \in Seq(Byte)
    BY <1>2, EncodedByteType
  <2> DEFINE code == EncodedByte(c)
             head == <<packet_begin>>
             t == send_buf
  <2>4. head \in Seq(Byte) /\ done \in Seq(Byte) /\ t \in Seq(Byte) /\ t # <<>>
    BY <1>2, ControlsAreBytes
  <2>5. done \o t = Append(done, Head(t)) \o Tail(t)
    BY <2>4
  <2>6. write_buf' = (head \o body) \o code
    BY <1>1, <2>1
  <2> HIDE DEF code, head
  <2>7. (head \o body) \o code = head \o (body \o code)
    <3>1. ThreeTexts(head, body, code)
      BY <2>3, <2>4 DEF ThreeTexts, code
    <3> QED BY ONLY <3>1, ThreeAssoc
  <2>8. response' = Append(done, c) \o send_buf'
    BY <1>1, <1>2, <2>5
  <2>9. body \o code \in Seq(Byte) /\ Append(done, c) \in Seq(Byte)
    BY <1>1, <1>2, <2>3, TextConcat DEF code
  <2>10. Encoding'
    BY <1>1, <1>3, <2>2, <2>6, <2>7, <2>8, <2>9 DEF Encoding, code, head
  <2> QED BY <1>5, <2>10 DEF EncodeInv, WireFrames
<1> QED BY <1>4, <1>5

LEMMA EncodeEndEncodes ==
    ASSUME LinkTypes, EncodeInv, EncodeEnd, response' = response PROVE EncodeInv'
<1>1. PICK done \in Seq(Byte), body \in Seq(Byte) :
             /\ IsBody(body, done) /\ response = done \o send_buf
             /\ write_buf = <<packet_begin>> \o body /\ checksum = Sum(body)
  BY DEF EncodeInv, EncodeEnd, Encoding
<1>2. /\ send_buf = <<>> /\ PutBytes(Trailer(checksum), "transmit")
  BY DEF EncodeEnd
<1>3. response' = done
  BY <1>1, <1>2
<1>4. pc' \in {"idle", "transmit"}
  BY <1>2 DEF PutBytes, Finish
<1>5. ASSUME pc' = "transmit" PROVE IsFrame(write_buf', response')
  <2>1. write_buf' = write_buf \o Trailer(checksum)
    BY <1>2, <1>5 DEF PutBytes, Finish
  <2>2. write_buf' = Framed(body, Sum(body))
    BY <1>1, <2>1 DEF Framed
  <2> QED BY <1>1, <1>3, <2>2, FrameOfBody
<1> QED BY <1>4, <1>5 DEF EncodeInv, WireFrames

LEMMA EncodeInvStep ==
    ASSUME RespondType, LinkTypes, EncodeInv, [Next]_vars
    PROVE  EncodeInv'
<1>1. CASE Server
  <2>1. /\ StopReply \in Seq(Byte) /\ Respond(recv_buf) \in Seq(Byte)
        /\ CallInv
    BY PacketLinkAssumption DEF RespondType, LinkTypes, IOInv, TypeOK
  <2>2. CASE ServerPacket
    BY <2>1, <2>2, ReplyEncodes
    DEF ServerPacket, ioVars, encoder, EncodeInv, WireFrames
  <2>3. CASE ServerBreak
    BY <2>1, <2>3, ReplyEncodes DEF ServerBreak
  <2>4. CASE ~ServerPacket /\ ~ServerBreak
    <3>1. pc' \notin {"encode", "transmit", "ack"}
      BY <1>1, <2>1, <2>4
      DEF Server, ServerNoAck, ServerReceive, ServerRetry, ServerSent, ServerExit,
          set_no_ack, receive_packet, ioVars, CallInv
    <3> QED BY <3>1 DEF EncodeInv, WireFrames
  <2> QED BY <2>2, <2>3, <2>4
<1>2. CASE IO
  <2>1. IOKind /\ response' = response
    BY <1>2, IOKinds DEF NoOneElse, callVars
  <2>2. CASE EncodeByte \/ EncodeEnd
    BY <2>1, <2>2, EncodeByteEncodes, EncodeEndEncodes
  <2>3. CASE ~(EncodeByte \/ EncodeEnd)
    <3>1. /\ pc' # "encode" /\ write_buf' = write_buf
          /\ pc' \in {"transmit", "ack"} => pc \in {"transmit", "ack"}
      BY <2>1, <2>3
      DEF IOKind, RecvData, AwaitsData, Receiving, Sending, RecvTimeout, TimedOut,
          Transmit, SendTimeout, DecodeInitial, DecodeData, DecodeEscaped,
          DecodeCheckHi, DecodeCheckLo, StorePayload, GotByte, AwaitAck, Finish,
          encoder
    <3> QED BY <2>1, <3>1 DEF EncodeInv, WireFrames
  <2> QED BY <2>2, <2>3
<1>3. CASE Peer \/ UNCHANGED vars
  <2>1. UNCHANGED <<pc, checksum, send_buf, write_buf, response>>
    BY <1>3 DEF Peer, PeerAsk, PeerAcked, PeerRepeats, PeerResends, PeerSkips,
                PeerReply, PeerBreak, IOElse, encoder, callVars, vars, ioVars
  <2> QED BY <2>1 DEF EncodeInv, WireFrames, Encoding
<1> QED BY <1>1, <1>2, <1>3 DEF Next

(* WireFrames for any responses and whatever goes wrong: what send_packet    *)
(* hands to async_send, for the first time or again, is a packet that the    *)
(* peer decodes to exactly the response.                                     *)
THEOREM ResponsesAreFramed == RespondType => (Spec => []WireFrames)
<1> SUFFICES ASSUME RespondType PROVE Spec => []WireFrames
  OBVIOUS
<1>1. LinkTypes /\ EncodeInv /\ [Next]_vars => LinkTypes' /\ EncodeInv'
  BY LinkTypesStep, EncodeInvStep
<1>2. EncodeInv => WireFrames
  BY DEF EncodeInv
<1> QED BY <1>1, <1>2, InitLink, PTL DEF Spec

-----------------------------------------------------------------------------
(* Where the link stands, while it is calm: in one of eight phases, each of  *)
(* which says what may be on its way in either direction and how the records *)
(* of both ends compare.  How the server takes the next byte it reads depends*)
(* on all of it, so that none of the properties below is inductive alone.    *)

Listens == \/ server = "idle"
           \/ /\ server = "receiving"
              /\ \/ pc = "await"
                 \/ pc = "decode" /\ state = "initial"
                 \/ pc = "idle" /\ outcome = "timed_out"

Stands(ph) ==
    \/ ph = "listens" /\ Listens
    \/ ph = "reads"   /\ server = "receiving" /\ pc = "decode" /\ state # "initial"
    \/ ph = "holds"   /\ server = "receiving" /\ pc = "idle" /\ outcome = "packet"
    \/ ph = "breaks"  /\ server = "receiving" /\ pc = "idle" /\ outcome = "break"
    \/ ph = "replies" /\ server = "sending" /\ pc \in {"encode", "transmit"}
    \/ ph = "awaits"  /\ server = "sending" /\ pc = "ack"
    \/ ph = "done"    /\ server = "sending" /\ pc = "idle" /\ outcome = "sent"
    \/ /\ ph = "stops"
       /\ \/ server = "exited"
          \/ server = "receiving" /\ pc = "idle" /\ outcome = "buffer_too_small"
          \/ server = "sending" /\ pc = "idle" /\ outcome # "sent"

Pending == Len(executed) # Len(asked)

Current == asked[Len(asked)]

(* The bytes on their way to the server: breaks, then an answer of the peer, *)
(* with breaks behind a rejection, and a request or the rest of it.          *)
In == read_buf \o rx

Breaks(k) == [i \in 1..k |-> break_character]

Marked(mark, b, rest) == CASE mark = "none" -> rest
                           [] mark = "ack"  -> <<ack>> \o rest
                           [] mark = "nak"  -> <<ack_err>> \o Breaks(b)

Stream(a, mark, b, rest) == Breaks(a) \o Marked(mark, b, rest)

\* A request on its way, right or with a wrong checksum.
IsRequest(bytes, payload) == bytes \in {GoodFrame(payload), BadFrame(payload)}

Checksums(payload) == LET sum == Sum(RequestBytes(payload))
                      IN  {sum, (sum + 1) % 256}

\* The server has read the current request up to what is still on its way.
Reads(todo, s, rest) ==
    LET sum == Sum(RequestBytes(recv_buf)) IN
    /\ Current = recv_buf \o todo
    /\ \/ /\ state = "packet_data"
          /\ checksum = sum
          /\ rest = RequestBytes(todo) \o Trailer(s)
       \/ /\ state = "escaped"
          /\ todo # <<>> /\ must_escape_request(Head(todo))
          /\ checksum = (sum + escape) % 256
          /\ rest = <<code_escape_char(Head(todo))>>
                       \o (RequestBytes(Tail(todo)) \o Trailer(s))
       \/ /\ state = "check_hi"
          /\ todo = <<>> /\ checksum = sum
          /\ rest = Tail(Trailer(s))
       \/ /\ state = "check_lo"
          /\ todo = <<>> /\ checksum = sum
          /\ rest = Tail(Tail(Trailer(s)))
          /\ csum_high = decode_hex(Trailer(s)[2])

Decodes(rest) ==
    \E todo \in Seq(Byte), s \in Checksums(Current) : Reads(todo, s, rest)

\* What is on its way to the server, in each phase.
ToServer(ph, a, mark, b, rest) ==
    /\ In = Stream(a, mark, b, rest)
    /\ a + b > 0 => peer = "running" \/ mark = "ack"
    /\ seen_breaks + a + b + (IF ph = "breaks" THEN 1 ELSE 0) <= breaks
    /\ mark # "none" => ph = "awaits"
    /\ rest # <<>> => Pending
    /\ mark = "nak" => rest = <<>>
    /\ mark = "ack" => /\ answered # <<>> /\ Last(answered) = response
                       /\ Pending => /\ peer = "unacked" /\ tx = <<>>
                                     /\ IsRequest(rest, Current)
                       /\ ~Pending => peer = "ready"
    /\ ph = "listens" /\ Pending => /\ a = 0
                                    /\ \/ IsRequest(rest, Current) /\ tx = <<>>
                                       \/ rest = <<>> /\ tx = <<ack_err>>
    /\ ph = "reads" => a = 0 /\ Pending /\ tx = <<>> /\ Decodes(rest)
    /\ ph = "holds" => Pending /\ rest = <<>> /\ recv_buf = Current
    /\ ph = "breaks" => ~Pending /\ peer = "running"
    /\ ph = "replies" => ~Pending /\ peer # "ready"
    /\ ph = "awaits" => ~no_ack /\ (mark # "ack" => ~Pending /\ peer # "ready")
    /\ ph = "done" => /\ a = 0
                      /\ Pending => IsRequest(rest, Current) /\ tx = <<>>
                      /\ ~no_ack => Pending \/ peer = "ready"

Sent(n) == SubSeq(write_buf, 1, n)

\* n bytes of write_buf are on their way to the peer.
ToPeer(ph, mark, n) ==
    /\ n > 0 => /\ IsFrame(write_buf, response)
                /\ ~Pending /\ peer # "ready"
                /\ \/ ph \in {"awaits", "done", "stops"}
                   \/ ph = "listens" /\ no_ack
                /\ ph = "awaits" => mark = "none"
    /\ n > 0 \/ ph = "replies" \/ (ph = "awaits" /\ mark # "ack") =>
          breaks > 0 \/ response = Respond(Current)
    /\ peer = "unacked" => IF Pending /\ ph # "holds"
                           THEN tx \in {<<>>, <<ack_err>>}
                           ELSE tx = <<ack>> \o Sent(n)
    /\ peer # "unacked" => tx = Sent(n)

Books(ph) ==
    /\ Len(executed) \in {Len(asked), Len(asked) - 1}
    /\ executed = SubSeq(asked, 1, Len(executed))
    /\ Len(answered) = IF peer = "ready" THEN Len(asked) ELSE Len(asked) - 1
    /\ breaks = 0 => \A i \in 1..Len(answered) : answered[i] = Respond(asked[i])
    /\ seen_breaks <= breaks
    /\ peer = "ready" => ~Pending
    /\ no_ack => peer # "unacked"
    /\ Pending /\ ph # "holds" /\ peer # "unacked" => no_ack

LinkAt(ph, a, mark, b, rest, n) ==
    /\ n <= Len(write_buf)
    /\ mark # "nak" => b = 0
    /\ Books(ph) /\ ToPeer(ph, mark, n)
    /\ ph # "stops" => ToServer(ph, a, mark, b, rest)

LinkWith(ph) ==
    \E a, b, n \in Nat, mark \in {"none", "ack", "nak"}, rest \in Seq(Byte) :
        LinkAt(ph, a, mark, b, rest, n)

LinkInv == Calm => \E ph : Stands(ph) /\ LinkWith(ph)

-----------------------------------------------------------------------------
(* What is on its way, from the front and from the back.                     *)

Marks == {"none", "ack", "nak"}

LEMMA BreaksFacts ==
    ASSUME NEW k \in Nat
    PROVE  /\ Breaks(k) \in Seq(Byte) /\ Len(Breaks(k)) = k
           /\ \A i \in 1..k : Breaks(k)[i] = break_character
BY ControlsAreBytes DEF Breaks

LEMMA NoBreaks == Breaks(0) = <<>>
BY DEF Breaks

LEMMA BreaksGrow ==
    ASSUME NEW k \in Nat
    PROVE  /\ Breaks(k + 1) = <<break_character>> \o Breaks(k)
           /\ Breaks(k + 1) = Breaks(k) \o <<break_character>>
BY DEF Breaks

LEMMA MarkedType ==
    ASSUME NEW mark \in Marks, NEW b \in Nat, NEW rest \in Seq(Byte)
    PROVE  Marked(mark, b, rest) \in Seq(Byte)
<1>1. Breaks(b) \in Seq(Byte) /\ <<ack>> \in Seq(Byte) /\ <<ack_err>> \in Seq(Byte)
  BY BreaksFacts, ControlsAreBytes
<1> QED BY <1>1, TextConcat DEF Marked, Marks

LEMMA StreamType ==
    ASSUME NEW a \in Nat, NEW mark \in Marks, NEW b \in Nat, NEW rest \in Seq(Byte)
    PROVE  Stream(a, mark, b, rest) \in Seq(Byte)
BY BreaksFacts, MarkedType, TextConcat DEF Stream

LEMMA EmptyFront ==
    ASSUME NEW S, NEW s \in Seq(S) PROVE <<>> \o s = s /\ s \o <<>> = s
OBVIOUS

LEMMA FrontOff ==
    ASSUME NEW x \in Byte, NEW s \in Seq(Byte)
    PROVE  /\ <<x>> \o s \in Seq(Byte) /\ <<x>> \o s # <<>>
           /\ Head(<<x>> \o s) = x /\ Tail(<<x>> \o s) = s
OBVIOUS

LEMMA AtBack ==
    ASSUME NEW x \in Byte, NEW s \in Seq(Byte)
    PROVE  Append(s, x) = s \o <<x>>
OBVIOUS

LEMMA StreamBreak ==
    ASSUME NEW a \in Nat, a > 0, NEW mark \in Marks, NEW b \in Nat,
           NEW rest \in Seq(Byte)
    PROVE  /\ Head(Stream(a, mark, b, rest)) = break_character
           /\ Tail(Stream(a, mark, b, rest)) = Stream(a - 1, mark, b, rest)
           /\ a - 1 \in Nat
<1> DEFINE m == Marked(mark, b, rest)
           one == <<break_character>>
<1>1. a - 1 \in Nat /\ (a - 1) + 1 = a
  OBVIOUS
<1>2. /\ m \in Seq(Byte) /\ Breaks(a - 1) \in Seq(Byte) /\ one \in Seq(Byte)
      /\ break_character \in Byte
  BY <1>1, MarkedType, BreaksFacts, ControlsAreBytes
<1> HIDE DEF m
<1>3. Breaks(a) = one \o Breaks(a - 1)
  BY <1>1, BreaksGrow
<1> HIDE DEF one
<1>4. Breaks(a) \o m = one \o (Breaks(a - 1) \o m)
  <2>1. ThreeTexts(one, Breaks(a - 1), m)
    BY <1>2 DEF ThreeTexts
  <2>2. (one \o Breaks(a - 1)) \o m = one \o (Breaks(a - 1) \o m)
    BY ONLY <2>1, ThreeAssoc, SMTT(20)
  <2> QED BY ONLY <1>3, <2>2
<1>5. Breaks(a - 1) \o m \in Seq(Byte)
  BY <1>2, TextConcat
<1> QED BY <1>1, <1>2, <1>4, <1>5, FrontOff DEF Stream, m, one

LEMMA StreamFront ==
    ASSUME NEW mark \in Marks, NEW b \in Nat, NEW rest \in Seq(Byte)
    PROVE  /\ Stream(0, mark, b, rest) = Marked(mark, b, rest)
           /\ Stream(0, "none", b, rest) = rest
           /\ Stream(0, "ack", b, rest) = <<ack>> \o rest
           /\ Stream(0, "nak", b, rest) = <<ack_err>> \o Breaks(b)
<1>1. Marks = {"none", "ack", "nak"}
  BY DEF Marks
<1>2. \A m \in Marks : /\ Marked(m, b, rest) \in Seq(Byte)
                       /\ Stream(0, m, b, rest) = Marked(m, b, rest)
  BY MarkedType, NoBreaks, EmptyFront DEF Stream
<1>3. /\ Marked("none", b, rest) = rest
      /\ Marked("ack", b, rest) = <<ack>> \o rest
      /\ Marked("nak", b, rest) = <<ack_err>> \o Breaks(b)
  BY DEF Marked
<1> QED BY <1>1, <1>2, <1>3

LEMMA StreamAck ==
    ASSUME NEW b \in Nat, NEW rest \in Seq(Byte)
    PROVE  /\ Head(Stream(0, "ack", b, rest)) = ack
           /\ Tail(Stream(0, "ack", b, rest)) = Stream(0, "none", 0, rest)
<1>1. "ack" \in Marks /\ "none" \in Marks /\ ack \in Byte /\ 0 \in Nat
  BY ControlsAreBytes DEF Marks
<1>2. /\ Stream(0, "ack", b, rest) = <<ack>> \o rest
      /\ Stream(0, "none", 0, rest) = rest
  BY <1>1, StreamFront
<1> QED BY <1>1, <1>2, FrontOff

LEMMA StreamNak ==
    ASSUME NEW b \in Nat, NEW rest \in Seq(Byte)
    PROVE  /\ Head(Stream(0, "nak", b, rest)) = ack_err
           /\ Tail(Stream(0, "nak", b, rest)) = Stream(b, "none", 0, <<>>)
<1>1. "nak" \in Marks /\ ack_err \in Byte /\ Breaks(b) \in Seq(Byte)
  BY ControlsAreBytes, BreaksFacts DEF Marks
<1>2. Stream(0, "nak", b, rest) = <<ack_err>> \o Breaks(b)
  BY <1>1, StreamFront
<1>3. Stream(b, "none", 0, <<>>) = Breaks(b)
  BY <1>1, EmptyFront DEF Stream, Marked
<1> QED BY <1>1, <1>2, <1>3, FrontOff

LEMMA StreamOnly ==
    ASSUME NEW a \in Nat
    PROVE  /\ Stream(a, "none", 0, <<>>) = Breaks(a)
           /\ Stream(a, "ack", 0, <<>>) = Breaks(a) \o <<ack>>
           /\ Stream(a, "nak", 0, <<>>) = Breaks(a) \o <<ack_err>>
<1>1. /\ Breaks(a) \in Seq(Byte) /\ <<ack>> \in Seq(Byte) /\ <<ack_err>> \in Seq(Byte)
  BY BreaksFacts, ControlsAreBytes
<1>2. /\ Marked("none", 0, <<>>) = <<>>
      /\ Marked("ack", 0, <<>>) = <<ack>> /\ Marked("nak", 0, <<>>) = <<ack_err>>
  BY <1>1, EmptyFront, NoBreaks DEF Marked
<1> QED BY <1>1, <1>2, EmptyFront DEF Stream

LEMMA StreamAppends ==
    ASSUME NEW a \in Nat, NEW b \in Nat
    PROVE  /\ Append(Stream(a, "none", 0, <<>>), break_character)
                  = Stream(a + 1, "none", 0, <<>>)
           /\ Append(Stream(a, "nak", b, <<>>), break_character)
                  = Stream(a, "nak", b + 1, <<>>)
           /\ Append(Stream(a, "none", 0, <<>>), ack)
                  = Stream(a, "ack", 0, <<>>)
           /\ Append(Stream(a, "none", 0, <<>>), ack_err)
                  = Stream(a, "nak", 0, <<>>)
<1>1. /\ Breaks(a) \in Seq(Byte) /\ Breaks(b) \in Seq(Byte)
      /\ <<ack_err>> \in Seq(Byte) /\ <<break_character>> \in Seq(Byte)
      /\ ack \in Byte /\ ack_err \in Byte /\ break_character \in Byte
  BY BreaksFacts, ControlsAreBytes
<1>2. /\ Breaks(a + 1) = Breaks(a) \o <<break_character>>
      /\ Breaks(b + 1) = Breaks(b) \o <<break_character>>
  BY BreaksGrow
<1>3. Append(Breaks(a), break_character) = Breaks(a + 1)
  BY <1>1, <1>2, AtBack
<1>4. a + 1 \in Nat
  OBVIOUS
<1>5. Append(Stream(a, "none", 0, <<>>), break_character)
          = Stream(a + 1, "none", 0, <<>>)
  BY <1>3, <1>4, StreamOnly
<1>6. Append(Stream(a, "nak", b, <<>>), break_character)
          = Stream(a, "nak", b + 1, <<>>)
  <2> DEFINE m == <<ack_err>> \o Breaks(b)
             one == <<break_character>>
  <2>1. m \in Seq(Byte) /\ Breaks(a) \o m \in Seq(Byte) /\ one \in Seq(Byte)
    BY <1>1, TextConcat
  <2>2. /\ Stream(a, "nak", b, <<>>) = Breaks(a) \o m
        /\ Stream(a, "nak", b + 1, <<>>) = Breaks(a) \o (<<ack_err>> \o Breaks(b + 1))
    BY DEF Stream, Marked
  <2>3. <<ack_err>> \o (Breaks(b) \o one) = m \o one
    BY <1>1, TextAssoc
  <2>4. Append(Breaks(a) \o m, break_character) = (Breaks(a) \o m) \o one
    BY <1>1, <2>1, AtBack
  <2> HIDE DEF m
  <2>5. (Breaks(a) \o m) \o one = Breaks(a) \o (m \o one)
    BY <1>1, <2>1, TextAssoc, SMTT(20)
  <2> QED BY <1>2, <2>2, <2>3, <2>4, <2>5
<1>7. /\ Append(Breaks(a), ack) = Breaks(a) \o <<ack>>
      /\ Append(Breaks(a), ack_err) = Breaks(a) \o <<ack_err>>
  BY <1>1, AtBack
<1>8. /\ Append(Stream(a, "none", 0, <<>>), ack) = Stream(a, "ack", 0, <<>>)
      /\ Append(Stream(a, "none", 0, <<>>), ack_err) = Stream(a, "nak", 0, <<>>)
  BY <1>7, StreamOnly
<1> QED BY <1>5, <1>6, <1>8

LEMMA StreamTakes ==
    ASSUME NEW a \in Nat, NEW mark \in {"none", "ack"}, NEW frame \in Seq(Byte)
    PROVE  Stream(a, mark, 0, <<>>) \o frame = Stream(a, mark, 0, frame)
<1>1. Breaks(a) \in Seq(Byte) /\ <<ack>> \in Seq(Byte)
  BY BreaksFacts, ControlsAreBytes
<1>2. Stream(a, "none", 0, frame) = Breaks(a) \o frame
  BY DEF Stream, Marked
<1>3. Stream(a, "ack", 0, frame) = (Breaks(a) \o <<ack>>) \o frame
  BY <1>1, TextAssoc DEF Stream, Marked
<1> QED BY <1>2, <1>3, StreamOnly

-----------------------------------------------------------------------------
(* What the steps of the link have in common.                                *)

\* Breaks come from silent requests, which are for acknowledged connections.
NoAckIsQuiet == TRUE \in Modes => MaxBreaks = 0 \/ Silent = {}

LEMMA QuietNoAck ==
    ASSUME LinkTypes, NoAckIsQuiet, no_ack
    PROVE  breaks = 0 /\ ~(peer = "running" /\ breaks < MaxBreaks)
BY PacketLinkAssumption DEF LinkTypes, CallInv, PeerTypes, NoAckIsQuiet

LEMMA InType == LinkTypes => In \in Seq(Byte)
BY TextConcat DEF LinkTypes, IOInv, TypeOK, In

\* One byte is taken off.
LEMMA InTaken ==
    ASSUME LinkTypes, NEW where, GotByte(where), rx' = rx
    PROVE  /\ In # <<>> /\ Head(In) = Head(read_buf) /\ In' = Tail(In)
           /\ Head(In) \in Byte
<1>1. /\ read_buf \in Seq(Byte) /\ rx \in Seq(Byte) /\ read_buf # <<>>
      /\ read_buf' = Tail(read_buf)
  BY DEF LinkTypes, IOInv, TypeOK, GotByte
<1> DEFINE c == Head(read_buf)
           t == Tail(read_buf)
<1>2. c \in Byte /\ t \in Seq(Byte) /\ read_buf = <<c>> \o t /\ <<c>> \in Seq(Byte)
  BY <1>1
<1> HIDE DEF c, t
<1>3. In = <<c>> \o (t \o rx) /\ t \o rx \in Seq(Byte)
  BY <1>1, <1>2, TextAssoc, TextConcat DEF In
<1>4. In' = t \o rx
  BY <1>1 DEF In, t
<1>5. Head(In) = c /\ Tail(In) = t \o rx /\ In # <<>>
  BY <1>2, <1>3, FrontOff
<1> QED BY <1>2, <1>4, <1>5 DEF c

\* Bytes are put at the end.
LEMMA InPut ==
    ASSUME LinkTypes, NEW bytes \in Seq(Byte), rx' = rx \o bytes,
           read_buf' = read_buf
    PROVE  In' = In \o bytes
<1>1. ThreeTexts(read_buf, rx, bytes)
  BY DEF LinkTypes, IOInv, TypeOK, ThreeTexts
<1>2. (read_buf \o rx) \o bytes = read_buf \o (rx \o bytes)
  BY ONLY <1>1, ThreeAssoc
<1> QED BY <1>2 DEF In

LEMMA InAppended ==
    ASSUME LinkTypes, NEW c \in Byte, rx' = Append(rx, c), read_buf' = read_buf
    PROVE  In' = Append(In, c)
<1>1. rx \in Seq(Byte) /\ <<c>> \in Seq(Byte) /\ In \in Seq(Byte)
  BY InType DEF LinkTypes, IOInv, TypeOK
<1>2. rx' = rx \o <<c>> /\ Append(In, c) = In \o <<c>>
  BY <1>1, AtBack
<1> QED BY <1>1, <1>2, InPut

LEMMA InReceived == ASSUME LinkTypes, RecvData PROVE In' = In
<1>1. /\ rx \in Seq(Byte) /\ read_buf = <<>>
      /\ \E n \in Pieces : /\ read_buf' = SubSeq(rx, 1, n)
                           /\ rx' = SubSeq(rx, n + 1, Len(rx))
  BY DEF LinkTypes, IOInv, TypeOK, RecvData, AwaitsData
<1>2. PICK n \in Pieces : /\ read_buf' = SubSeq(rx, 1, n)
                          /\ rx' = SubSeq(rx, n + 1, Len(rx))
  BY <1>1
<1>3. n \in 1..Len(rx)
  <2>1. Len(rx) \in Nat /\ n \in 1..Min({Len(rx), TransportBufferSize})
    BY <1>1 DEF Pieces
  <2> QED BY <2>1, PiecesBounds
<1>4. SubSeq(rx, 1, n) \o SubSeq(rx, n + 1, Len(rx)) = rx
  BY <1>1, <1>3
<1> QED BY <1>1, <1>2, <1>4, EmptyFront DEF In

bookVars == <<peer, asked, answered, breaks, executed, seen_breaks, no_ack>>

LEMMA SamePending ==
    ASSUME UNCHANGED <<asked, executed>>
    PROVE  (Pending' <=> Pending) /\ Current' = Current
BY DEF Pending, Current

LEMMA KeepBooks ==
    ASSUME NEW ph, NEW next, Books(ph), UNCHANGED bookVars,
           ph = "holds" => next = "holds"
    PROVE  Books(next)' /\ (Pending' <=> Pending) /\ Current' = Current
<1>1. (Pending' <=> Pending) /\ Current' = Current
  BY SamePending DEF bookVars
<1> QED BY <1>1 DEF Books, bookVars

\* The types that the arguments below rest on.
LEMMA BookTypes ==
    ASSUME LinkTypes
    PROVE  /\ breaks \in Nat /\ seen_breaks \in Nat
           /\ asked \in Seq(Requests) /\ Requests \subseteq Seq(Byte)
           /\ executed \in Seq(Seq(Byte)) /\ answered \in Seq(Seq(Byte))
           /\ Len(asked) \in Nat /\ Len(executed) \in Nat
           /\ Len(answered) \in Nat
           /\ write_buf \in Seq(Byte) /\ tx \in Seq(Byte)
           /\ Len(write_buf) \in Nat
           /\ response \in Seq(Byte) /\ recv_buf \in Seq(Byte)
<1>1. Requests \subseteq Seq(Byte)
  BY ONLY PacketLinkAssumption DEF PacketLinkAssumption
<1>2. breaks \in Nat /\ asked \in Seq(Requests) /\ answered \in Seq(Seq(Byte))
  BY ONLY LinkTypes DEF LinkTypes, PeerTypes
<1>3. /\ seen_breaks \in Nat /\ executed \in Seq(Seq(Byte))
      /\ response \in Seq(Byte)
  BY ONLY LinkTypes DEF LinkTypes, CallTypes
<1>4. write_buf \in Seq(Byte) /\ tx \in Seq(Byte) /\ recv_buf \in Seq(Byte)
  BY ONLY LinkTypes DEF LinkTypes, IOInv, TypeOK
<1>5. Len(asked) \in Nat /\ Len(executed) \in Nat /\ Len(answered) \in Nat
  BY ONLY <1>2, <1>3
<1>6. Len(write_buf) \in Nat
  BY ONLY <1>4
<1> QED BY ONLY <1>1, <1>2, <1>3, <1>4, <1>5, <1>6

LEMMA CurrentType ==
    ASSUME LinkTypes, Pending, NEW ph, Books(ph)
    PROVE  /\ asked # <<>> /\ Len(executed) = Len(asked) - 1
           /\ Last(asked) = Current /\ Current \in Requests
           /\ Current \in Seq(Byte)
<1>1. Len(executed) = Len(asked) - 1 /\ asked # <<>>
  BY BookTypes DEF Books, Pending
<1> QED BY <1>1, LastAsked DEF LinkTypes, Current

\* Nothing of write_buf is on its way.
LEMMA SentNone ==
    ASSUME LinkTypes PROVE Sent(0) = <<>> /\ <<ack>> \o Sent(0) = <<ack>>
<1>1. Sent(0) = <<>>
  BY BookTypes DEF Sent
<1>2. <<ack>> \in Seq(Byte)
  BY ControlsAreBytes
<1> QED BY <1>1, <1>2, EmptyFront

LEMMA LinkIsWith ==
    ASSUME NEW ph, NEW a \in Nat, NEW mark \in Marks, NEW b \in Nat,
           NEW rest \in Seq(Byte), NEW n \in Nat,
           LinkAt(ph, a, mark, b, rest, n)'
    PROVE  LinkWith(ph)'
BY DEF LinkWith, Marks

-----------------------------------------------------------------------------
(* Steps that leave alone what is on its way.                                *)

linkVars == <<bookVars, tx, write_buf, response>>

LEMMA SameReads ==
    ASSUME NEW rest, UNCHANGED <<recv_buf, state, checksum, csum_high>>,
           Current' = Current, Decodes(rest)
    PROVE  Decodes(rest)'
BY DEF Decodes, Reads

\* The phase goes on.
LEMMA KeepLink ==
    ASSUME LinkTypes, NEW ph, LinkWith(ph), UNCHANGED linkVars, In' = In,
           \/ UNCHANGED <<recv_buf, state, checksum, csum_high>>
           \/ ph \notin {"reads", "holds"}
    PROVE  LinkWith(ph)'
<1>1. PICK a, b, n \in Nat, mark \in Marks, rest \in Seq(Byte) :
         LinkAt(ph, a, mark, b, rest, n)
  BY DEF LinkWith, Marks
<1>2. /\ UNCHANGED <<tx, write_buf, response, peer, asked, answered, breaks,
                     executed, seen_breaks, no_ack>>
      /\ UNCHANGED bookVars
  BY DEF linkVars, bookVars
<1>3. Books(ph)' /\ (Pending' <=> Pending) /\ Current' = Current
  BY <1>1, <1>2, KeepBooks DEF LinkAt
<1>4. ToPeer(ph, mark, n)'
  BY <1>1, <1>2, <1>3 DEF LinkAt, ToPeer, Sent
<1>5. ph = "reads" /\ Decodes(rest) => Decodes(rest)'
  BY <1>3, SameReads
<1>6. ph # "stops" => ToServer(ph, a, mark, b, rest)'
  BY <1>1, <1>2, <1>3, <1>5 DEF LinkAt, ToServer
<1>7. LinkAt(ph, a, mark, b, rest, n)'
  BY <1>1, <1>2, <1>3, <1>4, <1>6 DEF LinkAt
<1> QED BY <1>7, LinkIsWith

\* The loop of the server ends, or a call of it fails.
LEMMA StopLink ==
    ASSUME LinkTypes, NEW ph, LinkWith(ph), UNCHANGED linkVars, ph # "holds"
    PROVE  LinkWith("stops")'
<1>1. PICK a, b, n \in Nat, mark \in Marks, rest \in Seq(Byte) :
         LinkAt(ph, a, mark, b, rest, n)
  BY DEF LinkWith, Marks
<1>2. /\ UNCHANGED <<tx, write_buf, response, peer, asked, answered, breaks,
                     executed, seen_breaks, no_ack>>
      /\ UNCHANGED bookVars
  BY DEF linkVars, bookVars
<1>3. Books("stops")' /\ (Pending' <=> Pending) /\ Current' = Current
  BY <1>1, <1>2, KeepBooks DEF LinkAt
<1>4. ToPeer("stops", mark, n)'
  BY <1>1, <1>2, <1>3 DEF LinkAt, ToPeer, Sent
<1>5. LinkAt("stops", a, mark, b, rest, n)'
  BY <1>1, <1>2, <1>3, <1>4 DEF LinkAt
<1> QED BY <1>5, LinkIsWith

LEMMA QuietCalls ==
    ASSUME LinkTypes, NEW ph, Stands(ph), LinkWith(ph),
           ServerReceive \/ ServerRetry \/ ServerExit
    PROVE  \E next : Stands(next)' /\ LinkWith(next)'
<1>1. /\ UNCHANGED <<rx, read_buf, response, executed, seen_breaks, tx, write_buf,
                     no_ack, peer, asked, answered, breaks>>
      /\ ph \in {"listens", "stops"} /\ Stands(ph)'
  <2>1. CASE ServerReceive
    BY <2>1 DEF ServerReceive, receive_packet, Call, ResetDecoder, peerVars,
                encoder, decoder, Listens, Stands
  <2>2. CASE ServerRetry
    BY <2>2 DEF ServerRetry, Call, peerVars, ioVars, encoder, Listens, Stands
  <2>3. CASE ServerExit
    BY <2>3 DEF ServerExit, Call, peerVars, ioVars, encoder, Listens, Stands
  <2> QED BY <2>1, <2>2, <2>3
<1>2. In' = In /\ UNCHANGED linkVars
  BY <1>1 DEF In, linkVars, bookVars
<1>3. LinkWith(ph)'
  BY <1>1, <1>2, KeepLink
<1> QED BY <1>1, <1>3

-----------------------------------------------------------------------------
(* The calls of the server.                                                  *)

\* Before the first request nothing is on its way, nor has been.
LEMMA NoAckLink ==
    ASSUME LinkTypes, NEW ph, Stands(ph), LinkWith(ph), ServerNoAck
    PROVE  Stands("listens")' /\ LinkWith("listens")'
<1>1. /\ UNCHANGED <<rx, read_buf, response, executed, seen_breaks, tx, write_buf,
                     peer, asked, answered, breaks>>
      /\ ph = "listens" /\ Stands("listens")' /\ asked = <<>>
  BY DEF ServerNoAck, set_no_ack, Call, peerVars, Listens, Stands
<1>2. PICK a, b, n \in Nat, mark \in Marks, rest \in Seq(Byte) :
         LinkAt(ph, a, mark, b, rest, n)
  BY DEF LinkWith, Marks
<1>3. peer = "ready"
  BY <1>1 DEF LinkTypes, PeerTypes
<1>4. In' = In /\ (Pending' <=> Pending) /\ Current' = Current
  BY <1>1, SamePending DEF In
<1>5. ~Pending /\ n = 0
  BY <1>2, <1>3 DEF LinkAt, Books, ToPeer
<1>6. Books("listens")'
  BY <1>1, <1>2, <1>3, <1>4, <1>5 DEF LinkAt, Books
<1>7. ToPeer("listens", mark, n)'
  BY <1>1, <1>2, <1>3, <1>4, <1>5 DEF LinkAt, ToPeer, Sent
<1>8. ToServer("listens", a, mark, b, rest)'
  BY <1>1, <1>2, <1>4, <1>5 DEF LinkAt, ToServer
<1>9. LinkAt("listens", a, mark, b, rest, n)'
  BY <1>1, <1>2, <1>6, <1>7, <1>8 DEF LinkAt
<1> QED BY <1>1, <1>9, LinkIsWith

LEMMA SentLink ==
    ASSUME LinkTypes, NEW ph, Stands(ph), LinkWith(ph), ServerSent
    PROVE  Stands("listens")' /\ LinkWith("listens")'
<1>1. /\ UNCHANGED <<rx, read_buf, response, executed, seen_breaks, tx, write_buf,
                     no_ack, peer, asked, answered, breaks>>
      /\ ph = "done" /\ Stands("listens")'
  BY DEF ServerSent, Call, peerVars, ioVars, encoder, Listens, Stands
<1>2. PICK a, b, n \in Nat, mark \in Marks, rest \in Seq(Byte) :
         LinkAt(ph, a, mark, b, rest, n)
  BY DEF LinkWith, Marks
<1>3. In' = In /\ UNCHANGED bookVars
  BY <1>1 DEF In, bookVars
<1>4. Books("listens")' /\ (Pending' <=> Pending) /\ Current' = Current
  BY <1>1, <1>2, <1>3, KeepBooks DEF LinkAt
<1>5. ToPeer("listens", mark, n)'
  BY <1>1, <1>2, <1>4 DEF LinkAt, ToPeer, ToServer, Sent
<1>6. ToServer("listens", a, mark, b, rest)'
  BY <1>1, <1>2, <1>3, <1>4 DEF LinkAt, ToServer
<1>7. LinkAt("listens", a, mark, b, rest, n)'
  BY <1>1, <1>2, <1>4, <1>5, <1>6 DEF LinkAt
<1> QED BY <1>1, <1>7, LinkIsWith

LEMMA ReplyIO ==
    ASSUME NEW p, Reply(p)
    PROVE  /\ UNCHANGED <<rx, read_buf, tx, no_ack, peer, asked, answered, breaks>>
           /\ response' = p
           /\ Stands("replies")' \/ Stands("stops")'
BY DEF Reply, Call, send_packet, Finish, peerVars, encoder, decoder, Listens, Stands

LEMMA SubSeqAll ==
    ASSUME NEW S, NEW s \in Seq(S) PROVE SubSeq(s, 1, Len(s)) = s
OBVIOUS

LEMMA SubSeqMore ==
    ASSUME NEW S, NEW s \in Seq(S), s # <<>>
    PROVE  Append(SubSeq(s, 1, Len(s) - 1), s[Len(s)]) = s
OBVIOUS

\* What was received is executed.
LEMMA ExecuteBooks ==
    ASSUME LinkTypes, Books("holds"), Pending, executed' = Append(executed, Current),
           UNCHANGED <<peer, asked, answered, breaks, seen_breaks, no_ack>>,
           NEW next
    PROVE  Books(next)' /\ ~Pending' /\ Current' = Current
<1>1. /\ asked \in Seq(Requests) /\ executed \in Seq(Seq(Byte))
      /\ Current \in Seq(Byte) /\ asked # <<>> /\ Len(executed) = Len(asked) - 1
      /\ executed = SubSeq(asked, 1, Len(executed))
  BY BookTypes, CurrentType DEF Books
<1>2. executed' = asked
  BY <1>1, SubSeqMore DEF Current
<1>3. executed' = SubSeq(asked, 1, Len(asked)) /\ ~Pending' /\ Current' = Current
  BY <1>1, <1>2, SubSeqAll DEF Pending, Current
<1> QED BY <1>1, <1>2, <1>3 DEF Books

LEMMA NoneSent ==
    ASSUME RespondType, LinkTypes, Server
    PROVE  /\ Sent(0) = <<>> /\ Sent(0)' = <<>>
           /\ <<ack>> \o Sent(0) = <<ack>> /\ 0 <= Len(write_buf')
<1>1. LinkTypes'
  BY LinkTypesStep DEF Next
<1>2. write_buf' \in Seq(Byte)
  BY <1>1 DEF LinkTypes, IOInv, TypeOK
<1> QED BY <1>2, SentNone DEF Sent

LEMMA ExecuteLink ==
    ASSUME RespondType, LinkTypes, NEW ph, Stands(ph), LinkWith(ph), ServerPacket
    PROVE  \E next : Stands(next)' /\ LinkWith(next)'
<1>1. /\ ph = "holds" /\ executed' = Append(executed, recv_buf)
      /\ seen_breaks' = seen_breaks
  BY DEF ServerPacket, Listens, Stands
<1>2. PICK a, b, n \in Nat, mark \in Marks, rest \in Seq(Byte) :
         LinkAt(ph, a, mark, b, rest, n)
  BY DEF LinkWith, Marks
<1>3. /\ Pending /\ rest = <<>> /\ mark = "none" /\ b = 0 /\ recv_buf = Current
      /\ n = 0 /\ peer # "ready"
  BY <1>1, <1>2 DEF LinkAt, Books, ToPeer, ToServer, Marks
<1>4. ASSUME NEW next, next \in {"replies", "stops", "listens"}, Stands(next)',
             UNCHANGED <<rx, read_buf, tx, no_ack, peer, asked, answered, breaks>>,
             next = "replies" => response' = Respond(Current)
      PROVE  LinkWith(next)'
  <2>1. Books(next)' /\ ~Pending' /\ Current' = Current /\ In' = In
    BY <1>1, <1>2, <1>3, <1>4, ExecuteBooks DEF LinkAt, In
  <2>2. Sent(0) = <<>> /\ Sent(0)' = <<>> /\ 0 <= Len(write_buf')
    BY NoneSent DEF Server
  <2>3. ToPeer(next, mark, n)'
    BY <1>1, <1>2, <1>3, <1>4, <2>1, <2>2 DEF LinkAt, ToPeer
  <2>4. ToServer(next, a, mark, b, rest)'
    BY <1>1, <1>2, <1>3, <1>4, <2>1 DEF LinkAt, ToServer
  <2>5. LinkAt(next, a, mark, b, rest, n)'
    BY <1>1, <1>2, <1>3, <2>1, <2>2, <2>3, <2>4 DEF LinkAt
  <2> QED BY <2>5, LinkIsWith
<1>5. CASE Reply(Respond(recv_buf))
  BY <1>3, <1>4, <1>5, ReplyIO
<1>6. CASE Call("idle") /\ UNCHANGED <<ioVars, response>>
  <2>1. /\ UNCHANGED <<rx, read_buf, tx, no_ack, peer, asked, answered, breaks>>
        /\ Stands("listens")'
    BY <1>6 DEF Call, peerVars, ioVars, encoder, Listens, Stands
  <2> QED BY <1>4, <2>1
<1> QED BY <1>5, <1>6 DEF ServerPacket

LEMMA BreakLink ==
    ASSUME RespondType, LinkTypes, NEW ph, Stands(ph), LinkWith(ph), ServerBreak
    PROVE  \E next : Stands(next)' /\ LinkWith(next)'
<1>1. /\ ph = "breaks" /\ executed' = executed
      /\ seen_breaks' = seen_breaks + 1
      /\ UNCHANGED <<rx, read_buf, tx, no_ack, peer, asked, answered, breaks>>
      /\ Stands("replies")' \/ Stands("stops")'
  BY ReplyIO DEF ServerBreak, Listens, Stands
<1>2. PICK a, b, n \in Nat, mark \in Marks, rest \in Seq(Byte) :
         LinkAt(ph, a, mark, b, rest, n)
  BY DEF LinkWith, Marks
<1>3. /\ ~Pending /\ rest = <<>> /\ mark = "none" /\ b = 0
      /\ n = 0 /\ peer = "running" /\ seen_breaks + a + 1 <= breaks
      /\ breaks \in Nat /\ seen_breaks \in Nat
  <2>1. /\ ~Pending /\ peer = "running" /\ mark = "none" /\ rest = <<>>
        /\ seen_breaks + a + b + 1 <= breaks
    BY <1>1, <1>2 DEF LinkAt, ToServer
  <2>2. n = 0 /\ b = 0
    BY <1>1, <1>2, <2>1 DEF LinkAt, ToPeer
  <2>3. breaks \in Nat /\ seen_breaks \in Nat
    BY BookTypes
  <2> QED BY <2>1, <2>2, <2>3
<1>4. (Pending' <=> Pending) /\ Current' = Current /\ In' = In
  BY <1>1, SamePending DEF In
<1>5. Sent(0) = <<>> /\ Sent(0)' = <<>> /\ 0 <= Len(write_buf')
  BY NoneSent DEF Server
<1>6. ASSUME NEW next, next \in {"replies", "stops"}
      PROVE  LinkWith(next)'
  <2>1. Books(next)'
    <3>1. seen_breaks' <= breaks'
      BY <1>1, <1>3
    <3>2. Books(ph)
      BY <1>2 DEF LinkAt
    <3> QED BY <1>1, <1>4, <3>1, <3>2 DEF Books
  <2>2. ToPeer(next, mark, n)'
    BY <1>1, <1>2, <1>3, <1>4, <1>5, <1>6 DEF LinkAt, ToPeer
  <2>3. ToServer(next, a, mark, b, rest)'
    BY <1>1, <1>2, <1>3, <1>4, <1>6 DEF LinkAt, ToServer
  <2>4. LinkAt(next, a, mark, b, rest, n)'
    BY <1>2, <1>3, <1>5, <2>1, <2>2, <2>3 DEF LinkAt
  <2> QED BY <2>4, LinkIsWith
<1> QED BY <1>1, <1>6

-----------------------------------------------------------------------------
(* A request while it is being read.                                         *)

LEMMA TrailerParts ==
    ASSUME NEW s \in Byte
    PROVE  /\ Trailer(s) # <<>> /\ Head(Trailer(s)) = packet_end
           /\ Tail(Trailer(s)) = <<Trailer(s)[2], Trailer(s)[3]>>
           /\ Tail(Tail(Trailer(s))) = <<Trailer(s)[3]>>
           /\ Trailer(s)[2] \in Byte /\ Trailer(s)[3] \in Byte
           /\ Trailer(s) \in Seq(Byte)
<1>1. s \in Nat /\ s \div 16 \in Nat
  BY DEF Byte
<1> QED BY <1>1, HexIsByte, ControlsAreBytes DEF Trailer

LEMMA ChecksumsType ==
    ASSUME NEW p \in Seq(Byte) PROVE Checksums(p) \subseteq Byte
<1> DEFINE s == Sum(RequestBytes(p))
<1>1. s \in Byte
  <2>1. RequestBytes(p) \in Seq(Byte)
    BY RequestFacts
  <2> QED BY <2>1, SumFacts
<1>2. 1 \in Byte
  BY DEF Byte
<1>3. (s + 1) % 256 \in Byte
  <2> HIDE DEF s
  <2> QED BY <1>1, <1>2, SumIsByte
<1> HIDE DEF s
<1> QED BY <1>1, <1>3 DEF Checksums, s

\* What the decoder has yet to see, in each of its states.
LEMMA ReadsFacts ==
    ASSUME LinkTypes, NEW todo \in Seq(Byte), NEW s \in Checksums(Current),
           NEW rest, Reads(todo, s, rest)
    PROVE  s \in Byte /\ Current \in Seq(Byte) /\ rest # <<>>
<1>1. recv_buf \in Seq(Byte) /\ Current = recv_buf \o todo
  BY BookTypes DEF Reads
<1>2. Current \in Seq(Byte)
  BY <1>1, TextConcat
<1>3. s \in Byte
  BY <1>2, ChecksumsType
<1>4. ASSUME NEW t \in Seq(Byte) PROVE RequestBytes(t) \o Trailer(s) \in Seq(Byte)
  BY <1>3, RequestFacts, TrailerParts, TextConcat
<1>5. CASE state = "packet_data"
  <2>1. rest = RequestBytes(todo) \o Trailer(s)
    BY <1>5 DEF Reads
  <2>2. RequestBytes(todo) \in Seq(Byte) /\ Trailer(s) \in Seq(Byte)
    BY <1>3, RequestFacts, TrailerType
  <2>3. Trailer(s) # <<>>
    BY <1>3, TrailerParts
  <2>4. rest # <<>>
    BY <2>1, <2>2, <2>3
  <2> QED BY <1>2, <1>3, <2>4
<1>6. CASE state = "escaped"
  <2>1. /\ todo # <<>>
        /\ rest = <<code_escape_char(Head(todo))>>
                      \o (RequestBytes(Tail(todo)) \o Trailer(s))
    BY <1>6 DEF Reads
  <2>2. Head(todo) \in Byte /\ Tail(todo) \in Seq(Byte)
    BY <2>1
  <2>3. code_escape_char(Head(todo)) \in Byte
    BY <2>2, EscapeInvolution
  <2>4. rest # <<>>
    BY <1>4, <2>1, <2>2, <2>3, FrontOff
  <2> QED BY <1>2, <1>3, <2>4
<1>7. CASE state \in {"check_hi", "check_lo"}
  <2>1. rest = Tail(Trailer(s)) \/ rest = Tail(Tail(Trailer(s)))
    BY <1>7 DEF Reads
  <2>2. Tail(Trailer(s)) # <<>> /\ Tail(Tail(Trailer(s))) # <<>>
    <3> DEFINE high == Trailer(s)[2]
               low  == Trailer(s)[3]
    <3>1. Tail(Trailer(s)) = <<high, low>> /\ Tail(Tail(Trailer(s))) = <<low>>
      BY ONLY <1>3, TrailerParts
    <3> HIDE DEF high, low
    <3>2. <<high, low>> # <<>> /\ <<low>> # <<>>
      <4>1. \A h, l : Len(<<h, l>>) = 2 /\ Len(<<l>>) = 1 /\ Len(<<>>) = 0
        BY ONLY TRUE
      <4> QED BY ONLY <4>1
    <3> QED BY ONLY <3>1, <3>2
  <2>3. rest # <<>>
    BY ONLY <2>1, <2>2
  <2> QED BY <1>2, <1>3, <2>3
<1> QED BY <1>5, <1>6, <1>7 DEF Reads

LEMMA ReadsOn == ASSUME LinkTypes, NEW rest, Decodes(rest) PROVE rest # <<>>
BY ReadsFacts DEF Decodes

-----------------------------------------------------------------------------
(* The steps of PacketIO: waiting and sending.                               *)

LEMMA NoOneElseKeeps ==
    ASSUME NoOneElse, no_ack' = no_ack
    PROVE  /\ UNCHANGED <<server, response, executed, seen_breaks, peer, asked,
                          answered, breaks, no_ack>>
           /\ UNCHANGED bookVars
BY DEF NoOneElse, callVars, peerVars, bookVars

LEMMA ReceiveLink ==
    ASSUME LinkTypes, NEW ph, Stands(ph), LinkWith(ph), RecvData, NoOneElse
    PROVE  Stands(ph)' /\ LinkWith(ph)'
<1>1. /\ UNCHANGED <<tx, outcome, write_buf, no_ack>>
      /\ pc \in {"await", "decode", "ack"}
      /\ \/ pc = "await" /\ pc' = "decode" /\ state' = "initial"
         \/ pc' = pc /\ UNCHANGED <<recv_buf, state, checksum, csum_high>>
  BY DEF RecvData, AwaitsData, ResetDecoder, encoder, decoder
<1>2. UNCHANGED <<server, response, executed, seen_breaks, peer, asked, answered,
                  breaks, no_ack>> /\ UNCHANGED bookVars
  BY <1>1, NoOneElseKeeps
<1>3. Stands(ph)' /\ (pc = "await" => ph = "listens")
  BY <1>1, <1>2 DEF Listens, Stands, LinkTypes, CallInv
<1>4. UNCHANGED linkVars /\ In' = In
  BY <1>1, <1>2, InReceived DEF linkVars
<1>5. LinkWith(ph)'
  BY <1>1, <1>3, <1>4, KeepLink
<1> QED BY <1>3, <1>5

\* The server hears nothing: it receives again, or gives up its sending.
LEMMA TimeoutLink ==
    ASSUME LinkTypes, NEW ph, Stands(ph), LinkWith(ph), RecvTimeout(0),
           rx = <<>>, NoOneElse
    PROVE  \E next : Stands(next)' /\ LinkWith(next)'
<1>1. /\ UNCHANGED <<tx, read_buf, checksum, recv_buf, state, csum_high,
                     write_buf, no_ack>>
      /\ pc \in {"await", "decode", "ack"} /\ read_buf = <<>>
      /\ pc' = "idle" /\ outcome' = "timed_out"
      /\ rx' = SubSeq(rx, 1, Len(rx))
  BY DEF RecvTimeout, AwaitsData, TimedOut, Finish, encoder, decoder
<1>2. UNCHANGED <<server, response, executed, seen_breaks, peer, asked, answered,
                  breaks, no_ack>> /\ UNCHANGED bookVars
  BY <1>1, NoOneElseKeeps
<1>3. rx' = rx /\ In = <<>> /\ In' = In /\ UNCHANGED linkVars
  BY <1>1, <1>2 DEF In, linkVars
<1>4. PICK a, b, n \in Nat, mark \in Marks, rest \in Seq(Byte) :
         LinkAt(ph, a, mark, b, rest, n)
  BY DEF LinkWith, Marks
<1>5. ph # "reads"
  <2> SUFFICES ASSUME ph = "reads" PROVE FALSE
    OBVIOUS
  <2>1. a = 0 /\ mark = "none" /\ In = Stream(0, "none", b, rest) /\ Decodes(rest)
    BY <1>4 DEF LinkAt, ToServer, Marks
  <2>2. rest = <<>>
    BY <1>3, <2>1, StreamFront
  <2> QED BY <2>1, <2>2, ReadsOn
<1>6. \/ ph = "listens" /\ Stands("listens")'
      \/ ph = "awaits" /\ Stands("stops")'
  BY <1>1, <1>2, <1>5 DEF Listens, Stands, LinkTypes, CallInv
<1> QED BY <1>3, <1>6, KeepLink, StopLink

LEMMA EncodeLink ==
    ASSUME LinkTypes, NEW ph, Stands(ph), LinkWith(ph), EncodeByte \/ EncodeEnd,
           NoOneElse
    PROVE  \E next : Stands(next)' /\ LinkWith(next)'
<1>1. /\ UNCHANGED <<rx, read_buf, tx, no_ack>> /\ pc = "encode"
      /\ \/ pc' \in {"encode", "transmit"}
         \/ pc' = "idle" /\ outcome' = "buffer_too_small" /\ write_buf' = write_buf
  BY DEF EncodeByte, EncodeEnd, PutBytes, Finish
<1>2. UNCHANGED <<server, response, executed, seen_breaks, peer, asked, answered,
                  breaks, no_ack>> /\ UNCHANGED bookVars
  BY <1>1, NoOneElseKeeps
<1>3. ph = "replies"
  BY <1>1 DEF Listens, Stands, LinkTypes, CallInv
<1>4. CASE pc' \in {"encode", "transmit"}
  <2>1. PICK a, b, n \in Nat, mark \in Marks, rest \in Seq(Byte) :
           LinkAt(ph, a, mark, b, rest, n)
    BY DEF LinkWith, Marks
  <2>2. Books(ph)' /\ (Pending' <=> Pending) /\ Current' = Current /\ In' = In
    BY <1>1, <1>2, <1>3, <2>1, KeepBooks DEF LinkAt, In
  <2>3. n = 0
    BY <1>3, <2>1 DEF LinkAt, ToPeer
  <2>4. Sent(0) = <<>> /\ Sent(0)' = <<>> /\ 0 <= Len(write_buf')
    <3>1. write_buf' \in Seq(Byte)
      BY EncodeByteInv, EncodeEndInv DEF LinkTypes, IOInv, TypeOK
    <3> QED BY <3>1, SentNone DEF Sent
  <2>5. ToPeer(ph, mark, n)'
    BY <1>1, <1>2, <1>3, <2>1, <2>2, <2>3, <2>4 DEF LinkAt, ToPeer
  <2>6. ToServer(ph, a, mark, b, rest)'
    BY <1>1, <1>2, <1>3, <2>1, <2>2 DEF LinkAt, ToServer
  <2>7. LinkAt(ph, a, mark, b, rest, n)'
    BY <2>1, <2>2, <2>3, <2>4, <2>5, <2>6 DEF LinkAt
  <2>8. Stands(ph)'
    BY <1>2, <1>3, <1>4 DEF Stands
  <2> QED BY <2>7, <2>8, LinkIsWith
<1>5. CASE pc' = "idle" /\ outcome' = "buffer_too_small" /\ write_buf' = write_buf
  <2>1. UNCHANGED linkVars
    BY <1>1, <1>2, <1>5 DEF linkVars
  <2>2. Stands("stops")'
    BY <1>2, <1>3, <1>5 DEF Stands
  <2> QED BY <1>3, <2>1, <2>2, StopLink
<1> QED BY <1>1, <1>4, <1>5

\* num bytes of the response go out.
LEMMA TransmitLink ==
    ASSUME LinkTypes, NoAckIsQuiet, EncodeInv, NEW ph, Stands(ph), LinkWith(ph),
           NEW num, Transmit(num) \/ SendTimeout(num), NoOneElse
    PROVE  \E next : Stands(next)' /\ LinkWith(next)'
<1>1. /\ UNCHANGED <<rx, read_buf, write_buf, no_ack>> /\ pc = "transmit"
      /\ num \in 0..Len(write_buf) /\ tx' = tx \o Sent(num)
      /\ \/ pc' = "ack" /\ ~no_ack
         \/ pc' = "idle" /\ outcome' = "sent" /\ no_ack
         \/ pc' = "idle" /\ outcome' = "timed_out"
  BY DEF Transmit, SendTimeout, Finish, encoder, Sent
<1>2. UNCHANGED <<server, response, executed, seen_breaks, peer, asked, answered,
                  breaks, no_ack>> /\ UNCHANGED bookVars
  BY <1>1, NoOneElseKeeps
<1>3. ph = "replies"
  BY <1>1 DEF Listens, Stands, LinkTypes, CallInv
<1>4. PICK a, b, n \in Nat, mark \in Marks, rest \in Seq(Byte) :
         LinkAt(ph, a, mark, b, rest, n)
  BY DEF LinkWith, Marks
<1>5. /\ ~Pending /\ peer # "ready" /\ n = 0 /\ mark = "none"
      /\ breaks > 0 \/ response = Respond(Current)
  BY <1>3, <1>4 DEF LinkAt, ToPeer, ToServer, Marks
<1>6. /\ num \in Nat /\ num <= Len(write_buf)
      /\ IsFrame(write_buf, response)
  BY <1>1, BookTypes DEF EncodeInv, WireFrames
<1>7. /\ peer = "unacked" => tx' = <<ack>> \o Sent(num)
      /\ peer # "unacked" => tx' = Sent(num)
  <2>1. Sent(num) \in Seq(Byte)
    BY <1>6, BookTypes, PrefixType DEF Sent
  <2>2. Sent(0) = <<>> /\ <<ack>> \o Sent(0) = <<ack>>
    BY SentNone
  <2>3. CASE peer = "unacked"
    BY <1>1, <1>3, <1>4, <1>5, <2>2, <2>3 DEF LinkAt, ToPeer
  <2>4. CASE peer # "unacked"
    <3>1. tx = <<>>
      BY <1>4, <1>5, <2>2, <2>4 DEF LinkAt, ToPeer
    <3> QED BY <1>1, <2>1, <2>4, <3>1, EmptyFront
  <2> QED BY <2>3, <2>4
<1>8. no_ack => a = 0
  <2>1. seen_breaks + a + b <= breaks /\ seen_breaks \in Nat
    BY <1>3, <1>4, BookTypes DEF LinkAt, ToServer
  <2> QED BY <2>1, QuietNoAck
<1>9. Sent(num)' = Sent(num) /\ In' = In
  BY <1>1 DEF Sent, In
<1>10. ASSUME NEW next, next \in {"awaits", "done", "stops"},
              next = "awaits" => ~no_ack, next = "done" => no_ack
       PROVE  LinkWith(next)'
  <2>1. Books(next)' /\ (Pending' <=> Pending) /\ Current' = Current
    BY <1>2, <1>3, <1>4, KeepBooks DEF LinkAt
  <2>2. ToPeer(next, mark, num)'
    BY <1>1, <1>2, <1>5, <1>6, <1>7, <1>9, <1>10, <2>1 DEF ToPeer
  <2>3. ToServer(next, a, mark, b, rest)'
    BY <1>1, <1>2, <1>3, <1>4, <1>5, <1>8, <1>9, <1>10, <2>1 DEF LinkAt, ToServer
  <2>4. LinkAt(next, a, mark, b, rest, num)'
    BY <1>1, <1>4, <1>6, <2>1, <2>2, <2>3 DEF LinkAt
  <2> QED BY <1>6, <2>4, LinkIsWith
<1>11. \/ Stands("awaits")' /\ ~no_ack
       \/ Stands("done")' /\ no_ack
       \/ Stands("stops")'
  BY <1>1, <1>2, <1>3 DEF Stands
<1> QED BY <1>10, <1>11

-----------------------------------------------------------------------------
(* The steps of PacketIO: reading.                                           *)

LEMMA RequestShape ==
    ASSUME NEW p \in Seq(Byte), NEW bytes, IsRequest(bytes, p)
    PROVE  \E s \in Checksums(p) :
              /\ bytes # <<>> /\ Head(bytes) = packet_begin
              /\ Tail(bytes) = RequestBytes(p) \o Trailer(s)
<1>1. PICK s \in Checksums(p) : bytes = Framed(RequestBytes(p), s)
  BY DEF IsRequest, GoodFrame, BadFrame, Checksums
<1> DEFINE body == RequestBytes(p)
           tail == Trailer(s)
           begin == <<packet_begin>>
<1>2. /\ body \in Seq(Byte) /\ tail \in Seq(Byte) /\ begin \in Seq(Byte)
      /\ packet_begin \in Byte
  BY RequestFacts, ChecksumsType, TrailerType, ControlsAreBytes
<1>3. bytes = (begin \o body) \o tail
  BY <1>1 DEF Framed
<1> HIDE DEF body, tail
<1>4. bytes = begin \o (body \o tail) /\ body \o tail \in Seq(Byte)
  BY <1>2, <1>3, TextAssoc, TextConcat
<1>5. bytes # <<>> /\ Head(bytes) = packet_begin /\ Tail(bytes) = body \o tail
  BY <1>2, <1>4, FrontOff
<1> QED BY <1>5 DEF body, tail

\* While a request is being read nothing else is on its way.
LEMMA ReadsHave ==
    ASSUME LinkTypes, LinkWith("reads")
    PROVE  /\ Pending /\ tx = <<>> /\ Decodes(In) /\ Books("reads")
           /\ LinkAt("reads", 0, "none", 0, In, 0)
<1>1. PICK a, b, n \in Nat, mark \in Marks, rest \in Seq(Byte) :
         LinkAt("reads", a, mark, b, rest, n)
  BY DEF LinkWith, Marks
<1>2. a = 0 /\ mark = "none" /\ b = 0 /\ Pending /\ tx = <<>> /\ Decodes(rest)
  BY <1>1 DEF LinkAt, ToServer
<1>3. n = 0
  BY <1>1, <1>2 DEF LinkAt, ToPeer
<1>4. In = rest
  BY <1>1, <1>2, StreamFront DEF LinkAt, ToServer, Marks
<1> QED BY <1>1, <1>2, <1>3, <1>4 DEF LinkAt

LEMMA ReadsGoOn ==
    ASSUME LinkTypes, LinkWith("reads"), UNCHANGED linkVars, In' \in Seq(Byte),
           Decodes(In)'
    PROVE  LinkWith("reads")'
<1>1. /\ Pending /\ tx = <<>> /\ Books("reads")
      /\ LinkAt("reads", 0, "none", 0, In, 0)
  BY ReadsHave
<1>2. /\ UNCHANGED <<tx, write_buf, response, peer, asked, answered, breaks,
                     executed, seen_breaks, no_ack>>
      /\ UNCHANGED bookVars
  BY DEF linkVars, bookVars
<1>3. Books("reads")' /\ (Pending' <=> Pending) /\ Current' = Current
  BY <1>1, <1>2, KeepBooks
<1>4. Sent(0)' = Sent(0)
  BY <1>2 DEF Sent
<1>5. ToPeer("reads", "none", 0)'
  BY <1>1, <1>2, <1>3, <1>4 DEF LinkAt, ToPeer
<1> DEFINE after == In'
<1>6. /\ Stream(0, "none", 0, after) = after
      /\ seen_breaks <= breaks /\ breaks \in Nat /\ seen_breaks \in Nat
  BY <1>1, BookTypes, StreamFront DEF Books, Marks
<1>7. ToServer("reads", 0, "none", 0, In)'
  BY <1>1, <1>2, <1>3, <1>6 DEF ToServer
<1>8. PICK next \in Seq(Byte) : next = In'
  OBVIOUS
<1>9. LinkAt("reads", 0, "none", 0, next, 0)'
  BY <1>1, <1>2, <1>3, <1>5, <1>7, <1>8 DEF LinkAt
<1> QED BY <1>9, LinkIsWith DEF Marks

LEMMA InitialLink ==
    ASSUME LinkTypes, NoAckIsQuiet, NEW ph, Stands(ph), LinkWith(ph),
           DecodeInitial, NoOneElse
    PROVE  \E next : Stands(next)' /\ LinkWith(next)'
<1> DEFINE c == Head(read_buf)
<1>1. /\ UNCHANGED <<rx, tx, write_buf, no_ack, checksum, csum_high>>
      /\ pc = "decode" /\ state = "initial"
      /\ c = packet_begin =>
            state' = "packet_data" /\ UNCHANGED <<pc, recv_buf>>
      /\ c = break_character => pc' = "idle" /\ outcome' = "break"
  BY DEF DecodeInitial, GotByte, IsBreak, Finish, encoder,
         packet_begin, break_character
<1>2. UNCHANGED <<server, response, executed, seen_breaks, peer, asked, answered,
                  breaks, no_ack>> /\ UNCHANGED bookVars
  BY <1>1, NoOneElseKeeps
<1>3. In # <<>> /\ c = Head(In) /\ In' = Tail(In)
  BY <1>1, InTaken DEF DecodeInitial
<1> HIDE DEF c
<1>4. ph = "listens" /\ server = "receiving" /\ recv_buf = <<>> /\ checksum = 0
  BY <1>1 DEF Listens, Stands, LinkTypes, CallInv
<1>5. PICK a, b, n \in Nat, mark \in Marks, rest \in Seq(Byte) :
         LinkAt(ph, a, mark, b, rest, n)
  BY DEF LinkWith, Marks
<1>6. /\ In = Stream(a, "none", 0, rest) /\ mark = "none" /\ b = 0
      /\ rest # <<>> => Pending
      /\ Pending => /\ a = 0
                    /\ rest # <<>> => IsRequest(rest, Current) /\ tx = <<>>
  BY <1>4, <1>5 DEF LinkAt, ToServer
<1>7. /\ seen_breaks + a <= breaks /\ (a > 0 => peer = "running")
      /\ breaks \in Nat /\ seen_breaks \in Nat
  <2>1. breaks \in Nat /\ seen_breaks \in Nat
    BY BookTypes
  <2> QED BY <1>4, <1>5, <1>6, <2>1 DEF LinkAt, ToServer
<1>8. ASSUME NEW next, next # "holds"
      PROVE  Books(next)' /\ (Pending' <=> Pending) /\ Current' = Current
  BY <1>1, <1>2, <1>4, <1>5, KeepBooks DEF LinkAt
<1>9. Sent(0)' = Sent(0)
  BY <1>1 DEF Sent
<1>10. CASE a > 0
  <2>1. /\ c = break_character /\ In' = Stream(a - 1, "none", 0, rest)
        /\ a - 1 \in Nat
    BY <1>3, <1>6, <1>10, StreamBreak, SMTT(20) DEF Marks
  <2>2. Stands("breaks")'
    BY <1>1, <1>2, <1>4, <2>1 DEF Stands
  <2>3. ~Pending /\ ~no_ack /\ rest = <<>>
    BY <1>6, <1>7, <1>10, QuietNoAck
  <2>4. n = 0
    BY <1>4, <1>5, <2>3 DEF LinkAt, ToPeer
  <2>5. ToPeer("breaks", "none", 0)'
    BY <1>1, <1>2, <1>4, <1>5, <1>8, <1>9, <2>3, <2>4 DEF LinkAt, ToPeer
  <2>6. ToServer("breaks", a - 1, "none", 0, rest)'
    <3>1. ~Pending' /\ peer' = "running" /\ seen_breaks' + (a - 1) + 0 + 1 <= breaks'
      <4>1. ~Pending'
        BY <1>8, <2>3
      <4>2. peer' = "running" /\ breaks' = breaks /\ seen_breaks' = seen_breaks
        BY <1>2, <1>7, <1>10
      <4> QED BY <1>7, <4>1, <4>2
    <3> QED BY <2>1, <2>3, <3>1 DEF ToServer
  <2>7. LinkAt("breaks", a - 1, "none", 0, rest, 0)'
    BY <1>1, <1>5, <1>8, <2>4, <2>5, <2>6 DEF LinkAt
  <2> QED BY <2>1, <2>2, <2>7, LinkIsWith DEF Marks
<1>11. CASE a = 0
  <2>1. In = rest /\ Pending /\ IsRequest(rest, Current) /\ tx = <<>>
    BY <1>3, <1>6, <1>11, StreamFront DEF Marks
  <2>2. Current \in Seq(Byte)
    BY <1>5, <2>1, CurrentType DEF LinkAt
  <2>3. PICK s \in Checksums(Current) :
           Head(rest) = packet_begin /\ Tail(rest) = RequestBytes(Current) \o Trailer(s)
    BY <2>1, <2>2, RequestShape
  <2>4. Stands("reads")'
    BY <1>1, <1>2, <1>3, <1>4, <2>1, <2>3 DEF Stands
  <2>5. /\ Reads(Current, s, RequestBytes(Current) \o Trailer(s))'
        /\ In' = RequestBytes(Current) \o Trailer(s)
    <3>1. /\ recv_buf' = <<>> /\ checksum' = 0 /\ state' = "packet_data"
          /\ Current' = Current
      BY <1>1, <1>3, <1>4, <1>8, <2>1, <2>3
    <3>2. Current = <<>> \o Current /\ 0 = Sum(RequestBytes(<<>>))
      BY <2>2, EmptyFront, SumFacts, RequestFacts
    <3>3. In' = RequestBytes(Current) \o Trailer(s)
      BY <1>3, <2>1, <2>3
    <3> QED BY <3>1, <3>2, <3>3 DEF Reads
  <2>6. Decodes(In)' /\ In' \in Seq(Byte)
    <3>1. Current' = Current
      BY <1>8
    <3>2. In' \in Seq(Byte)
      BY <2>2, <2>5, RequestFacts, ChecksumsType, TrailerType, TextConcat
    <3> QED BY <2>2, <2>5, <3>1, <3>2 DEF Decodes
  <2>7. n = 0
    BY <1>4, <1>5, <2>1 DEF LinkAt, ToPeer
  <2>8. ToPeer("reads", "none", 0)'
    BY <1>1, <1>2, <1>4, <1>5, <1>8, <1>9, <2>1, <2>7 DEF LinkAt, ToPeer
  <2>9. PICK next \in Seq(Byte) : next = In'
    BY <2>6
  <2>10. Stream(0, "none", 0, next) = next
    BY <2>9, StreamFront DEF Marks
  <2>11. ToServer("reads", 0, "none", 0, next)'
    <3>1. Pending' /\ tx' = <<>> /\ seen_breaks' + 0 + 0 + 0 <= breaks'
      <4>1. Pending'
        BY <1>8, <2>1
      <4>2. tx' = tx /\ breaks' = breaks /\ seen_breaks' = seen_breaks
        BY <1>1, <1>2
      <4> QED BY <1>7, <1>11, <2>1, <4>1, <4>2
    <3> QED BY <2>6, <2>9, <2>10, <3>1 DEF ToServer
  <2>12. LinkAt("reads", 0, "none", 0, next, 0)'
    BY <1>1, <1>5, <1>8, <2>7, <2>8, <2>11 DEF LinkAt
  <2> QED BY <2>4, <2>12, LinkIsWith DEF Marks
<1> QED BY <1>10, <1>11

\* One byte of what the server looks at while it waits for an answer.
LEMMA AwaitLink ==
    ASSUME LinkTypes, NEW ph, Stands(ph), LinkWith(ph), AwaitAck, NoOneElse
    PROVE  \E next : Stands(next)' /\ LinkWith(next)'
<1> DEFINE c == Head(read_buf)
<1>1. /\ UNCHANGED <<rx, tx, write_buf, no_ack>> /\ pc = "ack"
      /\ \/ c = break_character /\ pc' = pc
         \/ c = ack /\ pc' = "idle" /\ outcome' = "sent"
         \/ c = ack_err /\ pc' = "transmit"
         \/ c \notin {break_character, ack, ack_err} /\ pc' = pc
  BY DEF AwaitAck, GotByte, IsAck, Finish
<1>2. UNCHANGED <<server, response, executed, seen_breaks, peer, asked, answered,
                  breaks, no_ack>> /\ UNCHANGED bookVars
  BY <1>1, NoOneElseKeeps
<1>3. In # <<>> /\ c = Head(In) /\ In' = Tail(In)
  BY <1>1, InTaken DEF AwaitAck
<1> HIDE DEF c
<1>4. ph = "awaits" /\ server = "sending"
  BY <1>1 DEF Listens, Stands, LinkTypes, CallInv
<1>5. PICK a, b, n \in Nat, mark \in Marks, rest \in Seq(Byte) :
         LinkAt(ph, a, mark, b, rest, n)
  BY DEF LinkWith, Marks
<1>6. /\ In = Stream(a, mark, b, rest) /\ ~no_ack
      /\ mark # "ack" => ~Pending /\ peer # "ready" /\ rest = <<>>
      /\ mark # "none" => n = 0
      /\ mark # "nak" => b = 0
      /\ seen_breaks + a + b <= breaks
      /\ breaks \in Nat /\ seen_breaks \in Nat
  <2>1. breaks \in Nat /\ seen_breaks \in Nat
    BY BookTypes
  <2>2. In = Stream(a, mark, b, rest) /\ ~no_ack /\ seen_breaks + a + b <= breaks
    BY <1>4, <1>5, <2>1 DEF LinkAt, ToServer
  <2>3. mark # "ack" => ~Pending /\ peer # "ready" /\ rest = <<>>
    BY <1>4, <1>5 DEF LinkAt, ToServer
  <2>4. (mark # "none" => n = 0) /\ (mark # "nak" => b = 0)
    BY <1>4, <1>5 DEF LinkAt, ToPeer
  <2> QED BY <2>1, <2>2, <2>3, <2>4
<1>7. /\ Books("awaits")' /\ Books("done")' /\ Books("replies")'
      /\ (Pending' <=> Pending) /\ Current' = Current /\ Sent(n)' = Sent(n)
  BY <1>1, <1>2, <1>4, <1>5, KeepBooks DEF LinkAt, Sent
<1>8. break_character # ack /\ break_character # ack_err /\ ack # ack_err
  BY DEF break_character, ack, ack_err
<1>9. CASE a > 0
  <2>1. c = break_character /\ In' = Stream(a - 1, mark, b, rest) /\ a - 1 \in Nat
    BY ONLY <1>3, <1>6, <1>9, StreamBreak
  <2>2. Stands("awaits")'
    BY <1>1, <1>2, <1>4, <1>8, <2>1 DEF Stands
  <2>3. ToPeer("awaits", mark, n)'
    BY <1>1, <1>2, <1>4, <1>5, <1>7 DEF LinkAt, ToPeer
  <2>4. ToServer("awaits", a - 1, mark, b, rest)'
    BY <1>1, <1>2, <1>4, <1>5, <1>6, <1>7, <2>1 DEF LinkAt, ToServer
  <2>5. LinkAt("awaits", a - 1, mark, b, rest, n)'
    BY <1>1, <1>5, <1>7, <2>3, <2>4 DEF LinkAt
  <2> QED BY <2>1, <2>2, <2>5, LinkIsWith
<1>10. CASE a = 0 /\ mark = "none"
  BY <1>3, <1>6, <1>10, StreamFront
<1>11. CASE a = 0 /\ mark = "ack"
  <2>1. c = ack /\ In' = Stream(0, "none", 0, rest)
    BY <1>3, <1>6, <1>11, StreamAck
  <2>2. Stands("done")'
    BY <1>1, <1>2, <1>4, <1>8, <2>1 DEF Stands
  <2>3. ToPeer("done", "none", 0)'
    BY <1>1, <1>2, <1>4, <1>5, <1>6, <1>7, <1>11 DEF LinkAt, ToPeer
  <2>4. ToServer("done", 0, "none", 0, rest)'
    BY <1>1, <1>2, <1>4, <1>5, <1>6, <1>7, <1>11, <2>1 DEF LinkAt, ToServer
  <2>5. LinkAt("done", 0, "none", 0, rest, 0)'
    BY <1>1, <1>5, <1>6, <1>7, <1>11, <2>3, <2>4 DEF LinkAt
  <2> QED BY <2>2, <2>5, LinkIsWith DEF Marks
<1>12. CASE a = 0 /\ mark = "nak"
  <2>1. c = ack_err /\ In' = Stream(b, "none", 0, <<>>)
    BY <1>3, <1>6, <1>12, StreamNak
  <2>2. Stands("replies")'
    BY <1>1, <1>2, <1>4, <1>8, <2>1 DEF Stands
  <2>3. ToPeer("replies", "none", 0)'
    BY <1>1, <1>2, <1>4, <1>5, <1>6, <1>7, <1>12 DEF LinkAt, ToPeer
  <2>4. ToServer("replies", b, "none", 0, <<>>)'
    BY <1>1, <1>2, <1>4, <1>5, <1>6, <1>7, <1>12, <2>1 DEF LinkAt, ToServer
  <2>5. LinkAt("replies", b, "none", 0, <<>>, 0)'
    BY <1>1, <1>5, <1>6, <1>7, <1>12, <2>3, <2>4 DEF LinkAt
  <2>6. <<>> \in Seq(Byte)
    OBVIOUS
  <2> QED BY <2>2, <2>5, <2>6, LinkIsWith DEF Marks
<1> QED BY <1>9, <1>10, <1>11, <1>12 DEF Marks

\* The byte h of the request has been read.
LEMMA StoreLink ==
    ASSUME LinkTypes, LinkWith("reads"), NoOneElse, server = "receiving",
           pc = "decode", UNCHANGED <<tx, write_buf, no_ack>>,
           NEW h \in Byte, StorePayload(h),
           NEW todo \in Seq(Byte), NEW s \in Checksums(Current),
           Current = Append(recv_buf, h) \o todo,
           checksum' = Sum(RequestBytes(Append(recv_buf, h))),
           In' = RequestBytes(todo) \o Trailer(s)
    PROVE  \E next : Stands(next)' /\ LinkWith(next)'
<1>1. UNCHANGED <<server, response, executed, seen_breaks, peer, asked, answered,
                  breaks, no_ack>> /\ UNCHANGED bookVars
  BY NoOneElseKeeps
<1>2. UNCHANGED linkVars /\ Current' = Current
  BY <1>1, SamePending DEF linkVars
<1>3. CASE recv_buf' = Append(recv_buf, h) /\ state' = "packet_data"
           /\ UNCHANGED <<pc, outcome>>
  <2>1. Reads(todo, s, In)'
    BY <1>2, <1>3 DEF Reads
  <2>2. Decodes(In)'
    BY <1>2, <2>1 DEF Decodes
  <2>3. In' \in Seq(Byte)
    <3>1. Current \in Seq(Byte)
      BY CurrentType, ReadsHave
    <3>2. s \in Byte
      BY <3>1, ChecksumsType
    <3> QED BY <3>2, RequestFacts, TrailerType, TextConcat
  <2>4. LinkWith("reads")'
    BY <1>2, <2>2, <2>3, ReadsGoOn
  <2>5. Stands("reads")'
    BY <1>1, <1>3 DEF Stands
  <2> QED BY <2>4, <2>5
<1>4. CASE pc' = "idle" /\ outcome' = "buffer_too_small"
  <2>1. Stands("stops")'
    BY <1>1, <1>4 DEF Stands
  <2>2. LinkWith("stops")'
    BY <1>2, StopLink
  <2> QED BY <2>1, <2>2
<1> QED BY <1>3, <1>4 DEF StorePayload, Finish

\* What receive_packet sees next in the middle of a request.
LEMMA NextOfRequest ==
    ASSUME NEW todo \in Seq(Byte), NEW s \in Byte
    PROVE  LET bytes == RequestBytes(todo) \o Trailer(s)
               h     == Head(todo)
               rest  == RequestBytes(Tail(todo)) \o Trailer(s)
           IN  /\ rest \in Seq(Byte) \/ todo = <<>>
               /\ todo = <<>> => /\ Head(bytes) = packet_end
                                 /\ Tail(bytes) = Tail(Trailer(s))
               /\ todo # <<>> /\ must_escape_request(h) =>
                     /\ Head(bytes) = escape
                     /\ Tail(bytes) = <<code_escape_char(h)>> \o rest
               /\ todo # <<>> /\ ~must_escape_request(h) =>
                     /\ Head(bytes) = h
                     /\ Tail(bytes) = rest
<1> DEFINE tail == Trailer(s)
           h    == Head(todo)
           e    == code_escape_char(h)
           body == RequestBytes(Tail(todo))
<1>1. /\ tail \in Seq(Byte) /\ Head(tail) = packet_end
  BY TrailerParts
<1>2. CASE todo = <<>>
  <2>1. RequestBytes(todo) \o tail = tail
    BY <1>1, <1>2, RequestFacts, EmptyFront
  <2> QED BY <1>1, <1>2, <2>1
<1>3. CASE todo # <<>>
  <2>1. /\ Tail(todo) \in Seq(Byte) /\ h \in Byte
        /\ RequestBytes(todo) = RequestByte(h) \o body
    BY <1>3, RequestHead
  <2>2. body \in Seq(Byte) /\ RequestByte(h) \in Seq(Byte) /\ e \in Byte
        /\ <<e>> \in Seq(Byte) /\ escape \in Byte /\ <<escape>> \in Seq(Byte)
    <3>1. body \in Seq(Byte) /\ RequestByte(h) \in Seq(Byte)
      BY <2>1, RequestFacts, RequestByteType
    <3>2. e \in Byte /\ escape \in Byte
      BY <2>1, EscapeInvolution, ControlsAreBytes
    <3> QED BY <3>1, <3>2
  <2>3. /\ must_escape_request(h) => RequestByte(h) = <<escape, e>>
        /\ ~must_escape_request(h) => RequestByte(h) = <<h>>
    BY DEF RequestByte
  <2>4. <<escape, e>> = <<escape>> \o <<e>>
    BY <2>2
  <2> HIDE DEF tail, h, e, body
  <2>5. (RequestByte(h) \o body) \o tail = RequestByte(h) \o (body \o tail)
        /\ body \o tail \in Seq(Byte)
    BY <1>1, <2>2, TextAssoc, TextConcat, SMTT(20)
  <2>6. (<<escape>> \o <<e>>) \o (body \o tail)
            = <<escape>> \o (<<e>> \o (body \o tail))
        /\ <<e>> \o (body \o tail) \in Seq(Byte)
    BY <2>2, <2>5, TextAssoc, TextConcat, SMTT(20)
  <2>7. CASE must_escape_request(h)
    <3>1. RequestBytes(todo) \o tail = <<escape>> \o (<<e>> \o (body \o tail))
      BY <2>1, <2>3, <2>4, <2>5, <2>6, <2>7
    <3>2. /\ Head(RequestBytes(todo) \o tail) = escape
          /\ Tail(RequestBytes(todo) \o tail) = <<e>> \o (body \o tail)
      BY ONLY <2>2, <2>6, <3>1, FrontOff
    <3> QED BY <1>3, <2>5, <2>7, <3>2 DEF tail, h, e, body
  <2>8. CASE ~must_escape_request(h)
    <3>1. RequestBytes(todo) \o tail = <<h>> \o (body \o tail)
      BY <2>1, <2>3, <2>5, <2>8
    <3>2. /\ Head(RequestBytes(todo) \o tail) = h
          /\ Tail(RequestBytes(todo) \o tail) = body \o tail
      BY <2>1, <2>5, <3>1, FrontOff, ZenonT(30)
    <3> QED BY <1>3, <2>5, <2>8, <3>2 DEF tail, h, e, body
  <2> QED BY <2>7, <2>8
<1> QED BY <1>2, <1>3

LEMMA HeadMoves ==
    ASSUME NEW r \in Seq(Byte), NEW todo \in Seq(Byte), todo # <<>>
    PROVE  /\ Head(todo) \in Byte /\ Tail(todo) \in Seq(Byte)
           /\ r \o todo = Append(r, Head(todo)) \o Tail(todo)
<1> DEFINE h == Head(todo)
           t == Tail(todo)
<1>1. h \in Byte /\ t \in Seq(Byte) /\ todo = <<h>> \o t /\ <<h>> \in Seq(Byte)
  OBVIOUS
<1> HIDE DEF h, t
<1>2. r \o (<<h>> \o t) = Append(r, h) \o t
  <2>1. ThreeTexts(r, <<h>>, t)
    BY <1>1 DEF ThreeTexts
  <2>2. (r \o <<h>>) \o t = r \o (<<h>> \o t)
    BY ONLY <2>1, ThreeAssoc
  <2>3. Append(r, h) = r \o <<h>>
    BY <1>1, AtBack
  <2> QED BY ONLY <2>2, <2>3
<1> QED BY <1>1, <1>2 DEF h, t

LEMMA DataLink ==
    ASSUME LinkTypes, NEW ph, Stands(ph), LinkWith(ph), DecodeData, NoOneElse
    PROVE  \E next : Stands(next)' /\ LinkWith(next)'
<1> DEFINE c == Head(read_buf)
<1>1. /\ UNCHANGED <<rx, tx, write_buf, no_ack>>
      /\ pc = "decode" /\ state = "packet_data"
      /\ \/ c = packet_end /\ state' = "check_hi"
            /\ UNCHANGED <<pc, outcome, checksum, recv_buf>>
         \/ c = escape /\ state' = "escaped"
            /\ checksum' = (checksum + escape) % 256
            /\ UNCHANGED <<pc, outcome, recv_buf>>
         \/ c \notin {packet_end, escape} /\ checksum' = (checksum + c) % 256
            /\ StorePayload(c)
  BY DEF DecodeData, GotByte, encoder
<1>2. UNCHANGED <<server, response, executed, seen_breaks, peer, asked, answered,
                  breaks, no_ack>> /\ UNCHANGED bookVars
  BY <1>1, NoOneElseKeeps
<1>3. In # <<>> /\ c = Head(In) /\ In' = Tail(In) /\ In \in Seq(Byte)
  BY <1>1, InTaken, InType DEF DecodeData
<1>4. In' \in Seq(Byte)
  BY <1>3
<1> HIDE DEF c
<1>5. ph = "reads" /\ server = "receiving"
  BY <1>1 DEF Listens, Stands, LinkTypes, CallInv
<1>6. Decodes(In) /\ Pending /\ Books("reads")
  BY <1>5, ReadsHave
<1>7. PICK todo \in Seq(Byte), s \in Checksums(Current) : Reads(todo, s, In)
  BY <1>6 DEF Decodes
<1>8. /\ Current = recv_buf \o todo /\ checksum = Sum(RequestBytes(recv_buf))
      /\ In = RequestBytes(todo) \o Trailer(s)
  BY <1>1, <1>7 DEF Reads
<1>9. s \in Byte /\ recv_buf \in Seq(Byte)
  BY <1>7, ReadsFacts, BookTypes
<1>10. UNCHANGED linkVars /\ Current' = Current
  BY <1>1, <1>2, SamePending DEF linkVars
<1>11. ASSUME Decodes(In)', pc' = "decode", state' # "initial"
       PROVE  Stands("reads")' /\ LinkWith("reads")'
  BY <1>2, <1>4, <1>5, <1>10, <1>11, ReadsGoOn DEF Stands
<1>12. packet_end # escape
  BY DEF packet_end, escape
<1>13. CASE todo = <<>>
  <2>1. c = packet_end /\ In' = Tail(Trailer(s))
    BY <1>3, <1>8, <1>9, <1>13, NextOfRequest
  <2>2. state' = "check_hi" /\ pc' = pc /\ UNCHANGED <<checksum, recv_buf>>
    BY <1>1, <1>12, <2>1
  <2>3. Reads(todo, s, In)'
    BY <1>8, <1>10, <1>13, <2>1, <2>2 DEF Reads
  <2>4. Decodes(In)'
    BY <1>10, <2>3 DEF Decodes
  <2> QED BY <1>1, <1>11, <2>2, <2>4
<1> DEFINE h == Head(todo)
<1>14. CASE todo # <<>> /\ must_escape_request(h)
  <2>1. /\ c = escape
        /\ In' = <<code_escape_char(h)>> \o (RequestBytes(Tail(todo)) \o Trailer(s))
    BY <1>3, <1>8, <1>9, <1>14, NextOfRequest
  <2>2. /\ state' = "escaped" /\ pc' = pc /\ recv_buf' = recv_buf
        /\ checksum' = (checksum + escape) % 256
    BY <1>1, <1>12, <2>1
  <2>3. Reads(todo, s, In)'
    BY <1>8, <1>10, <1>14, <2>1, <2>2 DEF Reads
  <2>4. Decodes(In)'
    BY <1>10, <2>3 DEF Decodes
  <2> QED BY <1>1, <1>11, <2>2, <2>4
<1>15. CASE todo # <<>> /\ ~must_escape_request(h)
  <2>1. c = h /\ In' = RequestBytes(Tail(todo)) \o Trailer(s)
    BY <1>3, <1>8, <1>9, <1>15, NextOfRequest
  <2>2. h \notin {packet_end, escape}
    BY <1>15 DEF must_escape_request
  <2>3. StorePayload(h) /\ checksum' = (checksum + h) % 256
    BY <1>1, <2>1, <2>2
  <2>4. /\ h \in Byte /\ Tail(todo) \in Seq(Byte)
        /\ Current = Append(recv_buf, h) \o Tail(todo)
    BY <1>8, <1>9, <1>15, HeadMoves
  <2>5. checksum' = Sum(RequestBytes(Append(recv_buf, h)))
    BY <1>8, <1>9, <1>15, <2>3, <2>4, RequestSum
  <2> HIDE DEF h
  <2> QED BY <1>1, <1>5, <2>1, <2>3, <2>4, <2>5, StoreLink
<1> QED BY <1>13, <1>14, <1>15

LEMMA EscapedLink ==
    ASSUME LinkTypes, NEW ph, Stands(ph), LinkWith(ph), DecodeEscaped, NoOneElse
    PROVE  \E next : Stands(next)' /\ LinkWith(next)'
<1> DEFINE c == Head(read_buf)
<1>1. /\ UNCHANGED <<rx, tx, write_buf, no_ack>>
      /\ pc = "decode" /\ state = "escaped"
      /\ checksum' = (checksum + c) % 256 /\ StorePayload(code_escape_char(c))
  BY DEF DecodeEscaped, GotByte, encoder
<1>2. In # <<>> /\ c = Head(In) /\ In' = Tail(In)
  BY <1>1, InTaken DEF DecodeEscaped
<1> HIDE DEF c
<1>3. ph = "reads" /\ server = "receiving"
  BY <1>1 DEF Listens, Stands, LinkTypes, CallInv
<1>4. Decodes(In)
  BY <1>3, ReadsHave
<1>5. PICK todo \in Seq(Byte), s \in Checksums(Current) : Reads(todo, s, In)
  BY <1>4 DEF Decodes
<1> DEFINE h == Head(todo)
           rest == RequestBytes(Tail(todo)) \o Trailer(s)
<1>6. /\ Current = recv_buf \o todo /\ todo # <<>> /\ must_escape_request(h)
      /\ checksum = (Sum(RequestBytes(recv_buf)) + escape) % 256
      /\ In = <<code_escape_char(h)>> \o rest
  BY <1>1, <1>5 DEF Reads
<1>7. s \in Byte /\ recv_buf \in Seq(Byte)
  BY <1>5, ReadsFacts, BookTypes
<1>8. /\ h \in Byte /\ Tail(todo) \in Seq(Byte)
      /\ Current = Append(recv_buf, h) \o Tail(todo)
  BY <1>6, <1>7, HeadMoves
<1>9. rest \in Seq(Byte)
  BY <1>6, <1>7, NextOfRequest
<1>10. code_escape_char(h) \in Byte /\ code_escape_char(code_escape_char(h)) = h
  BY <1>8, EscapeInvolution
<1> HIDE DEF h, rest
<1>11. c = code_escape_char(h) /\ In' = rest
  BY <1>2, <1>6, <1>9, <1>10, FrontOff
<1>12. StorePayload(h)
  BY <1>1, <1>10, <1>11
<1>13. checksum' = Sum(RequestBytes(Append(recv_buf, h)))
  BY <1>1, <1>6, <1>7, <1>8, <1>11, RequestSum
<1>14. In' = RequestBytes(Tail(todo)) \o Trailer(s)
  BY <1>11 DEF rest
<1> QED BY <1>1, <1>3, <1>8, <1>12, <1>13, <1>14, StoreLink

LEMMA CheckHiLink ==
    ASSUME LinkTypes, NEW ph, Stands(ph), LinkWith(ph), DecodeCheckHi, NoOneElse
    PROVE  \E next : Stands(next)' /\ LinkWith(next)'
<1>1. /\ UNCHANGED <<rx, tx, pc, write_buf, no_ack, checksum, recv_buf>>
      /\ pc = "decode" /\ state = "check_hi" /\ state' = "check_lo"
      /\ csum_high' = decode_hex(Head(read_buf))
  BY DEF DecodeCheckHi, GotByte, encoder
<1>2. UNCHANGED <<server, response, executed, seen_breaks, peer, asked, answered,
                  breaks, no_ack>> /\ UNCHANGED bookVars
  BY <1>1, NoOneElseKeeps
<1>3. /\ In # <<>> /\ Head(read_buf) = Head(In) /\ In' = Tail(In)
      /\ In \in Seq(Byte)
  BY <1>1, InTaken, InType DEF DecodeCheckHi
<1>4. ph = "reads" /\ server = "receiving"
  BY <1>1 DEF Listens, Stands, LinkTypes, CallInv
<1>5. Decodes(In)
  BY <1>4, ReadsHave
<1>6. PICK todo \in Seq(Byte), s \in Checksums(Current) : Reads(todo, s, In)
  BY <1>5 DEF Decodes
<1>7. /\ Current = recv_buf \o todo /\ todo = <<>>
      /\ checksum = Sum(RequestBytes(recv_buf))
      /\ In = Tail(Trailer(s))
  BY <1>1, <1>6 DEF Reads
<1>8. s \in Byte
  BY <1>6, ReadsFacts
<1>9. Head(In) = Trailer(s)[2] /\ In' = Tail(Tail(Trailer(s)))
  BY <1>3, <1>7, <1>8, TrailerParts
<1>10. UNCHANGED linkVars /\ Current' = Current
  BY <1>1, <1>2, SamePending DEF linkVars
<1>11. Reads(todo, s, In)'
  BY <1>1, <1>3, <1>7, <1>9, <1>10 DEF Reads
<1>12. Decodes(In)' /\ In' \in Seq(Byte)
  BY <1>3, <1>10, <1>11 DEF Decodes
<1>13. Stands("reads")'
  BY <1>1, <1>2, <1>4 DEF Stands
<1> QED BY <1>4, <1>10, <1>12, <1>13, ReadsGoOn

LEMMA CheckLoLink ==
    ASSUME LinkTypes, NEW ph, Stands(ph), LinkWith(ph), DecodeCheckLo, NoOneElse
    PROVE  \E next : Stands(next)' /\ LinkWith(next)'
<1>1. /\ UNCHANGED <<rx, write_buf, no_ack>>
      /\ pc = "decode" /\ state = "check_lo"
      /\ \/ /\ pc' = "idle" /\ outcome' = "packet" /\ recv_buf' = recv_buf
            /\ IF no_ack THEN tx' = tx ELSE tx' = Append(tx, ack)
         \/ /\ pc' = "decode" /\ state' = "initial" /\ ~no_ack
            /\ tx' = Append(tx, ack_err)
  BY DEF DecodeCheckLo, GotByte, Finish, ResetDecoder, encoder
<1>2. UNCHANGED <<server, response, executed, seen_breaks, peer, asked, answered,
                  breaks, no_ack>> /\ UNCHANGED bookVars
  BY <1>1, NoOneElseKeeps
<1>3. In # <<>> /\ In' = Tail(In)
  BY <1>1, InTaken DEF DecodeCheckLo
<1>4. ph = "reads" /\ server = "receiving"
  BY <1>1 DEF Listens, Stands, LinkTypes, CallInv
<1>5. Decodes(In) /\ Pending /\ tx = <<>> /\ Books("reads")
  BY <1>4, ReadsHave
<1>6. PICK todo \in Seq(Byte), s \in Checksums(Current) : Reads(todo, s, In)
  BY <1>5 DEF Decodes
<1>7. Current = recv_buf \o <<>> /\ In = Tail(Tail(Trailer(s)))
  BY <1>1, <1>6 DEF Reads
<1>8. In' = <<>> /\ recv_buf = Current
  <2>1. s \in Byte /\ recv_buf \in Seq(Byte)
    BY <1>6, ReadsFacts, BookTypes
  <2>2. In = <<Trailer(s)[3]>> /\ Trailer(s)[3] \in Byte
    BY <1>7, <2>1, TrailerParts
  <2>3. In' = <<>>
    BY <1>3, <2>2
  <2>4. recv_buf \o <<>> = recv_buf
    BY <2>1, EmptyFront
  <2> QED BY <1>7, <2>3, <2>4
<1>9. ASSUME NEW next PROVE Books(next)' /\ Pending' /\ Current' = Current
  <2>1. (Pending' <=> Pending) /\ Current' = Current
    BY <1>2, SamePending
  <2> QED BY <1>2, <1>5, <2>1 DEF Books
<1>10. Sent(0) = <<>> /\ Sent(0)' = <<>> /\ <<ack>> \o Sent(0) = <<ack>>
  BY <1>1, SentNone DEF Sent
<1>11. /\ <<>> \in Seq(Byte) /\ Stream(0, "none", 0, <<>>) = <<>>
       /\ 0 <= Len(write_buf') /\ seen_breaks' + 0 + 0 + 0 <= breaks'
  <2>1. <<>> \in Seq(Byte) /\ seen_breaks <= breaks /\ 0 <= Len(write_buf)
    BY <1>5, BookTypes DEF Books
  <2>2. Stream(0, "none", 0, <<>>) = <<>>
    BY <2>1, StreamFront, ZenonT(30) DEF Marks
  <2> QED BY <1>1, <1>2, <2>1, <2>2, BookTypes
<1>12. /\ ~no_ack => peer = "unacked"
       /\ no_ack => peer # "unacked"
  BY <1>5 DEF Books
<1>13. CASE pc' = "idle"
  <2>1. outcome' = "packet" /\ recv_buf' = Current'
        /\ IF no_ack THEN tx' = <<>> ELSE tx' = <<ack>>
    BY <1>1, <1>5, <1>8, <1>9, <1>13
  <2>2. ToPeer("holds", "none", 0)'
    <3>1. /\ peer' = "unacked" => tx' = <<ack>> \o Sent(0)'
          /\ peer' # "unacked" => tx' = Sent(0)'
      BY <1>2, <1>10, <1>12, <2>1
    <3> QED BY <3>1 DEF ToPeer
  <2>3. ToServer("holds", 0, "none", 0, <<>>)'
    BY <1>8, <1>9, <1>11, <2>1 DEF ToServer
  <2>4. LinkAt("holds", 0, "none", 0, <<>>, 0)'
    BY <1>9, <1>11, <2>2, <2>3 DEF LinkAt
  <2>5. Stands("holds")'
    BY <1>2, <1>4, <1>13, <2>1 DEF Stands
  <2> QED BY <1>11, <2>4, <2>5, LinkIsWith DEF Marks
<1>14. CASE pc' = "decode"
  <2>1. state' = "initial" /\ tx' = <<ack_err>> /\ ~no_ack
    BY <1>1, <1>5, <1>14
  <2>2. ToPeer("listens", "none", 0)'
    BY <1>2, <1>9, <1>12, <2>1 DEF ToPeer
  <2>3. ToServer("listens", 0, "none", 0, <<>>)'
    BY <1>8, <1>9, <1>11, <2>1 DEF ToServer
  <2>4. LinkAt("listens", 0, "none", 0, <<>>, 0)'
    BY <1>9, <1>11, <2>2, <2>3 DEF LinkAt
  <2>5. Stands("listens")'
    BY <1>2, <1>4, <1>14, <2>1 DEF Listens, Stands
  <2> QED BY <1>11, <2>4, <2>5, LinkIsWith DEF Marks
<1> QED BY <1>1, <1>13, <1>14

-----------------------------------------------------------------------------
(* The steps of the peer.                                                    *)

LEMMA PeerKeeps ==
    ASSUME IOElse, NEW ph, Stands(ph)
    PROVE  /\ UNCHANGED <<read_buf, write_buf, no_ack, response, executed,
                          seen_breaks, recv_buf, state, checksum, csum_high>>
           /\ Stands(ph)' /\ \A k \in Nat : Sent(k)' = Sent(k)
BY DEF IOElse, callVars, decoder, encoder, Listens, Stands, Sent

LEMMA PutIsRequest ==
    ASSUME LinkTypes, NEW payload \in Seq(Byte), PutRequest(payload),
           read_buf' = read_buf
    PROVE  \E frame \in Seq(Byte) : /\ IsRequest(frame, payload)
                                    /\ In' = In \o frame
<1>1. PICK frame \in {GoodFrame(payload), BadFrame(payload)} : rx' = rx \o frame
  BY DEF PutRequest
<1>2. frame \in Seq(Byte)
  BY FrameTypes
<1> QED BY <1>1, <1>2, InPut DEF IsRequest

LEMMA AskedMore ==
    ASSUME LinkTypes, peer = "ready", NEW ph, Books(ph), NEW r \in Requests,
           asked' = Append(asked, r), NEW next, next # "holds",
           peer' # "ready", no_ack => peer' # "unacked",
           peer' # "unacked" => no_ack,
           UNCHANGED <<answered, breaks, executed, seen_breaks, no_ack>>
    PROVE  Books(next)' /\ ~Pending /\ Pending' /\ Current' = r
<1>1. /\ asked \in Seq(Requests) /\ executed \in Seq(Seq(Byte))
      /\ answered \in Seq(Seq(Byte))
      /\ executed = SubSeq(asked, 1, Len(executed)) /\ ~Pending
      /\ Len(answered) = Len(asked)
  BY BookTypes DEF Books
<1>2. Len(executed) = Len(asked) /\ Len(asked') = Len(asked) + 1
  BY <1>1 DEF Pending
<1>3. /\ Pending' /\ Current' = r
      /\ Len(executed') \in {Len(asked'), Len(asked') - 1}
      /\ Len(answered') = Len(asked') - 1
  BY <1>1, <1>2 DEF Pending, Current
<1>4. executed' = SubSeq(asked', 1, Len(executed'))
  <2>1. SubSeq(Append(asked, r), 1, Len(asked)) = SubSeq(asked, 1, Len(asked))
    BY <1>1
  <2> QED BY <1>1, <1>2, <2>1
<1>5. breaks' = 0 =>
         \A i \in 1..Len(answered') : answered'[i] = Respond(asked'[i])
  <2>1. \A i \in 1..Len(answered) : asked'[i] = asked[i]
    BY <1>1
  <2> QED BY <2>1 DEF Books
<1> QED BY <1>1, <1>3, <1>4, <1>5 DEF Books

LEMMA AskLink ==
    ASSUME LinkTypes, NEW ph, Stands(ph), LinkWith(ph), PeerAsk
    PROVE  Stands(ph)' /\ LinkWith(ph)'
<1>1. /\ peer = "ready" /\ IOElse
      /\ UNCHANGED <<tx, answered, breaks>>
      /\ \E r \in Requests : /\ asked' = Append(asked, r)
                             /\ PutRequest(r)
                             /\ peer' = IF no_ack THEN AfterRequest(r)
                                        ELSE "unacked"
  BY DEF PeerAsk
<1>2. PICK r \in Requests : /\ asked' = Append(asked, r)
                            /\ PutRequest(r)
                            /\ peer' = IF no_ack THEN AfterRequest(r)
                                       ELSE "unacked"
  BY <1>1
<1>3. /\ UNCHANGED <<read_buf, write_buf, no_ack, response, executed,
                     seen_breaks>>
      /\ Stands(ph)' /\ Sent(0)' = Sent(0) /\ r \in Seq(Byte)
  BY <1>1, PeerKeeps, PacketLinkAssumption
<1>4. PICK frame \in Seq(Byte) : IsRequest(frame, r) /\ In' = In \o frame
  BY <1>2, <1>3, PutIsRequest
<1>5. PICK a, b, n \in Nat, mark \in Marks, rest \in Seq(Byte) :
         LinkAt(ph, a, mark, b, rest, n)
  BY DEF LinkWith, Marks
<1>6. /\ peer' # "ready" /\ (no_ack => peer' # "unacked")
      /\ ~no_ack => peer' = "unacked"
  BY <1>2 DEF AfterRequest
<1>7. ~Pending /\ ph # "holds" /\ n = 0 /\ tx = <<>>
  <2>1. ~Pending /\ n = 0
    BY <1>1, <1>5 DEF LinkAt, Books, ToPeer
  <2>2. tx = <<>>
    BY <1>1, <1>5, <2>1, SentNone DEF LinkAt, ToPeer
  <2> QED BY <1>5, <2>1, <2>2 DEF LinkAt, ToServer
<1>8. Books(ph)' /\ Pending' /\ Current' = r
  BY <1>1, <1>2, <1>3, <1>5, <1>6, <1>7, AskedMore DEF LinkAt
<1>9. CASE ph = "stops"
  <2>1. ToPeer(ph, "none", 0)'
    BY <1>1, <1>3, <1>6, <1>7, <1>8, <1>9, SentNone DEF ToPeer
  <2>2. LinkAt(ph, 0, "none", 0, <<>>, 0)'
    BY <1>3, <1>8, <1>9, <2>1, BookTypes DEF LinkAt
  <2>3. <<>> \in Seq(Byte)
    OBVIOUS
  <2> QED BY <1>3, <2>2, <2>3, LinkIsWith DEF Marks
<1>10. CASE ph # "stops"
  <2>1. /\ rest = <<>> /\ b = 0 /\ mark \in {"none", "ack"}
        /\ In = Stream(a, mark, 0, <<>>)
        /\ mark = "none" => a = 0 /\ ph \in {"listens", "done"}
        /\ mark = "ack" => ph = "awaits" /\ ~no_ack
                           /\ answered # <<>> /\ Last(answered) = response
    <3>1. /\ rest = <<>> /\ In = Stream(a, mark, b, rest)
          /\ mark # "none" => ph = "awaits"
          /\ ph = "awaits" => mark = "ack" /\ ~no_ack
          /\ mark = "ack" => answered # <<>> /\ Last(answered) = response
          /\ ph \notin {"reads", "holds", "breaks", "replies"}
      BY <1>1, <1>5, <1>7, <1>10 DEF LinkAt, ToServer
    <3>2. mark \in {"none", "ack"} /\ b = 0
      BY <1>5, <3>1 DEF LinkAt, Marks
    <3>3. mark = "none" => a = 0
      BY <1>1, <1>5, <1>10, <3>2 DEF LinkAt, ToServer
    <3> QED BY <1>10, <3>1, <3>2, <3>3 DEF Stands
  <2>2. In' = Stream(a, mark, 0, frame)
    BY <1>4, <2>1, StreamTakes
  <2>3. seen_breaks' + a + 0 + 0 <= breaks'
    <3>1. seen_breaks + a + b + 0 <= breaks
      BY <1>5, <1>10, <2>1 DEF LinkAt, ToServer
    <3> QED BY <1>1, <1>3, <2>1, <3>1, BookTypes
  <2>4. ToServer(ph, a, mark, 0, frame)'
    BY <1>1, <1>3, <1>4, <1>6, <1>7, <1>8, <2>1, <2>2, <2>3 DEF ToServer
  <2>5. ToPeer(ph, mark, 0)'
    BY <1>1, <1>3, <1>6, <1>7, <1>8, <2>1, SentNone DEF ToPeer
  <2>6. LinkAt(ph, a, mark, 0, frame, 0)'
    BY <1>3, <1>8, <2>4, <2>5, BookTypes DEF LinkAt
  <2> QED BY <1>3, <2>6, LinkIsWith
<1> QED BY <1>9, <1>10

LEMMA AckedLink ==
    ASSUME LinkTypes, NEW ph, Stands(ph), LinkWith(ph), PeerAcked
    PROVE  Stands(ph)' /\ LinkWith(ph)'
<1>1. /\ peer = "unacked" /\ IOElse /\ tx # <<>> /\ Head(tx) = ack
      /\ tx' = Tail(tx) /\ UNCHANGED <<rx, asked, answered, breaks>>
      /\ peer' \in {"waiting", "running"}
  BY DEF PeerAcked, AfterRequest
<1>2. /\ UNCHANGED <<read_buf, write_buf, no_ack, response, executed,
                     seen_breaks, recv_buf, state, checksum, csum_high>>
      /\ Stands(ph)' /\ \A k \in Nat : Sent(k)' = Sent(k)
  BY <1>1, PeerKeeps
<1>3. PICK a, b, n \in Nat, mark \in Marks, rest \in Seq(Byte) :
         LinkAt(ph, a, mark, b, rest, n)
  BY DEF LinkWith, Marks
<1>4. (Pending' <=> Pending) /\ Current' = Current /\ In' = In
  BY <1>1, <1>2, SamePending DEF In
<1>5. ph = "holds" \/ ~Pending
  <2>1. ack # ack_err /\ Head(<<ack_err>>) = ack_err
    BY DEF ack, ack_err
  <2> QED BY <1>1, <1>3, <2>1 DEF LinkAt, ToPeer
<1>6. tx' = Sent(n)
  <2>1. tx = <<ack>> \o Sent(n)
    BY <1>1, <1>3, <1>5 DEF LinkAt, ToPeer
  <2>2. Sent(n) \in Seq(Byte)
    BY <1>3, BookTypes, PrefixType DEF LinkAt, Sent
  <2>3. ack \in Byte
    BY ControlsAreBytes
  <2> QED BY <1>1, <2>1, <2>2, <2>3, FrontOff
<1>7. ~no_ack
  BY <1>1, <1>3 DEF LinkAt, Books
<1>8. Books(ph)'
  BY <1>1, <1>2, <1>3, <1>4, <1>5 DEF LinkAt, Books
<1>9. ToPeer(ph, mark, n)'
  BY <1>1, <1>2, <1>3, <1>4, <1>5, <1>6 DEF LinkAt, ToPeer
<1>10. ASSUME ph # "stops" PROVE ToServer(ph, a, mark, b, rest)'
  <2>1. /\ ToServer(ph, a, mark, b, rest) /\ mark # "ack"
        /\ ph \notin {"breaks", "done", "reads"} /\ a + b = 0
        /\ ph = "listens" => ~Pending
    BY <1>1, <1>3, <1>5, <1>7, <1>10 DEF LinkAt, ToServer
  <2> QED BY <1>1, <1>2, <1>4, <2>1 DEF ToServer
<1>11. LinkAt(ph, a, mark, b, rest, n)'
  BY <1>2, <1>3, <1>8, <1>9, <1>10 DEF LinkAt
<1> QED BY <1>2, <1>11, LinkIsWith

LEMMA RepeatLink ==
    ASSUME LinkTypes, NEW ph, Stands(ph), LinkWith(ph), PeerRepeats
    PROVE  Stands(ph)' /\ LinkWith(ph)'
<1>1. /\ peer = "unacked" /\ IOElse /\ tx # <<>> /\ Head(tx) = ack_err
      /\ tx' = Tail(tx) /\ UNCHANGED <<peer, asked, answered, breaks>>
      /\ PutRequest(Last(asked))
  BY DEF PeerRepeats, peerVars
<1>2. /\ UNCHANGED <<read_buf, write_buf, no_ack, response, executed,
                     seen_breaks, recv_buf, state, checksum, csum_high>>
      /\ Stands(ph)' /\ Sent(0)' = Sent(0)
  BY <1>1, PeerKeeps
<1>3. PICK a, b, n \in Nat, mark \in Marks, rest \in Seq(Byte) :
         LinkAt(ph, a, mark, b, rest, n)
  BY DEF LinkWith, Marks
<1>4. Pending /\ ph # "holds" /\ tx = <<ack_err>>
  <2> SUFFICES ASSUME ~(Pending /\ ph # "holds") PROVE FALSE
    BY <1>1, <1>3 DEF LinkAt, ToPeer
  <2>1. tx = <<ack>> \o Sent(n)
    BY <1>1, <1>3 DEF LinkAt, ToPeer
  <2>2. Sent(n) \in Seq(Byte)
    BY <1>3, BookTypes, PrefixType DEF LinkAt, Sent
  <2>3. ack \in Byte /\ ack # ack_err
    BY ControlsAreBytes DEF ack, ack_err
  <2> QED BY <1>1, <2>1, <2>2, <2>3, FrontOff
<1>5. tx' = <<>> /\ n = 0
  BY <1>1, <1>3, <1>4 DEF LinkAt, ToPeer
<1>6. PICK frame \in Seq(Byte) : IsRequest(frame, Current) /\ In' = In \o frame
  <2>1. Last(asked) = Current /\ Current \in Seq(Byte)
    BY <1>3, <1>4, CurrentType DEF LinkAt
  <2> QED BY <1>1, <1>2, <2>1, PutIsRequest
<1>7. Books(ph)' /\ Pending' /\ Current' = Current
  BY <1>1, <1>2, <1>3, <1>4, KeepBooks DEF LinkAt, bookVars
<1>8. ToPeer(ph, "none", 0)'
  <2>1. ph # "replies" \/ ph = "stops"
    BY <1>3, <1>4 DEF LinkAt, ToServer
  <2>2. ph # "awaits"
    BY <1>3, <1>4 DEF LinkAt, ToServer
  <2> QED BY <1>1, <1>4, <1>5, <1>7, <2>1, <2>2 DEF ToPeer
<1>9. CASE ph = "stops"
  <2>1. LinkAt(ph, 0, "none", 0, <<>>, 0)'
    BY <1>2, <1>7, <1>8, <1>9, BookTypes DEF LinkAt
  <2>2. <<>> \in Seq(Byte)
    OBVIOUS
  <2> QED BY <1>2, <2>1, <2>2, LinkIsWith DEF Marks
<1>10. CASE ph # "stops"
  <2>1. ph = "listens" /\ a = 0 /\ mark = "none" /\ b = 0 /\ rest = <<>>
    <3>1. ph = "listens"
      BY <1>3, <1>4, <1>10 DEF LinkAt, ToServer, Stands
    <3>2. mark = "none" /\ a = 0 /\ (tx = <<>> \/ rest = <<>>)
      BY <1>3, <1>4, <3>1 DEF LinkAt, ToServer
    <3> QED BY <1>3, <1>4, <3>1, <3>2 DEF LinkAt
  <2>2. In' = Stream(0, "none", 0, frame)
    <3>1. In = Stream(0, "none", 0, <<>>)
      BY <1>3, <2>1 DEF LinkAt, ToServer
    <3> QED BY <1>6, <3>1, StreamTakes
  <2>3. seen_breaks' + 0 + 0 + 0 <= breaks'
    <3>1. seen_breaks <= breaks /\ breaks' = breaks /\ seen_breaks' = seen_breaks
      BY <1>1, <1>2, <1>3 DEF LinkAt, Books
    <3> QED BY <3>1, BookTypes
  <2>4. ToServer("listens", 0, "none", 0, frame)'
    BY <1>5, <1>6, <1>7, <2>2, <2>3 DEF ToServer
  <2>5. LinkAt("listens", 0, "none", 0, frame, 0)'
    BY <1>2, <1>7, <1>8, <2>1, <2>4, BookTypes DEF LinkAt
  <2> QED BY <1>2, <2>1, <2>5, LinkIsWith DEF Marks
<1> QED BY <1>9, <1>10

\* What the peer can have received: nothing of it is to be skipped.
LEMMA SentStarts ==
    ASSUME LinkTypes, NEW n \in Nat, n > 0, n <= Len(write_buf),
           IsFrame(write_buf, response)
    PROVE  /\ Sent(n) \in Seq(Byte) /\ Sent(n) # <<>>
           /\ Head(Sent(n)) = packet_begin
           /\ FrameLengths(Sent(n)) # {} => n = Len(write_buf)
<1>1. /\ write_buf \in Seq(Byte) /\ Len(write_buf) \in Nat
      /\ n \in 0..Len(write_buf) /\ n # 0
  BY BookTypes
<1>2. write_buf[1] = packet_begin
  BY <1>1, FrameShape
<1>3. /\ Sent(n) \in Seq(Byte) /\ Sent(n) # <<>>
      /\ Head(Sent(n)) = write_buf[1]
  BY <1>1 DEF Sent
<1>4. FrameLengths(Sent(n)) = IF n = Len(write_buf) THEN {n} ELSE {}
  BY <1>1, FrameIsFound DEF Sent
<1> QED BY <1>2, <1>3, <1>4

LEMMA SkipsNothing ==
    ASSUME LinkTypes, NEW ph, Stands(ph), LinkWith(ph), PeerSkips
    PROVE  FALSE
<1>1. /\ tx # <<>>
      /\ peer = "unacked" => Head(tx) \notin {ack, ack_err}
      /\ peer # "unacked" => Head(tx) # packet_begin
  BY DEF PeerSkips
<1>2. PICK a, b, n \in Nat, mark \in Marks, rest \in Seq(Byte) :
         LinkAt(ph, a, mark, b, rest, n)
  BY DEF LinkWith, Marks
<1>3. CASE peer = "unacked"
  <2>1. Sent(n) \in Seq(Byte) /\ ack \in Byte
    BY <1>2, BookTypes, PrefixType, ControlsAreBytes DEF LinkAt, Sent
  <2>2. Head(<<ack_err>>) = ack_err /\ Head(<<ack>> \o Sent(n)) = ack
    BY <2>1, FrontOff
  <2>3. tx \in {<<>>, <<ack_err>>, <<ack>> \o Sent(n)}
    BY <1>2, <1>3 DEF LinkAt, ToPeer
  <2> QED BY <1>1, <1>3, <2>2, <2>3
<1>4. CASE peer # "unacked"
  <2>1. tx = Sent(n)
    BY <1>2, <1>4 DEF LinkAt, ToPeer
  <2>2. n > 0
    BY <1>1, <2>1, SentNone
  <2>3. IsFrame(write_buf, response) /\ n <= Len(write_buf)
    BY <1>2, <2>2 DEF LinkAt, ToPeer
  <2> QED BY <1>1, <1>4, <2>1, <2>2, <2>3, SentStarts
<1> QED BY <1>3, <1>4

\* Nothing is on its way to a peer that has had its acknowledgement.
LEMMA NothingToPeer ==
    ASSUME NEW ph, NEW mark, tx' = Sent(0)', peer' # "unacked", ph # "replies",
           \/ ph = "awaits" => mark = "ack"
           \/ (breaks > 0 \/ response = Respond(Current))'
    PROVE  ToPeer(ph, mark, 0)'
BY DEF ToPeer

\* A response that the peer finds is the one the server is sending.
LEMMA FoundReply ==
    ASSUME LinkTypes, peer \in {"waiting", "running"}, NEW n \in Nat, NEW ph,
           NEW mark, n <= Len(write_buf), ToPeer(ph, mark, n),
           NEW m \in FrameLengths(tx)
    PROVE  /\ n > 0 /\ m = Len(write_buf) /\ tx = write_buf
           /\ Unescaped(SubSeq(tx, 2, m - 3)) = response
           /\ SubSeq(tx, m + 1, Len(tx)) = <<>>
<1>1. tx = Sent(n)
  BY DEF ToPeer
<1>2. n > 0
  <2> SUFFICES ASSUME n = 0 PROVE FALSE
    OBVIOUS
  <2>1. Len(tx) = 0
    BY <1>1, SentNone
  <2> QED BY <2>1, FrameLengthsType
<1>3. IsFrame(write_buf, response)
  BY <1>2 DEF ToPeer
<1>4. /\ write_buf \in Seq(Byte) /\ Len(write_buf) \in Nat
      /\ n \in 0..Len(write_buf)
  BY BookTypes
<1>5. FrameLengths(tx) = IF n = Len(write_buf) THEN {n} ELSE {}
  BY <1>1, <1>3, <1>4, FrameIsFound DEF Sent
<1>6. n = Len(write_buf) /\ m = n
  BY <1>5
<1>7. tx = write_buf
  BY <1>1, <1>4, <1>6, SubSeqAll DEF Sent
<1>8. Unescaped(SubSeq(write_buf, 2, Len(write_buf) - 3)) = response
  BY <1>3, <1>4, FrameShape
<1>9. SubSeq(write_buf, Len(write_buf) + 1, Len(write_buf)) = <<>>
  BY <1>4
<1> QED BY <1>2, <1>6, <1>7, <1>8, <1>9

\* Where the server is when the peer has a response before it.
LEMMA ReplyStands ==
    ASSUME LinkTypes, NoAckIsQuiet, NEW ph,
           peer \in {"waiting", "running"},
           NEW a \in Nat, NEW b \in Nat, NEW n \in Nat, NEW mark \in Marks,
           NEW rest \in Seq(Byte), LinkAt(ph, a, mark, b, rest, n), n > 0
    PROVE  /\ ~Pending
           /\ \/ ph = "stops"
              \/ ph \in {"listens", "done"} /\ no_ack
              \/ ph = "awaits" /\ ~no_ack
           /\ ph # "stops" => rest = <<>> /\ mark = "none" /\ b = 0
                              /\ In = Stream(a, "none", 0, <<>>)
                              /\ seen_breaks + a <= breaks
           /\ no_ack /\ ph # "stops" => a = 0
<1>1. /\ ~Pending /\ peer # "ready"
      /\ ph \in {"awaits", "done", "stops"} \/ (ph = "listens" /\ no_ack)
      /\ ph = "awaits" => mark = "none"
  BY DEF LinkAt, ToPeer
<1>2. ASSUME ph # "stops"
      PROVE  /\ rest = <<>> /\ mark = "none" /\ b = 0
             /\ In = Stream(a, "none", 0, <<>>)
             /\ ph = "awaits" => ~no_ack
             /\ ph = "done" => no_ack
             /\ seen_breaks + a + b <= breaks
  <2>1. /\ rest = <<>> /\ mark = "none" /\ In = Stream(a, mark, b, rest)
        /\ ph = "awaits" => ~no_ack
        /\ ph = "done" => no_ack
    BY <1>1, <1>2 DEF LinkAt, ToServer
  <2>2. b = 0
    BY <2>1 DEF LinkAt
  <2>3. seen_breaks + a + b + 0 <= breaks
    BY <1>1, <1>2 DEF LinkAt, ToServer
  <2> QED BY <2>1, <2>2, <2>3, BookTypes
<1>3. ASSUME no_ack, ph # "stops" PROVE a = 0
  <2>1. breaks = 0
    BY <1>3, QuietNoAck
  <2> QED BY <1>2, <1>3, <2>1, BookTypes
<1>4. ph # "stops" => seen_breaks + a <= breaks
  BY <1>2, BookTypes
<1> QED BY <1>1, <1>2, <1>3, <1>4

LEMMA AnsweredBooks ==
    ASSUME LinkTypes, NEW ph, Books(ph), ~Pending, peer # "ready", peer' = "ready",
           answered' = Append(answered, response),
           breaks > 0 \/ response = Respond(Current),
           UNCHANGED <<asked, executed, breaks, seen_breaks, no_ack>>
    PROVE  Books(ph)' /\ ~Pending' /\ answered' # <<>>
           /\ Last(answered') = response
<1>1. answered \in Seq(Seq(Byte)) /\ response \in Seq(Byte) /\ Len(asked) \in Nat
  BY BookTypes
<1>2. /\ Len(answered) = Len(asked) - 1 /\ Len(answered') = Len(asked)
      /\ answered' # <<>> /\ Last(answered') = response
  <2>1. Len(answered) = Len(asked) - 1 /\ Len(answered') = Len(answered) + 1
    <3>1. Len(answered') = Len(answered) + 1
      BY <1>1
    <3> QED BY <3>1 DEF Books
  <2>2. answered' # <<>> /\ answered'[Len(answered')] = response
    BY <1>1, <2>1
  <2> QED BY <1>1, <2>1, <2>2 DEF Last
<1>3. (Pending' <=> Pending) /\ Current' = Current
  BY SamePending
<1>4. breaks' = 0 => \A i \in 1..Len(answered') : answered'[i] = Respond(asked'[i])
  <2> SUFFICES ASSUME breaks = 0, NEW i \in 1..Len(asked)
               PROVE  answered'[i] = Respond(asked[i])
    BY <1>2
  <2>1. CASE i = Len(asked)
    <3>1. answered'[i] = response
      BY <1>1, <1>2, <2>1
    <3> QED BY <2>1, <3>1 DEF Current
  <2>2. CASE i # Len(asked)
    <3>1. i \in 1..Len(answered) /\ answered'[i] = answered[i]
      BY <1>1, <1>2, <2>2
    <3> QED BY <3>1 DEF Books
  <2> QED BY <2>1, <2>2
<1> QED BY <1>2, <1>3, <1>4 DEF Books

LEMMA AcceptLink ==
    ASSUME LinkTypes, NoAckIsQuiet, NEW ph, Stands(ph), LinkWith(ph), IOElse,
           peer \in {"waiting", "running"}, UNCHANGED <<asked, breaks>>,
           NEW m \in FrameLengths(tx), Accepts(m),
           tx' = SubSeq(tx, m + 1, Len(tx))
    PROVE  Stands(ph)' /\ LinkWith(ph)'
<1>1. PICK a, b, n \in Nat, mark \in Marks, rest \in Seq(Byte) :
         LinkAt(ph, a, mark, b, rest, n)
  BY DEF LinkWith, Marks
<1>2. /\ n > 0 /\ tx' = <<>>
      /\ Unescaped(SubSeq(tx, 2, m - 3)) = response
  BY <1>1, FoundReply DEF LinkAt
<1>3. /\ peer' = "ready" /\ answered' = Append(answered, response)
      /\ rx' = IF no_ack THEN rx ELSE Append(rx, ack)
  BY <1>2 DEF Accepts
<1>4. /\ UNCHANGED <<read_buf, write_buf, no_ack, response, executed,
                     seen_breaks>>
      /\ Stands(ph)' /\ Sent(0)' = Sent(0)
  BY PeerKeeps
<1>5. /\ ~Pending
      /\ \/ ph = "stops"
         \/ ph \in {"listens", "done"} /\ no_ack
         \/ ph = "awaits" /\ ~no_ack
      /\ ph # "stops" => rest = <<>> /\ mark = "none" /\ b = 0
                         /\ In = Stream(a, "none", 0, <<>>)
                         /\ seen_breaks + a <= breaks
      /\ no_ack /\ ph # "stops" => a = 0
  BY <1>1, <1>2, ReplyStands
<1>6. /\ Books(ph)' /\ ~Pending' /\ answered' # <<>>
      /\ Last(answered') = response
  <2>1. Books(ph) /\ (breaks > 0 \/ response = Respond(Current))
    BY <1>1, <1>2 DEF LinkAt, ToPeer
  <2> QED BY <1>3, <1>4, <1>5, <2>1, AnsweredBooks
<1>7. tx' = Sent(0)'
  BY <1>2, <1>4, SentNone
<1>8. <<>> \in Seq(Byte) /\ 0 <= Len(write_buf')
  BY <1>4, BookTypes
<1>9. CASE ph = "awaits"
  <2>1. In' = Stream(a, "ack", 0, <<>>)
    <3>1. In' = Append(In, ack)
      BY <1>3, <1>4, <1>5, <1>9, InAppended, ControlsAreBytes
    <3> QED BY <1>5, <1>9, <3>1, StreamAppends
  <2>2. seen_breaks' + a + 0 + 0 <= breaks'
    BY <1>4, <1>5, <1>9, BookTypes
  <2>3. ToServer(ph, a, "ack", 0, <<>>)'
    BY <1>3, <1>4, <1>5, <1>6, <1>9, <2>1, <2>2 DEF ToServer
  <2>4. ToPeer(ph, "ack", 0)'
    BY <1>3, <1>7, <1>9, NothingToPeer
  <2>5. LinkAt(ph, a, "ack", 0, <<>>, 0)'
    BY <1>6, <1>8, <2>3, <2>4 DEF LinkAt
  <2> QED BY <1>4, <1>8, <2>5, LinkIsWith DEF Marks
<1>10. CASE ph \in {"listens", "done"} /\ no_ack
  <2>1. In' = Stream(0, "none", 0, <<>>)
    BY <1>3, <1>4, <1>5, <1>10 DEF In
  <2>2. seen_breaks' + 0 + 0 + 0 <= breaks'
    BY <1>4, <1>5, <1>10, BookTypes
  <2>3. ToServer(ph, 0, "none", 0, <<>>)'
    BY <1>3, <1>4, <1>6, <1>10, <2>1, <2>2 DEF ToServer
  <2>4. ToPeer(ph, "none", 0)'
    BY <1>3, <1>7, <1>10, NothingToPeer
  <2>5. LinkAt(ph, 0, "none", 0, <<>>, 0)'
    BY <1>6, <1>8, <2>3, <2>4 DEF LinkAt
  <2> QED BY <1>4, <1>8, <2>5, LinkIsWith DEF Marks
<1>11. CASE ph = "stops"
  <2>1. ToPeer(ph, "none", 0)'
    BY <1>3, <1>7, <1>11, NothingToPeer
  <2>2. LinkAt(ph, 0, "none", 0, <<>>, 0)'
    BY <1>6, <1>8, <1>11, <2>1 DEF LinkAt
  <2> QED BY <1>4, <1>8, <2>2, LinkIsWith DEF Marks
<1> QED BY <1>5, <1>9, <1>10, <1>11

LEMMA RejectLink ==
    ASSUME LinkTypes, NoAckIsQuiet, NEW ph, Stands(ph), LinkWith(ph), IOElse,
           peer \in {"waiting", "running"}, UNCHANGED <<asked, breaks>>,
           NEW m \in FrameLengths(tx), Rejects,
           tx' = SubSeq(tx, m + 1, Len(tx))
    PROVE  Stands(ph)' /\ LinkWith(ph)'
<1>1. PICK a, b, n \in Nat, mark \in Marks, rest \in Seq(Byte) :
         LinkAt(ph, a, mark, b, rest, n)
  BY DEF LinkWith, Marks
<1>2. n > 0 /\ tx' = <<>>
  BY <1>1, FoundReply DEF LinkAt
<1>3. /\ UNCHANGED <<peer, answered>> /\ ~no_ack
      /\ rx' = Append(rx, ack_err)
  BY DEF Rejects
<1>4. /\ UNCHANGED <<read_buf, write_buf, no_ack, response, executed,
                     seen_breaks>>
      /\ Stands(ph)' /\ Sent(0)' = Sent(0)
  BY PeerKeeps
<1>5. /\ ~Pending /\ ph \in {"awaits", "stops"}
      /\ ph # "stops" => rest = <<>> /\ mark = "none" /\ b = 0
                         /\ In = Stream(a, "none", 0, <<>>)
                         /\ seen_breaks + a <= breaks
  BY <1>1, <1>2, <1>3, ReplyStands
<1>6. Books(ph)' /\ ~Pending' /\ Current' = Current
  BY <1>1, <1>3, <1>4, <1>5, KeepBooks DEF LinkAt, bookVars
<1>7. tx' = Sent(0)'
  BY <1>2, <1>4, SentNone
<1>8. <<>> \in Seq(Byte) /\ 0 <= Len(write_buf')
  BY <1>4, BookTypes
<1>9. ToPeer(ph, "nak", 0)'
  <2>1. breaks > 0 \/ response = Respond(Current)
    BY <1>1, <1>2 DEF LinkAt, ToPeer
  <2>2. (breaks > 0 \/ response = Respond(Current))'
    BY <1>4, <1>6, <2>1
  <2> QED BY <1>3, <1>5, <1>7, <2>2, NothingToPeer
<1>10. ASSUME ph # "stops" PROVE ToServer(ph, a, "nak", 0, <<>>)'
  <2>1. In' = Stream(a, "nak", 0, <<>>)
    <3>1. In' = Append(In, ack_err)
      BY <1>3, <1>4, InAppended, ControlsAreBytes
    <3> QED BY <1>5, <1>10, <3>1, StreamAppends
  <2>2. seen_breaks' + a + 0 + 0 <= breaks'
    BY <1>4, <1>5, <1>10, BookTypes
  <2>3. a + b > 0 => peer = "running"
    BY <1>1, <1>5, <1>10 DEF LinkAt, ToServer
  <2> QED BY <1>3, <1>4, <1>5, <1>6, <1>10, <2>1, <2>2, <2>3 DEF ToServer
<1>11. LinkAt(ph, a, "nak", 0, <<>>, 0)'
  BY <1>6, <1>8, <1>9, <1>10 DEF LinkAt
<1> QED BY <1>4, <1>8, <1>11, LinkIsWith DEF Marks

LEMMA InterruptLink ==
    ASSUME LinkTypes, NoAckIsQuiet, NEW ph, Stands(ph), LinkWith(ph), PeerBreak
    PROVE  Stands(ph)' /\ LinkWith(ph)'
<1>1. /\ peer = "running" /\ breaks < MaxBreaks /\ IOElse
      /\ rx' = Append(rx, break_character) /\ breaks' = breaks + 1
      /\ UNCHANGED <<tx, peer, asked, answered>>
  BY DEF PeerBreak
<1>2. /\ UNCHANGED <<read_buf, write_buf, no_ack, response, executed,
                     seen_breaks, recv_buf, state, checksum, csum_high>>
      /\ Stands(ph)' /\ \A k \in Nat : Sent(k)' = Sent(k)
  BY <1>1, PeerKeeps
<1>3. PICK a, b, n \in Nat, mark \in Marks, rest \in Seq(Byte) :
         LinkAt(ph, a, mark, b, rest, n)
  BY DEF LinkWith, Marks
<1>4. ~no_ack
  BY <1>1, QuietNoAck
<1>5. ph = "holds" \/ ~Pending
  BY <1>1, <1>3, <1>4 DEF LinkAt, Books
<1>6. (Pending' <=> Pending) /\ Current' = Current
  BY <1>1, <1>2, SamePending
<1>7. breaks' > 0 /\ breaks' \in Nat /\ seen_breaks' <= breaks'
  <2>1. seen_breaks <= breaks
    BY <1>3 DEF LinkAt, Books
  <2> QED BY <1>1, <1>2, <2>1, BookTypes, SMTT(20)
<1>8. Books(ph)'
  <2>1. Books(ph) /\ breaks' # 0
    BY <1>3, <1>7 DEF LinkAt
  <2> QED BY <1>1, <1>2, <1>6, <1>7, <2>1 DEF Books
<1>9. ToPeer(ph, mark, n)'
  BY <1>1, <1>2, <1>3, <1>6, <1>7 DEF LinkAt, ToPeer
<1>10. In' = Append(In, break_character)
  BY <1>1, <1>2, InAppended, ControlsAreBytes
<1>11. CASE ph = "stops"
  <2>1. LinkAt(ph, a, mark, b, rest, n)'
    BY <1>2, <1>3, <1>8, <1>9, <1>11 DEF LinkAt
  <2> QED BY <1>2, <2>1, LinkIsWith
<1>12. CASE ph # "stops"
  <2>1. /\ ToServer(ph, a, mark, b, rest) /\ mark # "ack" /\ rest = <<>>
        /\ ph \notin {"reads", "done"}
    BY <1>1, <1>3, <1>4, <1>5, <1>12 DEF LinkAt, ToServer
  <2> DEFINE last == IF ph = "breaks" THEN 1 ELSE 0
  <2>2. /\ seen_breaks' + (a + 1) + b + last <= breaks'
        /\ seen_breaks' + a + (b + 1) + last <= breaks'
    <3>1. seen_breaks + a + b + last <= breaks /\ last \in Nat
      BY <2>1 DEF ToServer
    <3>2. breaks' = breaks + 1 /\ seen_breaks' = seen_breaks
      BY <1>1, <1>2
    <3>3. breaks \in Nat /\ seen_breaks \in Nat
      BY BookTypes
    <3> HIDE DEF last
    <3> QED BY <3>1, <3>2, <3>3
  <2>3. CASE mark = "none"
    <3>1. b = 0 /\ In = Stream(a, "none", 0, <<>>)
      BY <1>3, <2>1, <2>3 DEF LinkAt, ToServer
    <3>2. In' = Stream(a + 1, mark, b, rest) /\ a + 1 \in Nat
      <4>1. Append(Stream(a, "none", 0, <<>>), break_character)
                = Stream(a + 1, "none", 0, <<>>)
        BY StreamAppends
      <4> QED BY <1>10, <2>1, <2>3, <3>1, <4>1
    <3>3. ToServer(ph, a + 1, mark, b, rest)'
      BY <1>1, <1>2, <1>5, <1>6, <2>1, <2>2, <2>3, <3>2 DEF ToServer
    <3>4. LinkAt(ph, a + 1, mark, b, rest, n)'
      BY <1>2, <1>3, <1>8, <1>9, <3>3 DEF LinkAt
    <3> QED BY <1>2, <3>2, <3>4, LinkIsWith
  <2>4. CASE mark = "nak"
    <3>1. In = Stream(a, "nak", b, <<>>)
      BY <2>1, <2>4 DEF ToServer
    <3>2. In' = Stream(a, mark, b + 1, rest) /\ b + 1 \in Nat
      <4>1. Append(Stream(a, "nak", b, <<>>), break_character)
                = Stream(a, "nak", b + 1, <<>>)
        BY StreamAppends
      <4> QED BY <1>10, <2>1, <2>4, <3>1, <4>1
    <3>3. ToServer(ph, a, mark, b + 1, rest)'
      BY <1>1, <1>2, <1>5, <1>6, <2>1, <2>2, <2>4, <3>2 DEF ToServer
    <3>4. LinkAt(ph, a, mark, b + 1, rest, n)'
      BY <1>2, <1>3, <1>8, <1>9, <2>4, <3>3 DEF LinkAt
    <3> QED BY <1>2, <3>2, <3>4, LinkIsWith
  <2> QED BY <2>1, <2>3, <2>4 DEF Marks
<1> QED BY <1>11, <1>12

-----------------------------------------------------------------------------
(* While it is calm the link stands somewhere.                               *)

LEMMA CalmBefore ==
    ASSUME LinkTypes, Next, Calm'
    PROVE  Calm /\ ~Late /\ ~Lost /\ ~PeerResends
<1>1. faults \in Seq(FaultKinds)
  BY DEF LinkTypes, PeerTypes
<1>2. ASSUME NEW kind, Fault(kind)
      PROVE  Calm /\ kind \notin {"late", "lost", "resend"}
  <2>1. faults' = Append(faults, kind) /\ kind \in FaultKinds
    BY <1>2 DEF Fault
  <2>2. ToSet(faults') = ToSet(faults) \cup {kind}
    <3>1. Len(faults') = Len(faults) + 1 /\ Len(faults) \in Nat
      BY <1>1, <2>1
    <3>2. \A i \in 1..Len(faults') :
             faults'[i] = IF i = Len(faults) + 1 THEN kind ELSE faults[i]
      BY <1>1, <2>1
    <3> QED BY <3>1, <3>2 DEF ToSet
  <2> QED BY <2>2 DEF Calm
<1>3. faults' = faults => Calm
  BY DEF Calm
<1>4. faults' = faults \/ \E kind : Fault(kind)
  BY DEF Next, Server, IO, Peer, ServerNoAck, ServerReceive, ServerRetry,
         ServerPacket, ServerBreak, ServerSent, ServerExit, Reply, Call,
         Progress, QuietTimeout, Starved, Late, Lost, Short, Stuck,
         PeerAsk, PeerAcked, PeerRepeats, PeerResends, PeerSkips, PeerReply,
         PeerBreak, PutRequest, Accepts, Rejects
<1>5. Late => Fault("late")
  BY DEF Late
<1>6. Lost => Fault("lost")
  BY DEF Lost
<1>7. PeerResends => Fault("resend")
  BY DEF PeerResends
<1> QED BY <1>2, <1>3, <1>4, <1>5, <1>6, <1>7

LEMMA IOLink ==
    ASSUME LinkTypes, NoAckIsQuiet, EncodeInv, NEW ph, Stands(ph), LinkWith(ph),
           Progress \/ QuietTimeout \/ Starved \/ Short \/ Stuck
    PROVE  \E next : Stands(next)' /\ LinkWith(next)'
<1>1. NoOneElse
  BY DEF Progress, QuietTimeout, Starved, Short, Stuck
<1>2. CASE RecvData
  BY <1>1, <1>2, ReceiveLink
<1>3. CASE Receiving
  BY <1>1, <1>3, InitialLink, DataLink, EscapedLink, CheckHiLink, CheckLoLink
  DEF Receiving
<1>4. CASE Sending
  BY <1>1, <1>4, EncodeLink, AwaitLink DEF Sending
<1>5. CASE \E n : Transmit(n) \/ SendTimeout(n)
  BY <1>1, <1>5, TransmitLink
<1>6. CASE QuietTimeout \/ Starved
  <2>1. RecvTimeout(0) /\ rx = <<>>
    BY <1>6 DEF QuietTimeout, Starved
  <2> QED BY <1>1, <2>1, TimeoutLink
<1> QED BY <1>2, <1>3, <1>4, <1>5, <1>6 DEF Progress, Short, Stuck

LEMMA PeerLink ==
    ASSUME LinkTypes, NoAckIsQuiet, NEW ph, Stands(ph), LinkWith(ph),
           Peer, ~PeerResends
    PROVE  Stands(ph)' /\ LinkWith(ph)'
<1>1. CASE PeerReply
  <2>1. /\ IOElse /\ peer \in {"waiting", "running"}
        /\ UNCHANGED <<asked, breaks>>
        /\ \E m \in FrameLengths(tx) : /\ Accepts(m) \/ Rejects
                                       /\ tx' = SubSeq(tx, m + 1, Len(tx))
    BY <1>1 DEF PeerReply
  <2> QED BY <2>1, AcceptLink, RejectLink
<1> QED BY <1>1, AskLink, AckedLink, RepeatLink, SkipsNothing, InterruptLink DEF Peer

LEMMA ServerLink ==
    ASSUME RespondType, LinkTypes, NEW ph, Stands(ph), LinkWith(ph), Server
    PROVE  \E next : Stands(next)' /\ LinkWith(next)'
BY NoAckLink, QuietCalls, ExecuteLink, BreakLink, SentLink DEF Server

LEMMA LinkInvStep ==
    ASSUME RespondType, NoAckIsQuiet, LinkTypes, EncodeInv, LinkInv, [Next]_vars
    PROVE  LinkInv'
<1> SUFFICES ASSUME Calm' PROVE \E next : Stands(next)' /\ LinkWith(next)'
  BY DEF LinkInv
<1>1. CASE UNCHANGED vars
  <2>1. Calm
    BY <1>1 DEF Calm, vars
  <2>2. PICK ph : Stands(ph) /\ LinkWith(ph)
    BY <2>1 DEF LinkInv
  <2>3. UNCHANGED linkVars /\ In' = In
        /\ UNCHANGED <<recv_buf, state, checksum, csum_high>> /\ Stands(ph)'
    BY <1>1, <2>2 DEF vars, ioVars, callVars, peerVars, decoder, encoder, linkVars,
                      bookVars, In, Stands, Listens
  <2> QED BY <2>2, <2>3, KeepLink
<1>2. CASE Next
  <2>1. Calm /\ ~Late /\ ~Lost /\ ~PeerResends
    BY <1>2, CalmBefore
  <2>2. PICK ph : Stands(ph) /\ LinkWith(ph)
    BY <2>1 DEF LinkInv
  <2> QED BY <1>2, <2>1, <2>2, ServerLink, IOLink, PeerLink DEF Next, IO
<1> QED BY <1>1, <1>2

LEMMA InitLinkInv == ASSUME Init PROVE LinkInv
<1>1. /\ server = "idle" /\ rx = <<>> /\ tx = <<>> /\ read_buf = <<>>
      /\ write_buf = <<>> /\ no_ack = FALSE
      /\ response = <<>> /\ peer = "ready" /\ asked = <<>> /\ executed = <<>>
      /\ answered = <<>> /\ breaks = 0 /\ seen_breaks = 0
  BY DEF Init, IOInit
<1>2. LinkTypes
  BY InitLink
<1>3. <<>> \in Seq(Byte) /\ Len(executed) = 0 /\ Len(asked) = 0 /\ Len(answered) = 0
      /\ SubSeq(asked, 1, 0) = <<>> /\ 0 <= Len(write_buf)
  BY <1>1
<1>4. Stands("listens") /\ ~Pending
  BY <1>1 DEF Stands, Listens, Pending
<1>5. Books("listens")
  BY <1>1, <1>3, <1>4 DEF Books
<1>6. ToPeer("listens", "none", 0)
  BY <1>1, <1>2, <1>4, SentNone DEF ToPeer
<1>7. ToServer("listens", 0, "none", 0, <<>>)
  <2>1. In = <<>>
    BY <1>1, <1>3, EmptyFront DEF In
  <2>2. Stream(0, "none", 0, <<>>) = <<>>
    BY <1>3, StreamFront DEF Marks
  <2> QED BY <1>1, <1>4, <2>1, <2>2 DEF ToServer
<1>8. LinkAt("listens", 0, "none", 0, <<>>, 0)
  BY <1>3, <1>5, <1>6, <1>7 DEF LinkAt
<1>9. LinkWith("listens")
  BY <1>3, <1>8 DEF LinkWith
<1> QED BY <1>4, <1>9 DEF LinkInv

-----------------------------------------------------------------------------
(* What follows.                                                             *)

LinkIInv == LinkTypes /\ EncodeInv /\ LinkInv

LEMMA LinkAlways == RespondType /\ NoAckIsQuiet => (Spec => []LinkIInv)
<1> SUFFICES ASSUME RespondType, NoAckIsQuiet PROVE Spec => []LinkIInv
  OBVIOUS
<1>1. Init => LinkIInv
  BY InitLink, InitLinkInv DEF LinkIInv
<1>2. LinkIInv /\ [Next]_vars => LinkIInv'
  BY LinkTypesStep, EncodeInvStep, LinkInvStep DEF LinkIInv
<1> QED BY <1>1, <1>2, PTL DEF Spec

LEMMA LinkBooks ==
    ASSUME LinkInv, Calm PROVE \E ph : Books(ph)
BY DEF LinkInv, LinkWith, LinkAt

(* However requests are corrupted, responses rejected and breaks sent, the   *)
(* server reports no break that the peer did not send: in a connection       *)
(* without acknowledgements every request is answered or none interrupted.   *)
THEOREM NoBreakFromPayload ==
    RespondType /\ NoAckIsQuiet => (Spec => []NoBreakIsMadeUp)
<1> SUFFICES ASSUME RespondType, NoAckIsQuiet PROVE Spec => []NoBreakIsMadeUp
  OBVIOUS
<1>1. LinkIInv => NoBreakIsMadeUp
  BY LinkBooks DEF LinkIInv, NoBreakIsMadeUp, Books
<1> QED BY <1>1, LinkAlways, PTL

LEMMA SentByAwait ==
    ASSUME LinkTypes, [Next]_vars, pc = "ack", outcome' = "sent"
    PROVE  AwaitAck /\ Head(read_buf) = ack
<1>1. outcome # "sent" /\ outcome = "none"
  BY DEF LinkTypes, CallInv
<1>2. ~Server
  BY DEF Server, ServerNoAck, ServerReceive, ServerRetry, ServerPacket,
         ServerBreak, ServerSent, ServerExit, set_no_ack, receive_packet
<1>3. ~Peer /\ ~UNCHANGED vars
  <2>1. outcome' # outcome
    BY <1>1
  <2> QED BY <2>1 DEF Peer, PeerAsk, PeerAcked, PeerRepeats, PeerResends,
                      PeerSkips, PeerReply, PeerBreak, IOElse, vars, ioVars
<1>4. IO /\ IOKind
  BY <1>2, <1>3, IOKinds DEF Next
<1>5. AwaitAck
  BY <1>1, <1>4 DEF IOKind, RecvData, Receiving, Sending, RecvTimeout, Transmit,
                    SendTimeout, TimedOut, Finish, DecodeInitial, DecodeData,
                    DecodeEscaped, DecodeCheckHi, DecodeCheckLo, GotByte,
                    EncodeByte, EncodeEnd
<1> QED BY <1>1, <1>5 DEF AwaitAck, IsAck

LEMMA AckIsAnswer ==
    ASSUME LinkIInv, Calm, AwaitAck, Head(read_buf) = ack
    PROVE  /\ answered # <<>> /\ Last(answered) = response
           /\ peer # "waiting"
<1> USE DEF LinkIInv
<1>1. In # <<>> /\ Head(In) = ack /\ pc = "ack"
  BY InTaken DEF AwaitAck, GotByte
<1>2. PICK ph : Stands(ph) /\ LinkWith(ph)
  BY DEF LinkInv
<1>3. ph = "awaits"
  BY <1>1, <1>2 DEF Listens, Stands, LinkTypes, CallInv
<1>4. PICK a, b, n \in Nat, mark \in Marks, rest \in Seq(Byte) :
         LinkAt(ph, a, mark, b, rest, n)
  BY <1>2 DEF LinkWith, Marks
<1>5. /\ In = Stream(a, mark, b, rest)
      /\ mark = "none" => rest = <<>>
      /\ mark = "ack" => /\ answered # <<>> /\ Last(answered) = response
                         /\ peer \in {"unacked", "ready"}
  BY <1>3, <1>4 DEF LinkAt, ToServer
<1>6. break_character # ack /\ ack_err # ack
  BY DEF break_character, ack, ack_err
<1>7. a = 0
  BY <1>1, <1>5, <1>6, StreamBreak
<1>8. mark = "ack"
  <2>1. mark # "none"
    BY <1>1, <1>5, <1>7, StreamFront
  <2>2. mark # "nak"
    <3>1. Head(Stream(0, "nak", b, rest)) = ack_err
      BY StreamNak
    <3> QED BY <1>1, <1>5, <1>6, <1>7, <3>1
  <2> QED BY <2>1, <2>2 DEF Marks
<1> QED BY <1>5, <1>8

(* send_packet returns only when the peer has accepted the response, for any *)
(* requests and responses and any number of rejections.                      *)
THEOREM SentMeansAccepted ==
    RespondType /\ NoAckIsQuiet => (Spec => SentIsAccepted)
<1> SUFFICES ASSUME RespondType, NoAckIsQuiet PROVE Spec => SentIsAccepted
  OBVIOUS
<1>1. LinkIInv /\ [Next]_vars =>
         [Calm /\ server = "sending" /\ outcome' = "sent" /\ pc = "ack"
             => /\ answered # <<>> /\ Last(answered) = response
                /\ peer # "waiting"]_vars
  BY SentByAwait, AckIsAnswer DEF LinkIInv
<1> QED BY <1>1, LinkAlways, PTL DEF Spec, SentIsAccepted

(* While no timer has cut anything off and no request was repeated, what the *)
(* server has executed are the requests that were made, each once and in     *)
(* order.                                                                    *)
THEOREM ExecutedInOrder ==
    RespondType /\ NoAckIsQuiet =>
        (Spec => [](Calm => /\ OnlyRepeats
                            /\ executed = SubSeq(asked, 1, Len(executed))
                            /\ Len(asked) - Len(executed) \in 0..1))
<1> DEFINE Order == Calm => /\ OnlyRepeats
                            /\ executed = SubSeq(asked, 1, Len(executed))
                            /\ Len(asked) - Len(executed) \in 0..1
<1> SUFFICES ASSUME RespondType, NoAckIsQuiet PROVE Spec => []Order
  OBVIOUS
<1>1. LinkIInv => Order
  <2> SUFFICES ASSUME LinkIInv, Calm
               PROVE  /\ OnlyRepeats
                      /\ executed = SubSeq(asked, 1, Len(executed))
                      /\ Len(asked) - Len(executed) \in 0..1
    OBVIOUS
  <2>1. PICK ph : Books(ph)
    BY LinkBooks DEF LinkIInv
  <2>2. /\ executed = SubSeq(asked, 1, Len(executed))
        /\ asked \in Seq(Requests) /\ Len(asked) \in Nat
        /\ executed \in Seq(Seq(Byte)) /\ Len(executed) \in Nat
        /\ Len(executed) \in {Len(asked), Len(asked) - 1}
    BY <2>1, BookTypes DEF Books, LinkIInv
  <2> DEFINE f == [k \in 1..Len(executed) |-> k]
  <2>3. f \in [1..Len(executed) -> 1..Len(asked)]
    BY <2>2
  <2>4. ASSUME NEW k \in 1..Len(executed)
        PROVE  /\ executed[k] = asked[f[k]]
               /\ IF k = 1 THEN f[k] = 1 ELSE f[k] - f[k - 1] \in 0..1
    <3>1. executed[k] = asked[k]
      <4>1. SubSeq(asked, 1, Len(executed))[k] = asked[k]
        BY <2>2
      <4> QED BY <2>2, <4>1
    <3>2. k # 1 => k - 1 \in 1..Len(executed)
      BY <2>2
    <3> QED BY <2>2, <3>1, <3>2
  <2> HIDE DEF f
  <2>5. OnlyRepeats
    BY <2>3, <2>4 DEF OnlyRepeats
  <2> QED BY <2>2, <2>5
<1> QED BY <1>1, LinkAlways, PTL

-----------------------------------------------------------------------------
(* The link implements RequestReply.                                         *)

\* Nothing but damage: no time-outs, no repeated requests, no breaks.
OnlyDamage == /\ FaultKinds \cap {"late", "lost", "resend"} = {}
              /\ MaxBreaks = 0 \/ Silent = {}

LEMMA DamageIsCalm == ASSUME OnlyDamage, LinkTypes PROVE Calm /\ breaks = 0
<1>1. faults \in Seq(FaultKinds)
  BY DEF LinkTypes, PeerTypes
<1>2. ToSet(faults) \subseteq FaultKinds
  BY <1>1 DEF ToSet
<1> QED BY <1>2, PacketLinkAssumption DEF OnlyDamage, Calm, LinkTypes, PeerTypes

LEMMA AskIsAsk ==
    ASSUME LinkIInv, Calm, PeerAsk PROVE Abstract!Ask
<1>1. PICK ph : Books(ph)
  BY LinkBooks DEF LinkIInv
<1>2. Len(answered) = Len(asked)
  BY <1>1 DEF PeerAsk, Books
<1> QED BY <1>2 DEF PeerAsk, IOElse, callVars, Abstract!Ask

LEMMA ExecuteIsExecute ==
    ASSUME LinkIInv, Calm, ServerPacket PROVE Abstract!Execute
<1> USE DEF LinkIInv
<1>1. PICK ph : Stands(ph) /\ LinkWith(ph)
  BY DEF LinkInv
<1>2. /\ ph = "holds" /\ executed' = Append(executed, recv_buf)
      /\ UNCHANGED <<asked, answered>>
  BY <1>1 DEF ServerPacket, Reply, Call, peerVars, Listens, Stands
<1>3. Pending /\ recv_buf = Current /\ Books(ph)
  BY <1>1, <1>2 DEF LinkWith, LinkAt, ToServer
<1>4. Len(executed) = Len(asked) - 1 /\ Len(asked) \in Nat
  BY <1>3, CurrentType, BookTypes
<1>5. Len(executed) < Len(asked) /\ Current = asked[Len(executed) + 1]
  BY <1>4 DEF Current
<1> QED BY <1>2, <1>3, <1>5 DEF Abstract!Execute

LEMMA AcceptIsAnswer ==
    ASSUME LinkIInv, Calm, breaks = 0, PeerReply, answered' # answered
    PROVE  Abstract!Answer
<1> USE DEF LinkIInv
<1>1. PICK m \in FrameLengths(tx) : Accepts(m)
  BY DEF PeerReply, Rejects
<1>2. peer \in {"waiting", "running"} /\ UNCHANGED <<asked, executed>>
  BY DEF PeerReply, IOElse, callVars
<1>3. PICK ph : Stands(ph) /\ LinkWith(ph)
  BY DEF LinkInv
<1>4. PICK a, b, n \in Nat, mark \in Marks, rest \in Seq(Byte) :
         LinkAt(ph, a, mark, b, rest, n)
  BY <1>3 DEF LinkWith, Marks
<1>5. n > 0 /\ Unescaped(SubSeq(tx, 2, m - 3)) = response
  BY <1>2, <1>4, FoundReply DEF LinkAt
<1>6. /\ Books(ph) /\ ~Pending /\ response = Respond(Current)
  BY <1>4, <1>5 DEF LinkAt, ToPeer
<1>7. /\ Len(answered) = Len(asked) - 1 /\ Len(executed) = Len(asked)
      /\ executed = SubSeq(asked, 1, Len(executed)) /\ Len(asked) \in Nat
      /\ asked \in Seq(Requests) /\ Len(answered) \in Nat
  BY <1>2, <1>6, BookTypes DEF Books, Pending
<1>8. Len(answered) < Len(executed) /\ Current = executed[Len(answered) + 1]
  <2>1. executed = asked
    BY <1>7, SubSeqAll
  <2> QED BY <1>7, <2>1 DEF Current
<1>9. answered' = Append(answered, Respond(executed[Len(answered) + 1]))
  BY <1>1, <1>5, <1>6, <1>8 DEF Accepts
<1> QED BY <1>2, <1>8, <1>9 DEF Abstract!Answer

\* Every other step is hidden.
LEMMA OtherIsHidden ==
    ASSUME [Next]_vars, ~PeerAsk, ~ServerPacket, ~(PeerReply /\ answered' # answered)
    PROVE  UNCHANGED <<asked, executed, answered>>
<1>1. CASE Server
  BY <1>1 DEF Server, ServerNoAck, ServerReceive, ServerRetry, ServerBreak,
              ServerSent, ServerExit, Reply, Call, peerVars
<1>2. CASE IO
  BY <1>2 DEF IO, Progress, QuietTimeout, Starved, Late, Lost, Short, Stuck,
              NoOneElse, callVars, peerVars
<1>3. CASE Peer
  BY <1>3 DEF Peer, PeerAcked, PeerRepeats, PeerResends, PeerSkips, PeerReply,
              PeerBreak, IOElse, callVars, peerVars
<1>4. CASE UNCHANGED vars
  BY <1>4 DEF vars, callVars, peerVars
<1> QED BY <1>1, <1>2, <1>3, <1>4 DEF Next

(* Seen from outside, every request is executed once, in order, and answered *)
(* once with its own response, however often requests arrive damaged and     *)
(* responses are rejected or cut short.                                      *)
THEOREM ImplementsRequestReply ==
    RespondType /\ OnlyDamage => (Spec => Abstract!Spec)
<1> SUFFICES ASSUME RespondType, OnlyDamage PROVE Spec => Abstract!Spec
  OBVIOUS
<1>1. NoAckIsQuiet
  BY DEF OnlyDamage, NoAckIsQuiet
<1>2. Init => Abstract!Init
  BY DEF Init, Abstract!Init
<1>3. LinkIInv /\ [Next]_vars => [Abstract!Next]_(Abstract!vars)
  <2> SUFFICES ASSUME LinkIInv, [Next]_vars
               PROVE  Abstract!Next \/ UNCHANGED <<asked, executed, answered>>
    BY DEF Abstract!vars
  <2>1. Calm /\ breaks = 0
    BY DamageIsCalm DEF LinkIInv
  <2> QED BY <2>1, AskIsAsk, ExecuteIsExecute, AcceptIsAnswer, OtherIsHidden
          DEF Abstract!Next
<1> QED BY <1>1, <1>2, <1>3, LinkAlways, PTL DEF Spec, Abstract!Spec
=============================================================================
