--------------------------- MODULE PacketIO_proofs --------------------------
(* PacketIO stays well-typed, its write buffer never overflows and it hands  *)
(* over nothing but packets, for every buffer size and whatever the peer,    *)
(* the caller and the timers do.                                             *)
EXTENDS PacketWire, Framing_proofs

IOInv == TypeOK /\ ResponseFits

-----------------------------------------------------------------------------
(* Sizes and pieces of texts                                                 *)

LEMMA PrefixType ==
    ASSUME NEW s \in Seq(Byte), NEW n \in 0..Len(s)
    PROVE  /\ SubSeq(s, 1, n) \in Seq(Byte) /\ Len(SubSeq(s, 1, n)) = n
           /\ SubSeq(s, n + 1, Len(s)) \in Seq(Byte)
<1>1. \A m \in 0..Len(s) : m \in Int
  OBVIOUS
<1> QED BY SubSeqProperties

LEMMA HeadTailType ==
    ASSUME NEW s \in Seq(Byte), s # <<>>
    PROVE  /\ Head(s) \in Byte
           /\ Tail(s) \in Seq(Byte) /\ Len(Tail(s)) = Len(s) - 1
           /\ Len(s) > 0
OBVIOUS

LEMMA PiecesBounds ==
    ASSUME NEW len \in Nat, NEW n \in 1..Min({len, TransportBufferSize})
    PROVE  n \in 1..len /\ n <= TransportBufferSize
<1>1. TransportBufferSize \in Nat
  BY PacketIOAssumption
<1>2. Min({len, TransportBufferSize})
         = IF len <= TransportBufferSize THEN len ELSE TransportBufferSize
  BY <1>1 DEF Min
<1> QED BY <1>1, <1>2

LEMMA SizeType == WriteBufferSize \in Nat /\ WriteBufferSize >= 5
BY PacketIOAssumption DEF WriteBufferSize, max_packet_expansion

-----------------------------------------------------------------------------
(* One lemma per action                                                      *)

LEMMA InitInv == IOInit => IOInv
<1> SUFFICES ASSUME IOInit PROVE IOInv
  OBVIOUS
<1>1. 0 \in Byte /\ <<>> \in Seq(Byte) /\ Len(<<>>) = 0 /\ -1 \in -1..15
  BY DEF Byte
<1>2. /\ 0 <= PacketBufferSize /\ 0 <= TransportBufferSize
      /\ 0 <= WriteBufferSize
  BY SizeType, PacketIOAssumption
<1>3. TypeOK
  BY <1>1, <1>2 DEF IOInit, TypeOK, Outcomes
<1>4. ResponseFits
  BY DEF IOInit, ResponseFits
<1> QED BY <1>3, <1>4 DEF IOInv

LEMMA PeerInv == ASSUME IOInv, PeerSends \/ PeerReads PROVE IOInv'
<1>1. CASE PeerSends
  <2>1. rx' \in Seq(Byte)
    BY <1>1, PacketIOOpenAssumption, TextConcat DEF PeerSends, IOInv, TypeOK
  <2> QED BY <1>1, <2>1
          DEF PeerSends, IOInv, TypeOK, ResponseFits, decoder, encoder
<1>2. CASE PeerReads
  <2>1. tx' \in Seq(Byte)
    BY <1>2, HeadTailType DEF PeerReads, IOInv, TypeOK
  <2> QED BY <1>2, <2>1
          DEF PeerReads, IOInv, TypeOK, ResponseFits, decoder, encoder
<1> QED BY <1>1, <1>2

LEMMA ResetDecoderType ==
    ResetDecoder => /\ state' = "initial" /\ checksum' \in Byte
                    /\ csum_high' \in -1..15 /\ csum_low' \in -1..15
                    /\ recv_buf' = <<>> /\ recv_buf' \in Seq(Byte)
                    /\ Len(recv_buf') <= PacketBufferSize
BY PacketIOAssumption DEF ResetDecoder, Byte

LEMMA RecvDataInv == ASSUME IOInv, RecvData PROVE IOInv'
<1>1. PICK n \in Pieces : /\ read_buf' = SubSeq(rx, 1, n)
                          /\ rx' = SubSeq(rx, n + 1, Len(rx))
  BY DEF RecvData
<1>2. rx \in Seq(Byte) /\ Len(rx) \in Nat
  BY DEF IOInv, TypeOK
<1>3. n \in 1..Len(rx) /\ n <= TransportBufferSize
  BY <1>1, <1>2, PiecesBounds DEF Pieces
<1>4. /\ read_buf' \in Seq(Byte) /\ Len(read_buf') <= TransportBufferSize
      /\ rx' \in Seq(Byte)
  BY <1>1, <1>2, <1>3, PrefixType
<1>5. CASE pc = "await"
  BY <1>4, <1>5, ResetDecoderType
  DEF RecvData, IOInv, TypeOK, ResponseFits, decoder, encoder
<1>6. CASE pc # "await"
  BY <1>4, <1>6 DEF RecvData, IOInv, TypeOK, ResponseFits, decoder, encoder
<1> QED BY <1>5, <1>6

LEMMA RecvTimeoutInv ==
    ASSUME IOInv, NEW n \in Nat, RecvTimeout(n)
    PROVE  IOInv'
<1>1. rx \in Seq(Byte) /\ Len(rx) \in Nat
  BY DEF IOInv, TypeOK
<1>2. n \in 0..Len(rx)
  BY <1>1, PiecesBounds DEF RecvTimeout, Pieces
<1>3. rx' \in Seq(Byte)
  BY <1>1, <1>2, PrefixType DEF RecvTimeout
<1> QED BY <1>3 DEF RecvTimeout, TimedOut, Finish, Outcomes, IOInv, TypeOK, ResponseFits,
                    decoder, encoder

LEMMA ReceivePacketInv == ASSUME IOInv, receive_packet PROVE IOInv'
<1>1. CASE read_buf = <<>>
  BY <1>1 DEF receive_packet, IOInv, TypeOK, ResponseFits, Outcomes,
              decoder, encoder
<1>2. CASE read_buf # <<>>
  BY <1>2, ResetDecoderType
  DEF receive_packet, IOInv, TypeOK, ResponseFits, Outcomes, encoder
<1> QED BY <1>1, <1>2

\* A byte is taken from read_buf, which stays within its bound.
LEMMA GotByteType ==
    ASSUME IOInv, NEW where, GotByte(where)
    PROVE  /\ Head(read_buf) \in Byte
           /\ read_buf' \in Seq(Byte)
           /\ Len(read_buf') <= TransportBufferSize
<1>1. read_buf \in Seq(Byte) /\ Len(read_buf) <= TransportBufferSize
  BY DEF IOInv, TypeOK
<1> QED BY <1>1, HeadTailType, PacketIOAssumption DEF GotByte

LEMMA StorePayloadType ==
    ASSUME IOInv, NEW c \in Byte, pc = "decode",
           state \in {"packet_data", "escaped"}, StorePayload(c)
    PROVE  /\ recv_buf' \in Seq(Byte) /\ Len(recv_buf') <= PacketBufferSize
           /\ state' \in {"packet_data", "escaped"}
           /\ pc' \in {"decode", "idle"}
           /\ outcome' \in Outcomes
<1>1. recv_buf \in Seq(Byte) /\ Len(recv_buf) <= PacketBufferSize
  BY DEF IOInv, TypeOK
<1>2. CASE Len(recv_buf) < PacketBufferSize
  <2>1. /\ Append(recv_buf, c) \in Seq(Byte)
        /\ Len(Append(recv_buf, c)) = Len(recv_buf) + 1
        /\ Len(recv_buf) + 1 <= PacketBufferSize
    BY <1>1, <1>2, PacketIOAssumption
  <2>2. /\ recv_buf' = Append(recv_buf, c)
        /\ state' = "packet_data"
        /\ UNCHANGED <<pc, outcome>>
    BY <1>1, <1>2, PacketIOAssumption DEF StorePayload
  <2>3. outcome \in Outcomes
    BY DEF IOInv, TypeOK
  <2> QED BY <2>1, <2>2, <2>3
<1>3. CASE Len(recv_buf) >= PacketBufferSize
  BY <1>1, <1>3, PacketIOAssumption DEF StorePayload, Finish, Outcomes
<1> QED BY <1>1, <1>2, <1>3, PacketIOAssumption

-----------------------------------------------------------------------------
(* receive_packet's state machine                                            *)

LEMMA DecodeInitialInv == ASSUME IOInv, DecodeInitial PROVE IOInv'
<1>1. /\ read_buf' \in Seq(Byte) /\ Len(read_buf') <= TransportBufferSize
      /\ pc = "decode"
  BY GotByteType DEF DecodeInitial, GotByte
<1>2. recv_buf' \in Seq(Byte) /\ Len(recv_buf') <= PacketBufferSize
  <2>1. recv_buf' \in {recv_buf, <<>>}
    BY DEF DecodeInitial
  <2>2. <<>> \in Seq(Byte) /\ Len(<<>>) <= PacketBufferSize
    BY PacketIOAssumption
  <2> QED BY <2>1, <2>2 DEF IOInv, TypeOK
<1>3. /\ pc' \in {"decode", "idle"} /\ outcome' \in Outcomes
      /\ state' \in {"initial", "packet_data"}
  BY <1>1 DEF DecodeInitial, Finish, IOInv, TypeOK, Outcomes
<1>4. /\ rx' \in Seq(Byte) /\ tx' \in Seq(Byte)
      /\ send_buf' \in Seq(Byte) /\ did_interrupt' \in BOOLEAN
      /\ no_ack' \in BOOLEAN
      /\ write_buf' \in Seq(Byte) /\ Len(write_buf') <= WriteBufferSize
      /\ csum_high' \in -1..15 /\ csum_low' \in -1..15
      /\ checksum' \in Byte
  BY DEF DecodeInitial, IOInv, TypeOK, encoder
<1> QED BY <1>1, <1>2, <1>3, <1>4 DEF IOInv, TypeOK, ResponseFits

LEMMA ChecksumStep ==
    ASSUME IOInv, NEW c \in Byte
    PROVE  (checksum + c) % 256 \in Byte
<1>1. checksum + c \in Nat
  BY DEF IOInv, TypeOK, Byte
<1> QED BY <1>1, ModIsByte

LEMMA DecodeDataInv == ASSUME IOInv, DecodeData PROVE IOInv'
<1> DEFINE c == Head(read_buf)
<1>1. /\ c \in Byte /\ (checksum + c) % 256 \in Byte
      /\ read_buf' \in Seq(Byte) /\ Len(read_buf') <= TransportBufferSize
      /\ pc = "decode"
  BY GotByteType, ChecksumStep DEF DecodeData, GotByte
<1>2. /\ rx' \in Seq(Byte) /\ tx' \in Seq(Byte)
      /\ send_buf' \in Seq(Byte) /\ did_interrupt' \in BOOLEAN
      /\ no_ack' \in BOOLEAN
      /\ write_buf' \in Seq(Byte) /\ Len(write_buf') <= WriteBufferSize
      /\ csum_high' \in -1..15 /\ csum_low' \in -1..15
  BY DEF DecodeData, IOInv, TypeOK, encoder
<1>3. /\ checksum' \in Byte
      /\ recv_buf' \in Seq(Byte) /\ Len(recv_buf') <= PacketBufferSize
      /\ pc' \in {"decode", "idle"} /\ outcome' \in Outcomes
      /\ state' \in {"packet_data", "escaped", "check_hi"}
  <2>1. CASE c \in {packet_end, escape}
    BY <1>1, <2>1 DEF DecodeData, IOInv, TypeOK, packet_end, escape
  <2>2. CASE c \notin {packet_end, escape}
    <3>1. checksum' = (checksum + c) % 256 /\ StorePayload(c)
          /\ state = "packet_data"
      BY <2>2 DEF DecodeData
    <3> HIDE DEF c
    <3> QED BY <1>1, <3>1, StorePayloadType
  <2> QED BY <2>1, <2>2
<1> QED BY <1>1, <1>2, <1>3 DEF IOInv, TypeOK, ResponseFits

LEMMA DecodeEscapedInv == ASSUME IOInv, DecodeEscaped PROVE IOInv'
<1> DEFINE c == Head(read_buf)
<1>1. /\ c \in Byte /\ (checksum + c) % 256 \in Byte
      /\ read_buf' \in Seq(Byte) /\ Len(read_buf') <= TransportBufferSize
      /\ pc = "decode"
  BY GotByteType, ChecksumStep DEF DecodeEscaped, GotByte
<1>2. /\ rx' \in Seq(Byte) /\ tx' \in Seq(Byte)
      /\ send_buf' \in Seq(Byte) /\ did_interrupt' \in BOOLEAN
      /\ no_ack' \in BOOLEAN
      /\ write_buf' \in Seq(Byte) /\ Len(write_buf') <= WriteBufferSize
      /\ csum_high' \in -1..15 /\ csum_low' \in -1..15
      /\ checksum' \in Byte
  BY <1>1 DEF DecodeEscaped, IOInv, TypeOK, encoder
<1>3. /\ recv_buf' \in Seq(Byte) /\ Len(recv_buf') <= PacketBufferSize
      /\ pc' \in {"decode", "idle"} /\ outcome' \in Outcomes
      /\ state' \in {"packet_data", "escaped"}
  BY <1>1, EscapeInvolution, StorePayloadType DEF DecodeEscaped
<1> QED BY <1>1, <1>2, <1>3 DEF IOInv, TypeOK, ResponseFits

LEMMA DecodeCheckHiInv == ASSUME IOInv, DecodeCheckHi PROVE IOInv'
<1>1. /\ read_buf' \in Seq(Byte) /\ Len(read_buf') <= TransportBufferSize
      /\ decode_hex(Head(read_buf)) \in -1..15
      /\ pc = "decode"
  BY GotByteType, DecodeHexType DEF DecodeCheckHi, GotByte
<1> QED BY <1>1 DEF DecodeCheckHi, IOInv, TypeOK, ResponseFits, encoder

LEMMA DecodeCheckLoInv == ASSUME IOInv, DecodeCheckLo PROVE IOInv'
<1> DEFINE low == decode_hex(Head(read_buf))
<1>1. /\ read_buf' \in Seq(Byte) /\ Len(read_buf') <= TransportBufferSize
      /\ low \in -1..15
      /\ pc = "decode"
  BY GotByteType, DecodeHexType DEF DecodeCheckLo, GotByte
<1>2. /\ Append(tx, ack) \in Seq(Byte) /\ Append(tx, ack_err) \in Seq(Byte)
      /\ tx \in Seq(Byte)
  BY ControlsAreBytes DEF IOInv, TypeOK
<1>3. /\ rx' \in Seq(Byte) /\ tx' \in Seq(Byte)
      /\ send_buf' \in Seq(Byte) /\ did_interrupt' \in BOOLEAN
      /\ no_ack' \in BOOLEAN
      /\ write_buf' \in Seq(Byte) /\ Len(write_buf') <= WriteBufferSize
  BY <1>2 DEF DecodeCheckLo, IOInv, TypeOK, encoder
<1>4. /\ pc' \in {"decode", "idle"} /\ outcome' \in Outcomes
  BY <1>1 DEF DecodeCheckLo, Finish, IOInv, TypeOK, Outcomes
<1>5. /\ recv_buf' \in Seq(Byte) /\ Len(recv_buf') <= PacketBufferSize
      /\ state' \in {"initial", "check_lo"} /\ checksum' \in Byte
      /\ csum_high' \in -1..15 /\ csum_low' \in -1..15
  BY <1>1, ResetDecoderType DEF DecodeCheckLo, IOInv, TypeOK
<1> QED BY <1>1, <1>3, <1>4, <1>5 DEF IOInv, TypeOK, ResponseFits

-----------------------------------------------------------------------------
(* send_packet                                                               *)

\* What one more byte of the payload does to the room in write_buf.
LEMMA OneByteFits ==
    ASSUME NEW n \in Nat, NEW b \in 1..2, NEW left \in Nat \ {0},
           NEW size \in Nat, n + 2 * left + 4 <= size
    PROVE  n + b <= size /\ (n + b) + 2 * (left - 1) + 4 <= size
OBVIOUS

LEMMA BeginFits ==
    ASSUME NEW n \in 0..1, NEW left \in 0..PacketBufferSize
    PROVE  n + 2 * left + 4 <= WriteBufferSize
BY PacketIOAssumption DEF WriteBufferSize, max_packet_expansion

LEMMA SendPacketInv ==
    ASSUME IOInv, NEW p \in Seq(Byte), send_packet(p)
    PROVE  IOInv'
<1>1. Len(p) \in Nat
  OBVIOUS
<1>2. /\ rx' \in Seq(Byte) /\ tx' \in Seq(Byte)
      /\ read_buf' \in Seq(Byte) /\ Len(read_buf') <= TransportBufferSize
      /\ recv_buf' \in Seq(Byte) /\ Len(recv_buf') <= PacketBufferSize
      /\ state' = state /\ csum_high' = csum_high /\ csum_low' = csum_low
      /\ checksum' = 0 /\ did_interrupt' = FALSE /\ no_ack' = no_ack
      /\ send_buf' = p
  BY DEF send_packet, IOInv, TypeOK, decoder
<1>3. /\ pc' \in {"encode", "idle"} /\ outcome' \in Outcomes
      /\ write_buf' \in {<<>>, <<packet_begin>>}
  BY DEF send_packet, Finish, Outcomes
<1>4. /\ write_buf' \in Seq(Byte) /\ Len(write_buf') \in 0..1
  <2>1. <<>> \in Seq(Byte) /\ Len(<<>>) = 0
    OBVIOUS
  <2>2. <<packet_begin>> \in Seq(Byte) /\ Len(<<packet_begin>>) = 1
    BY ControlsAreBytes
  <2>3. CASE write_buf' = <<>>
    BY <2>1, <2>3
  <2>4. CASE write_buf' = <<packet_begin>>
    BY <2>2, <2>4
  <2> QED BY <1>3, <2>3, <2>4
<1>5. Len(write_buf') <= WriteBufferSize
  BY <1>4, SizeType
<1>6. ResponseFits'
  <2> SUFFICES ASSUME pc' = "encode" PROVE ResponseFits'
    BY DEF ResponseFits
  <2>1. Len(p) \in 0..PacketBufferSize
    <3>1. ~(max_packet_expansion(Len(p)) > WriteBufferSize)
      BY DEF send_packet, Finish
    <3> QED BY <1>1, <3>1, PacketIOAssumption
            DEF max_packet_expansion, WriteBufferSize
  <2>2. Len(write_buf') + 2 * Len(p) + 4 <= WriteBufferSize
    BY <1>4, <2>1, BeginFits
  <2> QED BY <1>2, <2>2 DEF ResponseFits
<1>7. 0 \in Byte
  BY DEF Byte
<1> QED BY <1>1, <1>2, <1>3, <1>4, <1>5, <1>6, <1>7 DEF IOInv, TypeOK

LEMMA EncodeByteInv == ASSUME IOInv, EncodeByte PROVE IOInv'
<1> DEFINE c == Head(send_buf)
           bytes == EncodedByte(c)
           n == Len(write_buf)
           left == Len(send_buf)
<1>1. /\ c \in Byte /\ send_buf' \in Seq(Byte)
      /\ Len(send_buf') = left - 1 /\ left \in Nat /\ left >= 1
  BY HeadTailType DEF EncodeByte, IOInv, TypeOK
<1>2. /\ bytes \in Seq(Byte) /\ Len(bytes) \in 1..2
      /\ ChecksumOf(c) \in Nat
  BY <1>1, EncodedByteType
<1>3. /\ write_buf \in Seq(Byte) /\ n \in Nat
      /\ n + 2 * left + 4 <= WriteBufferSize
  BY DEF IOInv, TypeOK, EncodeByte, ResponseFits
<1>4. /\ checksum' = (checksum + ChecksumOf(c)) % 256
      /\ PutBytes(bytes, "encode")
      /\ UNCHANGED <<rx, tx, read_buf, decoder, did_interrupt, no_ack>>
  BY DEF EncodeByte
<1> HIDE DEF c, bytes, left
<1>5. /\ n + Len(bytes) <= WriteBufferSize
      /\ (n + Len(bytes)) + 2 * (left - 1) + 4 <= WriteBufferSize
  <2> DEFINE b == Len(bytes)
  <2>1. n \in Nat /\ b \in 1..2 /\ left \in Nat \ {0}
    BY <1>1, <1>2, <1>3
  <2>2. n + 2 * left + 4 <= WriteBufferSize
    BY <1>3
  <2> HIDE DEF n, b
  <2>3. /\ n + b <= WriteBufferSize
        /\ (n + b) + 2 * (left - 1) + 4 <= WriteBufferSize
    BY <2>1, <2>2, SizeType, OneByteFits
  <2> QED BY <2>3 DEF b
<1>6. write_buf' = write_buf \o bytes /\ pc' = "encode" /\ outcome' = outcome
  BY <1>4, <1>5 DEF PutBytes
<1>7. /\ write_buf' \in Seq(Byte)
      /\ Len(write_buf') = n + Len(bytes)
  BY <1>2, <1>3, <1>6, TextConcat
<1>8. checksum' \in Byte
  <2>1. checksum \in Nat
    BY DEF IOInv, TypeOK, Byte
  <2>2. checksum + ChecksumOf(c) \in Nat
    BY <1>2, <2>1
  <2> QED BY <1>4, <2>2, ModIsByte
<1>9. Len(write_buf') + 2 * Len(send_buf') + 4 <= WriteBufferSize
  BY <1>1, <1>5, <1>7
<1>10. ResponseFits' /\ Len(write_buf') <= WriteBufferSize
  BY <1>5, <1>7, <1>9 DEF ResponseFits
<1> QED BY <1>1, <1>4, <1>6, <1>7, <1>8, <1>10 DEF IOInv, TypeOK, decoder

LEMMA EncodeEndInv == ASSUME IOInv, EncodeEnd PROVE IOInv'
<1>1. /\ Trailer(checksum) \in Seq(Byte) /\ Len(Trailer(checksum)) = 3
  BY TrailerType DEF IOInv, TypeOK
<1>2. /\ write_buf \in Seq(Byte) /\ Len(write_buf) \in Nat
      /\ Len(write_buf) + 4 <= WriteBufferSize
  BY DEF IOInv, TypeOK, EncodeEnd, ResponseFits
<1>3. write_buf' = write_buf \o Trailer(checksum) /\ pc' = "transmit"
      /\ outcome' = outcome
  BY <1>1, <1>2, SizeType DEF EncodeEnd, PutBytes
<1>4. write_buf' \in Seq(Byte) /\ Len(write_buf') <= WriteBufferSize
  <2> DEFINE trailer == Trailer(checksum)
  <2> HIDE DEF trailer
  <2>1. /\ write_buf' \in Seq(Byte)
        /\ Len(write_buf') = Len(write_buf) + 3
    <3>1. /\ trailer \in Seq(Byte) /\ Len(trailer) = 3
          /\ write_buf' = write_buf \o trailer
      BY <1>1, <1>3 DEF trailer
    <3> QED BY <1>2, <3>1, TextConcat, SMTT(20)
  <2> QED BY <1>2, <2>1, SizeType
<1> QED BY <1>3, <1>4 DEF EncodeEnd, IOInv, TypeOK, ResponseFits, decoder

LEMMA TransmitInv ==
    ASSUME IOInv, NEW n \in Nat, Transmit(n) \/ SendTimeout(n)
    PROVE  IOInv'
<1>1. write_buf \in Seq(Byte) /\ tx \in Seq(Byte) /\ n \in 0..Len(write_buf)
  BY DEF IOInv, TypeOK, Transmit, SendTimeout
<1>2. tx' \in Seq(Byte)
  BY <1>1, PrefixType, TextConcat DEF Transmit, SendTimeout
<1>3. pc' \in {"idle", "ack"} /\ outcome' \in Outcomes
  BY DEF Transmit, SendTimeout, Finish, Outcomes, IOInv, TypeOK
<1>4. UNCHANGED <<rx, read_buf, checksum, decoder, encoder>>
  BY DEF Transmit, SendTimeout
<1> QED BY <1>2, <1>3, <1>4
        DEF IOInv, TypeOK, ResponseFits, decoder, encoder

LEMMA AwaitAckInv == ASSUME IOInv, AwaitAck PROVE IOInv'
<1>1. /\ read_buf' \in Seq(Byte) /\ Len(read_buf') <= TransportBufferSize
      /\ pc = "ack"
  BY GotByteType DEF AwaitAck, GotByte
<1>2. /\ pc' \in {"ack", "idle", "transmit"} /\ outcome' \in Outcomes
      /\ did_interrupt' \in BOOLEAN
  BY <1>1 DEF AwaitAck, Finish, Outcomes, IOInv, TypeOK
<1>3. UNCHANGED <<rx, tx, checksum, decoder, send_buf, write_buf, no_ack>>
  BY DEF AwaitAck
<1> QED BY <1>1, <1>2, <1>3 DEF IOInv, TypeOK, ResponseFits, decoder

LEMMA SetNoAckInv == ASSUME IOInv, set_no_ack PROVE IOInv'
BY DEF set_no_ack, IOInv, TypeOK, ResponseFits, decoder

-----------------------------------------------------------------------------

LEMMA StepInv == IOInv /\ [OpenNext]_ioVars => IOInv'
<1> SUFFICES ASSUME IOInv, [OpenNext]_ioVars PROVE IOInv'
  OBVIOUS
<1>1. CASE PeerSends \/ PeerReads
  BY <1>1, PeerInv
<1>2. CASE Calls
  BY <1>2, ReceivePacketInv, SetNoAckInv, SendPacketInv, PacketIOOpenAssumption
  DEF Calls
<1>3. CASE RecvData \/ Receiving
  BY <1>3, RecvDataInv, DecodeInitialInv, DecodeDataInv, DecodeEscapedInv,
     DecodeCheckHiInv, DecodeCheckLoInv DEF Receiving
<1>4. CASE Sending
  BY <1>4, EncodeByteInv, EncodeEndInv, AwaitAckInv DEF Sending
<1>5. ASSUME NEW n \in 0..TransportBufferSize, RecvTimeout(n) PROVE IOInv'
  BY <1>5, RecvTimeoutInv, PacketIOAssumption
<1>6. ASSUME NEW n \in 0..WriteBufferSize, Transmit(n) \/ SendTimeout(n)
      PROVE  IOInv'
  BY <1>6, TransmitInv, SizeType
<1>7. CASE UNCHANGED ioVars
  BY <1>7 DEF ioVars, decoder, encoder, IOInv, TypeOK, ResponseFits
<1> QED BY <1>1, <1>2, <1>3, <1>4, <1>5, <1>6, <1>7 DEF OpenNext, IOStep

(* TypeOK of PacketIO for every buffer size, every byte stream and every     *)
(* payload that fits a packet buffer: each buffer of packet_io.h stays       *)
(* within the size it was given.                                             *)
THEOREM PacketIOTypeCorrect == OpenSpec => []TypeOK
<1>1. IOInv => TypeOK
  BY DEF IOInv
<1> QED BY <1>1, InitInv, StepInv, PTL DEF OpenSpec

(* ResponseFits: the write buffer that max_packet_expansion sizes takes any  *)
(* response, however many of its bytes need an escape.                       *)
THEOREM WriteBufferSuffices == OpenSpec => []ResponseFits
<1>1. IOInv => ResponseFits
  BY DEF IOInv
<1> QED BY <1>1, InitInv, StepInv, PTL DEF OpenSpec
-----------------------------------------------------------------------------
(* What receive_packet delivers                                              *)

(* The bytes w hold a '$', and what follows it up to the place end is a body *)
(* with this checksum that stands for the payload.                           *)
ReadsAs(w, end, escaped, payload, sum) ==
    \E n \in 1..(end - 1) :
        LET body == SubSeq(w, n + 1, end - 1)
        IN  /\ w[n] = packet_begin
            /\ Decoding(body) = Text(escaped, payload)
            /\ sum = Sum(body)

WireDecodes ==
    LET last == Len(wire) IN
    /\ state = "initial" => recv_buf = <<>> /\ checksum = 0
    /\ state \in {"packet_data", "escaped"} =>
          ReadsAs(wire, last + 1, state = "escaped", recv_buf, checksum)
    /\ state = "check_hi" => /\ ReadsAs(wire, last, FALSE, recv_buf, checksum)
                             /\ wire[last] = packet_end
    /\ state = "check_lo" => /\ ReadsAs(wire, last - 1, FALSE, recv_buf, checksum)
                             /\ wire[last - 1] = packet_end
                             /\ csum_high = decode_hex(wire[last])

WireInv ==
    /\ wire \in Seq(Byte)
    /\ pc # "idle" => outcome = "none"
    /\ pc = "decode" => WireDecodes
    /\ DeliveredIsFramed

\* One more byte at the end of a text, and the parts of the text.
LEMMA OneMore ==
    ASSUME NEW w \in Seq(Byte), NEW c \in Byte
    PROVE  /\ Append(w, c) \in Seq(Byte) /\ Len(Append(w, c)) = Len(w) + 1
           /\ Append(w, c)[Len(w) + 1] = c
           /\ \A i \in 1..Len(w) : Append(w, c)[i] = w[i]
OBVIOUS

LEMMA PartsStay ==
    ASSUME NEW w \in Seq(Byte), NEW c \in Byte,
           NEW a \in 1..(Len(w) + 1), NEW b \in 0..Len(w)
    PROVE  SubSeq(Append(w, c), a, b) = SubSeq(w, a, b)
OBVIOUS

LEMMA LastPartGrows ==
    ASSUME NEW w \in Seq(Byte), NEW c \in Byte, NEW a \in 1..(Len(w) + 1)
    PROVE  /\ SubSeq(Append(w, c), a, Len(w) + 1) = Append(SubSeq(w, a, Len(w)), c)
           /\ SubSeq(w, a, Len(w)) \in Seq(Byte)
OBVIOUS

LEMMA ReadsStay ==
    ASSUME NEW w \in Seq(Byte), NEW c \in Byte, NEW end \in 1..(Len(w) + 1),
           NEW e, NEW p, NEW s, ReadsAs(w, end, e, p, s)
    PROVE  ReadsAs(Append(w, c), end, e, p, s)
<1>1. PICK n \in 1..(end - 1) :
             /\ w[n] = packet_begin
             /\ Decoding(SubSeq(w, n + 1, end - 1)) = Text(e, p)
             /\ s = Sum(SubSeq(w, n + 1, end - 1))
  BY DEF ReadsAs
<1>2. Len(w) \in Nat /\ n \in 1..Len(w) /\ n + 1 \in 1..(Len(w) + 1)
      /\ end - 1 \in 0..Len(w)
  OBVIOUS
<1>3. /\ Append(w, c)[n] = w[n]
      /\ SubSeq(Append(w, c), n + 1, end - 1) = SubSeq(w, n + 1, end - 1)
  BY <1>2, OneMore, PartsStay
<1> QED BY <1>1, <1>3 DEF ReadsAs

\* What a body stands for when the byte c follows one that stands for p.
TextAfter(escaped, p, c) ==
    IF escaped THEN Text(FALSE, Append(p, code_escape_char(c)))
    ELSE IF c = escape THEN Text(TRUE, p)
    ELSE Text(FALSE, Append(p, c))

\* The decoder has read w, a frame's bytes so far, and c is the byte after them.
ReadsNext(w, c, e, p, s, d, q) ==
    /\ w \in Seq(Byte) /\ c \in Byte /\ e \in BOOLEAN /\ p \in Seq(Byte)
    /\ ReadsAs(w, Len(w) + 1, e, p, s)
    /\ Text(d, q) = TextAfter(e, p, c)

\* It has then read the byte too.
LEMMA ReadsMore ==
    ASSUME NEW w, NEW c, NEW e, NEW p, NEW s, NEW d, NEW q,
           ReadsNext(w, c, e, p, s, d, q)
    PROVE  ReadsAs(Append(w, c), Len(Append(w, c)) + 1, d, q, (s + c) % 256)
<1>0. /\ w \in Seq(Byte) /\ c \in Byte /\ e \in BOOLEAN /\ p \in Seq(Byte)
      /\ ReadsAs(w, Len(w) + 1, e, p, s)
      /\ Text(d, q) = TextAfter(e, p, c)
  BY DEF ReadsNext
<1> USE <1>0
<1> DEFINE v == Append(w, c)
           end == Len(w) + 1
<1>1. PICK n \in 1..(end - 1) :
             /\ w[n] = packet_begin
             /\ Decoding(SubSeq(w, n + 1, end - 1)) = Text(e, p)
             /\ s = Sum(SubSeq(w, n + 1, end - 1))
  BY DEF ReadsAs
<1> DEFINE body == SubSeq(w, n + 1, Len(w))
<1>2. Len(w) \in Nat /\ n \in 1..Len(w) /\ n + 1 \in 1..(Len(w) + 1)
      /\ end - 1 = Len(w)
  OBVIOUS
<1>3. Decoding(body) = Text(e, p) /\ s = Sum(body)
  BY <1>1, <1>2
<1>4. /\ v[n] = packet_begin /\ Len(v) = Len(w) + 1
      /\ SubSeq(v, n + 1, Len(w) + 1) = Append(body, c) /\ body \in Seq(Byte)
  BY <1>1, <1>2, OneMore, LastPartGrows, ZenonT(30)
<1> HIDE DEF body, v
<1>5. Decoding(Append(body, c)) = Text(d, q)
  <2>1. body \in Seq(Byte) /\ Decoding(body) = Text(e, p)
    BY <1>3, <1>4
  <2>2. Decoding(Append(body, c))
            = IF e THEN Text(FALSE, Append(p, code_escape_char(c)))
              ELSE IF c = escape THEN Text(TRUE, p)
              ELSE Text(FALSE, Append(p, c))
    BY ONLY <2>1, DecodingGrows, c \in Byte, e \in BOOLEAN, p \in Seq(Byte), ZenonT(30)
  <2> QED BY ONLY <2>2, Text(d, q) = TextAfter(e, p, c) DEF TextAfter
<1>6. Sum(Append(body, c)) = (s + c) % 256
  BY <1>3, <1>4, SumFacts
<1>7. /\ n \in 1..((Len(v) + 1) - 1) /\ (Len(v) + 1) - 1 = Len(w) + 1
  BY <1>2, <1>4
<1>8. ReadsAs(v, Len(v) + 1, d, q, (s + c) % 256)
  BY <1>4, <1>5, <1>6, <1>7, ZenonT(30) DEF ReadsAs
<1> QED BY <1>8 DEF v

LEMMA ReadsBegin ==
    ASSUME NEW w \in Seq(Byte)
    PROVE  LET v == Append(w, packet_begin)
           IN  ReadsAs(v, Len(v) + 1, FALSE, <<>>, 0)
<1> DEFINE v == Append(w, packet_begin)
           n == Len(w) + 1
<1>1. packet_begin \in Byte /\ Len(w) \in Nat
  BY ControlsAreBytes
<1>2. v \in Seq(Byte) /\ Len(v) = n /\ v[n] = packet_begin
  BY <1>1, OneMore
<1>3. n \in 1..((Len(v) + 1) - 1) /\ (Len(v) + 1) - 1 = n
  BY <1>1, <1>2
<1>4. SubSeq(v, n + 1, (Len(v) + 1) - 1) = <<>>
  BY <1>1, <1>2, <1>3, SubSeqEmpty
<1>5. <<>> \in Seq(Byte)
  OBVIOUS
<1>6. Decoding(<<>>) = Text(FALSE, <<>>) /\ Sum(<<>>) = 0
  BY <1>5, DecodingFacts, SumFacts
<1> HIDE DEF v, n
<1>7. ReadsAs(v, Len(v) + 1, FALSE, <<>>, 0)
  BY <1>2, <1>3, <1>4, <1>6 DEF ReadsAs
<1> QED BY <1>7 DEF v

\* What has been read, with its two digits, is a frame.
LEMMA ReadsEnd ==
    ASSUME NEW w \in Seq(Byte), NEW c \in Byte, NEW p, NEW s \in Byte,
           ReadsAs(w, Len(w) - 1, FALSE, p, s), w[Len(w) - 1] = packet_end,
           NEW high, NEW low, high = decode_hex(w[Len(w)]),
           low = decode_hex(c), high >= 0, low >= 0, s = 16 * high + low
    PROVE  EndsInFrame(Append(w, c), p)
<1> DEFINE v == Append(w, c)
           end == Len(w) - 1
<1>1. PICK n \in 1..(end - 1) :
             /\ w[n] = packet_begin
             /\ Decoding(SubSeq(w, n + 1, end - 1)) = Text(FALSE, p)
             /\ s = Sum(SubSeq(w, n + 1, end - 1))
  BY DEF ReadsAs
<1>2. /\ Len(w) \in Nat /\ n \in 1..Len(w) /\ n + 1 \in 1..(Len(w) + 1)
      /\ end - 1 \in 0..Len(w) /\ end \in 1..Len(w) /\ Len(w) \in 1..Len(w)
  OBVIOUS
<1>3. /\ Len(v) = Len(w) + 1 /\ v[Len(w) + 1] = c
      /\ v[n] = w[n] /\ v[end] = w[end] /\ v[Len(w)] = w[Len(w)]
      /\ SubSeq(v, n + 1, end - 1) = SubSeq(w, n + 1, end - 1)
  BY ONLY <1>2, OneMore, PartsStay
<1>4. Len(v) - 2 = end /\ n \in 1..(Len(v) - 3)
      /\ end + 1 = Len(w) /\ end + 2 = Len(w) + 1
  BY <1>2, <1>3
<1> HIDE DEF v, end
<1>5. EndsInFrame(v, p)
  BY <1>1, <1>3, <1>4 DEF EndsInFrame, end
<1> QED BY <1>5 DEF v

LEMMA WireInitInv == WireInit => WireInv
BY DEF WireInit, WireInv, IOInit, DeliveredIsFramed, WireDecodes

\* What the steps of receive_packet do to what it has read.
LEMMA LookedAt ==
    ASSUME IOInv, WireInv, Decode
    PROVE  LET c == Head(read_buf)
           IN  /\ c \in Byte /\ wire \in Seq(Byte) /\ wire' = Append(wire, c)
               /\ wire' \in Seq(Byte) /\ Len(wire) \in Nat
               /\ Len(wire') = Len(wire) + 1
               /\ pc = "decode" /\ outcome = "none" /\ WireDecodes
               /\ \A i \in 1..Len(wire) : wire'[i] = wire[i]
               /\ wire'[Len(wire')] = c
<1>1. pc = "decode" /\ read_buf # <<>>
  BY DEF Decode, Receiving, DecodeInitial, DecodeData, DecodeEscaped,
         DecodeCheckHi, DecodeCheckLo, GotByte
<1>2. Head(read_buf) \in Byte /\ wire \in Seq(Byte)
  BY <1>1, HeadTailType DEF IOInv, TypeOK, WireInv
<1> QED BY <1>1, <1>2, OneMore DEF Decode, WireInv

LEMMA InitialWire == ASSUME IOInv, WireInv, Decode, DecodeInitial PROVE WireInv'
<1> DEFINE c == Head(read_buf)
<1>1. /\ wire \in Seq(Byte) /\ wire' = Append(wire, c) /\ wire' \in Seq(Byte)
      /\ outcome = "none" /\ pc = "decode"
      /\ recv_buf = <<>> /\ checksum = 0 /\ checksum' = checksum
  BY LookedAt DEF DecodeInitial, WireDecodes
<1>2. outcome' \in {"none", "break"} /\ (pc' # "idle" => outcome' = "none")
  BY <1>1 DEF DecodeInitial, Finish
<1>3. pc' = "decode" => WireDecodes'
  <2>1. CASE c = packet_begin
    <3>1. state' = "packet_data" /\ recv_buf' = <<>> /\ checksum' = 0
      BY <1>1, <2>1 DEF DecodeInitial, IsBreak, packet_begin, break_character
    <3>2. ReadsAs(wire', Len(wire') + 1, FALSE, <<>>, 0)
      BY <1>1, <2>1, ReadsBegin
    <3> QED BY <3>1, <3>2 DEF WireDecodes
  <2>2. CASE c # packet_begin
    <3>1. state' = "initial" /\ recv_buf' = <<>> /\ checksum' = 0
      BY <1>1, <2>2 DEF DecodeInitial
    <3> QED BY <3>1 DEF WireDecodes
  <2> QED BY <2>1, <2>2
<1> QED BY <1>1, <1>2, <1>3 DEF WireInv, DeliveredIsFramed

\* A byte of the payload, decoded to b.
LEMMA StoredWire ==
    ASSUME IOInv, WireInv, Decode, state \in {"packet_data", "escaped"},
           NEW b, StorePayload(b),
           Text(FALSE, Append(recv_buf, b))
               = TextAfter(state = "escaped", recv_buf, Head(read_buf)),
           checksum' = (checksum + Head(read_buf)) % 256
    PROVE  WireInv'
<1> DEFINE c == Head(read_buf)
           e == (state = "escaped")
<1>1. /\ wire \in Seq(Byte) /\ wire' = Append(wire, c) /\ wire' \in Seq(Byte)
      /\ c \in Byte /\ outcome = "none" /\ pc = "decode" /\ e \in BOOLEAN
      /\ ReadsAs(wire, Len(wire) + 1, e, recv_buf, checksum)
  BY LookedAt DEF WireDecodes
<1>2. recv_buf \in Seq(Byte)
  BY DEF IOInv, TypeOK
<1>3. Text(FALSE, Append(recv_buf, b)) = TextAfter(e, recv_buf, c)
  OBVIOUS
<1> HIDE DEF e, c
<1>4. ReadsAs(Append(wire, c), Len(Append(wire, c)) + 1, FALSE,
              Append(recv_buf, b), (checksum + c) % 256)
  <2>1. ReadsNext(wire, c, e, recv_buf, checksum, FALSE, Append(recv_buf, b))
    BY <1>1, <1>2, <1>3 DEF ReadsNext
  <2> QED BY ONLY <2>1, ReadsMore, ZenonT(30)
<1>5. ReadsAs(wire', Len(wire') + 1, FALSE, Append(recv_buf, b), checksum')
  BY <1>1, <1>4 DEF c
<1>6. CASE pc' = "decode"
  <2>1. recv_buf' = Append(recv_buf, b) /\ state' = "packet_data"
        /\ outcome' = outcome
    BY <1>6 DEF StorePayload, Finish
  <2> QED BY <1>1, <1>5, <1>6, <2>1 DEF WireInv, WireDecodes, DeliveredIsFramed
<1>7. CASE pc' # "decode"
  <2>1. pc' = "idle" /\ outcome' = "buffer_too_small"
    BY <1>1, <1>7 DEF StorePayload, Finish
  <2> QED BY <1>1, <2>1 DEF WireInv, DeliveredIsFramed
<1> QED BY <1>6, <1>7

LEMMA DataWire == ASSUME IOInv, WireInv, Decode, DecodeData PROVE WireInv'
<1> DEFINE c == Head(read_buf)
<1>1. /\ wire \in Seq(Byte) /\ wire' = Append(wire, c) /\ wire' \in Seq(Byte)
      /\ Len(wire) \in Nat /\ Len(wire') = Len(wire) + 1 /\ wire'[Len(wire')] = c
      /\ c \in Byte /\ outcome = "none" /\ pc = "decode" /\ state = "packet_data"
      /\ ReadsAs(wire, Len(wire) + 1, FALSE, recv_buf, checksum)
  BY LookedAt DEF WireDecodes, DecodeData
<1>2. recv_buf \in Seq(Byte)
  BY DEF IOInv, TypeOK
<1>3. CASE c = packet_end
  <2>1. /\ state' = "check_hi" /\ UNCHANGED <<pc, outcome, checksum, recv_buf>>
    BY <1>3 DEF DecodeData, packet_end, escape
  <2>2. ReadsAs(wire', Len(wire'), FALSE, recv_buf', checksum')
    <3>1. Len(wire) + 1 \in 1..(Len(wire) + 1)
      BY <1>1
    <3> QED BY <1>1, <2>1, <3>1, ReadsStay
  <2> QED BY <1>1, <1>3, <2>1, <2>2 DEF WireInv, WireDecodes, DeliveredIsFramed
<1>4. CASE c = escape
  <2>1. /\ state' = "escaped" /\ UNCHANGED <<pc, outcome, recv_buf>>
        /\ checksum' = (checksum + c) % 256
    BY <1>4 DEF DecodeData, packet_end, escape
  <2>2. ReadsAs(wire', Len(wire') + 1, TRUE, recv_buf', checksum')
    <3>1. Text(TRUE, recv_buf) = TextAfter(FALSE, recv_buf, c)
      BY <1>4 DEF TextAfter
    <3>2. ReadsNext(wire, c, FALSE, recv_buf, checksum, TRUE, recv_buf)
      BY <1>1, <1>2, <3>1 DEF ReadsNext
    <3>3. ReadsAs(Append(wire, c), Len(Append(wire, c)) + 1, TRUE, recv_buf,
                  (checksum + c) % 256)
      BY ONLY <3>2, ReadsMore, ZenonT(30)
    <3> QED BY <1>1, <2>1, <3>3
  <2> QED BY <1>1, <2>1, <2>2 DEF WireInv, WireDecodes, DeliveredIsFramed
<1>5. CASE c \notin {packet_end, escape}
  <2>1. StorePayload(c) /\ checksum' = (checksum + c) % 256
    BY <1>5 DEF DecodeData
  <2>2. Text(FALSE, Append(recv_buf, c))
            = TextAfter(state = "escaped", recv_buf, c)
    BY <1>1, <1>5 DEF TextAfter
  <2> QED BY <1>1, <2>1, <2>2, StoredWire
<1> QED BY <1>3, <1>4, <1>5

LEMMA EscapedWire == ASSUME IOInv, WireInv, Decode, DecodeEscaped PROVE WireInv'
<1> DEFINE b == code_escape_char(Head(read_buf))
<1>1. /\ StorePayload(b) /\ state = "escaped"
      /\ checksum' = (checksum + Head(read_buf)) % 256
  BY DEF DecodeEscaped
<1>2. Text(FALSE, Append(recv_buf, b))
          = TextAfter(state = "escaped", recv_buf, Head(read_buf))
  BY <1>1 DEF TextAfter
<1>3. state \in {"packet_data", "escaped"}
  BY <1>1
<1> QED BY <1>1, <1>2, <1>3, StoredWire

LEMMA CheckHiWire == ASSUME IOInv, WireInv, Decode, DecodeCheckHi PROVE WireInv'
<1> DEFINE c == Head(read_buf)
<1>1. /\ wire \in Seq(Byte) /\ wire' = Append(wire, c) /\ wire' \in Seq(Byte)
      /\ Len(wire) \in Nat /\ Len(wire') = Len(wire) + 1 /\ wire'[Len(wire')] = c
      /\ \A i \in 1..Len(wire) : wire'[i] = wire[i]
      /\ c \in Byte /\ outcome = "none" /\ pc = "decode"
      /\ ReadsAs(wire, Len(wire), FALSE, recv_buf, checksum)
      /\ wire[Len(wire)] = packet_end
  BY LookedAt DEF WireDecodes, DecodeCheckHi
<1>2. /\ csum_high' = decode_hex(c) /\ state' = "check_lo"
      /\ UNCHANGED <<pc, outcome, checksum, recv_buf>>
  BY DEF DecodeCheckHi
<1>3. Len(wire) \in 1..Len(wire)
  BY <1>1 DEF ReadsAs
<1>4. ReadsAs(wire', Len(wire') - 1, FALSE, recv_buf', checksum')
  <2>1. Len(wire) \in 1..(Len(wire) + 1) /\ Len(wire') - 1 = Len(wire)
    BY <1>1, <1>3
  <2> QED BY <1>1, <1>2, <2>1, ReadsStay
<1>5. wire'[Len(wire') - 1] = packet_end
  BY <1>1, <1>3
<1> QED BY <1>1, <1>2, <1>4, <1>5 DEF WireInv, WireDecodes, DeliveredIsFramed

LEMMA CheckLoWire == ASSUME IOInv, WireInv, Decode, DecodeCheckLo PROVE WireInv'
<1> DEFINE c == Head(read_buf)
           low == decode_hex(c)
<1>1. /\ wire \in Seq(Byte) /\ wire' = Append(wire, c) /\ wire' \in Seq(Byte)
      /\ c \in Byte /\ outcome = "none" /\ pc = "decode"
      /\ ReadsAs(wire, Len(wire) - 1, FALSE, recv_buf, checksum)
      /\ wire[Len(wire) - 1] = packet_end
      /\ csum_high = decode_hex(wire[Len(wire)])
  BY LookedAt DEF WireDecodes, DecodeCheckLo
<1>2. checksum \in Byte
  BY DEF IOInv, TypeOK
<1>3. CASE no_ack
  BY <1>1, <1>3 DEF DecodeCheckLo, Finish, encoder, WireInv, DeliveredIsFramed
<1>4. CASE ~no_ack /\ ChecksumMatches(csum_high, low)
  <2>1. EndsInFrame(wire', recv_buf)
    BY <1>1, <1>2, <1>4, ReadsEnd DEF ChecksumMatches
  <2>2. pc' = "idle" /\ recv_buf' = recv_buf
    BY <1>4 DEF DecodeCheckLo, Finish
  <2> QED BY <1>1, <2>1, <2>2 DEF WireInv, DeliveredIsFramed
<1>5. CASE ~no_ack /\ ~ChecksumMatches(csum_high, low)
  <2>1. ResetDecoder /\ UNCHANGED <<pc, outcome>>
    BY <1>5 DEF DecodeCheckLo
  <2> QED BY <1>1, <2>1 DEF ResetDecoder, WireInv, WireDecodes, DeliveredIsFramed
<1> QED BY <1>3, <1>4, <1>5

\* A call that begins has looked at nothing.
LEMMA ReceiveWire == ASSUME IOInv, WireInv, Receive PROVE WireInv'
<1>1. /\ wire' = <<>> /\ outcome' = "none"
      /\ pc' = "await" \/ (pc' = "decode" /\ ResetDecoder)
  BY DEF Receive, receive_packet
<1>2. <<>> \in Seq(Byte)
  OBVIOUS
<1> QED BY <1>1, <1>2 DEF ResetDecoder, WireInv, WireDecodes, DeliveredIsFramed

LEMMA RecvDataWire == ASSUME IOInv, WireInv, RecvData, wire' = wire PROVE WireInv'
<1>1. pc \in {"await", "decode", "ack"} /\ outcome = "none"
      /\ outcome' = "none"
  BY DEF RecvData, AwaitsData, WireInv
<1>2. CASE pc = "await"
  <2>1. pc' = "decode" /\ ResetDecoder
    BY <1>2 DEF RecvData
  <2> QED BY <1>1, <2>1 DEF ResetDecoder, WireInv, WireDecodes, DeliveredIsFramed
<1>3. CASE pc # "await"
  <2>1. UNCHANGED <<pc, checksum, decoder>>
    BY <1>3 DEF RecvData
  <2> QED BY <1>1, <2>1 DEF decoder, WireInv, WireDecodes, DeliveredIsFramed
<1> QED BY <1>2, <1>3

\* The steps that change neither what was read nor what was made of it.
LEMMA OtherWire ==
    ASSUME WireInv, UNCHANGED <<decoder, wire>>, no_ack => no_ack',
           pc' # "decode" \/ UNCHANGED <<pc, checksum>>,
           pc' # "idle" => outcome' = "none",
           outcome' = "packet" => outcome = "packet"
    PROVE  WireInv'
BY DEF decoder, WireInv, WireDecodes, DeliveredIsFramed

LEMMA SendsWire ==
    ASSUME WireInv, wire' = wire,
           Sending \/ \E n \in Nat : Transmit(n) \/ SendTimeout(n)
    PROVE  WireInv'
<1>1. pc \in {"encode", "transmit", "ack"} /\ outcome = "none"
  BY DEF Sending, EncodeByte, EncodeEnd, AwaitAck, GotByte, Transmit,
         SendTimeout, WireInv
<1>2. UNCHANGED <<decoder, wire>> /\ no_ack' = no_ack
  BY DEF Sending, EncodeByte, EncodeEnd, AwaitAck, Transmit, SendTimeout,
         encoder
<1>3. pc' # "decode" /\ (pc' # "idle" => outcome' = "none") /\ outcome' # "packet"
  BY <1>1 DEF Sending, EncodeByte, EncodeEnd, AwaitAck, Transmit, SendTimeout,
              PutBytes, Finish
<1> QED BY <1>2, <1>3, OtherWire

LEMMA RestWire ==
    ASSUME WireInv, wire' = wire,
           \/ PeerSends \/ PeerReads \/ set_no_ack
           \/ \E p \in Payloads : send_packet(p)
           \/ \E n \in Nat : RecvTimeout(n)
    PROVE  WireInv'
<1>1. CASE PeerSends \/ PeerReads \/ set_no_ack
  BY <1>1, OtherWire DEF PeerSends, PeerReads, set_no_ack, encoder, WireInv
<1>2. CASE \E p \in Payloads : send_packet(p)
  BY <1>2, OtherWire DEF send_packet, Finish
<1>3. CASE \E n \in Nat : RecvTimeout(n)
  BY <1>3, OtherWire DEF RecvTimeout, TimedOut, Finish, encoder
<1> QED BY <1>1, <1>2, <1>3

LEMMA WireStepInv ==
    IOInv /\ WireInv /\ [WireNext]_<<ioVars, wire>> => WireInv'
<1> SUFFICES ASSUME IOInv, WireInv, [WireNext]_<<ioVars, wire>> PROVE WireInv'
  OBVIOUS
<1>1. CASE Decode
  BY <1>1, InitialWire, DataWire, EscapedWire, CheckHiWire, CheckLoWire
  DEF Decode, Receiving
<1>2. CASE Receive
  BY <1>2, ReceiveWire
<1>3. CASE Other
  <2>1. wire' = wire
    BY <1>3 DEF Other
  <2>2. CASE RecvData
    BY <2>1, <2>2, RecvDataWire
  <2>3. CASE Sending \/ \E n \in 0..WriteBufferSize : Transmit(n) \/ SendTimeout(n)
    <3>1. Sending \/ \E n \in Nat : Transmit(n) \/ SendTimeout(n)
      BY <2>3, SizeType
    <3> QED BY <2>1, <3>1, SendsWire
  <2>4. CASE \/ PeerSends \/ PeerReads \/ set_no_ack
             \/ \E p \in Payloads : send_packet(p)
             \/ \E n \in 0..TransportBufferSize : RecvTimeout(n)
    <3>1. \/ PeerSends \/ PeerReads \/ set_no_ack
          \/ \E p \in Payloads : send_packet(p)
          \/ \E n \in Nat : RecvTimeout(n)
      BY <2>4, PacketIOAssumption
    <3> QED BY <2>1, <3>1, RestWire
  <2> QED BY <1>3, <2>2, <2>3, <2>4 DEF Other
<1>4. CASE UNCHANGED <<ioVars, wire>>
  BY <1>4 DEF ioVars, decoder, encoder, WireInv, WireDecodes, DeliveredIsFramed
<1> QED BY <1>1, <1>2, <1>3, <1>4 DEF WireNext

\* The history variable only watches.
LEMMA WireIsOpen == WireInit => IOInit
BY DEF WireInit

LEMMA WireStepIsOpen == [WireNext]_<<ioVars, wire>> => [OpenNext]_ioVars
BY DEF WireNext, Decode, Receive, Other, OpenNext, IOStep, Calls

(* DeliveredIsFramed for every buffer size and every byte stream, whatever   *)
(* was damaged, rejected, cut short or timed out before: receive_packet      *)
(* returns a packet only for a frame whose digits, in either case, are the   *)
(* sum of its bytes, and returns exactly what those bytes stand for.         *)
THEOREM DeliversOnlyFrames == WireSpec => []DeliveredIsFramed
<1>1. WireInv => DeliveredIsFramed
  BY DEF WireInv
<1> QED BY <1>1, InitInv, StepInv, WireInitInv, WireStepInv, WireIsOpen,
           WireStepIsOpen, PTL DEF WireSpec
=============================================================================
