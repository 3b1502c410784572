------------------------------ MODULE PacketIO ------------------------------
(* tasarch::gdb::PacketIO: the coroutines receive_packet and send_packet of  *)
(* one connection, down to the byte.  Both run on a byte stream that hands   *)
(* over data in arbitrary pieces; every co_await is a point where the peer,  *)
(* or the timer, may move first.  `pc` says where the running coroutine is:  *)
(*   idle      no call is running; `outcome` is what the latest one returned *)
(*   await     receive_packet, before the lock, waiting for any data         *)
(*   decode    receive_packet's state machine                                *)
(*   encode    send_packet, filling write_buf                                *)
(*   transmit  send_packet, at async_send                                    *)
(*   ack       send_packet, waiting for the acknowledgement                  *)
(* The buffers are byte queues (Buffer implements ByteQueue); the mutex is   *)
(* left out: the single caller never runs two calls at once.                 *)
EXTENDS GdbBytes, FiniteSetsExt

CONSTANTS PacketBufferSize,     \* gdb_packet_buffer_size
          TransportBufferSize   \* gdb_transport_buffer_size

ASSUME PacketIOAssumption == /\ PacketBufferSize \in Nat
                             /\ TransportBufferSize \in Nat \ {0}

WriteBufferSize == max_packet_expansion(PacketBufferSize)

VARIABLES
    rx,             \* bytes from the peer that the socket has not delivered
    tx,             \* bytes for the peer
    read_buf,       \* bytes received and not yet looked at
    recv_buf,       \* the payload decoded so far
    send_buf,       \* the payload still to be encoded
    write_buf,      \* the encoded packet
    pc, outcome,
    no_ack,         \* acknowledgements and checksums are off
    state,          \* enum State of receive_packet
    checksum, csum_high, csum_low,
    did_interrupt   \* of send_packet

decoder == <<state, csum_high, csum_low, recv_buf>>
encoder == <<send_buf, write_buf, did_interrupt, no_ack>>
ioVars  == <<rx, tx, read_buf, pc, outcome, checksum, decoder, encoder>>

Outcomes == {"none", "packet", "break", "sent", "timed_out",
             "buffer_too_small", "runtime_error"}

TypeOK ==
    /\ rx \in Seq(Byte) /\ tx \in Seq(Byte)
    /\ read_buf \in Seq(Byte) /\ Len(read_buf) <= TransportBufferSize
    /\ recv_buf \in Seq(Byte) /\ Len(recv_buf) <= PacketBufferSize
    /\ send_buf \in Seq(Byte)
    /\ write_buf \in Seq(Byte) /\ Len(write_buf) <= WriteBufferSize
    /\ pc \in {"idle", "await", "decode", "encode", "transmit", "ack"}
    /\ outcome \in Outcomes
    /\ state \in {"initial", "packet_data", "escaped", "check_hi", "check_lo"}
    /\ checksum \in Byte
    /\ csum_high \in -1..15 /\ csum_low \in -1..15
    /\ did_interrupt \in BOOLEAN /\ no_ack \in BOOLEAN

IOInit ==
    /\ rx = <<>> /\ tx = <<>> /\ read_buf = <<>> /\ recv_buf = <<>>
    /\ send_buf = <<>> /\ write_buf = <<>>
    /\ pc = "idle" /\ outcome = "none"
    /\ state = "initial" /\ checksum = 0
    /\ csum_high = -1 /\ csum_low = -1
    /\ did_interrupt = FALSE /\ no_ack = FALSE

Finish(result) == pc' = "idle" /\ outcome' = result

-----------------------------------------------------------------------------
(* recv_data, awaited from three places with read_buf empty.                 *)

\* Mutant of ResetDecoder: what a rejected packet has left in recv_buf stays.
ResetDecoderKeepsPayload == /\ state' = "initial" /\ checksum' = 0
                            /\ csum_high' = -1 /\ csum_low' = -1
                            /\ UNCHANGED recv_buf

ResetDecoder == /\ state' = "initial" /\ checksum' = 0
                /\ csum_high' = -1 /\ csum_low' = -1
                /\ recv_buf' = <<>>

AwaitsData == pc \in {"await", "decode", "ack"} /\ read_buf = <<>>

\* What one async_receive may take from the stream.
Pieces == 1..Min({Len(rx), TransportBufferSize})

RecvData ==
    /\ AwaitsData
    /\ \E n \in Pieces : /\ read_buf' = SubSeq(rx, 1, n)
                         /\ rx' = SubSeq(rx, n + 1, Len(rx))
    /\ \/ /\ pc = "await"
          /\ pc' = "decode"
          /\ ResetDecoder
       \/ /\ pc # "await"
          /\ UNCHANGED <<pc, checksum, decoder>>
    /\ UNCHANGED <<tx, outcome, encoder>>

\* Mutant of TimedOut: recv_data is tried again, and nothing is thrown.
TimedOutRetries == UNCHANGED <<pc, outcome>>

TimedOut == Finish("timed_out")

\* The timer of awaitable_with_timeout completes first.  If the receive had
\* completed too, what it took off the stream is lost: read_buf is not
\* advanced over it.
RecvTimeout(lost) ==
    /\ AwaitsData
    /\ lost \in {0} \cup Pieces
    /\ rx' = SubSeq(rx, lost + 1, Len(rx))
    /\ TimedOut
    /\ UNCHANGED <<tx, read_buf, checksum, decoder, encoder>>

-----------------------------------------------------------------------------
(* receive_packet                                                            *)

receive_packet ==
    /\ pc = "idle"
    /\ outcome' = "none"
    /\ \/ /\ read_buf = <<>>
          /\ pc' = "await"
          /\ UNCHANGED <<checksum, decoder>>
       \/ /\ read_buf # <<>>
          /\ pc' = "decode"
          /\ ResetDecoder
    /\ UNCHANGED <<rx, tx, read_buf, encoder>>

GotByte(where) == /\ pc = where
                  /\ read_buf # <<>>
                  /\ read_buf' = Tail(read_buf)

\* Mutant of StorePayload: put_byte does not ask for room.
StorePayloadUnchecked(c) ==
    /\ recv_buf' = Append(recv_buf, c)
    /\ state' = "packet_data"
    /\ UNCHANGED <<pc, outcome>>

\* Mutant of StorePayload: the frame is forgotten after a byte of its payload.
StorePayloadRestarts(c) ==
    /\ recv_buf' = Append(recv_buf, c)
    /\ state' = "initial"
    /\ UNCHANGED <<pc, outcome>>

\* recv_buf.put_byte(c), which throws when the packet is longer than the buffer.
StorePayload(c) ==
    \/ /\ Len(recv_buf) < PacketBufferSize
       /\ recv_buf' = Append(recv_buf, c)
       /\ state' = "packet_data"
       /\ UNCHANGED <<pc, outcome>>
    \/ /\ Len(recv_buf) >= PacketBufferSize
       /\ Finish("buffer_too_small")
       /\ UNCHANGED <<recv_buf, state>>

IsBreak(c) == c = break_character

DecodeInitial ==
    LET c == Head(read_buf) IN
    /\ GotByte("decode")
    /\ state = "initial"
    /\ \/ /\ c = packet_begin
          /\ state' = "packet_data"
          /\ UNCHANGED <<pc, outcome, recv_buf>>
       \/ /\ IsBreak(c)
          /\ recv_buf' = <<>>
          /\ Finish("break")
          /\ UNCHANGED state
       \/ /\ c # packet_begin /\ ~IsBreak(c)
          /\ UNCHANGED <<pc, outcome, state, recv_buf>>
    /\ UNCHANGED <<rx, tx, checksum, csum_high, csum_low, encoder>>

DecodeData ==
    LET c == Head(read_buf) IN
    /\ GotByte("decode")
    /\ state = "packet_data"
    /\ \/ /\ c = packet_end
          /\ state' = "check_hi"
          /\ UNCHANGED <<pc, outcome, checksum, recv_buf>>
       \/ /\ c = escape
          /\ state' = "escaped"
          /\ checksum' = (checksum + c) % 256
          /\ UNCHANGED <<pc, outcome, recv_buf>>
       \/ /\ c \notin {packet_end, escape}
          /\ checksum' = (checksum + c) % 256
          /\ StorePayload(c)
    /\ UNCHANGED <<rx, tx, csum_high, csum_low, encoder>>

DecodeEscaped ==
    LET c == Head(read_buf) IN
    /\ GotByte("decode")
    /\ state = "escaped"
    /\ checksum' = (checksum + c) % 256
    /\ StorePayload(code_escape_char(c))
    /\ UNCHANGED <<rx, tx, csum_high, csum_low, encoder>>

DecodeCheckHi ==
    /\ GotByte("decode")
    /\ state = "check_hi"
    /\ csum_high' = decode_hex(Head(read_buf))
    /\ state' = "check_lo"
    /\ UNCHANGED <<rx, tx, pc, outcome, checksum, csum_low, recv_buf, encoder>>

\* Mutant of ChecksumMatches: an undecodable digit no longer fails the check.
ChecksumMatchesUndecoded(high, low) ==
    checksum = (16 * (high % 16) + (low % 16)) % 256 \/ high < 0 \/ low < 0

ChecksumMatches(high, low) ==
    high >= 0 /\ low >= 0 /\ checksum = 16 * high + low

\* The '+' or '-' is sent without a timeout.
DecodeCheckLo ==
    LET low == decode_hex(Head(read_buf)) IN
    /\ GotByte("decode")
    /\ state = "check_lo"
    /\ \/ /\ no_ack
          /\ csum_low' = low
          /\ Finish("packet")
          /\ UNCHANGED <<tx, checksum, csum_high, state, recv_buf>>
       \/ /\ ~no_ack
          /\ ChecksumMatches(csum_high, low)
          /\ csum_low' = low
          /\ tx' = Append(tx, ack)
          /\ Finish("packet")
          /\ UNCHANGED <<checksum, csum_high, state, recv_buf>>
       \/ /\ ~no_ack
          /\ ~ChecksumMatches(csum_high, low)
          /\ ResetDecoder
          /\ tx' = Append(tx, ack_err)
          /\ UNCHANGED <<pc, outcome>>
    /\ UNCHANGED <<rx, encoder>>

Receiving == DecodeInitial \/ DecodeData \/ DecodeEscaped \/ DecodeCheckHi
                \/ DecodeCheckLo

-----------------------------------------------------------------------------
(* send_packet                                                               *)

\* write_buf.put_byte for each of the bytes: it throws when the buffer is full.
PutBytes(bytes, next) ==
    IF Len(write_buf) + Len(bytes) <= WriteBufferSize
    THEN /\ write_buf' = write_buf \o bytes
         /\ pc' = next
         /\ UNCHANGED outcome
    ELSE Finish("buffer_too_small") /\ UNCHANGED write_buf

\* did_interrupt is set up and the packet begun, unless it could be too large.
send_packet(response) ==
    /\ pc = "idle"
    /\ send_buf' = response
    /\ did_interrupt' = FALSE
    /\ checksum' = 0
    /\ IF max_packet_expansion(Len(response)) > WriteBufferSize
       THEN write_buf' = <<>> /\ Finish("runtime_error")
       ELSE write_buf' = <<packet_begin>> /\ pc' = "encode" /\ outcome' = "none"
    /\ UNCHANGED <<rx, tx, read_buf, decoder, no_ack>>

EncodeByte ==
    /\ pc = "encode"
    /\ send_buf # <<>>
    /\ LET c == Head(send_buf)
       IN  /\ checksum' = (checksum + ChecksumOf(c)) % 256
           /\ PutBytes(EncodedByte(c), "encode")
    /\ send_buf' = Tail(send_buf)
    /\ UNCHANGED <<rx, tx, read_buf, decoder, did_interrupt, no_ack>>

EncodeEnd ==
    /\ pc = "encode"
    /\ send_buf = <<>>
    /\ PutBytes(Trailer(checksum), "transmit")
    /\ UNCHANGED <<rx, tx, read_buf, checksum, decoder, send_buf, did_interrupt,
                   no_ack>>

\* async_send takes num bytes of the packet; fewer than all are only logged.
Transmit(num) ==
    /\ pc = "transmit"
    /\ num \in 0..Len(write_buf)
    /\ tx' = tx \o SubSeq(write_buf, 1, num)
    /\ \/ no_ack  /\ Finish("sent")
       \/ ~no_ack /\ pc' = "ack" /\ UNCHANGED outcome
    /\ UNCHANGED <<rx, read_buf, checksum, decoder, encoder>>

SendTimeout(num) ==
    /\ pc = "transmit"
    /\ num \in 0..Len(write_buf)
    /\ tx' = tx \o SubSeq(write_buf, 1, num)
    /\ Finish("timed_out")
    /\ UNCHANGED <<rx, read_buf, checksum, decoder, encoder>>

\* Mutant of IsAck: a '-' ends the loop too.
IsAckOrNak(c) == c \in {ack, ack_err}

IsAck(c) == c = ack

\* One byte of the loop that waits for the acknowledgement: anything that is
\* neither a break nor an acknowledgement is dropped.
AwaitAck ==
    LET c == Head(read_buf) IN
    /\ GotByte("ack")
    /\ \/ /\ c = break_character
          /\ did_interrupt' = TRUE
          /\ UNCHANGED <<pc, outcome>>
       \/ /\ IsAck(c)
          /\ Finish("sent")
          /\ UNCHANGED did_interrupt
       \/ /\ c = ack_err
          /\ pc' = "transmit"
          /\ UNCHANGED <<outcome, did_interrupt>>
       \/ /\ c \notin {break_character, ack, ack_err}
          /\ UNCHANGED <<pc, outcome, did_interrupt>>
    /\ UNCHANGED <<rx, tx, checksum, decoder, send_buf, write_buf, no_ack>>

Sending == EncodeByte \/ EncodeEnd \/ AwaitAck

set_no_ack ==
    /\ pc = "idle"
    /\ no_ack' = TRUE
    /\ UNCHANGED <<rx, tx, read_buf, pc, outcome, checksum, decoder, send_buf,
                   write_buf, did_interrupt>>

(* write_buf, sized by max_packet_expansion, is never too small for what     *)
(* remains of the response: put_byte does not throw half way through         *)
(* send_packet (packet_io.h 46-49, packet_io.cpp 81-106).                    *)
ResponseFits ==
    pc = "encode" =>
        Len(write_buf) + 2 * Len(send_buf) + 4 <= WriteBufferSize
=============================================================================
