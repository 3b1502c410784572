------------------------------ MODULE GdbBytes ------------------------------
(* The bytes of the GDB remote serial protocol and the pure functions that   *)
(* tasarch::gdb::PacketIO and its coders are built from.  A byte (u8) is a   *)
(* number of 0..255; u8 and `int checksum %= 256` arithmetic is modulo 256.  *)
EXTENDS Integers, Sequences

Byte == 0..255

\* A loop over a text: step is a function that takes the value so far and the
\* next element to the value after it.
Fold(step, start, text) ==
    LET after[i \in 0..Len(text)] ==
            IF i = 0 THEN start ELSE step[<<after[i - 1], text[i]>>]
    IN  after[Len(text)]

(* PacketIO::control_char and break_character *)
break_character == 3
packet_begin    == 36
packet_end      == 35
ack             == 43
ack_err         == 45
escape          == 125
rle             == 42

must_escape_request(c)  == c \in {packet_begin, packet_end, escape}
must_escape_response(c) == must_escape_request(c) \/ c = rle

\* c ^ 0x20: bit 5 is flipped, so one function escapes and unescapes.
code_escape_char(c) == IF (c \div 32) % 2 = 0 THEN c + 32 ELSE c - 32

\* Mutant of max_packet_expansion: no byte needs an escape.
max_packet_expansion_unescaped(packet_size) == 1 + packet_size + 4

max_packet_expansion(packet_size) == 1 + 2 * packet_size + 4

\* A nibble in 0..15, or -1 when c is no hexadecimal digit.
decode_hex(c) == IF c \in 97..102 THEN c - 87
                 ELSE IF c \in 65..70 THEN c - 55
                 ELSE IF c \in 48..57 THEN c - 48
                 ELSE -1

encode_hex(v) == LET n == v % 16 IN IF n < 10 THEN 48 + n ELSE 87 + n

\* What send_packet puts on the wire for one payload byte ...
EncodedByte(c) ==
    IF must_escape_response(c) THEN <<escape, code_escape_char(c)>> ELSE <<c>>

\* Mutant of ChecksumOf: the payload is summed, and not what is sent for it.
ChecksumOfPayload(c) == c

\* ... what that adds to the checksum ...
ChecksumOf(c) ==
    IF must_escape_response(c) THEN escape + code_escape_char(c) ELSE c

\* ... and the trailer that ends the packet.
Trailer(checksum) ==
    <<packet_end, encode_hex(checksum \div 16), encode_hex(checksum)>>
=============================================================================
