------------------------------ MODULE Framing -------------------------------
(* The packets of the GDB protocol, "$body#checksum", as its description has *)
(* them and as the GDB peer makes and reads them: the reference that         *)
(* send_packet and receive_packet are checked against.                       *)
EXTENDS GdbBytes, SequencesExt

\* The checksum of a body: its bytes, modulo 256.
SumStep == [p \in Byte \X Byte |-> (p[1] + p[2]) % 256]

Sum(bytes) == Fold(SumStep, 0, bytes)

Framed(body, sum) == <<packet_begin>> \o body \o Trailer(sum)

\* What a body stands for: a byte after an escape has bit 5 flipped.
Text(escaped, payload) == [escaped |-> escaped, payload |-> payload]

Texts == [escaped : BOOLEAN, payload : Seq(Byte)]

DecodeStep ==
    [p \in Texts \X Byte |->
        IF p[1].escaped
        THEN Text(FALSE, Append(p[1].payload, code_escape_char(p[2])))
        ELSE IF p[2] = escape THEN Text(TRUE, p[1].payload)
        ELSE Text(FALSE, Append(p[1].payload, p[2]))]

Decoding(body) == Fold(DecodeStep, Text(FALSE, <<>>), body)

Unescaped(body) == Decoding(body).payload

\* GDB escapes what must_escape_request names.
RequestByte(c) == IF must_escape_request(c) THEN <<escape, code_escape_char(c)>>
                  ELSE <<c>>

RequestStep == [p \in Seq(Byte) \X Byte |-> p[1] \o RequestByte(p[2])]

RequestBytes(payload) == Fold(RequestStep, <<>>, payload)

GoodFrame(payload) == LET bytes == RequestBytes(payload)
                      IN  Framed(bytes, Sum(bytes))

BadFrame(payload) == LET bytes == RequestBytes(payload)
                     IN  Framed(bytes, (Sum(bytes) + 1) % 256)

\* bytes is a well-formed packet that carries the payload.
IsFrame(bytes, payload) ==
    LET body == SubSeq(bytes, 2, Len(bytes) - 3) IN
    /\ Len(bytes) >= 4
    /\ bytes = Framed(body, Sum(body))
    /\ {packet_begin, packet_end, rle} \cap ToSet(body) = {}
    /\ Decoding(body) = Text(FALSE, payload)

\* The lengths of the complete packets at the front of the bytes: one or none.
FrameLengths(bytes) ==
    {n \in 4..Len(bytes) : /\ bytes[1] = packet_begin
                           /\ SelectInSeq(bytes, LAMBDA b : b = packet_end)
                                 = n - 2}

(* The bytes end in a packet with a valid checksum, in digits of either case,*)
(* whose body is the payload.                                                *)
EndsInFrame(bytes, payload) ==
    \E n \in 1..(Len(bytes) - 3) :
        LET end  == Len(bytes) - 2
            body == SubSeq(bytes, n + 1, end - 1)
            high == decode_hex(bytes[end + 1])
            low  == decode_hex(bytes[end + 2])
        IN  /\ bytes[n] = packet_begin /\ bytes[end] = packet_end
            /\ Decoding(body) = Text(FALSE, payload)
            /\ high >= 0 /\ low >= 0 /\ Sum(body) = 16 * high + low
=============================================================================
