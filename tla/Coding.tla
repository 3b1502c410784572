------------------------------- MODULE Coding -------------------------------
(* The coders of tasarch::gdb as functions on the unread bytes of a buffer.  *)
(* A decoder gives the value and the bytes it leaves, or its exception.      *)
EXTENDS GdbBytes, SequencesExt

CONSTANT SizeMax       \* 2^64: a size_t counts modulo SizeMax

ASSUME CodingAssumption == SizeMax \in Nat \ {0}

NUL   == 0
plus  == 43
comma == 44
minus == 45
colon == 58
semicolon == 59
equals == 61

Decoded(val, rest) == [exc |-> "none", val |-> val, rest |-> rest]
Throws(exc) == [exc |-> exc, val |-> <<>>, rest |-> <<>>]

\* decode_buffer: a handler is called only if every one of its coders returns.
Failed(args) == \E i \in DOMAIN args : args[i].exc # "none"

-----------------------------------------------------------------------------

\* The bytes up to a separator, or up to the end unless one is required.
StrCoder(buf, sep, required) ==
    LET at == SelectInSeq(buf, LAMBDA c : c = sep) IN
    IF at > 0 THEN Decoded(SubSeq(buf, 1, at - 1), SubSeq(buf, at + 1, Len(buf)))
    ELSE IF required THEN Throws("runtime_error")
    ELSE Decoded(buf, <<>>)

\* A std::optional is a sequence of at most one value.
nullopt == <<>>

\* child is what the child coder makes of buf.
OptCoder(buf, child) ==
    IF buf = <<>> THEN Decoded(nullopt, <<>>)
    ELSE IF child.exc # "none" THEN child
    ELSE Decoded(<<child.val>>, child.rest)

\* from_chars: the longest run of digits at the front; what follows is ignored.
Digits(str) ==
    LET at == SelectInSeq(str, LAMBDA c : decode_hex(c) = -1)
    IN  IF at > 0 THEN SubSeq(str, 1, at - 1) ELSE str

HexValue(digits) ==
    LET value[i \in 0..Len(digits)] ==
            IF i = 0 THEN 0 ELSE 16 * value[i - 1] + decode_hex(digits[i])
    IN  value[Len(digits)]

\* Mutant of NumCoder: no digits are a zero.
NumCoderEmptyIsZero(str, low, high) ==
    LET value == HexValue(Digits(str))
    IN  IF value \notin low..high THEN Throws("system_error")
        ELSE Decoded(value, <<>>)

\* NumCoder<T, 16> for a T of the values low..high; only a signed T takes "-".
NumCoder(str, low, high) ==
    LET negative == low < 0 /\ str # <<>> /\ str[1] = minus
        digits   == Digits(IF negative THEN Tail(str) ELSE str)
        value    == IF negative THEN -HexValue(digits) ELSE HexValue(digits)
    IN  IF digits = <<>> \/ value \notin low..high THEN Throws("system_error")
        ELSE Decoded(value, <<>>)

\* A StrCoder with a child: number is what the child makes of the text str.
OnText(str, number) ==
    IF str.exc # "none" THEN str
    ELSE IF number.exc # "none" THEN number
    ELSE Decoded(number.val, str.rest)

Hex(buf, sep, required) ==
    LET str == StrCoder(buf, sep, required)
    IN  OnText(str, NumCoder(str.val, 0, SizeMax - 1))

SignedHex(buf, sep) ==
    LET str == StrCoder(buf, sep, FALSE)
    IN  OnText(str, NumCoder(str.val, -(SizeMax \div 2), SizeMax \div 2 - 1))

\* to_chars in base 16.
HexText(n) ==
    LET text[k \in Nat] == IF k < 16 THEN <<encode_hex(k)>>
                           ELSE Append(text[k \div 16], encode_hex(k))
    IN  text[n]

\* (decode_hex(hi) << 4) | decode_hex(lo) as a u8: -1 sets all the bits.
HexByte(hi, lo) ==
    IF decode_hex(lo) = -1 THEN 255
    ELSE IF decode_hex(hi) = -1 THEN 240 + decode_hex(lo)
    ELSE 16 * decode_hex(hi) + decode_hex(lo)

\* An odd digit at the end makes get_byte throw.
BytesDecode(buf) ==
    IF Len(buf) % 2 = 1 THEN Throws("out_of_range")
    ELSE Decoded([i \in 1..(Len(buf) \div 2) |-> HexByte(buf[2 * i - 1], buf[2 * i])],
                 <<>>)

BytesEncode(bytes) ==
    [i \in 1..(2 * Len(bytes)) |->
        LET byte == bytes[(i + 1) \div 2]
        IN  encode_hex(IF i % 2 = 1 THEN byte \div 16 ELSE byte)]

\* The texts between separators; nothing follows a separator at the end.
Parts(fields, text) == [fields |-> fields, text |-> text]

SplitStep(sep) ==
    [p \in [fields : Seq(Seq(Byte)), text : Seq(Byte)] \X Byte |->
        IF p[2] = sep THEN Parts(Append(p[1].fields, p[1].text), <<>>)
        ELSE Parts(p[1].fields, Append(p[1].text, p[2]))]

Fields(buf, sep) ==
    LET split == Fold(SplitStep(sep), Parts(<<>>, <<>>), buf)
    IN  IF split.text = <<>> THEN split.fields
        ELSE Append(split.fields, split.text)

\* ArrayCoder: elems is what its child makes of each of the fields; the first
\* exception ends it.
ArrayDecode(elems) ==
    LET bad == SelectInSeq(elems, LAMBDA e : e.exc # "none")
    IN  IF bad > 0 THEN elems[bad]
        ELSE Decoded([i \in DOMAIN elems |-> elems[i].val], <<>>)

\* The texts of the elements, with a separator between any two.
ArrayEncode(texts, sep) ==
    LET joined[i \in 0..Len(texts)] ==
            IF i = 0 THEN <<>>
            ELSE IF joined[i - 1] = <<>> THEN texts[i]
            ELSE joined[i - 1] \o <<sep>> \o texts[i]
    IN  joined[Len(texts)]

-----------------------------------------------------------------------------
(* FeatureCoder: name+, name- or name=value.                                 *)

Feature(name, value, supported) ==
    [name |-> name, value |-> value, supported |-> supported]

\* Mutant of ValueText: the value keeps its equals sign.
ValueTextKeepsEquals(text, at) == SubSeq(text, at, Len(text))

ValueText(text, at) == SubSeq(text, at + 1, Len(text))

(* back() of an empty text is undefined; with libstdc++ it reads a zero byte *)
(* of the string object itself, and find() then fails.                       *)
FeatureDecode(text) ==
    IF text # <<>> /\ Last(text) \in {plus, minus}
    THEN Decoded(Feature(Front(text), nullopt, Last(text) = plus), <<>>)
    ELSE LET at == SelectInSeq(text, LAMBDA c : c = equals)
         IN  IF at = 0 THEN Throws("runtime_error")
             ELSE Decoded(Feature(SubSeq(text, 1, at - 1),
                                  <<ValueText(text, at)>>, TRUE), <<>>)

FeatureText(f) ==
    f.name \o (IF f.value # nullopt THEN <<equals>> \o f.value[1]
               ELSE IF f.supported THEN <<plus>> ELSE <<minus>>)

DecodeFeatures(buf) ==
    LET fields == Fields(buf, semicolon)
    IN  ArrayDecode([i \in DOMAIN fields |-> FeatureDecode(fields[i])])

EncodeFeatures(features) ==
    ArrayEncode([i \in DOMAIN features |-> FeatureText(features[i])], semicolon)
=============================================================================
