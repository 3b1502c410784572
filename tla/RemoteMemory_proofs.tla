------------------------ MODULE RemoteMemory_proofs -------------------------
(* What the clients of internal_mem can rely on, for any connections, calls, *)
(* files and memory.  An m or M packet is a text of numbers and bytes: first *)
(* that its texts are read as they were written, then what a packet does to  *)
(* the storage, and then the invariant, in which the buffers of calls lie    *)
(* apart, and hold what their clients have read or written.                  *)
EXTENDS RemoteMemory, Framing_proofs, TLAPS

-----------------------------------------------------------------------------
(* The texts of numbers and bytes.                                           *)

\* What encode_hex makes.
Digit == 48..57 \cup 97..102

\* A hexadecimal digit stands for the low nibble of what it was made from.
LEMMA HexDigit ==
    ASSUME NEW n \in Nat
    PROVE  /\ encode_hex(n) \in Byte /\ encode_hex(n) \in Digit
           /\ decode_hex(encode_hex(n)) = n % 16
<1>1. n % 16 \in 0..15
  OBVIOUS
<1>2. encode_hex(n) = encode_hex(n % 16)
  BY HexOfLowNibble
<1>3. encode_hex(n % 16) \in Digit
  BY <1>1 DEF encode_hex, Digit
<1> QED BY <1>1, <1>2, <1>3, HexRoundTrip

\* HexText makes one digit more than for the number without its last one.
LEMMA HexTextStep ==
    ASSUME NEW n \in Nat
    PROVE  HexText(n) = IF n < 16 THEN <<encode_hex(n)>>
                        ELSE Append(HexText(n \div 16), encode_hex(n))
<1> DEFINE Solves(f) == f = [k \in Nat |-> IF k < 16 THEN <<encode_hex(k)>>
                                   ELSE Append(f[k \div 16], encode_hex(k))]
           stop == 0..15
           base == [k \in Nat |-> <<encode_hex(k)>>]
           h == [k \in Nat |-> k \div 16]
           g == [p \in Nat \X Seq(Byte) |-> Append(p[2], encode_hex(p[1]))]
<1>1. \E f : Solves(f)
  <2>1. /\ base \in [Nat -> Seq(Byte)] /\ h \in [Nat -> Nat]
        /\ g \in [Nat \X Seq(Byte) -> Seq(Byte)]
        /\ \A k \in Nat \ stop : h[k] < k
    <3>1. base \in [Nat -> Seq(Byte)]
      BY HexDigit
    <3>2. h \in [Nat -> Nat] /\ \A k \in Nat \ stop : h[k] < k
      OBVIOUS
    <3>3. \A k \in Nat, s \in Seq(Byte) : Append(s, encode_hex(k)) \in Seq(Byte)
      BY HexDigit
    <3>4. g \in [Nat \X Seq(Byte) -> Seq(Byte)]
      BY <3>3
    <3> QED BY <3>1, <3>2, <3>4
  <2> HIDE DEF base, h, g, stop
  <2>2. PICK f \in [Nat -> Seq(Byte)] :
            \A k \in Nat : /\ k \in stop => f[k] = base[k]
                           /\ k \notin stop => f[k] = g[<<k, f[h[k]]>>]
    <3>1. RecursionOver(Nat, Seq(Byte), stop, base, h, g)
      BY <2>1 DEF RecursionOver
    <3>2. PICK f \in [Nat -> Seq(Byte)] : Computes(f, Nat, stop, base, h, g)
      BY <3>1, Recursion
    <3> QED BY <3>2 DEF Computes
  <2>3. ASSUME NEW k \in Nat
        PROVE  f[k] = IF k < 16 THEN <<encode_hex(k)>>
                      ELSE Append(f[k \div 16], encode_hex(k))
    <3>1. k \div 16 \in Nat /\ f[k \div 16] \in Seq(Byte)
      OBVIOUS
    <3>2. CASE k < 16
      <4>0. k \in stop
        BY <3>2 DEF stop
      <4>1. f[k] = base[k]
        BY <2>2, <4>0
      <4> QED BY <3>2, <4>1 DEF base
    <3>3. CASE ~(k < 16)
      <4>1. f[k] = g[<<k, f[h[k]]>>]
        BY <2>2, <3>3 DEF stop
      <4>2. f[k] = g[<<k, f[k \div 16]>>]
        BY <4>1 DEF h
      <4>3. f[k] = Append(f[k \div 16], encode_hex(k))
        BY <4>2, <3>1 DEF g
      <4> QED BY <3>3, <4>3
    <3> QED BY <3>2, <3>3
  <2> QED BY <2>3
<1> DEFINE t == CHOOSE f : Solves(f)
<1>2. Solves(t)
  BY <1>1
<1>3. \A k \in Nat : HexText(k) = t[k]
  BY DEF HexText
<1> HIDE DEF t
<1>4. t[n] = IF n < 16 THEN <<encode_hex(n)>>
             ELSE Append(t[n \div 16], encode_hex(n))
  BY <1>2
<1>5. n \div 16 \in Nat
  OBVIOUS
<1> QED BY <1>3, <1>4, <1>5

\* decode_hex gives a number, and for what is no digit a -1.
LEMMA DecodeHexInt == ASSUME NEW c \in Byte PROVE decode_hex(c) \in Int
BY DEF decode_hex, Byte

\* v[i] is the number that the first i digits of s stand for.
Counts(v, s) == /\ v \in [0..Len(s) -> Int] /\ v[0] = 0
                /\ \A i \in 1..Len(s) : v[i] = 16 * v[i - 1] + decode_hex(s[i])

\* HexValue is the last of the numbers that the prefixes stand for.
LEMMA HexValueCounts ==
    ASSUME NEW s \in Seq(Byte)
    PROVE  \E v : Counts(v, s) /\ HexValue(s) = v[Len(s)]
<1> DEFINE D == 0..Len(s)
           Solves(f) == f = [i \in D |-> IF i = 0 THEN 0
                                         ELSE 16 * f[i - 1] + decode_hex(s[i])]
           stop == {0}
           base == [i \in D |-> 0]
           h == [i \in D |-> IF i = 0 THEN 0 ELSE i - 1]
           g == [p \in D \X Int |-> IF p[1] = 0 THEN 0
                                  ELSE 16 * p[2] + decode_hex(s[p[1]])]
           Right(f) == /\ f[0] = 0
                       /\ \A i \in 1..Len(s) : f[i] = 16 * f[i - 1] + decode_hex(s[i])
<1>1. \E f \in [D -> Int] : Right(f)
  <2>1. base \in [D -> Int] /\ h \in [D -> D] /\ \A i \in D \ stop : h[i] < i
    OBVIOUS
  <2> HIDE DEF stop, base, h, g
  <2>2. PICK f \in [D -> Int] : Computes(f, D, stop, base, h, g)
    <3>1. g \in [D \X Int -> Int]
      <4>1. \A i \in 1..Len(s) : s[i] \in Byte
        OBVIOUS
      <4>2. \A p \in D \X Int : p[1] # 0 => 16 * p[2] + decode_hex(s[p[1]]) \in Int
        BY <4>1, DecodeHexInt
      <4> QED BY <4>2 DEF g
    <3>2. RecursionOver(D, Int, stop, base, h, g)
      BY <2>1, <3>1 DEF RecursionOver
    <3> QED BY <3>2, Recursion
  <2>3. f[0] = 0
    <3>1. 0 \in D /\ 0 \in stop
      BY DEF stop
    <3> QED BY <2>2, <3>1 DEF base, Computes
  <2>4. ASSUME NEW i \in 1..Len(s)
        PROVE  f[i] = 16 * f[i - 1] + decode_hex(s[i])
    <3>1. i \in D /\ i \notin stop /\ i - 1 \in D /\ f[i - 1] \in Int
      BY DEF stop
    <3>2. f[i] = g[<<i, f[h[i]]>>]
      BY <2>2, <3>1 DEF Computes
    <3>3. h[i] = i - 1
      BY <3>1 DEF h, stop
    <3>4. g[<<i, f[i - 1]>>] = 16 * f[i - 1] + decode_hex(s[i])
      BY <3>1 DEF g
    <3> QED BY <3>2, <3>3, <3>4
  <2> QED BY <2>3, <2>4
<1>2. \E f : Solves(f)
  <2>1. PICK f \in [D -> Int] : Right(f)
    BY <1>1
  <2>2. \A i \in D : f[i] = IF i = 0 THEN 0 ELSE 16 * f[i - 1] + decode_hex(s[i])
    BY <2>1
  <2> QED BY <2>2
<1> DEFINE t == CHOOSE f : Solves(f)
<1>3. Solves(t)
  BY <1>2
<1>4. HexValue(s) = t[Len(s)]
  BY DEF HexValue
<1> HIDE DEF t
<1>5. Right(t)
  BY <1>3
<1>6. \A i \in D : t[i] \in Int
  <2> DEFINE P == {i \in D : t[i] \in Int}
  <2>1. ASSUME NEW i \in D, \A j \in D : j < i => j \in P PROVE i \in P
    <3>1. CASE i = 0
      BY <3>1, <1>5
    <3>2. CASE i # 0
      <4>1. i \in 1..Len(s) /\ i - 1 \in D /\ i - 1 < i /\ s[i] \in Byte
        BY <3>2
      <4>2. t[i - 1] \in Int
        BY <4>1, <2>1
      <4> QED BY <4>1, <4>2, <1>5, DecodeHexInt, SMTT(20)
    <3> QED BY <3>1, <3>2
  <2>2. D \subseteq Nat
    OBVIOUS
  <2> HIDE DEF P, D
  <2>3. D \subseteq P
    BY <2>1, <2>2, StrongInduct
  <2> QED BY <2>3 DEF P
<1>7. t \in [D -> Int]
  BY <1>3, <1>6
<1> QED BY <1>4, <1>5, <1>7 DEF Counts

\* The digits of a text determine what its prefixes stand for.
LEMMA CountsAgree ==
    ASSUME NEW s \in Seq(Byte), NEW t \in Seq(Byte), NEW v, NEW w,
           Counts(v, s), Counts(w, t), Len(s) <= Len(t),
           \A i \in 1..Len(s) : s[i] = t[i]
    PROVE  \A i \in 0..Len(s) : v[i] = w[i]
<1> DEFINE D == 0..Len(s)
           P == {i \in D : v[i] = w[i]}
<1>1. ASSUME NEW i \in D, \A j \in D : j < i => j \in P PROVE i \in P
  <2>1. CASE i = 0
    BY <2>1 DEF Counts
  <2>2. CASE i # 0
    <3>1. /\ i \in 1..Len(s) /\ i \in 1..Len(t)
          /\ i - 1 \in D /\ i - 1 < i /\ s[i] = t[i]
      BY <2>2
    <3>2. v[i - 1] = w[i - 1]
      BY <1>1, <3>1
    <3> QED BY <3>1, <3>2 DEF Counts
  <2> QED BY <2>1, <2>2
<1>2. D \subseteq Nat
  OBVIOUS
<1> HIDE DEF P, D
<1>3. D \subseteq P
  BY <1>1, <1>2, StrongInduct
<1> QED BY <1>3 DEF P, D

\* One more digit behind a number multiplies it by 16 and adds the digit.
LEMMA HexValueAppend ==
    ASSUME NEW s \in Seq(Byte), NEW d \in Byte
    PROVE  /\ HexValue(Append(s, d)) = 16 * HexValue(s) + decode_hex(d)
           /\ HexValue(s) \in Int
           /\ HexValue(<<>>) = 0
<1> DEFINE t == Append(s, d)
<1>1. /\ t \in Seq(Byte) /\ Len(t) = Len(s) + 1 /\ t[Len(t)] = d
      /\ \A i \in 1..Len(s) : t[i] = s[i]
  OBVIOUS
<1> HIDE DEF t
<1>2. PICK v : Counts(v, s) /\ HexValue(s) = v[Len(s)]
  BY HexValueCounts
<1>3. PICK w : Counts(w, t) /\ HexValue(t) = w[Len(t)]
  BY <1>1, HexValueCounts
<1>4. v[Len(s)] = w[Len(s)]
  BY <1>1, <1>2, <1>3, CountsAgree
<1>5. w[Len(t)] = 16 * w[Len(s)] + decode_hex(d)
  BY <1>1, <1>3 DEF Counts
<1>6. HexValue(s) \in Int
  BY <1>2 DEF Counts
<1>7. HexValue(<<>>) = 0
  <2>1. <<>> \in Seq(Byte) /\ Len(<<>>) = 0
    OBVIOUS
  <2>2. PICK u : Counts(u, <<>>) /\ HexValue(<<>>) = u[Len(<<>>)]
    BY <2>1, HexValueCounts
  <2> QED BY <2>1, <2>2 DEF Counts
<1> QED BY <1>2, <1>3, <1>4, <1>5, <1>6, <1>7 DEF t

\* The digits of a number: what they are made of, and that they count to it.
HexTextOf(n, s) ==
    /\ s \in Seq(Byte) /\ Len(s) >= 1
    /\ \A i \in 1..Len(s) : s[i] \in Digit
    /\ HexValue(s) = n

\* What to_chars writes from_chars reads, for every number: its text is made
\* of hexadecimal digits, is not empty, and stands for the number.
THEOREM HexTextRoundTrip ==
    ASSUME NEW n \in Nat
    PROVE  HexTextOf(n, HexText(n))
<1> DEFINE P == {k \in Nat : HexTextOf(k, HexText(k))}
<1>1. ASSUME NEW k \in Nat, \A j \in Nat : j < k => j \in P PROVE k \in P
  <2>1. CASE k < 16
    <3>1. HexText(k) = Append(<<>>, encode_hex(k)) /\ HexText(k) = <<encode_hex(k)>>
      BY <2>1, HexTextStep
    <3>2. HexValue(HexText(k)) = 16 * 0 + decode_hex(encode_hex(k))
      <4>1. <<>> \in Seq(Byte)
        OBVIOUS
      <4> QED BY <3>1, <4>1, HexDigit, HexValueAppend
    <3>3. decode_hex(encode_hex(k)) = k
      BY <2>1, HexDigit
    <3>4. encode_hex(k) \in Byte /\ encode_hex(k) \in Digit
      BY HexDigit
    <3>5. HexTextOf(k, <<encode_hex(k)>>)
      BY <3>1, <3>2, <3>3, <3>4 DEF HexTextOf
    <3> QED BY <3>1, <3>5
  <2>2. CASE ~(k < 16)
    <3> DEFINE s == HexText(k \div 16)
    <3>1. k \div 16 \in Nat /\ k \div 16 < k /\ k = 16 * (k \div 16) + (k % 16)
      BY <2>2
    <3>2. HexTextOf(k \div 16, s)
      BY <1>1, <3>1
    <3>3. HexText(k) = Append(s, encode_hex(k))
      BY <2>2, HexTextStep
    <3> HIDE DEF s
    <3>4. s \in Seq(Byte) /\ encode_hex(k) \in Byte /\ encode_hex(k) \in Digit
      BY <3>2, HexDigit DEF HexTextOf
    <3>5. HexValue(HexText(k)) = k
      <4>1. HexValue(HexText(k)) = 16 * (k \div 16) + (k % 16)
        BY <3>2, <3>3, <3>4, HexValueAppend, HexDigit DEF HexTextOf
      <4> QED BY <3>1, <4>1
    <3>6. /\ Append(s, encode_hex(k)) \in Seq(Byte)
          /\ Len(Append(s, encode_hex(k))) = Len(s) + 1
          /\ \A i \in 1..Len(s) + 1 :
                Append(s, encode_hex(k))[i] = IF i <= Len(s) THEN s[i] ELSE encode_hex(k)
      BY <3>4
    <3>7. \A i \in 1..Len(s) + 1 : Append(s, encode_hex(k))[i] \in Digit
      BY <3>2, <3>4, <3>6 DEF HexTextOf
    <3>8. HexTextOf(k, Append(s, encode_hex(k)))
      BY <3>2, <3>3, <3>5, <3>6, <3>7 DEF HexTextOf
    <3> QED BY <3>3, <3>8
  <2> QED BY <2>1, <2>2
<1> HIDE DEF P
<1>2. Nat \subseteq P
  BY <1>1, StrongInduct
<1> QED BY <1>2 DEF P

\* The least element of a set of numbers is what Min says.
LEMMA MinOf ==
    ASSUME NEW I, I \subseteq Nat, I # {}
    PROVE  Min(I) \in I /\ \A i \in I : Min(I) <= i
BY LeastNumber DEF Min

\* A text of hexadecimal digits has none of the separators, and no minus.
LEMMA DigitFacts ==
    ASSUME NEW d \in Digit
    PROVE  /\ decode_hex(d) # -1 /\ d \in Byte
           /\ d \notin {NUL, comma, colon, semicolon, minus}
BY DEF Digit, decode_hex, Byte, NUL, comma, colon, semicolon, minus

\* from_chars takes a text of digits whole.
LEMMA DigitsOfDigits ==
    ASSUME NEW s \in Seq(Byte), \A i \in 1..Len(s) : s[i] \in Digit
    PROVE  Digits(s) = s
<1>1. \A i \in 1..Len(s) : decode_hex(s[i]) # -1
  BY DigitFacts
<1>2. {i \in 1..Len(s) : decode_hex(s[i]) = -1} = {}
  BY <1>1
<1>3. SelectInSeq(s, LAMBDA c : decode_hex(c) = -1) = 0
  BY <1>2 DEF SelectInSeq
<1> QED BY <1>3 DEF Digits

\* NumCoder reads back a number that HexText wrote, if T has it.
LEMMA NumCoderRoundTrip ==
    ASSUME NEW n \in Nat, NEW low \in Int, NEW high \in Int, low <= 0
    PROVE  NumCoder(HexText(n), low, high) =
               IF n <= high THEN Decoded(n, <<>>) ELSE Throws("system_error")
<1> DEFINE s == HexText(n)
<1>1. HexTextOf(n, s)
  BY HexTextRoundTrip
<1>2. s # <<>> /\ s[1] \in Digit
  BY <1>1 DEF HexTextOf
<1>3. s[1] # minus
  BY <1>2, DigitFacts
<1>4. Digits(s) = s
  BY <1>1, DigitsOfDigits DEF HexTextOf
<1>5. HexValue(s) = n
  BY <1>1 DEF HexTextOf
<1> HIDE DEF s
<1>6. n \notin low..high <=> ~(n <= high)
  OBVIOUS
<1> QED BY <1>2, <1>3, <1>4, <1>5, <1>6 DEF NumCoder, s

\* A text is split at the first separator ...
LEMMA StrCoderSplits ==
    ASSUME NEW s \in Seq(Byte), NEW sep \in Byte, NEW rest \in Seq(Byte),
           NEW required, \A i \in 1..Len(s) : s[i] # sep
    PROVE  StrCoder(s \o <<sep>> \o rest, sep, required) = Decoded(s, rest)
<1> DEFINE t == s \o <<sep>> \o rest
           at == SelectInSeq(t, LAMBDA c : c = sep)
           I == {i \in 1..Len(t) : t[i] = sep}
<1>1. /\ t \in Seq(Byte) /\ Len(t) = Len(s) + 1 + Len(rest)
      /\ t[Len(s) + 1] = sep
      /\ \A i \in 1..Len(s) : t[i] = s[i]
      /\ \A i \in 1..Len(rest) : t[Len(s) + 1 + i] = rest[i]
  OBVIOUS
<1>2. SubSeq(t, 1, Len(s)) = s
  OBVIOUS
<1>3. SubSeq(t, Len(s) + 2, Len(t)) = rest
  OBVIOUS
<1> HIDE DEF t
<1>4. at = Len(s) + 1
  <2>1. Len(s) + 1 \in I /\ I \subseteq Nat /\ \A i \in I : Len(s) + 1 <= i
    BY <1>1, SMTT(20)
  <2>2. at = IF I # {} THEN Min(I) ELSE 0
    BY DEF SelectInSeq
  <2> HIDE DEF I, at
  <2>3. Min(I) \in I /\ Min(I) <= Len(s) + 1
    BY <2>1, MinOf
  <2>4. Len(s) + 1 <= Min(I) /\ Min(I) \in Nat
    BY <2>1, <2>3
  <2>5. Min(I) = Len(s) + 1
    BY <2>3, <2>4
  <2> QED BY <2>1, <2>2, <2>5
<1> HIDE DEF at
<1> QED
  <2>1. StrCoder(t, sep, required) =
           IF at > 0 THEN Decoded(SubSeq(t, 1, at - 1), SubSeq(t, at + 1, Len(t)))
           ELSE IF required THEN Throws("runtime_error") ELSE Decoded(t, <<>>)
    BY DEF StrCoder, at
  <2>2. at > 0 /\ at - 1 = Len(s) /\ at + 1 = Len(s) + 2
    BY <1>4
  <2>3. StrCoder(t, sep, required) = Decoded(s, rest)
    BY <1>2, <1>3, <2>1, <2>2
  <2> QED BY <2>3 DEF t

\* ... and is taken whole without one.
LEMMA StrCoderWhole ==
    ASSUME NEW s \in Seq(Byte), NEW sep \in Byte, \A i \in 1..Len(s) : s[i] # sep
    PROVE  StrCoder(s, sep, FALSE) = Decoded(s, <<>>)
<1>1. {i \in 1..Len(s) : s[i] = sep} = {}
  OBVIOUS
<1>2. SelectInSeq(s, LAMBDA c : c = sep) = 0
  BY <1>1 DEF SelectInSeq
<1> QED BY <1>2 DEF StrCoder

\* The numbers of the m, M and F packets of a client, as the server reads them.
HexRead(n, rest) == IF n < SizeMax THEN Decoded(n, rest)
                    ELSE Throws("system_error")

\* A size_t that to_chars wrote is read back by NumCoder, if it fits.
LEMMA SizeRoundTrip ==
    ASSUME NEW n \in Nat
    PROVE  NumCoder(HexText(n), 0, SizeMax - 1) = HexRead(n, <<>>)
<1> DEFINE high == SizeMax - 1
<1>1. high \in Int /\ 0 \in Int /\ 0 <= 0 /\ (n <= high <=> n < SizeMax)
  BY CodingAssumption
<1> HIDE DEF high
<1>2. NumCoder(HexText(n), 0, high) =
          IF n <= high THEN Decoded(n, <<>>) ELSE Throws("system_error")
  BY <1>1, NumCoderRoundTrip
<1>3. NumCoder(HexText(n), 0, high) = HexRead(n, <<>>)
  BY <1>1, <1>2 DEF HexRead
<1> QED BY <1>3 DEF high

\* A number read from a text leaves what is left behind the text.
LEMMA OnHexRead ==
    ASSUME NEW s, NEW rest, NEW n
    PROVE  OnText(Decoded(s, rest), HexRead(n, <<>>)) = HexRead(n, rest)
<1>1. CASE n < SizeMax
  BY <1>1 DEF OnText, HexRead, Decoded
<1>2. CASE ~(n < SizeMax)
  BY <1>2 DEF OnText, HexRead, Decoded, Throws
<1> QED BY <1>1, <1>2

\* A number before a separator, and ...
LEMMA HexSplits ==
    ASSUME NEW n \in Nat, NEW sep \in {comma, colon}, NEW rest \in Seq(Byte),
           NEW required
    PROVE  Hex(HexText(n) \o <<sep>> \o rest, sep, required) = HexRead(n, rest)
<1> DEFINE s == HexText(n)
<1>1. HexTextOf(n, s)
  BY HexTextRoundTrip
<1>2. \A i \in 1..Len(s) : s[i] # sep
  BY <1>1, DigitFacts DEF HexTextOf
<1>3. s \in Seq(Byte) /\ sep \in Byte
  BY <1>1 DEF HexTextOf, comma, colon, Byte
<1>4. NumCoder(s, 0, SizeMax - 1) = HexRead(n, <<>>)
  BY SizeRoundTrip
<1> HIDE DEF s
<1>5. StrCoder(s \o <<sep>> \o rest, sep, required) = Decoded(s, rest)
  BY <1>2, <1>3, StrCoderSplits
<1>6. Hex(s \o <<sep>> \o rest, sep, required) =
          OnText(Decoded(s, rest), HexRead(n, <<>>))
  BY <1>4, <1>5 DEF Hex, Decoded
<1> QED BY <1>6, OnHexRead DEF s

\* ... a number at the end of a packet, as Hex reads them.
LEMMA HexWhole ==
    ASSUME NEW n \in Nat
    PROVE  Hex(HexText(n), NUL, FALSE) = HexRead(n, <<>>)
<1> DEFINE s == HexText(n)
<1>1. HexTextOf(n, s)
  BY HexTextRoundTrip
<1>2. \A i \in 1..Len(s) : s[i] # NUL
  BY <1>1, DigitFacts DEF HexTextOf
<1>3. s \in Seq(Byte) /\ NUL \in Byte
  BY <1>1 DEF HexTextOf, NUL, Byte
<1>4. NumCoder(s, 0, SizeMax - 1) = HexRead(n, <<>>)
  BY SizeRoundTrip
<1> HIDE DEF s
<1>5. StrCoder(s, NUL, FALSE) = Decoded(s, <<>>)
  BY <1>2, <1>3, StrCoderWhole
<1>6. Hex(s, NUL, FALSE) = OnText(Decoded(s, <<>>), HexRead(n, <<>>))
  <2>1. Decoded(s, <<>>).val = s
    BY DEF Decoded
  <2>2. Hex(s, NUL, FALSE) = OnText(Decoded(s, <<>>), NumCoder(s, 0, SizeMax - 1))
    BY <1>5, <2>1 DEF Hex
  <2> QED BY <1>4, <2>2
<1> QED BY <1>6, OnHexRead DEF s

\* The two digits of a byte decode to it.
LEMMA HexByteRoundTrip ==
    ASSUME NEW b \in Byte
    PROVE  HexByte(encode_hex(b \div 16), encode_hex(b)) = b
<1>1. b \div 16 \in 0..15 /\ b % 16 \in 0..15 /\ b = 16 * (b \div 16) + (b % 16)
      /\ b \in Nat /\ b \div 16 \in Nat /\ (b \div 16) % 16 = b \div 16
  BY DEF Byte
<1>2. /\ decode_hex(encode_hex(b \div 16)) = b \div 16
      /\ decode_hex(encode_hex(b)) = b % 16
  BY <1>1, HexDigit
<1>3. b \div 16 # -1 /\ b % 16 # -1
  BY <1>1
<1> QED BY <1>1, <1>2, <1>3 DEF HexByte

\* What BytesEncode (append_hex) writes BytesDecode (BytesCoder) reads, for
\* every block: twice as many digits, which decode to the block.
THEOREM BytesRoundTrip ==
    ASSUME NEW s \in Seq(Byte)
    PROVE  /\ BytesEncode(s) \in Seq(Byte) /\ Len(BytesEncode(s)) = 2 * Len(s)
           /\ BytesDecode(BytesEncode(s)) = Decoded(s, <<>>)
<1> DEFINE t == BytesEncode(s)
           digit(i) == encode_hex(IF i % 2 = 1 THEN s[(i + 1) \div 2] \div 16
                                  ELSE s[(i + 1) \div 2])
<1>1. \A i \in 1..2 * Len(s) : (i + 1) \div 2 \in 1..Len(s)
  OBVIOUS
<1>2. \A i \in 1..2 * Len(s) : s[(i + 1) \div 2] \in Byte
  BY <1>1
<1>3. \A b \in Byte : encode_hex(b) \in Byte /\ encode_hex(b \div 16) \in Byte
  <2>1. \A b \in Byte : b \in Nat /\ b \div 16 \in Nat
    BY DEF Byte
  <2> QED BY <2>1, HexDigit
<1>4. t = [i \in 1..2 * Len(s) |-> digit(i)]
  BY DEF BytesEncode
<1>5. \A i \in 1..2 * Len(s) : digit(i) \in Byte
  BY <1>2, <1>3
<1> HIDE DEF digit, t
<1>6. t \in Seq(Byte) /\ Len(t) = 2 * Len(s)
  BY <1>4, <1>5
<1>7. \A i \in 1..Len(s) : HexByte(t[2 * i - 1], t[2 * i]) = s[i]
  <2> SUFFICES ASSUME NEW i \in 1..Len(s)
               PROVE  HexByte(t[2 * i - 1], t[2 * i]) = s[i]
    OBVIOUS
  <2>1. /\ 2 * i - 1 \in 1..2 * Len(s) /\ 2 * i \in 1..2 * Len(s)
        /\ (2 * i - 1) % 2 = 1 /\ (2 * i) % 2 = 0
        /\ ((2 * i - 1) + 1) \div 2 = i /\ (2 * i + 1) \div 2 = i
    OBVIOUS
  <2>2. digit(2 * i - 1) = encode_hex(s[i] \div 16)
    BY <2>1 DEF digit
  <2>3. digit(2 * i) = encode_hex(s[i])
    BY <2>1 DEF digit
  <2>4. s[i] \in Byte
    OBVIOUS
  <2> QED BY <1>4, <2>1, <2>2, <2>3, <2>4, HexByteRoundTrip
<1>8. Len(t) % 2 = 0 /\ Len(t) \div 2 = Len(s)
  BY <1>6
<1>9. [i \in 1..Len(s) |-> HexByte(t[2 * i - 1], t[2 * i])] = s
  BY <1>7
<1>10. BytesDecode(t) = Decoded(s, <<>>)
  <2>1. 1..(Len(t) \div 2) = 1..Len(s)
    BY <1>8
  <2>2. [i \in 1..(Len(t) \div 2) |-> HexByte(t[2 * i - 1], t[2 * i])] = s
    BY <1>9, <2>1
  <2>3. BytesDecode(t) =
            Decoded([i \in 1..(Len(t) \div 2) |-> HexByte(t[2 * i - 1], t[2 * i])],
                    <<>>)
    <3>1. Len(t) % 2 # 1
      BY <1>8
    <3> QED BY <3>1, Zenon DEF BytesDecode
  <2> QED BY <2>2, <2>3
<1> QED BY <1>6, <1>10 DEF t

-----------------------------------------------------------------------------
(* The handlers of packets.                                                  *)

\* The remainders that a size_t leaves.
LEMMA ModFacts ==
    ASSUME NEW m \in Nat \ {0}, NEW x \in Nat
    PROVE  /\ x % m \in 0..m-1 /\ x % m <= x
           /\ x < m => x % m = x
           /\ m <= x /\ x < m + m => x % m = x - m
OBVIOUS

\* Bytes behind bytes.
LEMMA ConcatType ==
    ASSUME NEW s \in Seq(Byte), NEW t \in Seq(Byte)
    PROVE  s \o t \in Seq(Byte) /\ Len(s \o t) = Len(s) + Len(t)
OBVIOUS

\* The texts of a packet, one behind the other.
LEMMA ConcatAssoc ==
    ASSUME NEW s \in Seq(Byte), NEW t \in Seq(Byte), NEW u \in Seq(Byte)
    PROVE  (s \o t) \o u = s \o (t \o u)
BY TextAssoc

\* process_pkt takes the type of a packet off.
LEMMA PacketParts ==
    ASSUME NEW t \in Byte, NEW A \in Seq(Byte), NEW sep \in Byte, NEW B \in Seq(Byte)
    PROVE  /\ Head(<<t>> \o A \o <<sep>> \o B) = t
           /\ Tail(<<t>> \o A \o <<sep>> \o B) = A \o <<sep>> \o B
OBVIOUS

\* What a client decodes from the answer to a read: the bytes, or nothing.
LEMMA FittingDecodes ==
    ASSUME NEW s \in Seq(Byte)
    PROVE  BytesDecode(Fitting(BytesEncode(s))).val \in {s, <<>>}
<1>1. BytesDecode(Overflow).val = <<>>
  BY DEF BytesDecode, Overflow, Throws
<1>2. BytesDecode(BytesEncode(s)).val = s
  BY BytesRoundTrip DEF Decoded
<1> QED BY <1>1, <1>2 DEF Fitting

\* A client decodes nothing from the answer to a failed request.
LEMMA ErrorDecodes == BytesDecode(ErrorText).val = <<>>
BY DEF BytesDecode, ErrorText, Throws

\* The fields of what a decoder returns, or throws.
LEMMA DecodedFields ==
    \A val, rest : /\ Decoded(val, rest).val = val
                   /\ Decoded(val, rest).rest = rest
                   /\ Decoded(val, rest).exc = "none"
BY DEF Decoded

\* An exception carries no value.
LEMMA ThrowsFields ==
    ASSUME NEW exc \in {"length_error", "system_error", "out_of_range"}
    PROVE  Throws(exc).val = <<>> /\ Throws(exc).exc # "none"
BY DEF Throws

\* Whether a number could be read, and what it is.
LEMMA HexReadFields ==
    ASSUME NEW n, NEW rest
    PROVE  /\ n < SizeMax => /\ HexRead(n, rest).val = n
                             /\ HexRead(n, rest).rest = rest
                             /\ HexRead(n, rest).exc = "none"
           /\ ~(n < SizeMax) => HexRead(n, rest).exc # "none"
BY DecodedFields, ThrowsFields DEF HexRead

\* decode_buffer calls a handler if none of its coders throws.
LEMMA FailedArgs ==
    /\ \A a, b : Failed(<<a, b>>) <=> a.exc # "none" \/ b.exc # "none"
    /\ \A a, b, d : Failed(<<a, b, d>>) <=>
           a.exc # "none" \/ b.exc # "none" \/ d.exc # "none"
BY DEF Failed

\* The end of an access: it lies in the storage, at most len bytes behind the
\* start; where start and length lie in the storage, it is their sum.
LEMMA EndIdxFacts ==
    ASSUME storage \in Seq(Byte), end < SizeMax,
           NEW addr \in Nat, NEW len \in Nat, has_addr(addr)
    PROVE  /\ get_idx(addr) \in 0..Len(storage) - 1
           /\ EndIdx(addr, len) \in 0..Len(storage)
           /\ EndIdx(addr, len) <= get_idx(addr) + len
           /\ addr + len <= end => EndIdx(addr, len) = get_idx(addr) + len
           /\ addr # Address => EndIdx(addr, SizeMax - 1) < get_idx(addr)
<1> USE InternalMemAssumption, CodingAssumption DEF has_addr, get_idx, end
<1> DEFINE start == get_idx(addr)
<1>1. start \in 0..Len(storage) - 1 /\ Len(storage) < SizeMax
  OBVIOUS
<1> HIDE DEF start
<1>2. /\ (start + len) % SizeMax \in Nat /\ (start + len) % SizeMax <= start + len
      /\ start + len < SizeMax => (start + len) % SizeMax = start + len
  <2>1. start + len \in Nat
    BY <1>1
  <2>2. SizeMax \in Nat \ {0}
    OBVIOUS
  <2> DEFINE x == start + len
  <2>3. x \in Nat
    BY <2>1
  <2> HIDE DEF x
  <2>4. x % SizeMax \in 0..SizeMax - 1 /\ x % SizeMax <= x
        /\ (x < SizeMax => x % SizeMax = x)
    BY <2>2, <2>3, ModFacts
  <2>5. x % SizeMax \in Nat
    BY <2>2, <2>4
  <2> QED BY <2>4, <2>5 DEF x
<1>3. EndIdx(addr, len) = IF (start + len) % SizeMax < Len(storage)
                          THEN (start + len) % SizeMax ELSE Len(storage)
  BY DEF EndIdx, start
<1>4. addr + len <= end <=> start + len <= Len(storage)
  BY DEF start
<1>5. ASSUME addr # Address
      PROVE  EndIdx(addr, SizeMax - 1) < start
  <2>1. start > 0
    BY <1>5 DEF start
  <2> DEFINE x == start + (SizeMax - 1)
  <2>2. x \in Nat /\ SizeMax <= x /\ x < SizeMax + SizeMax
    BY <1>1, <2>1
  <2>3. x % SizeMax = x - SizeMax
    BY <2>2, ModFacts
  <2>4. x % SizeMax = start - 1
    BY <1>1, <2>3
  <2>5. EndIdx(addr, SizeMax - 1) = IF x % SizeMax < Len(storage)
                                    THEN x % SizeMax ELSE Len(storage)
    BY DEF EndIdx, start
  <2> QED BY <1>1, <2>1, <2>4, <2>5
<1>6. EndIdx(addr, len) \in 0..Len(storage) /\ EndIdx(addr, len) <= start + len
  BY ONLY <1>1, <1>2, <1>3
<1>7. addr + len <= end => EndIdx(addr, len) = start + len
  BY <1>1, <1>2, <1>3, <1>4
<1> QED BY <1>1, <1>5, <1>6, <1>7 DEF start

\* read_data gives no more than was asked for, and all of it inside the storage.
LEMMA ReadDataFacts ==
    ASSUME storage \in Seq(Byte), end < SizeMax,
           NEW addr \in Nat, NEW len \in Nat, has_addr(addr)
    PROVE  /\ read_data(addr, len).val \in Seq(Byte)
           /\ Len(read_data(addr, len).val) <= len
           /\ addr + len <= end =>
                 read_data(addr, len) =
                     Decoded(SubSeq(storage, get_idx(addr) + 1, get_idx(addr) + len),
                             <<>>)
<1> DEFINE start == get_idx(addr)
           last == EndIdx(addr, len)
<1>1. start \in 0..Len(storage) - 1 /\ last \in 0..Len(storage) /\ last <= start + len
      /\ (addr + len <= end => last = start + len)
  BY EndIdxFacts
<1>2. read_data(addr, len) = IF last < start THEN Throws("length_error")
                             ELSE Decoded(SubSeq(storage, start + 1, last), <<>>)
  BY DEF read_data
<1> HIDE DEF start, last
<1>3. CASE last < start
  <2>1. read_data(addr, len).val = <<>>
    BY <1>2, <1>3, ThrowsFields
  <2>2. ~(addr + len <= end)
    BY <1>1, <1>3
  <2> QED BY <2>1, <2>2
<1>4. CASE ~(last < start)
  <2>1. read_data(addr, len) = Decoded(SubSeq(storage, start + 1, last), <<>>)
    BY <1>2, <1>4
  <2>2. read_data(addr, len).val = SubSeq(storage, start + 1, last)
    BY <2>1, DecodedFields
  <2>3. SubSeq(storage, start + 1, last) \in Seq(Byte)
        /\ Len(SubSeq(storage, start + 1, last)) = last - start
    BY <1>1, <1>4
  <2>4. last - start <= len
    BY <1>1
  <2>5. addr + len <= end => read_data(addr, len) =
                     Decoded(SubSeq(storage, start + 1, start + len), <<>>)
    BY <1>1, <2>1
  <2>6. read_data(addr, len).val \in Seq(Byte) /\ Len(read_data(addr, len).val) <= len
    BY <1>1, <2>2, <2>3, <2>4
  <2> QED BY <2>5, <2>6 DEF start
<1> QED BY <1>3, <1>4

\* handle_read_mem, for the packet of any client: what the client decodes from
\* the answer is never more than it asked for, and inside the storage it is
\* exactly that, or nothing when the answer does not fit into resp_buf.
THEOREM ReadAnswer ==
    ASSUME storage \in Seq(Byte), end < SizeMax, NEW c \in Conns,
           NEW addr \in Nat, NEW len \in Nat \ {0}
    PROVE  LET answer == process_pkt(c, ReadPacket(addr, len))
               bytes  == BytesDecode(answer.text).val
           IN  /\ bytes \in Seq(Byte) /\ Len(bytes) <= len
               /\ has_addr(addr) /\ addr + len <= end =>
                     bytes \in {SubSeq(storage, get_idx(addr) + 1, get_idx(addr) + len),
                                <<>>}
<1> DEFINE answer == process_pkt(c, ReadPacket(addr, len))
           bytes == BytesDecode(answer.text).val
           buf == HexText(addr) \o <<comma>> \o HexText(len)
           a == Hex(buf, comma, TRUE)
           n == Hex(a.rest, NUL, FALSE)
           data == read_data(addr, len)
<1>1. HexText(addr) \in Seq(Byte) /\ HexText(len) \in Seq(Byte)
  BY HexTextRoundTrip DEF HexTextOf
<1>2. answer = handle_read_mem(c, buf)
  <2>1. read_mem \in Byte /\ comma \in Byte
    BY DEF read_mem, comma, Byte
  <2>2. /\ Head(ReadPacket(addr, len)) = read_mem
        /\ Tail(ReadPacket(addr, len)) = buf
    BY ONLY <1>1, <2>1, PacketParts DEF ReadPacket
  <2> QED BY <2>2 DEF process_pkt
<1>3. a = HexRead(addr, HexText(len))
  BY <1>1, HexSplits
<1> HIDE DEF buf
<1>4. CASE ~(addr < SizeMax /\ len < SizeMax)
  <2>1. a.exc # "none" \/ n.exc # "none"
    <3>1. CASE ~(addr < SizeMax)
      BY <1>3, <3>1, HexReadFields
    <3>2. CASE addr < SizeMax /\ ~(len < SizeMax)
      <4>0. a = Decoded(addr, HexText(len))
        BY <1>3, <3>2 DEF HexRead
      <4> DEFINE field == a.rest
      <4>1. field = HexText(len)
        <5> HIDE DEF a
        <5> QED BY <4>0, DecodedFields
      <4>2. n = HexRead(len, <<>>)
        BY <4>1, HexWhole
      <4> QED BY <3>2, <4>2, HexReadFields
    <3> QED BY <1>4, <3>1, <3>2
  <2>2. answer = Only(c, ErrorText)
    BY <1>2, <2>1, FailedArgs DEF handle_read_mem
  <2>3. answer.text = ErrorText
    BY <2>2 DEF Only, Answer
  <2>4. bytes = <<>>
    BY <2>3, ErrorDecodes
  <2> QED BY <2>4
<1>5. CASE addr < SizeMax /\ len < SizeMax
  <2>1. a.val = addr /\ a.rest = HexText(len) /\ a.exc = "none"
    <3>1. a = Decoded(addr, HexText(len))
      BY <1>3, <1>5 DEF HexRead
    <3> HIDE DEF a
    <3> QED BY <3>1, DecodedFields
  <2>2. n = HexRead(len, <<>>)
    BY <2>1, HexWhole
  <2>3. n.val = len /\ n.exc = "none"
    <3>1. n = Decoded(len, <<>>)
      BY <1>5, <2>2 DEF HexRead
    <3> HIDE DEF n
    <3> QED BY <3>1, DecodedFields
  <2>4. answer = IF ~has_addr(addr) THEN append_hex(c, <<97>>)
                 ELSE IF data.exc # "none" THEN Only(c, ErrorText)
                 ELSE append_hex(c, data.val)
    <3> HIDE DEF a, n
    <3>1. ~Failed(<<a, n>>)
      BY <2>1, <2>3, FailedArgs
    <3> QED BY <1>2, <2>1, <2>3, <3>1 DEF handle_read_mem, a, n
  <2>5. CASE ~has_addr(addr)
    <3>1. answer.text = Fitting(BytesEncode(<<97>>))
      BY <2>4, <2>5 DEF append_hex, Only, Answer
    <3>2. <<97>> \in Seq(Byte)
      BY DEF Byte
    <3>3. bytes \in {<<97>>, <<>>}
      BY <3>1, <3>2, FittingDecodes
    <3>4. Len(<<97>>) = 1 /\ Len(<<>>) = 0 /\ <<>> \in Seq(Byte)
      OBVIOUS
    <3> HIDE DEF bytes
    <3>5. bytes \in Seq(Byte) /\ Len(bytes) <= len
      <4>1. CASE bytes = <<97>>
        BY <3>2, <3>4, <4>1
      <4>2. CASE bytes = <<>>
        BY <3>4, <4>2
      <4> QED BY <3>3, <4>1, <4>2
    <3> QED BY <2>5, <3>5 DEF bytes, answer
  <2>6. CASE has_addr(addr)
    <3>1. /\ data.val \in Seq(Byte) /\ Len(data.val) <= len
          /\ addr + len <= end =>
                 data.val = SubSeq(storage, get_idx(addr) + 1, get_idx(addr) + len)
      <4>1. /\ data.val \in Seq(Byte) /\ Len(data.val) <= len
            /\ addr + len <= end => data =
                   Decoded(SubSeq(storage, get_idx(addr) + 1, get_idx(addr) + len), <<>>)
        BY <2>6, ReadDataFacts
      <4> HIDE DEF data
      <4> QED BY <4>1, DecodedFields
    <3>2. answer.text \in {ErrorText, Fitting(BytesEncode(data.val))}
      BY <2>4, <2>6 DEF append_hex, Only, Answer
    <3>3. bytes \in {data.val, <<>>}
      BY <3>1, <3>2, FittingDecodes, ErrorDecodes
    <3> HIDE DEF bytes, data, answer
    <3>4. <<>> \in Seq(Byte) /\ Len(<<>>) = 0
      OBVIOUS
    <3>5. bytes \in Seq(Byte) /\ Len(bytes) <= len
      <4>1. CASE bytes = data.val
        BY <3>1, <4>1
      <4>2. CASE bytes = <<>>
        BY <3>4, <4>2
      <4> QED BY <3>3, <4>1, <4>2
    <3>6. has_addr(addr) /\ addr + len <= end =>
              bytes \in {SubSeq(storage, get_idx(addr) + 1, get_idx(addr) + len), <<>>}
      BY <3>1, <3>3
    <3> QED BY <3>5, <3>6 DEF bytes, answer
  <2> QED BY <2>5, <2>6
<1> QED BY <1>4, <1>5

\* Only an M packet changes the storage ...
LEMMA OthersKeep ==
    ASSUME NEW c \in Conns, NEW pkt, Head(pkt) # write_mem
    PROVE  process_pkt(c, pkt).storage = storage
<1>1. /\ \A text : Only(c, text).storage = storage
      /\ \A text, features : Answer(text, storage, features).storage = storage
  BY DEF Only, Answer
<1>2. \A bytes : append_hex(c, bytes).storage = storage
  BY <1>1 DEF append_hex
<1>3. \A buf : handle_read_mem(c, buf).storage = storage
  BY <1>1, <1>2 DEF handle_read_mem
<1>4. \A buf : handle_supported(c, buf).storage = storage
  BY <1>1 DEF handle_supported
<1>5. \A type, buf : handle_query(c, type, buf).storage = storage
  BY <1>1, <1>4 DEF handle_query
<1> QED BY <1>1, <1>3, <1>5 DEF process_pkt

\* A packet that handle_write_mem is not called with, or cannot decode.
Refused(pkt) == \/ Head(pkt) # write_mem
                \/ LET args == write_args(Tail(pkt))
                   IN  Failed(<<args.addr, args.len, args.data>>)

\* ... and of those only one whose arguments can be decoded.
LEMMA RefusedKeeps ==
    ASSUME NEW c \in Conns, NEW pkt, Refused(pkt)
    PROVE  process_pkt(c, pkt).storage = storage
<1>1. CASE Head(pkt) # write_mem
  BY <1>1, OthersKeep
<1>2. CASE Head(pkt) = write_mem
  <2>1. process_pkt(c, pkt) = handle_write_mem(c, Tail(pkt))
    BY <1>2 DEF process_pkt, write_mem, read_mem
  <2>2. handle_write_mem(c, Tail(pkt)) = Only(c, ErrorText)
    BY <1>2 DEF handle_write_mem, Refused
  <2> QED BY <2>1, <2>2 DEF Only, Answer
<1> QED BY <1>1, <1>2

\* handle_write_mem, for the packet of a client that writes inside the storage:
\* it decodes the address and the bytes of the client, and writes them there.
THEOREM WriteAnswer ==
    ASSUME storage \in Seq(Byte), end < SizeMax, NEW c \in Conns,
           NEW addr \in Nat, NEW data \in Seq(Byte),
           has_addr(addr), addr + Len(data) <= end
    PROVE  process_pkt(c, WritePacket(addr, data)).storage =
               Written(addr, Len(data), data)
<1> DEFINE digits == HexText(Len(data))
           text == BytesEncode(data)
           rest == digits \o <<colon>> \o text
           buf == HexText(addr) \o <<comma>> \o rest
           args == write_args(buf)
<1>1. /\ HexText(addr) \in Seq(Byte) /\ digits \in Seq(Byte) /\ text \in Seq(Byte)
      /\ Len(data) \in Nat
  BY HexTextRoundTrip, BytesRoundTrip DEF HexTextOf
<1>2. addr < SizeMax /\ Len(data) < SizeMax
  BY InternalMemAssumption, CodingAssumption DEF has_addr, end
<1>3. process_pkt(c, WritePacket(addr, data)) = handle_write_mem(c, buf)
  <2>1. write_mem \in Byte /\ comma \in Byte /\ colon \in Byte
    BY DEF write_mem, comma, colon, Byte
  <2>2. /\ Head(WritePacket(addr, data)) = write_mem
        /\ Tail(WritePacket(addr, data)) = buf
    <3> DEFINE A == HexText(addr)
               pkt == <<write_mem>> \o A \o <<comma>> \o digits \o <<colon>> \o text
    <3>1. WritePacket(addr, data) = pkt
      BY DEF WritePacket
    <3>2. A \in Seq(Byte)
      BY <1>1
    <3> HIDE DEF digits, text, A
    <3>3. Head(pkt) = write_mem /\ Tail(pkt) = A \o <<comma>> \o rest
      <4>1. digits \in Seq(Byte) /\ text \in Seq(Byte)
        BY <1>1
      <4>2. /\ rest \in Seq(Byte)
            /\ pkt = <<write_mem>> \o A \o <<comma>> \o rest
        <5> DEFINE head == <<write_mem>> \o A \o <<comma>>
                   sep == <<colon>>
        <5>1. head \in Seq(Byte) /\ sep \in Seq(Byte)
          BY <2>1, <3>2
        <5>2. rest = digits \o sep \o text /\ pkt = head \o digits \o sep \o text
          OBVIOUS
        <5> HIDE DEF head, sep, rest, pkt
        <5>3. digits \o sep \in Seq(Byte) /\ (digits \o sep) \o text \in Seq(Byte)
          BY <4>1, <5>1, ConcatType
        <5>4. /\ head \o digits \o sep = head \o (digits \o sep)
              /\ (head \o (digits \o sep)) \o text = head \o ((digits \o sep) \o text)
          <6>1. head \o digits \o sep = head \o (digits \o sep)
            <7>1. ThreeTexts(head, digits, sep)
              BY <4>1, <5>1 DEF ThreeTexts
            <7> QED BY ONLY <7>1, ThreeAssoc
          <6> DEFINE mid == digits \o sep
          <6>2. mid \in Seq(Byte)
            BY <5>3
          <6> HIDE DEF mid
          <6>3. (head \o mid) \o text = head \o (mid \o text)
            <7>1. ThreeTexts(head, mid, text)
              BY <4>1, <5>1, <6>2 DEF ThreeTexts
            <7> QED BY ONLY <7>1, ThreeAssoc
          <6> QED BY <6>1, <6>3 DEF mid
        <5>5. rest \in Seq(Byte) /\ pkt = head \o rest
          BY <5>2, <5>3, <5>4
        <5> QED BY <5>5 DEF head
      <4> HIDE DEF pkt, rest
      <4>3. /\ Head(<<write_mem>> \o A \o <<comma>> \o rest) = write_mem
            /\ Tail(<<write_mem>> \o A \o <<comma>> \o rest) = A \o <<comma>> \o rest
        BY ONLY <2>1, <3>2, <4>2, PacketParts, ZenonT(30)
      <4> QED BY ONLY <4>2, <4>3
    <3> HIDE DEF pkt, rest
    <3> QED BY <3>1, <3>3 DEF A
  <2> HIDE DEF buf
  <2>3. ASSUME NEW pkt, Head(pkt) = write_mem
        PROVE  process_pkt(c, pkt) = handle_write_mem(c, Tail(pkt))
    BY <2>3 DEF process_pkt, write_mem, read_mem
  <2>4. process_pkt(c, WritePacket(addr, data)) =
            handle_write_mem(c, Tail(WritePacket(addr, data)))
    BY <2>2, <2>3
  <2> QED BY <2>2, <2>4
<1>4. rest \in Seq(Byte)
  <2>1. colon \in Byte
    BY DEF colon, Byte
  <2> HIDE DEF digits, text
  <2> QED BY <1>1, <2>1
<1>5. args.addr = Decoded(addr, rest)
  <2>1. args.addr = Hex(buf, comma, TRUE)
    BY DEF write_args
  <2> HIDE DEF rest
  <2>2. Hex(buf, comma, TRUE) = HexRead(addr, rest)
    BY <1>4, HexSplits
  <2> QED BY <1>2, <2>1, <2>2 DEF HexRead
<1>6. args.len = Decoded(Len(data), text)
  <2>1. args.len = Hex(args.addr.rest, colon, TRUE)
    BY DEF write_args
  <2>2. args.addr.rest = rest
    <3> HIDE DEF args, rest
    <3> QED BY <1>5, DecodedFields
  <2> HIDE DEF args
  <2>3. Hex(rest, colon, TRUE) = HexRead(Len(data), text)
    BY <1>1, HexSplits
  <2>4. HexRead(Len(data), text) = Decoded(Len(data), text)
    BY <1>2 DEF HexRead
  <2> QED BY <2>1, <2>2, <2>3, <2>4
<1>7. args.data = Decoded(data, <<>>)
  <2>1. args.data = BytesDecode(args.len.rest)
    BY DEF write_args
  <2> HIDE DEF args, text
  <2>2. args.len.rest = text
    BY <1>6, DecodedFields
  <2>3. BytesDecode(text) = Decoded(data, <<>>)
    BY BytesRoundTrip DEF text
  <2> QED BY <2>1, <2>2, <2>3
<1> HIDE DEF args, rest, text
<1>8. /\ args.addr.val = addr /\ args.len.val = Len(data) /\ args.data.val = data
      /\ args.addr.exc = "none" /\ args.len.exc = "none" /\ args.data.exc = "none"
  BY <1>5, <1>6, <1>7, DecodedFields
<1>9. ~Failed(<<args.addr, args.len, args.data>>)
  BY <1>8, FailedArgs
<1>10. handle_write_mem(c, buf) =
          Answer(OkText, Written(addr, Len(data), data), remote_features[c])
  BY <1>8, <1>9 DEF handle_write_mem, args
<1> QED BY <1>3, <1>10 DEF Answer

\* A write inside the storage changes the bytes it names and no others.
LEMMA WrittenFacts ==
    ASSUME storage \in Seq(Byte), end < SizeMax, NEW addr \in Nat,
           NEW data \in Seq(Byte), has_addr(addr), addr + Len(data) <= end
    PROVE  /\ Written(addr, Len(data), data) \in Seq(Byte)
           /\ Len(Written(addr, Len(data), data)) = Len(storage)
           /\ \A i \in 1..Len(storage) :
                 Written(addr, Len(data), data)[i] =
                     IF i \in get_idx(addr) + 1 .. get_idx(addr) + Len(data)
                     THEN data[i - get_idx(addr)] ELSE storage[i]
<1> DEFINE start == get_idx(addr)
           w == Written(addr, Len(data), data)
<1>1. /\ start \in 0..Len(storage) - 1 /\ EndIdx(addr, Len(data)) = start + Len(data)
      /\ Len(data) \in Nat
  BY EndIdxFacts
<1>2. w = [i \in 1..Len(storage) |->
              IF i \in start + 1 .. start + Len(data)
              THEN data[i - start] ELSE storage[i]]
  <2>1. DOMAIN storage = 1..Len(storage)
    OBVIOUS
  <2> QED BY <1>1, <2>1 DEF Written
<1> HIDE DEF start, w
<1>3. \A i \in 1..Len(storage) :
         (IF i \in start + 1 .. start + Len(data) THEN data[i - start] ELSE storage[i])
         \in Byte
  BY <1>1
<1>4. w \in Seq(Byte) /\ Len(w) = Len(storage)
  BY <1>2, <1>3
<1> QED BY <1>2, <1>4 DEF start, w

-----------------------------------------------------------------------------
(* The invariant.                                                            *)

\* The remote calls there can be.
CallType == [op : {"none", "string", "data", "read"},
             buf : [address : Nat, len : Nat],
             arg : Seq(Byte), dangling : BOOLEAN]

\* A call whose buffer is where it says, and what a client reads there.
IsLive(k) == k.op # "none" /\ ~k.dangling

Argument(k) == IF k.op = "string" THEN WithNul(k.arg) ELSE k.arg

\* The bytes that a storage has from the start of a call's buffer on.
Holds(k, bytes, store) ==
    /\ Len(bytes) <= k.buf.len
    /\ \A i \in 1..Len(bytes) : store[k.buf.address - Address + i] = bytes[i]

\* Its buffer lies in the storage, behind the static buffer's first byte.
Within(k, store) ==
    IsLive(k) => /\ Address < k.buf.address
                 /\ k.buf.address + k.buf.len <= Address + Len(store)

\* The buffer holds what the client has read or put, and the argument.
Content(k, put, store) ==
    IsLive(k) => /\ Holds(k, put, store)
                 /\ k.op # "read" => /\ Len(Argument(k)) = k.buf.len
                                     /\ Holds(k, Argument(k), store)

\* No two calls share a byte.
Apart(k, l) ==
    IsLive(k) /\ IsLive(l) => \/ k.buf.address + k.buf.len <= l.buf.address
                              \/ l.buf.address + l.buf.len <= k.buf.address

\* No address wraps, and a connection has initialised the memory.
StorageInv == /\ MemTypeOK /\ Address + Len(storage) < SizeMax
              /\ did_init => storage # <<>>

\* Who calls: only a connection, and a read for at least a byte.
CallInv ==
    /\ loop \in [Conns -> {"none", "running", "ended"}]
    /\ call \in [Conns -> CallType] /\ seen \in [Conns -> Seq(Byte)]
    /\ DOMAIN result = Conns
    /\ \A c \in Conns : /\ loop[c] # "none" => did_init
                        /\ call[c].op # "none" => loop[c] # "none"
                        /\ call[c].dangling => call[c].op = "string"
                        /\ call[c].op = "read" => call[c].buf.len > 0
                        /\ Len(seen[c]) <= call[c].buf.len

BlockInv ==
    /\ \A c \in Conns : Within(call[c], storage)
    /\ \A c, d \in Conns : c # d => Apart(call[c], call[d])

ContentInv == \A c \in Conns : Content(call[c], seen[c], storage)

\* The buffers of concurrent calls lie apart in the storage and keep their bytes:
\* from that, and not from TypeOK or what a client has read, steps can be proved.
MemInv == StorageInv /\ CallInv /\ BlockInv /\ ContentInv /\ FilesArrive

-----------------------------------------------------------------------------

\* A vector that has grown has room for what was inserted.
LEMMA CapacityFacts ==
    ASSUME NEW size \in Nat, NEW cap \in Nat, NEW n \in Nat, size <= cap
    PROVE  Capacity(size, cap, n) \in Nat /\ size + n <= Capacity(size, cap, n)
BY DEF Capacity

\* add_str counts the terminator.
LEMMA WithNulType ==
    ASSUME NEW s \in Seq(Byte)
    PROVE  WithNul(s) \in Seq(Byte) /\ Len(WithNul(s)) = Len(s) + 1
<1> DEFINE t == <<NUL>>
<1>1. t \in Seq(Byte) /\ Len(t) = 1
  BY DEF NUL, Byte
<1>2. WithNul(s) = s \o t
  BY DEF WithNul
<1> HIDE DEF t
<1>3. s \o t \in Seq(Byte) /\ Len(s \o t) = Len(s) + Len(t)
  BY <1>1, ConcatType
<1> QED BY <1>1, <1>2, <1>3

\* The argument of a call is some bytes.
LEMMA ArgumentType ==
    ASSUME NEW k \in CallType
    PROVE  Argument(k) \in Seq(Byte)
<1>1. k.arg \in Seq(Byte)
  BY DEF CallType
<1> QED BY <1>1, WithNulType DEF Argument

\* What a storage holds it still holds after the storage has grown ...
LEMMA GrowKeeps ==
    ASSUME NEW k \in CallType, NEW put \in Seq(Byte), NEW store \in Seq(Byte),
           NEW store2 \in Seq(Byte), Len(store) <= Len(store2),
           \A i \in 1..Len(store) : store2[i] = store[i],
           Within(k, store), Content(k, put, store)
    PROVE  Within(k, store2) /\ Content(k, put, store2)
<1> SUFFICES ASSUME IsLive(k) PROVE Within(k, store2) /\ Content(k, put, store2)
  BY DEF Within, Content
<1>1. /\ k.buf.address \in Nat /\ k.buf.len \in Nat /\ Address \in Nat
      /\ Len(store) \in Nat /\ Len(store2) \in Nat
  BY InternalMemAssumption DEF CallType
<1>2. Within(k, store2)
  BY <1>1 DEF Within
<1>3. ASSUME NEW bytes \in Seq(Byte), Holds(k, bytes, store)
      PROVE  Holds(k, bytes, store2)
  <2>0. /\ Len(bytes) \in Nat /\ Len(bytes) <= k.buf.len
        /\ Address < k.buf.address
        /\ k.buf.address + k.buf.len <= Address + Len(store)
    BY <1>3 DEF Within, Holds
  <2>1. \A i \in 1..Len(bytes) : k.buf.address - Address + i \in 1..Len(store)
    <3> DEFINE address == k.buf.address
               room == k.buf.len
               size == Len(store)
               done == Len(bytes)
    <3>1. /\ address \in Nat /\ room \in Nat /\ Address \in Nat /\ size \in Nat
          /\ done \in Nat /\ done <= room /\ Address < address
          /\ address + room <= Address + size
      BY <1>1, <2>0
    <3> HIDE DEF address, room, size, done
    <3>2. \A i \in 1..done : address - Address + i \in 1..size
      BY ONLY <3>1
    <3> QED BY ONLY <3>2 DEF address, size, done
  <2>2. \A i \in 1..Len(bytes) :
            store2[k.buf.address - Address + i] = store[k.buf.address - Address + i]
    BY <2>1
  <2> QED BY ONLY <1>3, <2>2 DEF Holds
<1>4. Argument(k) \in Seq(Byte)
  BY ArgumentType
<1> QED BY <1>2, <1>3, <1>4 DEF Content

\* Two storages that differ only between two addresses.
DifferIn(store, store2, low, high) ==
    \A i \in 1..Len(store) :
        i \notin (low - Address) + 1 .. high - Address => store2[i] = store[i]

Aside(k, low, high) == k.buf.address + k.buf.len <= low \/ high <= k.buf.address

\* ... and after a write behind or before it.
LEMMA WriteKeeps ==
    ASSUME NEW k \in CallType, NEW put \in Seq(Byte), NEW store \in Seq(Byte),
           NEW store2 \in Seq(Byte), Len(store) = Len(store2),
           NEW low \in Nat, NEW high \in Nat, Aside(k, low, high),
           DifferIn(store, store2, low, high),
           Within(k, store), Content(k, put, store)
    PROVE  Within(k, store2) /\ Content(k, put, store2)
<1> SUFFICES ASSUME IsLive(k) PROVE Within(k, store2) /\ Content(k, put, store2)
  BY DEF Within, Content
<1>1. /\ k.buf.address \in Nat /\ k.buf.len \in Nat /\ Address \in Nat
      /\ Len(store) \in Nat /\ Len(store2) \in Nat
  BY InternalMemAssumption DEF CallType
<1>2. Within(k, store2)
  BY <1>1 DEF Within
<1>3. ASSUME NEW bytes \in Seq(Byte), Holds(k, bytes, store)
      PROVE  Holds(k, bytes, store2)
  <2>1. \A i \in 1..Len(bytes) :
           /\ k.buf.address - Address + i \in 1..Len(store)
           /\ k.buf.address - Address + i \notin (low - Address) + 1 .. high - Address
    <3> DEFINE p == k.buf.address
               n == k.buf.len
    <3>1. /\ p \in Nat /\ n \in Nat /\ Address < p /\ p + n <= Address + Len(store)
          /\ Len(bytes) \in Nat /\ Len(bytes) <= n
          /\ p + n <= low \/ high <= p
      BY <1>1, <1>3 DEF Within, Holds, Aside
    <3> HIDE DEF p, n
    <3>2. \A i \in 1..Len(bytes) :
             /\ p - Address + i \in 1..Len(store)
             /\ p - Address + i \notin (low - Address) + 1 .. high - Address
      BY <1>1, <3>1
    <3> QED BY <3>2 DEF p
  <2> QED BY <1>3, <2>1 DEF Holds, DifferIn
<1>4. Argument(k) \in Seq(Byte)
  BY ArgumentType
<1> QED BY <1>2, <1>3, <1>4 DEF Content

\* An action that only changes loops.
LEMMA LoopsOnly ==
    ASSUME MemInv, UNCHANGED <<memVars, connVars>>,
           loop' \in [Conns -> {"none", "running", "ended"}],
           \A c \in Conns : /\ loop'[c] # "none" => did_init
                            /\ loop[c] # "none" => loop'[c] # "none"
    PROVE  MemInv'
<1> USE DEF memVars, connVars
<1>1. StorageInv'
  BY DEF MemInv, StorageInv, MemTypeOK
<1>2. CallInv'
  BY DEF MemInv, CallInv
<1>3. BlockInv' /\ ContentInv' /\ FilesArrive'
  BY DEF MemInv, BlockInv, ContentInv, FilesArrive
<1> QED BY <1>1, <1>2, <1>3 DEF MemInv

\* The invariant holds before the first connection is made.
LEMMA InitMem == Init => MemInv
<1> SUFFICES ASSUME Init PROVE MemInv
  OBVIOUS
<1>1. NoCall \in CallType /\ ~IsLive(NoCall) /\ NoCall.op = "none" /\ NoCall.buf.len = 0
      /\ NoCall.dangling = FALSE
  BY DEF NoCall, CallType, IsLive, internal_buf
<1>2. \A c \in Conns : call[c] = NoCall /\ seen[c] = <<>> /\ result[c] = nullopt
                       /\ loop[c] = "none"
  BY DEF Init
<1>3. StorageInv
  <2>1. storage = <<>> /\ capacity = 0 /\ did_init = FALSE
    BY DEF Init, MemInit
  <2>2. storage \in Seq(Byte) /\ Len(storage) = 0
    BY <2>1
  <2>3. Address + Len(storage) < SizeMax
    BY <2>2, InternalMemAssumption, CodingAssumption
  <2>4. did_init \in BOOLEAN /\ ~did_init
    BY <2>1
  <2>5. capacity \in Nat /\ Len(storage) <= capacity
    BY <2>1, <2>2
  <2> QED BY <2>1, <2>2, <2>3, <2>4, <2>5 DEF StorageInv, MemTypeOK
<1>4. CallInv
  BY <1>1, <1>2 DEF Init, CallInv
<1>5. BlockInv /\ ContentInv /\ FilesArrive
  BY <1>1, <1>2 DEF BlockInv, ContentInv, FilesArrive, Within, Content, Apart
<1> QED BY <1>3, <1>4, <1>5 DEF MemInv

\* The invariant is what the runs check, and more.
LEMMA MemInvImplies ==
    ASSUME MemInv
    PROVE  TypeOK /\ ArgumentsArrive /\ FilesArrive
<1>1. TypeOK
  <2>1. \A c \in Conns : call[c] \in CallType
    BY DEF MemInv, CallInv
  <2>2. \A c \in Conns : call[c].op # "none" /\ ~call[c].dangling
            => /\ Address <= call[c].buf.address
               /\ call[c].buf.address + call[c].buf.len <= end
    <3> SUFFICES ASSUME NEW c \in Conns, IsLive(call[c])
                 PROVE  /\ Address <= call[c].buf.address
                        /\ call[c].buf.address + call[c].buf.len <= end
      BY DEF IsLive
    <3>1. call[c].buf.address \in Nat
      BY <2>1 DEF CallType
    <3> QED BY <3>1, InternalMemAssumption DEF MemInv, BlockInv, Within, end
  <2>3. \A c \in Conns : call[c].op \in {"none", "string", "data", "read"}
    BY <2>1 DEF CallType
  <2> QED BY <2>2, <2>3 DEF MemInv, StorageInv, CallInv, TypeOK
<1>2. ArgumentsArrive
  <2> SUFFICES ASSUME NEW c \in Conns, call[c].op \in {"string", "data"},
                      ~call[c].dangling
               PROVE  IsPrefix(seen[c], Argument(call[c]))
    BY DEF ArgumentsArrive, Argument
  <2>1. /\ Len(Argument(call[c])) = call[c].buf.len
        /\ Holds(call[c], Argument(call[c]), storage)
        /\ Holds(call[c], seen[c], storage)
    BY DEF MemInv, ContentInv, Content, IsLive
  <2>2. call[c] \in CallType /\ seen[c] \in Seq(Byte)
    BY DEF MemInv, CallInv
  <2>3. Argument(call[c]) \in Seq(Byte)
    BY <2>2, ArgumentType
  <2>4. Len(seen[c]) <= Len(Argument(call[c]))
        /\ \A i \in 1..Len(seen[c]) : seen[c][i] = Argument(call[c])[i]
    BY <2>1, <2>2, <2>3 DEF Holds
  <2> DEFINE s == seen[c]
             t == Argument(call[c])
  <2> HIDE DEF s, t
  <2>5. s \in Seq(Byte) /\ t \in Seq(Byte) /\ Len(s) <= Len(t)
        /\ \A i \in 1..Len(s) : s[i] = t[i]
    BY <2>2, <2>3, <2>4 DEF s, t
  <2>6. SubSeq(s, 1, Len(s)) = SubSeq(t, 1, Len(s))
    BY <2>5
  <2> QED BY <2>5, <2>6 DEF IsPrefix, s, t
<1> QED BY <1>1, <1>2 DEF MemInv

\* The storage of a connection's constructor, and of every allocation.
LEMMA ConstructMem ==
    ASSUME MemInv, NEW c \in Conns, Construct(c)
    PROVE  MemInv'
<1>1. loop' \in [Conns -> {"none", "running", "ended"}]
  BY DEF MemInv, CallInv, Construct
<1>2. \A d \in Conns : loop[d] # "none" => loop'[d] # "none"
  BY DEF MemInv, CallInv, Construct
<1>3. CASE did_init
  <2>1. UNCHANGED <<memVars, connVars>>
    BY <1>3 DEF Construct, init
  <2> QED BY <1>1, <1>2, <1>3, <2>1, LoopsOnly
<1>4. CASE ~did_init
  <2>1. /\ did_init' = TRUE
        /\ storage' = Zeros(StaticSize) \o WithNul(Hacked)
        /\ capacity' = Capacity(StaticSize + Len(Hacked),
                           Capacity(StaticSize, StaticSize, Len(Hacked)), 1)
        /\ UNCHANGED connVars
    BY <1>4 DEF Construct, init, memVars
  <2>2. \A d \in Conns : ~IsLive(call[d]) /\ call[d].op = "none"
    BY <1>4 DEF MemInv, CallInv, IsLive
  <2>3. /\ storage' \in Seq(Byte)
        /\ Len(storage') = StaticSize + (Len(Hacked) + 1)
    <3>1. Zeros(StaticSize) \in Seq(Byte) /\ Len(Zeros(StaticSize)) = StaticSize
      BY InternalMemAssumption DEF Zeros, Byte
    <3>2. WithNul(Hacked) \in Seq(Byte) /\ Len(WithNul(Hacked)) = Len(Hacked) + 1
      BY InternalMemAssumption, WithNulType
    <3>3. LET s == Zeros(StaticSize) \o WithNul(Hacked)
          IN  s \in Seq(Byte) /\ Len(s) = Len(Zeros(StaticSize)) + Len(WithNul(Hacked))
      BY <3>1, <3>2, ConcatType
    <3> QED BY <2>1, <3>1, <3>2, <3>3
  <2>4. capacity' \in Nat /\ Len(storage') <= capacity'
    <3> DEFINE n == Len(Hacked)
               cap == Capacity(StaticSize, StaticSize, n)
    <3>1. n \in Nat /\ StaticSize \in Nat
      BY InternalMemAssumption
    <3> HIDE DEF n
    <3>2. cap \in Nat /\ StaticSize + n <= cap
      BY <3>1, CapacityFacts
    <3> HIDE DEF cap
    <3>3. /\ Capacity(StaticSize + n, cap, 1) \in Nat
          /\ StaticSize + n + 1 <= Capacity(StaticSize + n, cap, 1)
      <4> DEFINE size == StaticSize + n
      <4>1. size \in Nat /\ size <= cap
        BY <3>1, <3>2
      <4> HIDE DEF size
      <4>2. Capacity(size, cap, 1) \in Nat /\ size + 1 <= Capacity(size, cap, 1)
        BY <3>2, <4>1, CapacityFacts
      <4> QED BY <4>2 DEF size
    <3> QED BY <2>1, <2>3, <3>1, <3>3 DEF n, cap
  <2>5. StorageInv'
    <3>1. Address + Len(storage') < SizeMax
      BY <2>3, MemoryFits, InternalMemAssumption
    <3>2. storage' # <<>>
      BY <2>3, InternalMemAssumption
    <3> QED BY <2>1, <2>3, <2>4, <3>1, <3>2 DEF StorageInv, MemTypeOK
  <2>6. CallInv'
    BY <1>1, <2>1, <2>2 DEF MemInv, CallInv, connVars
  <2>7. BlockInv' /\ ContentInv' /\ FilesArrive'
    BY <2>1, <2>2 DEF MemInv, BlockInv, ContentInv, FilesArrive, Within, Content,
                      Apart, connVars
  <2> QED BY <2>5, <2>6, <2>7 DEF MemInv
<1> QED BY <1>3, <1>4

\* A remote call that appends its block to the storage.
CallAppends(c, op, addr, len, arg, dangling, bytes) ==
    /\ c \in Conns /\ op \in {"string", "data", "read"}
    /\ addr \in Nat /\ len \in Nat /\ arg \in Seq(Byte)
    /\ dangling \in BOOLEAN /\ bytes \in Seq(Byte)
    /\ Calls(c, op, internal_buf(addr, len), arg, dangling)
    /\ storage' = storage \o bytes /\ UNCHANGED did_init
    /\ capacity' \in Nat /\ Len(storage') <= capacity'
    /\ Address + MaxStorage + Len(bytes) <= SizeMax
    /\ dangling => op = "string"
    /\ op = "read" => len > 0
    /\ ~dangling => addr = end
    /\ len = Len(bytes)
    /\ op # "read" => bytes = IF op = "string" THEN WithNul(arg) ELSE arg

\* Such a call, of any of the three kinds, keeps the invariant.
LEMMA CallMem ==
    ASSUME MemInv, NEW c, NEW op, NEW addr, NEW len, NEW arg, NEW dangling,
           NEW bytes, CallAppends(c, op, addr, len, arg, dangling, bytes)
    PROVE  MemInv'
<1>0. /\ c \in Conns /\ op \in {"string", "data", "read"}
      /\ addr \in Nat /\ len \in Nat /\ arg \in Seq(Byte)
      /\ dangling \in BOOLEAN /\ bytes \in Seq(Byte)
      /\ Calls(c, op, internal_buf(addr, len), arg, dangling)
      /\ storage' = storage \o bytes /\ UNCHANGED did_init
      /\ capacity' \in Nat /\ Len(storage') <= capacity'
      /\ Address + MaxStorage + Len(bytes) <= SizeMax
      /\ dangling => op = "string"
      /\ op = "read" => len > 0
      /\ ~dangling => addr = end
      /\ len = Len(bytes)
      /\ op # "read" => bytes = IF op = "string" THEN WithNul(arg) ELSE arg
  BY DEF CallAppends
<1> USE <1>0
<1> DEFINE k == [op |-> op, buf |-> internal_buf(addr, len), arg |-> arg,
                 dangling |-> dangling]
<1>1. /\ call[c].op = "none" /\ loop[c] # "none" /\ Len(storage) < MaxStorage
      /\ call' = [call EXCEPT ![c] = k] /\ seen' = [seen EXCEPT ![c] = <<>>]
      /\ UNCHANGED <<loop, result>>
  BY DEF Calls
<1>2. /\ k \in CallType /\ k.op = op /\ k.buf.address = addr /\ k.buf.len = len
      /\ k.arg = arg /\ k.dangling = dangling
  BY DEF CallType, internal_buf
<1>3. /\ Argument(k) = IF op = "string" THEN WithNul(arg) ELSE arg
      /\ IsLive(k) <=> ~dangling
  BY <1>2 DEF Argument, IsLive
<1> HIDE DEF k
<1>4. /\ storage \in Seq(Byte) /\ did_init /\ storage # <<>>
      /\ call \in [Conns -> CallType] /\ seen \in [Conns -> Seq(Byte)]
  BY <1>1 DEF MemInv, StorageInv, CallInv, MemTypeOK
<1>5. /\ call'[c] = k /\ seen'[c] = <<>>
      /\ \A d \in Conns \ {c} : call'[d] = call[d] /\ seen'[d] = seen[d]
  BY <1>1, <1>4
<1>6. /\ storage' \in Seq(Byte) /\ Len(storage') = Len(storage) + Len(bytes)
      /\ \A i \in 1..Len(storage) : storage'[i] = storage[i]
      /\ \A i \in 1..Len(bytes) : storage'[Len(storage) + i] = bytes[i]
      /\ Len(storage) \in Nat /\ Len(bytes) \in Nat /\ Len(storage) > 0
      /\ Address \in Nat /\ MaxStorage \in Nat /\ SizeMax \in Nat
  BY <1>4, InternalMemAssumption, RemoteMemoryAssumption, CodingAssumption
<1>7. StorageInv'
  <2>1. Address + Len(storage') < SizeMax
    BY <1>1, <1>6
  <2>2. storage' # <<>>
    BY <1>6
  <2> QED BY <1>4, <1>6, <2>1, <2>2 DEF StorageInv, MemTypeOK
<1>8. CallInv'
  <2>1. call' \in [Conns -> CallType] /\ seen' \in [Conns -> Seq(Byte)]
    BY <1>1, <1>2, <1>4
  <2>2. /\ loop'[c] # "none"
        /\ call'[c].dangling => call'[c].op = "string"
        /\ call'[c].op = "read" => call'[c].buf.len > 0
        /\ Len(seen'[c]) <= call'[c].buf.len
    BY <1>1, <1>2, <1>5
  <2> QED BY <1>1, <1>5, <2>1, <2>2 DEF MemInv, CallInv
<1>9. \A d \in Conns \ {c} : Within(call'[d], storage') /\ Content(call'[d], seen'[d], storage')
  <2> SUFFICES ASSUME NEW d \in Conns \ {c}
               PROVE  Within(call[d], storage') /\ Content(call[d], seen[d], storage')
    BY <1>5
  <2>1. /\ call[d] \in CallType /\ seen[d] \in Seq(Byte)
        /\ Within(call[d], storage) /\ Content(call[d], seen[d], storage)
    BY <1>4 DEF MemInv, BlockInv, ContentInv
  <2>2. Len(storage) <= Len(storage')
    BY <1>6
  <2> QED BY <1>4, <1>6, <2>1, <2>2, GrowKeeps
<1>10. Within(k, storage') /\ Content(k, <<>>, storage')
  <2> SUFFICES ASSUME ~dangling PROVE Within(k, storage') /\ Content(k, <<>>, storage')
    BY <1>3 DEF Within, Content
  <2>1. k.buf.address = Address + Len(storage) /\ k.buf.len = Len(bytes)
    BY <1>2 DEF end
  <2>2. Within(k, storage')
    BY ONLY <1>6, <2>1 DEF Within
  <2>3. \A i \in 1..Len(bytes) : k.buf.address - Address + i = Len(storage) + i
    BY <1>6, <2>1
  <2>4. Holds(k, bytes, storage')
    BY <1>6, <2>1, <2>3 DEF Holds
  <2>5. Holds(k, <<>>, storage')
    BY <1>6, <2>1 DEF Holds
  <2>6. op # "read" => Argument(k) = bytes
    BY <1>3
  <2> QED BY <1>2, <2>1, <2>2, <2>4, <2>5, <2>6 DEF Content
<1>11. \A d \in Conns \ {c} : Apart(call'[d], k) /\ Apart(k, call'[d])
  <2> SUFFICES ASSUME NEW d \in Conns \ {c}, IsLive(call[d]), ~dangling
               PROVE  call[d].buf.address + call[d].buf.len <= addr
    BY <1>2, <1>3, <1>5 DEF Apart
  <2> QED BY DEF MemInv, BlockInv, Within, end
<1>12. BlockInv' /\ ContentInv'
  <2>1. \A d \in Conns : Within(call'[d], storage') /\ Content(call'[d], seen'[d], storage')
    BY <1>5, <1>9, <1>10
  <2>2. \A d, e \in Conns : d # e => Apart(call'[d], call'[e])
    <3> SUFFICES ASSUME NEW d \in Conns, NEW e \in Conns, d # e
                 PROVE  Apart(call'[d], call'[e])
      OBVIOUS
    <3>1. CASE d = c
      BY <3>1, <1>5, <1>11
    <3>2. CASE e = c
      BY <3>2, <1>5, <1>11
    <3>3. CASE d # c /\ e # c
      BY <3>3, <1>5 DEF MemInv, BlockInv
    <3> QED BY <3>1, <3>2, <3>3
  <2> QED BY <2>1, <2>2 DEF BlockInv, ContentInv
<1>13. FilesArrive'
  BY <1>1 DEF MemInv, FilesArrive
<1> QED BY <1>7, <1>8, <1>12, <1>13 DEF MemInv

\* remote_io_open and remote_io_system ...
LEMMA StringCallMem ==
    ASSUME MemInv, NEW c \in Conns, NEW s \in Strings, remote_io_encode_str(c, s)
    PROVE  MemInv'
<1>1. PICK addr \in IF Dangles(s) THEN Wild ELSE {end} :
          Calls(c, "string", internal_buf(addr, Len(s) + 1), s, Dangles(s))
  BY DEF remote_io_encode_str
<1>2. /\ storage' = storage \o WithNul(s) /\ UNCHANGED did_init
      /\ capacity' = Capacity(Len(storage) + Len(s),
                              Capacity(Len(storage), capacity, Len(s)), 1)
  BY DEF remote_io_encode_str, add_str
<1>3. /\ s \in Seq(Byte) /\ Address + MaxStorage + Len(s) < SizeMax
      /\ Address \in Nat /\ MaxStorage \in Nat /\ SizeMax \in Nat
  BY RemoteMemoryAssumption, MemoryFits, InternalMemAssumption, CodingAssumption
<1>4. /\ storage \in Seq(Byte) /\ capacity \in Nat /\ Len(storage) <= capacity
      /\ Len(storage) \in Nat
  BY DEF MemInv, StorageInv, MemTypeOK
<1>5. addr \in Nat /\ (~Dangles(s) => addr = end)
  <2>1. end \in Nat
    BY <1>3, <1>4 DEF end
  <2> QED BY <1>1, <2>1, RemoteMemoryAssumption
<1>6. Dangles(s) \in BOOLEAN
  BY DEF Dangles
<1> DEFINE bytes == WithNul(s)
<1>7. bytes \in Seq(Byte) /\ Len(bytes) = Len(s) + 1 /\ Len(s) \in Nat
  BY <1>3, WithNulType
<1>8. storage' \in Seq(Byte) /\ Len(storage') = Len(storage) + Len(bytes)
  BY <1>2, <1>4, <1>7, ConcatType
<1>9. capacity' \in Nat /\ Len(storage') <= capacity'
  <2> DEFINE size == Len(storage)
             cap == Capacity(size, capacity, Len(s))
             size2 == size + Len(s)
  <2>1. cap \in Nat /\ size + Len(s) <= cap
    BY <1>4, <1>7, CapacityFacts
  <2>2. size2 \in Nat /\ size2 <= cap
    BY <1>4, <1>7, <2>1
  <2> HIDE DEF size2, cap
  <2>3. Capacity(size2, cap, 1) \in Nat /\ size2 + 1 <= Capacity(size2, cap, 1)
    BY <2>1, <2>2, CapacityFacts
  <2>4. Len(storage') = size2 + 1
    BY <1>4, <1>7, <1>8 DEF size2
  <2>5. capacity' = Capacity(size2, cap, 1)
    BY <1>2 DEF size2, cap
  <2> QED BY <2>3, <2>4, <2>5
<1> HIDE DEF bytes
<1>10. Address + MaxStorage + Len(bytes) <= SizeMax
  BY <1>3, <1>7
<1>11. storage' = storage \o bytes
  BY <1>2 DEF bytes
<1> DEFINE len == Len(s) + 1
           dangling == Dangles(s)
<1>12. /\ len \in Nat /\ len = Len(bytes) /\ dangling \in BOOLEAN
       /\ ~dangling => addr = end
       /\ "string" = "read" => len > 0
       /\ Calls(c, "string", internal_buf(addr, len), s, dangling)
  BY <1>1, <1>5, <1>6, <1>7
<1>13. "string" # "read" => bytes = IF "string" = "string" THEN WithNul(s) ELSE s
  BY DEF bytes
<1> HIDE DEF len, dangling
<1>14. CallAppends(c, "string", addr, len, s, dangling, bytes)
  BY <1>2, <1>3, <1>5, <1>7, <1>9, <1>10, <1>11, <1>12, <1>13 DEF CallAppends
<1> QED BY ONLY MemInv, <1>14, CallMem

\* ... remote_io_write and remote_io_read keep the invariant ...
LEMMA BlockCallMem ==
    ASSUME MemInv, NEW c \in Conns, NEW op \in {"data", "read"},
           NEW arg \in Seq(Byte), NEW bytes \in Seq(Byte),
           Calls(c, op, internal_buf(end, Len(bytes)), arg, FALSE), add_data(bytes),
           Address + MaxStorage + Len(bytes) < SizeMax,
           op # "read" => bytes = arg, op = "read" => Len(bytes) > 0
    PROVE  MemInv'
<1>1. /\ storage' = storage \o bytes /\ UNCHANGED did_init
      /\ capacity' = Capacity(Len(storage), capacity, Len(bytes))
  BY DEF add_data, Grow
<1>2. /\ storage \in Seq(Byte) /\ capacity \in Nat /\ Len(storage) <= capacity
      /\ Len(storage) \in Nat /\ Len(bytes) \in Nat
      /\ Address \in Nat /\ MaxStorage \in Nat /\ SizeMax \in Nat
  BY RemoteMemoryAssumption, InternalMemAssumption, CodingAssumption
     DEF MemInv, StorageInv, MemTypeOK
<1>3. storage' \in Seq(Byte) /\ Len(storage') = Len(storage) + Len(bytes)
  BY <1>1, <1>2, ConcatType
<1>4. capacity' \in Nat /\ Len(storage') <= capacity'
  BY <1>1, <1>2, <1>3, CapacityFacts
<1> DEFINE len == Len(bytes)
           addr == end
<1>5. len \in Nat /\ addr \in Nat /\ FALSE \in BOOLEAN
  BY <1>2 DEF end
<1>6. Address + MaxStorage + Len(bytes) <= SizeMax
  BY <1>2
<1>7. op # "read" => bytes = IF op = "string" THEN WithNul(arg) ELSE arg
  OBVIOUS
<1>8. /\ addr = end /\ len = Len(bytes) /\ op \in {"string", "data", "read"}
      /\ Calls(c, op, internal_buf(addr, len), arg, FALSE)
      /\ op = "read" => len > 0
  OBVIOUS
<1> HIDE DEF len, addr
<1>9. CallAppends(c, op, addr, len, arg, FALSE, bytes)
  BY <1>1, <1>4, <1>5, <1>6, <1>7, <1>8 DEF CallAppends
<1> QED BY ONLY MemInv, <1>9, CallMem

\* ... and so does every step of the server.
LEMMA CallsMem ==
    ASSUME MemInv, NEW c \in Conns, Server(c)
    PROVE  MemInv'
<1>1. ASSUME NEW data \in Blocks, remote_io_write(c, data) PROVE MemInv'
  <2>1. data \in Seq(Byte) /\ Address + MaxStorage + Len(data) < SizeMax
    BY RemoteMemoryAssumption, MemoryFits
  <2>2. Calls(c, "data", internal_buf(end, Len(data)), data, FALSE) /\ add_data(data)
    BY <1>1 DEF remote_io_write
  <2> QED BY <2>1, <2>2, BlockCallMem
<1>2. ASSUME NEW max \in ReadSizes, remote_io_read(c, max) PROVE MemInv'
  <2> DEFINE zeros == Zeros(max)
  <2>1. zeros \in Seq(Byte) /\ Len(zeros) = max /\ max > 0
    BY RemoteMemoryAssumption DEF Zeros, Byte
  <2>2. Calls(c, "read", internal_buf(end, max), <<>>, FALSE) /\ add_data(zeros)
    BY <1>2 DEF remote_io_read, reserve
  <2>3. Address + MaxStorage + Len(zeros) < SizeMax /\ <<>> \in Seq(Byte)
    BY <2>1, MemoryFits
  <2> HIDE DEF zeros
  <2>4. Calls(c, "read", internal_buf(end, Len(zeros)), <<>>, FALSE)
    BY <2>1, <2>2
  <2> QED BY <2>1, <2>2, <2>3, <2>4, BlockCallMem
<1> QED BY <1>1, <1>2, ConstructMem, StringCallMem DEF Server

-----------------------------------------------------------------------------

\* What a packet and its answer change, whatever the packet is.
LEMMA ExchangeFacts ==
    ASSUME MemInv, NEW c \in Conns, NEW pkt, Exchange(c, pkt)
    PROVE  /\ storage' = process_pkt(c, pkt).storage /\ UNCHANGED <<capacity, did_init>>
           /\ loop' \in [Conns -> {"none", "running", "ended"}]
           /\ \A d \in Conns : /\ loop'[d] # "none" => did_init
                               /\ loop[d] # "none" => loop'[d] # "none"
BY DEF MemInv, CallInv, Exchange

\* A packet that leaves the storage alone keeps the invariant.
LEMMA AskMem ==
    ASSUME MemInv, NEW c \in Conns, NEW pkt, Ask(c, pkt),
           process_pkt(c, pkt).storage = storage
    PROVE  MemInv'
<1>1. Exchange(c, pkt) /\ UNCHANGED connVars
  BY DEF Ask
<1>2. UNCHANGED <<memVars, connVars>>
  BY <1>1, ExchangeFacts DEF memVars
<1> QED BY <1>1, <1>2, ExchangeFacts, LoopsOnly

\* More of the same buffer, behind what it holds already.
LEMMA HoldsMore ==
    ASSUME NEW k \in CallType, NEW put \in Seq(Byte), NEW more \in Seq(Byte),
           NEW store, Holds(k, put, store), Len(put) + Len(more) <= k.buf.len,
           \A i \in 1..Len(more) :
               store[k.buf.address - Address + (Len(put) + i)] = more[i]
    PROVE  Holds(k, put \o more, store)
<1>1. /\ Len(put \o more) = Len(put) + Len(more)
      /\ \A i \in 1..Len(put) : (put \o more)[i] = put[i]
      /\ \A i \in 1..Len(more) : (put \o more)[Len(put) + i] = more[i]
  OBVIOUS
<1> DEFINE s == put \o more
<1>2. ASSUME NEW i \in 1..Len(s)
      PROVE  store[k.buf.address - Address + i] = s[i]
  <2>1. CASE i \in 1..Len(put)
    BY <1>1, <2>1 DEF Holds
  <2>2. CASE i \notin 1..Len(put)
    <3> DEFINE j == i - Len(put)
    <3>1. j \in 1..Len(more) /\ i = Len(put) + j
      BY <1>1, <1>2, <2>2
    <3> HIDE DEF j, s
    <3>2. store[k.buf.address - Address + (Len(put) + j)] = more[j]
      BY <3>1
    <3>3. s[Len(put) + j] = more[j]
      BY <1>1, <3>1 DEF s
    <3> QED BY <3>1, <3>2, <3>3
  <2> QED BY <2>1, <2>2
<1> QED BY <1>1, <1>2 DEF Holds

\* A packet of a client about its own call: what it has seen or put grows.
LEMMA SeenMem ==
    ASSUME MemInv, NEW c \in Conns, NEW pkt, Exchange(c, pkt), UNCHANGED <<call, result>>,
           NEW more \in Seq(Byte), seen' = [seen EXCEPT ![c] = @ \o more],
           Len(seen[c]) + Len(more) <= call[c].buf.len,
           storage' \in Seq(Byte), Len(storage') = Len(storage),
           \A d \in Conns \ {c} : /\ Within(call[d], storage')
                                  /\ Content(call[d], seen[d], storage'),
           Content(call[c], seen[c] \o more, storage')
    PROVE  MemInv'
<1>1. /\ UNCHANGED <<capacity, did_init>>
      /\ loop' \in [Conns -> {"none", "running", "ended"}]
      /\ \A d \in Conns : /\ loop'[d] # "none" => did_init
                          /\ loop[d] # "none" => loop'[d] # "none"
  BY ExchangeFacts
<1>2. /\ storage \in Seq(Byte) /\ seen \in [Conns -> Seq(Byte)]
      /\ call \in [Conns -> CallType]
  BY DEF MemInv, CallInv, StorageInv, MemTypeOK
<1>3. /\ seen'[c] = seen[c] \o more /\ seen[c] \o more \in Seq(Byte)
      /\ Len(seen'[c]) = Len(seen[c]) + Len(more)
      /\ \A d \in Conns \ {c} : seen'[d] = seen[d]
  BY <1>2, ConcatType
<1>4. StorageInv'
  <2>1. storage # <<>> <=> storage' # <<>>
    <3>1. Len(storage) = 0 <=> Len(storage') = 0
      OBVIOUS
    <3>2. \A s \in Seq(Byte) : s = <<>> <=> Len(s) = 0
      OBVIOUS
    <3> QED BY <1>2, <3>1, <3>2
  <2>2. capacity' \in Nat /\ Len(storage') <= capacity' /\ did_init' = did_init
    BY <1>1 DEF MemInv, StorageInv, MemTypeOK
  <2> QED BY <1>1, <2>1, <2>2 DEF MemInv, StorageInv, MemTypeOK
<1>5. CallInv'
  <2>1. seen' \in [Conns -> Seq(Byte)]
    BY <1>2, <1>3
  <2>2. \A d \in Conns : Len(seen'[d]) <= call[d].buf.len
    BY <1>3 DEF MemInv, CallInv
  <2> QED BY <1>1, <2>1, <2>2 DEF MemInv, CallInv
<1>6. BlockInv'
  <2>1. Within(call[c], storage')
    BY DEF MemInv, BlockInv, Within
  <2> QED BY <2>1 DEF MemInv, BlockInv
<1>7. ContentInv'
  BY <1>3 DEF ContentInv
<1>8. FilesArrive'
  BY DEF MemInv, FilesArrive
<1> QED BY <1>4, <1>5, <1>6, <1>7, <1>8 DEF MemInv

\* A client's m packet is an m packet, ...
LEMMA ReadHead ==
    ASSUME NEW addr \in Nat, NEW len \in Nat
    PROVE  Head(ReadPacket(addr, len)) = read_mem
<1>1. HexText(addr) \in Seq(Byte) /\ HexText(len) \in Seq(Byte)
  BY HexTextRoundTrip DEF HexTextOf
<1>2. read_mem \in Byte /\ comma \in Byte
  BY DEF read_mem, comma, Byte
<1> QED BY <1>1, <1>2, PacketParts DEF ReadPacket

\* ... whose handler writes nothing.
LEMMA ReadKeeps ==
    ASSUME NEW c \in Conns, NEW addr \in Nat, NEW len \in Nat
    PROVE  process_pkt(c, ReadPacket(addr, len)).storage = storage
<1>1. Head(ReadPacket(addr, len)) # write_mem
  BY ReadHead DEF read_mem, write_mem
<1> QED BY <1>1, OthersKeep

\* The place in the buffer where the next packet of a client begins.
LEMMA NextPlace ==
    ASSUME MemInv, NEW c \in Conns, NEW n \in Nat \ {0}, n <= Left(c)
    PROVE  /\ NextAddr(c) \in Nat /\ Len(seen[c]) \in Nat
           /\ Len(seen[c]) + n <= call[c].buf.len
           /\ IsLive(call[c]) =>
                 /\ has_addr(NextAddr(c)) /\ NextAddr(c) + n <= end
                 /\ get_idx(NextAddr(c)) = call[c].buf.address - Address + Len(seen[c])
<1>1. call[c] \in CallType /\ seen[c] \in Seq(Byte)
  BY DEF MemInv, CallInv
<1>2. call[c].buf.address \in Nat /\ call[c].buf.len \in Nat /\ Len(seen[c]) \in Nat
  BY <1>1 DEF CallType
<1>3. IsLive(call[c]) => /\ Address < call[c].buf.address
                         /\ call[c].buf.address + call[c].buf.len <= end
  BY DEF MemInv, BlockInv, Within, end
<1>4. Len(seen[c]) + n <= call[c].buf.len
  BY <1>2 DEF Left
<1>5. Address \in Nat /\ end \in Nat
  <2>1. Address \in Nat /\ storage \in Seq(Byte)
    BY InternalMemAssumption DEF MemInv, StorageInv, MemTypeOK
  <2>2. Len(storage) \in Nat
    BY <2>1
  <2> QED BY <2>1, <2>2 DEF end
<1> DEFINE a == call[c].buf.address
           l == call[c].buf.len
           m == Len(seen[c])
<1>6. NextAddr(c) = a + m
  BY DEF NextAddr
<1>7. a \in Nat /\ l \in Nat /\ m \in Nat /\ m + n <= l
  BY <1>2, <1>4
<1>8. IsLive(call[c]) => Address < a /\ a + l <= end
  BY <1>3
<1> HIDE DEF a, l, m
<1>9. /\ a + m \in Nat
      /\ IsLive(call[c]) => /\ Address <= a + m /\ a + m < end /\ a + m + n <= end
                            /\ (a + m) - Address = a - Address + m
  BY <1>5, <1>7, <1>8
<1>10. /\ NextAddr(c) \in Nat
       /\ IsLive(call[c]) =>
             /\ has_addr(NextAddr(c)) /\ NextAddr(c) + n <= end
             /\ get_idx(NextAddr(c)) = a - Address + m
  BY <1>6, <1>9 DEF has_addr, get_idx
<1> QED BY <1>2, <1>4, <1>10 DEF a, m

\* The parts of the invariant that the packets of clients need.
LEMMA StorageFacts ==
    ASSUME MemInv
    PROVE  /\ storage \in Seq(Byte) /\ end < SizeMax
           /\ call \in [Conns -> CallType] /\ seen \in [Conns -> Seq(Byte)]
           /\ \A c \in Conns : /\ Within(call[c], storage)
                               /\ Content(call[c], seen[c], storage)
           /\ \A c, d \in Conns : c # d => Apart(call[c], call[d])
BY DEF MemInv, StorageInv, MemTypeOK, CallInv, BlockInv, ContentInv, end

\* A client reads more of the argument of its call.
LEMMA FetchMem ==
    ASSUME MemInv, NEW c \in Conns, NEW n \in 1..2, Fetch(c, n)
    PROVE  MemInv'
<1> DEFINE pkt == ReadPacket(NextAddr(c), n)
           answer == process_pkt(c, pkt)
           bytes == BytesDecode(answer.text).val
<1>1. /\ call[c].op \in {"string", "data"} /\ n <= Left(c) /\ Exchange(c, pkt)
      /\ seen' = [seen EXCEPT ![c] = @ \o bytes] /\ UNCHANGED <<call, result>>
  BY DEF Fetch
<1>2. n \in Nat /\ n \in Nat \ {0}
  OBVIOUS
<1>3. /\ NextAddr(c) \in Nat /\ Len(seen[c]) \in Nat
      /\ Len(seen[c]) + n <= call[c].buf.len
      /\ IsLive(call[c]) =>
             /\ has_addr(NextAddr(c)) /\ NextAddr(c) + n <= end
             /\ get_idx(NextAddr(c)) = call[c].buf.address - Address + Len(seen[c])
  BY <1>1, <1>2, NextPlace
<1>4. storage' = storage
  BY <1>1, <1>2, <1>3, ExchangeFacts, ReadKeeps
<1>5. /\ bytes \in Seq(Byte) /\ Len(bytes) <= n
      /\ has_addr(NextAddr(c)) /\ NextAddr(c) + n <= end =>
            bytes \in {SubSeq(storage, get_idx(NextAddr(c)) + 1, get_idx(NextAddr(c)) + n),
                       <<>>}
  BY <1>2, <1>3, StorageFacts, ReadAnswer
<1> HIDE DEF pkt, answer, bytes
<1>6. Len(seen[c]) + Len(bytes) <= call[c].buf.len
  BY <1>2, <1>3, <1>5, StorageFacts DEF CallType
<1>7. Content(call[c], seen[c] \o bytes, storage)
  <2> SUFFICES ASSUME IsLive(call[c]) PROVE Holds(call[c], seen[c] \o bytes, storage)
    BY StorageFacts DEF Content
  <2> DEFINE k == call[c]
             at == k.buf.address - Address + Len(seen[c])
  <2>1. k \in CallType /\ seen[c] \in Seq(Byte) /\ Holds(k, seen[c], storage)
    BY StorageFacts DEF Content
  <2>2. k.buf.address \in Nat /\ Address \in Nat
    BY <2>1, InternalMemAssumption DEF CallType
  <2>3. bytes \in {SubSeq(storage, at + 1, at + n), <<>>}
    <3>1. /\ has_addr(NextAddr(c)) /\ NextAddr(c) + n <= end
          /\ get_idx(NextAddr(c)) = at
      BY <1>3
    <3> HIDE DEF at, k
    <3> QED BY <1>5, <3>1
  <2>4. at \in Nat /\ at + n <= Len(storage)
    <3>1. /\ has_addr(NextAddr(c)) /\ NextAddr(c) + n <= end
          /\ get_idx(NextAddr(c)) = at
      BY <1>3
    <3>2. end = Address + Len(storage) /\ Len(storage) \in Nat
      BY StorageFacts DEF end
    <3>3. n \in Nat /\ NextAddr(c) \in Nat
      BY <1>2, <1>3
    <3> HIDE DEF at
    <3> QED BY <2>2, <3>1, <3>2, <3>3 DEF has_addr, get_idx
  <2>5. storage \in Seq(Byte)
    BY StorageFacts
  <2>6. \A i \in 1..Len(bytes) : storage[at + i] = bytes[i]
    <3> HIDE DEF at
    <3>1. CASE bytes = SubSeq(storage, at + 1, at + n)
      BY <1>2, <2>4, <2>5, <3>1
    <3>2. CASE bytes = <<>>
      BY <3>2
    <3> QED BY <2>3, <3>1, <3>2
  <2>7. \A i \in 1..Len(bytes) :
            k.buf.address - Address + (Len(seen[c]) + i) = at + i
    <3>1. Len(seen[c]) \in Nat /\ Len(bytes) \in Nat
      BY <1>3, <1>5
    <3> HIDE DEF k
    <3>2. \A i \in 1..Len(bytes) : i \in Int
      BY <3>1
    <3> QED BY ONLY <2>2, <3>1, <3>2
  <2> HIDE DEF at, k
  <2>8. \A i \in 1..Len(bytes) :
            storage[k.buf.address - Address + (Len(seen[c]) + i)] = bytes[i]
    BY <2>6, <2>7
  <2> QED BY <1>5, <1>6, <2>1, <2>8, HoldsMore DEF k
<1>8. \A d \in Conns \ {c} : /\ Within(call[d], storage')
                             /\ Content(call[d], seen[d], storage')
  BY <1>4, StorageFacts
<1>9. storage' \in Seq(Byte) /\ Len(storage') = Len(storage)
  BY <1>4, StorageFacts
<1> QED BY <1>1, <1>4, <1>5, <1>6, <1>7, <1>8, <1>9, SeenMem

\* A client writes more of its file into the buffer of its call: behind what
\* it has written there, and beside the buffers of all the other calls.
LEMMA FillMem ==
    ASSUME MemInv, NEW c \in Conns, NEW bytes \in Seq(Byte), bytes # <<>>, Fill(c, bytes)
    PROVE  MemInv'
<1> DEFINE addr == NextAddr(c)
           n == Len(bytes)
           pkt == WritePacket(addr, bytes)
           at == get_idx(addr)
<1>1. /\ call[c].op = "read" /\ n <= Left(c) /\ Exchange(c, pkt)
      /\ seen' = [seen EXCEPT ![c] = @ \o bytes] /\ UNCHANGED <<call, result>>
  BY DEF Fill
<1>2. n \in Nat \ {0} /\ n \in Nat
  OBVIOUS
<1>3. IsLive(call[c])
  BY <1>1 DEF IsLive, MemInv, CallInv
<1>4. /\ addr \in Nat /\ Len(seen[c]) \in Nat /\ Len(seen[c]) + n <= call[c].buf.len
      /\ has_addr(addr) /\ addr + n <= end
      /\ at = call[c].buf.address - Address + Len(seen[c])
  BY <1>1, <1>2, <1>3, NextPlace
<1>5. storage' = Written(addr, n, bytes)
  BY <1>1, <1>4, ExchangeFacts, StorageFacts, WriteAnswer
<1>6. /\ storage' \in Seq(Byte) /\ Len(storage') = Len(storage)
      /\ \A i \in 1..Len(storage) :
            storage'[i] = IF i \in at + 1 .. at + n THEN bytes[i - at] ELSE storage[i]
  BY <1>4, <1>5, StorageFacts, WrittenFacts
<1>7. /\ call[c] \in CallType /\ seen[c] \in Seq(Byte) /\ storage \in Seq(Byte)
      /\ Address \in Nat /\ call[c].buf.address \in Nat /\ call[c].buf.len \in Nat
      /\ Holds(call[c], seen[c], storage) /\ Within(call[c], storage)
  BY <1>3, StorageFacts, InternalMemAssumption DEF CallType, Content
<1>8. at \in Nat /\ at + n <= Len(storage) /\ at = addr - Address /\ Address <= addr
      /\ Len(storage) \in Nat
  BY <1>2, <1>4, <1>7, SMTT(20) DEF has_addr, get_idx, end
<1>9. addr = call[c].buf.address + Len(seen[c])
  BY DEF NextAddr
<1> HIDE DEF n, at, pkt, addr
<1>10. Content(call[c], seen[c] \o bytes, storage')
  <2> DEFINE k == call[c]
             b == k.buf.address - Address
  <2>1. b = at - Len(seen[c])
    <3>1. /\ at = call[c].buf.address - Address + Len(seen[c])
          /\ Len(seen[c]) \in Nat /\ call[c].buf.address \in Nat /\ Address \in Nat
      BY <1>4, <1>7
    <3> DEFINE address == call[c].buf.address
               done == Len(seen[c])
    <3>2. /\ at = address - Address + done
          /\ done \in Nat /\ address \in Nat /\ Address \in Nat
      BY ONLY <3>1
    <3> HIDE DEF address, done
    <3>3. address - Address = at - done
      BY ONLY <3>2
    <3> QED BY ONLY <3>3 DEF address, done
  <2>2. \A i \in 1..Len(seen[c]) : storage[b + i] = seen[c][i]
    BY <1>7 DEF Holds
  <2>3. b \in Nat
    BY <1>3, <1>7 DEF Within
  <2>4. Len(seen[c]) \in Nat
    BY <1>4
  <2> DEFINE old == seen[c]
  <2> HIDE DEF b, old
  <2>5. \A i \in 1..Len(old) : b + i \in 1..Len(storage) /\ b + i \notin at + 1 .. at + n
    BY <1>2, <1>8, <2>1, <2>3, <2>4, SMTT(20) DEF old
  <2>6. \A i \in 1..Len(old) : storage'[b + i] = old[i]
    BY <1>6, <2>2, <2>5 DEF old
  <2>7. Len(old) \in Nat /\ b + Len(old) = at
    BY <1>8, <2>1, <2>3, <2>4 DEF old
  <2>8. ASSUME NEW i \in 1..n
        PROVE  storage'[b + (Len(old) + i)] = bytes[i]
    <3>1. b + (Len(old) + i) = at + i
      BY <1>8, <2>3, <2>7
    <3> DEFINE j == at + i
    <3>2. j \in 1..Len(storage) /\ j \in at + 1 .. at + n /\ j - at = i
      BY <1>2, <1>8
    <3> HIDE DEF j
    <3>3. storage'[j] = bytes[i]
      BY <1>6, <3>2
    <3> QED BY <3>1, <3>3 DEF j
  <2>9. Holds(k, old, storage')
    BY <1>7, <2>6 DEF Holds, b, old
  <2>10. \A i \in 1..Len(bytes) : storage'[k.buf.address - Address + (Len(old) + i)] = bytes[i]
    BY <2>8 DEF b, n
  <2>11. Len(old) + Len(bytes) <= k.buf.len /\ k \in CallType /\ old \in Seq(Byte)
    BY <1>4, <1>7 DEF n, old
  <2> HIDE DEF k
  <2>12. Holds(k, old \o bytes, storage')
    BY <2>9, <2>10, <2>11, HoldsMore
  <2> QED BY <1>1, <2>12 DEF Content, k, old
<1>11. \A d \in Conns \ {c} : /\ Within(call[d], storage')
                              /\ Content(call[d], seen[d], storage')
  <2> SUFFICES ASSUME NEW d \in Conns \ {c}
               PROVE  Within(call[d], storage') /\ Content(call[d], seen[d], storage')
    OBVIOUS
  <2>1. CASE ~IsLive(call[d])
    BY <2>1 DEF Within, Content
  <2>2. CASE IsLive(call[d])
    <3> DEFINE low == addr
               high == addr + n
    <3>1. call[d].buf.address \in Nat /\ call[d].buf.len \in Nat
      BY StorageFacts DEF CallType
    <3>2. \/ call[c].buf.address + call[c].buf.len <= call[d].buf.address
          \/ call[d].buf.address + call[d].buf.len <= call[c].buf.address
      BY <1>3, <2>2, StorageFacts DEF Apart
    <3>3. \/ call[d].buf.address + call[d].buf.len <= low
          \/ high <= call[d].buf.address
      <4> DEFINE a == call[c].buf.address
                 l == call[c].buf.len
                 m == Len(seen[c])
                 b == call[d].buf.address
                 e == call[d].buf.len
      <4>1. a \in Nat /\ l \in Nat /\ m \in Nat /\ b \in Nat /\ e \in Nat /\ m + n <= l
        BY <1>4, <1>7, <3>1 DEF n
      <4>2. addr = a + m /\ (a + l <= b \/ b + e <= a)
        BY <1>9, <3>2
      <4> HIDE DEF a, l, m, b, e
      <4>3. b + e <= addr \/ addr + n <= b
        BY <1>2, <4>1, <4>2 DEF n
      <4> QED BY <4>3 DEF b, e
    <3>4. low \in Nat /\ high \in Nat
      BY <1>2, <1>4
    <3>5. \A i \in 1..Len(storage) :
             i \notin (low - Address) + 1 .. high - Address => storage'[i] = storage[i]
      <4>1. low - Address = at /\ high - Address = at + n
        <5>1. addr \in Nat /\ Address \in Nat /\ at = addr - Address /\ n \in Nat
          BY <1>2, <1>4, <1>7, <1>8
        <5> QED BY <5>1
      <4> HIDE DEF low, high
      <4> QED BY <1>6, <4>1
    <3>6. /\ call[d] \in CallType /\ seen[d] \in Seq(Byte)
          /\ Within(call[d], storage) /\ Content(call[d], seen[d], storage)
      BY StorageFacts
    <3>7. /\ Aside(call[d], low, high) /\ DifferIn(storage, storage', low, high)
          /\ storage \in Seq(Byte) /\ storage' \in Seq(Byte)
          /\ Len(storage) = Len(storage')
      BY <1>6, <1>7, <3>3, <3>5 DEF Aside, DifferIn
    <3> HIDE DEF low, high
    <3> QED BY <3>4, <3>6, <3>7, WriteKeeps, Zenon
  <2> QED BY <2>1, <2>2
<1>12. Len(seen[c]) + Len(bytes) <= call[c].buf.len
  BY <1>4 DEF n
<1> QED BY <1>1, <1>6, <1>10, <1>11, <1>12, SeenMem

\* -1 as a size_t.
LEMMA MinusOne ==
    ASSUME NEW m \in Nat \ {0}
    PROVE  (-1) % m = m - 1
OBVIOUS

\* The range of a retcode.
SignedLow  == -(SizeMax \div 2)
SignedHigh == SizeMax \div 2 - 1

\* A retcode is a signed number of half the size_t.
LEMMA SignedRange ==
    /\ SignedLow \in Int /\ SignedHigh \in Int /\ SignedLow < 0
    /\ SignedHigh < SizeMax
<1>1. SizeMax \in Nat /\ SizeMax > 1
  <2>1. Address + StaticSize + Len(Hacked) + 1 < SizeMax /\ Len(Hacked) \in Nat
    BY MemoryFits, InternalMemAssumption
  <2> QED BY <2>1, InternalMemAssumption, CodingAssumption
<1>2. SizeMax \div 2 \in Nat /\ SizeMax \div 2 > 0 /\ SizeMax \div 2 <= SizeMax
  BY <1>1
<1> QED BY <1>1, <1>2 DEF SignedLow, SignedHigh

\* What the fields of a child's result become.
OnTextFields(val, rest, n) ==
    /\ OnText(Decoded(val, rest), n).exc = n.exc
    /\ n.exc = "none" => OnText(Decoded(val, rest), n).val = n.val

\* A StrCoder with a child throws what the child throws.
LEMMA OnTextOf ==
    ASSUME NEW val, NEW rest, NEW n PROVE OnTextFields(val, rest, n)
<1> DEFINE str == Decoded(val, rest)
<1>1. str.exc = "none"
  BY DecodedFields
<1>2. OnText(str, n) = IF n.exc # "none" THEN n ELSE Decoded(n.val, str.rest)
  BY <1>1 DEF OnText
<1> HIDE DEF str
<1>3. CASE n.exc # "none"
  BY <1>2, <1>3 DEF OnTextFields, str
<1>4. CASE n.exc = "none"
  <2>1. OnText(str, n) = Decoded(n.val, str.rest)
    BY <1>2, <1>4
  <2>2. OnText(str, n).exc = "none" /\ OnText(str, n).val = n.val
    BY <2>1, DecodedFields
  <2> QED BY <1>4, <2>2 DEF OnTextFields, str
<1> QED BY <1>3, <1>4

\* The replies of a client: the count that it gives is read back ...
LEMMA CountReply ==
    ASSUME NEW n \in Nat, SignedHex(HexText(n), comma).exc = "none"
    PROVE  SignedHex(HexText(n), comma).val = n /\ n < SizeMax
<1> DEFINE s == HexText(n)
           num == NumCoder(s, SignedLow, SignedHigh)
<1>1. HexTextOf(n, s)
  BY HexTextRoundTrip
<1>2. s \in Seq(Byte) /\ \A i \in 1..Len(s) : s[i] # comma
  BY <1>1, DigitFacts DEF HexTextOf
<1>3. comma \in Byte
  BY DEF comma, Byte
<1>4. num = IF n <= SignedHigh THEN Decoded(n, <<>>) ELSE Throws("system_error")
  <2>1. NumCoder(HexText(n), SignedLow, SignedHigh) =
            IF n <= SignedHigh THEN Decoded(n, <<>>) ELSE Throws("system_error")
    <3> DEFINE low == SignedLow
               high == SignedHigh
    <3>1. low \in Int /\ high \in Int /\ low <= 0
      BY SignedRange
    <3> HIDE DEF low, high
    <3>2. NumCoder(HexText(n), low, high) =
              IF n <= high THEN Decoded(n, <<>>) ELSE Throws("system_error")
      BY <3>1, NumCoderRoundTrip
    <3> QED BY <3>2 DEF low, high
  <2> QED BY <2>1
<1> HIDE DEF s
<1>5. StrCoder(s, comma, FALSE) = Decoded(s, <<>>)
  BY <1>2, <1>3, StrCoderWhole
<1>6. SignedHex(s, comma) = OnText(Decoded(s, <<>>), num)
  <2>1. Decoded(s, <<>>).val = s
    BY DecodedFields
  <2> QED BY <1>5, <2>1 DEF SignedHex, SignedLow, SignedHigh
<1> HIDE DEF num
<1>7. num.exc = "none" /\ SignedHex(s, comma).val = num.val
  BY <1>6, OnTextOf DEF OnTextFields, s
<1>8. n <= SignedHigh
  BY <1>4, <1>7, ThrowsFields
<1>9. num.val = n
  BY <1>4, <1>8, DecodedFields
<1>10. n < SizeMax
  BY <1>8, SignedRange, CodingAssumption
<1> QED BY <1>7, <1>9, <1>10 DEF s

\* ... and so is the -1 of a failure, with an error number behind it or not.
LEMMA MinusOneRead ==
    ASSUME NumCoder(<<minus, 49>>, SignedLow, SignedHigh).exc = "none"
    PROVE  NumCoder(<<minus, 49>>, SignedLow, SignedHigh).val = -1
<1> DEFINE s == <<minus, 49>>
           num == NumCoder(s, SignedLow, SignedHigh)
<1>1. s # <<>> /\ s[1] = minus /\ Tail(s) = <<49>>
  BY DEF minus
<1>2. Digits(<<49>>) = <<49>>
  <2>1. <<49>> \in Seq(Byte) /\ \A i \in 1..Len(<<49>>) : <<49>>[i] \in Digit
    BY DEF Byte, Digit
  <2> QED BY <2>1, DigitsOfDigits
<1>3. HexValue(<<49>>) = 1
  <2>1. 49 \in Byte /\ <<>> \in Seq(Byte) /\ Append(<<>>, 49) = <<49>>
        /\ decode_hex(49) = 1
    BY DEF Byte, decode_hex
  <2>2. /\ HexValue(Append(<<>>, 49)) = 16 * HexValue(<<>>) + decode_hex(49)
        /\ HexValue(<<>>) = 0
    BY <2>1, HexValueAppend
  <2> QED BY <2>1, <2>2
<1> HIDE DEF s
<1>4. num \in {Decoded(-1, <<>>), Throws("system_error")}
  <2> DEFINE one == <<49>>
  <2>1. one # <<>>
    OBVIOUS
  <2>2. Digits(one) = one /\ HexValue(one) = 1 /\ Tail(s) = one
    BY <1>1, <1>2, <1>3
  <2> HIDE DEF one
  <2>3. num = IF -1 \notin SignedLow..SignedHigh THEN Throws("system_error")
              ELSE Decoded(-1, <<>>)
    BY <1>1, <2>1, <2>2, SignedRange DEF NumCoder
  <2> QED BY <2>3
<1>5. num.exc = "none"
  BY DEF s
<1> HIDE DEF num
<1>6. num = Decoded(-1, <<>>)
  BY <1>4, <1>5, ThrowsFields
<1> QED BY <1>6, DecodedFields DEF num, s

\* handle_file_reply reads a failure as -1.
LEMMA FailureReply ==
    ASSUME NEW text \in {<<minus, 49>>, <<minus, 49, comma, 53>>},
           SignedHex(text, comma).exc = "none"
    PROVE  SignedHex(text, comma).val = -1
<1> DEFINE s == <<minus, 49>>
           num == NumCoder(s, SignedLow, SignedHigh)
<1>1. s \in Seq(Byte) /\ (\A i \in 1..Len(s) : s[i] # comma) /\ comma \in Byte
      /\ <<53>> \in Seq(Byte)
  BY DEF minus, comma, Byte
<1>2. StrCoder(text, comma, FALSE) \in {Decoded(s, <<>>), Decoded(s, <<53>>)}
  <2>1. CASE text = <<minus, 49>>
    <3> HIDE DEF s
    <3>1. StrCoder(s, comma, FALSE) = Decoded(s, <<>>)
      BY <1>1, StrCoderWhole
    <3> QED BY <2>1, <3>1 DEF s
  <2>2. CASE text = <<minus, 49, comma, 53>>
    <3>1. text = s \o <<comma>> \o <<53>>
      BY <2>2
    <3> HIDE DEF s
    <3>2. StrCoder(s \o <<comma>> \o <<53>>, comma, FALSE) = Decoded(s, <<53>>)
      BY <1>1, StrCoderSplits, ZenonT(30)
    <3> QED BY <3>1, <3>2
  <2> QED BY <2>1, <2>2
<1> HIDE DEF s
<1>3. PICK rest \in {<<>>, <<53>>} : StrCoder(text, comma, FALSE) = Decoded(s, rest)
  BY <1>2
<1>4. SignedHex(text, comma) = OnText(Decoded(s, rest), num)
  <2>1. Decoded(s, rest).val = s
    BY DecodedFields
  <2> QED BY <1>3, <2>1 DEF SignedHex, SignedLow, SignedHigh
<1> HIDE DEF num
<1>5. num.exc = "none" /\ SignedHex(text, comma).val = num.val
  BY <1>4, OnTextOf DEF OnTextFields
<1> QED BY <1>5, MinusOneRead DEF num, s

\* A vector made from two iterators has the bytes between them.
LEMMA SliceIs ==
    ASSUME NEW s \in Seq(Byte), NEW t \in Seq(Byte), NEW at \in Nat,
           at + Len(t) <= Len(s), \A i \in 1..Len(t) : s[at + i] = t[i]
    PROVE  SubSeq(s, at + 1, at + Len(t)) = t
<1> DEFINE n == Len(t)
           u == SubSeq(s, at + 1, at + n)
<1>0. n \in Nat
  OBVIOUS
<1>1. u \in Seq(Byte) /\ Len(u) = Len(t) /\ \A i \in 1..Len(t) : u[i] = s[at + i]
  <2> SUFFICES u \in Seq(Byte) /\ Len(u) = n /\ \A i \in 1..n : u[i] = s[at + i]
    OBVIOUS
  <2>1. at + n <= Len(s)
    OBVIOUS
  <2> HIDE DEF n
  <2>2. u \in Seq(Byte) /\ Len(u) = n
    <3>1. u \in Seq(Byte)
      BY ONLY <1>0, <2>1, s \in Seq(Byte), at \in Nat
    <3>2. Len(u) = (at + n) - (at + 1) + 1
      BY ONLY <1>0, <2>1, s \in Seq(Byte), at \in Nat
    <3> QED BY ONLY <1>0, <3>1, <3>2, at \in Nat
  <2>3. \A i \in 1..n : u[i] = s[at + i]
    BY ONLY <1>0, <2>1, s \in Seq(Byte), at \in Nat
  <2> QED BY <2>2, <2>3
<1> HIDE DEF u
<1>2. \A i \in 1..Len(t) : u[i] = t[i]
  BY <1>1
<1>3. u = t
  BY ONLY <1>1, <1>2
<1> QED BY <1>3 DEF u

\* A reply whose retcode is none is not handled.
LEMMA FailedFirst == \A a, b, d, e : ~Failed(<<a, b, d, e>>) => a.exc = "none"
<1> SUFFICES ASSUME NEW a, NEW b, NEW d, NEW e, a.exc # "none"
             PROVE  Failed(<<a, b, d, e>>)
  OBVIOUS
<1>1. 1 \in DOMAIN <<a, b, d, e>> /\ <<a, b, d, e>>[1] = a
  OBVIOUS
<1> QED BY <1>1 DEF Failed

\* The bytes that remote_io_read takes from its buffer are those the client put.
LEMMA ReplyTakes ==
    ASSUME MemInv, NEW c \in Conns, call[c].op = "read", NEW size \in Nat,
           size = Len(seen[c]) \/ size = SizeMax - 1,
           read_data(call[c].buf.address, size).exc = "none"
    PROVE  read_data(call[c].buf.address, size).val = seen[c]
<1> DEFINE k == call[c]
           addr == k.buf.address
           put == seen[c]
           data == read_data(addr, size)
<1>1. /\ k \in CallType /\ put \in Seq(Byte) /\ IsLive(k) /\ k.buf.len > 0
      /\ Within(k, storage) /\ Holds(k, put, storage)
      /\ storage \in Seq(Byte) /\ end < SizeMax
  BY StorageFacts DEF MemInv, CallInv, IsLive, Content
<1>2. addr \in Nat /\ k.buf.len \in Nat /\ Address \in Nat /\ Len(put) \in Nat
  BY <1>1, InternalMemAssumption DEF CallType
<1>3. Address < addr /\ addr + k.buf.len <= end /\ Len(put) <= k.buf.len
  BY <1>1 DEF Within, Holds, end
<1>4. end \in Nat
  BY <1>1, <1>2 DEF end
<1>5. has_addr(addr)
  BY ONLY <1>1, <1>2, <1>3, <1>4 DEF has_addr
<1> HIDE DEF addr, put, data
<1>6. CASE size = Len(put)
  <2>1. addr + size <= end
    BY <1>1, <1>2, <1>3, <1>4, <1>6
  <2>2. data = Decoded(SubSeq(storage, get_idx(addr) + 1, get_idx(addr) + size), <<>>)
    BY <1>1, <1>2, <1>5, <2>1, ReadDataFacts DEF data
  <2>3. data.val = SubSeq(storage, get_idx(addr) + 1, get_idx(addr) + size)
    BY <2>2, DecodedFields
  <2> DEFINE at == get_idx(addr)
  <2>4. at \in Nat /\ at + size <= Len(storage)
    BY <1>1, <1>2, <1>3, <2>1 DEF get_idx, end
  <2>5. \A i \in 1..size : storage[at + i] = put[i]
    BY <1>1, <1>6 DEF Holds, get_idx, addr
  <2>6. put \in Seq(Byte) /\ storage \in Seq(Byte)
    BY <1>1 DEF put
  <2> HIDE DEF at
  <2>7. SubSeq(storage, at + 1, at + size) = put
    BY <1>6, <2>4, <2>5, <2>6, SliceIs
  <2> QED BY <2>3, <2>7 DEF at, data, addr, put
<1>7. CASE size = SizeMax - 1
  <2>1. addr # Address
    BY <1>2, <1>3
  <2>2. EndIdx(addr, size) < get_idx(addr)
    <3>1. size \in Nat
      OBVIOUS
    <3> QED BY <1>1, <1>2, <1>5, <1>7, <2>1, <3>1, EndIdxFacts
  <2>3. data = Throws("length_error")
    BY <2>2 DEF read_data, data
  <2>4. data.exc # "none"
    BY <2>3, ThrowsFields
  <2> QED BY <2>4 DEF data, addr
<1> QED BY <1>6, <1>7 DEF put

\* The reply ends the call; its buffer stays in the storage.
LEMMA ReplyMem ==
    ASSUME MemInv, NEW c \in Conns, Reply(c)
    PROVE  MemInv'
<1>1. PICK text \in {HexText(Len(seen[c])), <<minus, 49>>, <<minus, 49, comma, 53>>} :
          handle_file_reply(c, <<file_io>> \o text)
  BY DEF Reply
<1>2. UNCHANGED <<storage, capacity, did_init, loop>>
  BY DEF Reply, memVars
<1> DEFINE retcode == SignedHex(text, comma)
           size == retcode.val % SizeMax
           data == read_data(call[c].buf.address, size)
<1>3. storage \in Seq(Byte) /\ seen \in [Conns -> Seq(Byte)] /\ call \in [Conns -> CallType]
      /\ DOMAIN result = Conns
  BY StorageFacts DEF MemInv, CallInv
<1>4. text \in Seq(Byte) /\ Tail(<<file_io>> \o text) = text
  <2>1. Len(seen[c]) \in Nat
    BY <1>3
  <2>2. HexText(Len(seen[c])) \in Seq(Byte)
    BY <2>1, HexTextRoundTrip DEF HexTextOf
  <2>3. <<minus, 49>> \in Seq(Byte) /\ <<minus, 49, comma, 53>> \in Seq(Byte)
    BY DEF minus, comma, Byte
  <2>4. text \in Seq(Byte)
    BY <2>2, <2>3
  <2> QED BY <2>4
<1>5. /\ retcode.exc = "none"
      /\ result'[c] # nullopt => /\ call[c].op = "read" /\ data.exc = "none"
                                 /\ result'[c] = <<[content |-> data.val, put |-> seen[c]]>>
      /\ \A d \in Conns \ {c} : result'[d] = result[d]
      /\ DOMAIN result' = Conns
      /\ call' = [call EXCEPT ![c] = NoCall] /\ seen' = [seen EXCEPT ![c] = <<>>]
  <2> DEFINE pkt == <<file_io>> \o text
  <2>1. handle_file_reply(c, pkt) /\ Tail(pkt) = text
    BY <1>1, <1>4
  <2> HIDE DEF pkt
  <2>2. retcode.exc = "none"
    BY <2>1, FailedFirst DEF handle_file_reply
  <2>3. /\ call' = [call EXCEPT ![c] = NoCall] /\ seen' = [seen EXCEPT ![c] = <<>>]
        /\ \E v : /\ result' = [result EXCEPT ![c] = v]
                  /\ v # nullopt => /\ call[c].op = "read" /\ data.exc = "none"
                                    /\ v = <<[content |-> data.val, put |-> seen[c]]>>
    BY <2>1 DEF handle_file_reply
  <2> QED BY <1>3, <2>2, <2>3
<1>6. result'[c] # nullopt => result'[c][1].content = result'[c][1].put
  <2> SUFFICES ASSUME result'[c] # nullopt
               PROVE  data.val = seen[c]
    BY <1>5
  <2>1. call[c].op = "read" /\ data.exc = "none"
    BY <1>5
  <2>2. SizeMax \in Nat \ {0} /\ Len(seen[c]) \in Nat
    BY <1>3, CodingAssumption
  <2>3. size \in Nat /\ (size = Len(seen[c]) \/ size = SizeMax - 1)
    <3>1. CASE text = HexText(Len(seen[c]))
      <4>1. retcode.val = Len(seen[c]) /\ Len(seen[c]) < SizeMax
        BY <1>5, <2>2, <3>1, CountReply
      <4> HIDE DEF retcode
      <4> QED BY <2>2, <4>1, ModFacts
    <3>2. CASE text \in {<<minus, 49>>, <<minus, 49, comma, 53>>}
      <4>1. retcode.val = -1
        BY <1>5, <3>2, FailureReply
      <4> HIDE DEF retcode
      <4>2. size = SizeMax - 1
        BY <2>2, <4>1, MinusOne
      <4> QED BY <2>2, <4>2
    <3> QED BY <1>1, <3>1, <3>2
  <2> HIDE DEF size
  <2> QED BY <2>1, <2>3, ReplyTakes
<1> HIDE DEF retcode, size, data
<1>7. FilesArrive'
  BY <1>5, <1>6 DEF MemInv, FilesArrive
<1>8. /\ NoCall \in CallType /\ ~IsLive(NoCall) /\ NoCall.op = "none"
      /\ NoCall.buf.len = 0 /\ NoCall.dangling = FALSE
  BY DEF NoCall, CallType, IsLive, internal_buf
<1>9. /\ call'[c] = NoCall /\ seen'[c] = <<>>
      /\ \A d \in Conns \ {c} : call'[d] = call[d] /\ seen'[d] = seen[d]
  BY <1>3, <1>5
<1>10. StorageInv'
  BY <1>2 DEF MemInv, StorageInv, MemTypeOK
<1>11. CallInv'
  <2>1. call' \in [Conns -> CallType] /\ seen' \in [Conns -> Seq(Byte)]
    BY <1>3, <1>5, <1>8
  <2>2. \A d \in Conns : /\ loop[d] # "none" => did_init
                         /\ call'[d].op # "none" => loop[d] # "none"
                         /\ call'[d].dangling => call'[d].op = "string"
                         /\ call'[d].op = "read" => call'[d].buf.len > 0
                         /\ Len(seen'[d]) <= call'[d].buf.len
    BY <1>8, <1>9, SMTT(20) DEF MemInv, CallInv
  <2> QED BY <1>2, <1>5, <2>1, <2>2 DEF MemInv, CallInv
<1>12. BlockInv' /\ ContentInv'
  <2>1. \A d \in Conns : Within(call'[d], storage) /\ Content(call'[d], seen'[d], storage)
    BY <1>8, <1>9, StorageFacts DEF Within, Content
  <2>2. \A d, e \in Conns : d # e => Apart(call'[d], call'[e])
    BY <1>8, <1>9, StorageFacts DEF Apart
  <2> QED BY <1>2, <2>1, <2>2 DEF BlockInv, ContentInv
<1> QED BY <1>7, <1>10, <1>11, <1>12 DEF MemInv

\* ArrayEncode appends text after text, for any number of them.
LEMMA ArrayEncodeComputes ==
    ASSUME NEW n \in Nat, NEW texts \in [1..n -> Seq(Byte)], NEW sep \in Byte
    PROVE  \E joined \in [0..n -> Seq(Byte)] :
              /\ ArrayEncode(texts, sep) = joined[n]
              /\ joined[0] = <<>>
              /\ \A i \in 1..n :
                    joined[i] = IF joined[i - 1] = <<>> THEN texts[i]
                                ELSE joined[i - 1] \o <<sep>> \o texts[i]
<1> DEFINE D == 0..n
           S == Seq(Byte)
           step(i, s) == IF i = 0 THEN <<>>
                         ELSE IF s = <<>> THEN texts[i] ELSE s \o <<sep>> \o texts[i]
           Solves(f) == f = [i \in D |-> step(i, f[i - 1])]
           stop == {0}
           base == [i \in D |-> <<>>]
           h == [i \in D |-> IF i = 0 THEN 0 ELSE i - 1]
           g == [p \in D \X S |-> step(p[1], p[2])]
           Right(f) == \A i \in D : f[i] = step(i, f[i - 1])
<1>0. \A i \in D, s \in S : step(i, s) \in S
  <2>1. \A i \in 1..n : texts[i] \in S
    OBVIOUS
  <2>2. \A i \in 1..n, s \in S : s \o <<sep>> \o texts[i] \in S
    BY <2>1
  <2>3. <<>> \in S
    OBVIOUS
  <2> QED BY <2>1, <2>2, <2>3
<1>00. \A s : step(0, s) = <<>>
  OBVIOUS
<1> HIDE DEF step
<1>1. \E f \in [D -> S] : Right(f)
  <2>1. base \in [D -> S] /\ h \in [D -> D] /\ \A i \in D \ stop : h[i] < i
    OBVIOUS
  <2>2. g \in [D \X S -> S]
    BY <1>0
  <2>3. D \subseteq Nat
    OBVIOUS
  <2> HIDE DEF stop, base, h, g, D
  <2>4. PICK f \in [D -> S] : Computes(f, D, stop, base, h, g)
    <3>1. RecursionOver(D, S, stop, base, h, g)
      BY <2>1, <2>2, <2>3 DEF RecursionOver
    <3> QED BY <3>1, Recursion
  <2>5. ASSUME NEW i \in D
        PROVE  f[i] = step(i, f[i - 1])
    <3>1. CASE i = 0
      <4>1. i \in stop
        BY <3>1 DEF stop
      <4>2. f[i] = base[i]
        BY <2>4, <4>1 DEF Computes
      <4> QED BY <1>00, <3>1, <4>2 DEF base
    <3>2. CASE i # 0
      <4>1. i \notin stop
        BY <3>2 DEF stop
      <4>2. f[i] = g[<<i, f[h[i]]>>]
        BY <2>4, <4>1 DEF Computes
      <4>3. h[i] = i - 1 /\ i - 1 \in D
        BY <3>2 DEF h, D
      <4>4. f[i - 1] \in S
        BY <4>3
      <4>5. g[<<i, f[i - 1]>>] = step(i, f[i - 1])
        BY <4>4 DEF g
      <4> QED BY <4>2, <4>3, <4>5
    <3> QED BY <3>1, <3>2
  <2> QED BY <2>5
<1>2. \E f : Solves(f)
  <2>1. PICK f \in [D -> S] : Right(f)
    BY <1>1
  <2>2. \A i \in D : f[i] = step(i, f[i - 1])
    BY <2>1
  <2> QED BY <2>2
<1> DEFINE t == CHOOSE f : Solves(f)
<1>3. Solves(t)
  BY <1>2
<1>4. Len(texts) = n /\ ArrayEncode(texts, sep) = t[n]
  <2>1. Len(texts) = n
    OBVIOUS
  <2> DEFINE m == Len(texts)
             u == CHOOSE f : f = [i \in 0..m |-> step(i, f[i - 1])]
  <2>2. ArrayEncode(texts, sep) = u[m]
    BY DEF ArrayEncode, step
  <2> HIDE DEF m
  <2>3. m = n
    BY <2>1 DEF m
  <2> QED BY <2>1, <2>2, <2>3
<1> HIDE DEF t
<1>5. \A i \in D : t[i] = step(i, t[i - 1])
  BY <1>3
<1>6. D \subseteq {i \in D : t[i] \in S}
  <2> DEFINE P == {i \in D : t[i] \in S}
  <2>1. ASSUME NEW i \in D, \A j \in D : j < i => j \in P PROVE i \in P
    <3>1. CASE i = 0
      <4>1. t[i] = <<>>
        BY <1>5, <1>00, <3>1
      <4>2. <<>> \in S
        OBVIOUS
      <4> QED BY <4>1, <4>2
    <3>2. CASE i # 0
      <4>1. i - 1 \in D /\ i - 1 < i
        BY <3>2
      <4>2. t[i - 1] \in S
        BY <2>1, <4>1
      <4> QED BY <1>0, <1>5, <4>2
    <3> QED BY <3>1, <3>2
  <2>2. D \subseteq Nat
    OBVIOUS
  <2> HIDE DEF P, D
  <2>3. D \subseteq P
    BY <2>1, <2>2, StrongInduct
  <2> QED BY <2>3 DEF P
<1>7. t \in [D -> S]
  BY <1>3, <1>6
<1>8. t[0] = <<>>
  BY <1>5, <1>00
<1>9. \A i \in 1..n : t[i] = IF t[i - 1] = <<>> THEN texts[i]
                            ELSE t[i - 1] \o <<sep>> \o texts[i]
  <2>1. \A s : \A i \in 1..n : i # 0 => step(i, s) = IF s = <<>> THEN texts[i]
                                               ELSE s \o <<sep>> \o texts[i]
    BY DEF step
  <2>2. \A i \in 1..n : i \in D /\ i # 0
    OBVIOUS
  <2> QED BY <1>5, <2>1, <2>2
<1> QED BY <1>4, <1>7, <1>8, <1>9

\* The announcement of any features is a text, whatever their number.
LEMMA ArrayEncodeType ==
    ASSUME NEW n \in Nat, NEW texts \in [1..n -> Seq(Byte)], NEW sep \in Byte
    PROVE  ArrayEncode(texts, sep) \in Seq(Byte)
<1>1. PICK joined \in [0..n -> Seq(Byte)] : ArrayEncode(texts, sep) = joined[n]
  BY ArrayEncodeComputes
<1> QED BY <1>1


\* The features a client may announce.
FeatureType == [name : Seq(Byte), value : Seq(Seq(Byte)), supported : BOOLEAN]

\* FeatureCoder writes bytes, with a value or without.
LEMMA FeatureTextType ==
    ASSUME NEW f \in FeatureType
    PROVE  FeatureText(f) \in Seq(Byte)
<1>1. f.name \in Seq(Byte) /\ f.value \in Seq(Seq(Byte))
  BY DEF FeatureType
<1>2. <<equals>> \in Seq(Byte) /\ <<plus>> \in Seq(Byte) /\ <<minus>> \in Seq(Byte)
  BY DEF equals, plus, minus, Byte
<1> DEFINE value == f.value
<1>3. f.value # nullopt => f.value[1] \in Seq(Byte)
  <2>1. value \in Seq(Seq(Byte))
    BY <1>1
  <2> HIDE DEF value
  <2>2. value # <<>> => 1 \in 1..Len(value)
    BY <2>1
  <2>3. value # <<>> => value[1] \in Seq(Byte)
    BY <2>1, <2>2
  <2> QED BY <2>3 DEF value, nullopt
<1> DEFINE tail == IF f.value # nullopt THEN <<equals>> \o f.value[1]
                   ELSE IF f.supported THEN <<plus>> ELSE <<minus>>
<1>4. tail \in Seq(Byte)
  <2>1. f.value # nullopt => <<equals>> \o f.value[1] \in Seq(Byte)
    <3> DEFINE v == f.value[1]
               e == <<equals>>
    <3>1. f.value # nullopt => v \in Seq(Byte)
      BY <1>3
    <3>2. e \in Seq(Byte)
      BY <1>2
    <3> HIDE DEF v, e
    <3> QED BY <3>1, <3>2, ConcatType DEF v, e
  <2> QED BY <1>2, <2>1
<1>5. FeatureText(f) = f.name \o tail
  BY DEF FeatureText
<1> HIDE DEF tail
<1> QED BY <1>1, <1>4, <1>5, ConcatType

\* A client's qSupported packet is a query.
LEMMA AnnounceHead ==
    ASSUME NEW features \in Seq(FeatureType)
    PROVE  Head(<<get>> \o Supported \o <<colon>> \o EncodeFeatures(features)) = get
<1> DEFINE n == Len(features)
           texts == [i \in DOMAIN features |-> FeatureText(features[i])]
<1>1. n \in Nat /\ DOMAIN features = 1..n
  OBVIOUS
<1>2. \A i \in 1..n : features[i] \in FeatureType
  OBVIOUS
<1>3. texts \in [1..n -> Seq(Byte)]
  BY <1>1, <1>2, FeatureTextType
<1>4. semicolon \in Byte
  BY DEF semicolon, Byte
<1>5. EncodeFeatures(features) = ArrayEncode(texts, semicolon)
  BY DEF EncodeFeatures
<1> HIDE DEF n, texts
<1>6. EncodeFeatures(features) \in Seq(Byte)
  BY <1>1, <1>3, <1>4, <1>5, ArrayEncodeType
<1>7. Supported \in Seq(Byte) /\ get \in Byte /\ colon \in Byte
  BY DEF Supported, get, colon, Byte
<1> QED BY <1>6, <1>7, PacketParts

\* What clients send beside requests of the protocol writes nothing: a packet
\* that is an M packet after all may write over the buffer of any call.
ClientsRefused == \A pkt \in Malformed : Refused(pkt)

\* Every step of a client keeps the invariant, if those of its packets that
\* are no requests of the protocol are refused.
LEMMA ClientMem ==
    ASSUME ClientsRefused, MemInv, NEW c \in Conns, Client(c)
    PROVE  MemInv'
<1>1. ASSUME NEW n \in 1..2, Fetch(c, n) PROVE MemInv'
  BY <1>1, FetchMem
<1>2. ASSUME NEW n \in 1..2, NEW bytes \in [1..n -> FileBytes], Fill(c, bytes)
      PROVE  MemInv'
  <2>1. FileBytes \subseteq Byte
    BY RemoteMemoryAssumption
  <2>2. bytes \in Seq(Byte) /\ bytes # <<>>
    <3>1. bytes \in [1..n -> Byte] /\ n \in Nat
      BY <2>1
    <3>2. bytes \in Seq(Byte) /\ Len(bytes) = n
      BY <3>1
    <3> QED BY <3>2
  <2> QED BY <1>2, <2>2, FillMem
<1>3. ASSUME NEW features \in FeatureLists, Announce(c, features) PROVE MemInv'
  <2> DEFINE pkt == <<get>> \o Supported \o <<colon>> \o EncodeFeatures(features)
  <2>1. features \in Seq(FeatureType)
    BY RemoteMemoryAssumption DEF FeatureType
  <2>2. Head(pkt) = get
    BY <2>1, AnnounceHead
  <2>3. Ask(c, pkt)
    BY <1>3 DEF Announce
  <2> HIDE DEF pkt
  <2>4. process_pkt(c, pkt).storage = storage
    BY <2>2, OthersKeep DEF get, write_mem
  <2> QED BY <2>3, <2>4, AskMem
<1>4. ASSUME NEW pkt \in Malformed, Ask(c, pkt) PROVE MemInv'
  <2>1. process_pkt(c, pkt).storage = storage
    BY RefusedKeeps DEF ClientsRefused
  <2> QED BY <1>4, <2>1, AskMem
<1>5. ASSUME NEW r \in UserReads, Ask(c, ReadPacket(r.addr, r.len)) PROVE MemInv'
  <2>1. r.addr \in Nat /\ r.len \in Nat
    BY RemoteMemoryAssumption
  <2>2. process_pkt(c, ReadPacket(r.addr, r.len)).storage = storage
    BY <2>1, ReadKeeps
  <2> QED BY <1>5, <2>2, AskMem
<1> QED BY <1>1, <1>2, <1>3, <1>4, <1>5, ReplyMem DEF Client

\* The invariant is inductive.
LEMMA StepMem ==
    ASSUME ClientsRefused, MemInv, [Next]_vars
    PROVE  MemInv'
<1>1. ASSUME NEW c \in Conns, Server(c) PROVE MemInv'
  BY <1>1, CallsMem
<1>2. ASSUME NEW c \in Conns, Client(c) PROVE MemInv'
  BY <1>2, ClientMem
<1>3. CASE UNCHANGED vars
  <2>1. UNCHANGED <<memVars, connVars>> /\ loop' = loop
    BY <1>3 DEF vars
  <2>2. /\ loop' \in [Conns -> {"none", "running", "ended"}]
        /\ \A c \in Conns : loop'[c] # "none" => did_init
    BY <2>1 DEF MemInv, CallInv
  <2> QED BY <2>1, <2>2, LoopsOnly
<1> QED BY <1>1, <1>2, <1>3 DEF Next

\* Every reachable state has it.
LEMMA MemInvariant ==
    ASSUME ClientsRefused
    PROVE  Spec => []MemInv
<1>1. Init => MemInv
  BY InitMem
<1>2. MemInv /\ [Next]_vars => MemInv'
  BY StepMem
<1> QED BY <1>1, <1>2, PTL DEF Spec

\* internal_mem never holds more than its vector has room for, and the buffer of
\* every remote call lies in it, for any clients whose packets are requests, or
\* are refused, and any arguments that memory has room for.
THEOREM RemoteMemoryTypeCorrect ==
    ASSUME ClientsRefused
    PROVE  Spec => []TypeOK
<1>1. MemInv => TypeOK
  BY MemInvImplies
<1> QED BY <1>1, MemInvariant, PTL

\* What a client reads in m packets at the address that remote_io_open, _system
\* or _write gave it is the argument of that call, in pieces of one or two bytes,
\* whatever the other connections allocate and their clients write meanwhile.
THEOREM ArgumentsAlwaysArrive ==
    ASSUME ClientsRefused
    PROVE  Spec => []ArgumentsArrive
<1>1. MemInv => ArgumentsArrive
  BY MemInvImplies
<1> QED BY <1>1, MemInvariant, PTL

\* What remote_io_read returns is what its client put into the buffer with M
\* packets, for any files, sizes and interleaving with the other connections.
THEOREM FilesAlwaysArrive ==
    ASSUME ClientsRefused
    PROVE  Spec => []FilesArrive
<1>1. MemInv => FilesArrive
  BY MemInvImplies
<1> QED BY <1>1, MemInvariant, PTL

-----------------------------------------------------------------------------
(* The features: a list of texts, put together and taken apart again.       *)

\* The texts so far between separators, and the one being read.
PartsType == [fields : Seq(Seq(Byte)), text : Seq(Byte)]

\* The texts without separators.
Plain(sep) == Seq(Byte \ {sep})

LEMMA PartsAre ==
    ASSUME NEW F \in Seq(Seq(Byte)), NEW t \in Seq(Byte)
    PROVE  /\ Parts(F, t) \in PartsType
           /\ Parts(F, t).fields = F /\ Parts(F, t).text = t
BY DEF Parts, PartsType

\* Reading a byte goes on with the text, and a separator ends it.
LEMMA SplitFolds ==
    ASSUME NEW sep \in Byte, NEW start \in PartsType
    PROVE  FoldsTo(PartsType, Byte, SplitStep(sep), start)
<1> DEFINE after(p, c) == IF c = sep THEN Parts(Append(p.fields, p.text), <<>>)
                          ELSE Parts(p.fields, Append(p.text, c))
<1>1. ASSUME NEW p \in PartsType, NEW c \in Byte PROVE after(p, c) \in PartsType
  <2>1. p.fields \in Seq(Seq(Byte)) /\ p.text \in Seq(Byte)
    BY DEF PartsType
  <2>2. /\ Append(p.fields, p.text) \in Seq(Seq(Byte))
        /\ Append(p.text, c) \in Seq(Byte) /\ <<>> \in Seq(Byte)
    <3> DEFINE S == Seq(Byte)
    <3>1. p.text \in S /\ p.fields \in Seq(S)
      BY <2>1
    <3> HIDE DEF S
    <3>2. Append(p.fields, p.text) \in Seq(S)
      BY <3>1
    <3> QED BY <2>1, <3>2 DEF S
  <2> QED BY <2>1, <2>2, PartsAre
<1>2. SplitStep(sep) = [p \in PartsType \X Byte |-> after(p[1], p[2])]
  BY DEF SplitStep, PartsType
<1> HIDE DEF after
<1>3. SplitStep(sep) \in [PartsType \X Byte -> PartsType]
  BY <1>1, <1>2
<1> QED BY <1>3 DEF FoldsTo

LEMMA SplitFacts ==
    ASSUME NEW sep \in Byte, NEW start \in PartsType, NEW s \in Seq(Byte)
    PROVE  /\ Fold(SplitStep(sep), start, s) \in PartsType
           /\ Fold(SplitStep(sep), start, <<>>) = start
           /\ \A c \in Byte : 
                 Fold(SplitStep(sep), start, Append(s, c))
                    = LET p == Fold(SplitStep(sep), start, s)
                      IN  IF c = sep THEN Parts(Append(p.fields, p.text), <<>>)
                          ELSE Parts(p.fields, Append(p.text, c))
<1> DEFINE step == SplitStep(sep)
<1>1. FoldsTo(PartsType, Byte, step, start)
  BY SplitFolds
<1>2. /\ Fold(step, start, s) \in PartsType
      /\ Fold(step, start, <<>>) = start
      /\ \A c \in Byte : Fold(step, start, Append(s, c))
                             = step[<<Fold(step, start, s), c>>]
  <2> HIDE DEF step
  <2> QED BY ONLY <1>1, s \in Seq(Byte), FoldFacts
<1>3. ASSUME NEW p \in PartsType, NEW c \in Byte
      PROVE  step[<<p, c>>] = IF c = sep THEN Parts(Append(p.fields, p.text), <<>>)
                              ELSE Parts(p.fields, Append(p.text, c))
  BY DEF SplitStep, PartsType
<1> QED BY <1>2, <1>3

\* A text without separators is read to its end.
LEMMA SplitReads ==
    ASSUME NEW sep \in Byte, NEW F \in Seq(Seq(Byte)),
           NEW s \in Plain(sep)
    PROVE  Fold(SplitStep(sep), Parts(F, <<>>), s) = Parts(F, s)
<1> DEFINE T == Byte \ {sep}
           start == Parts(F, <<>>)
           split(u) == Fold(SplitStep(sep), start, u)
           P == {u \in Seq(T) : split(u) = Parts(F, u)}
<1>1. start \in PartsType
  <2>1. <<>> \in Seq(Byte)
    OBVIOUS
  <2> QED BY <2>1, PartsAre
<1>2. \A u \in Seq(T) : u \in Seq(Byte)
  OBVIOUS
<1> HIDE DEF start
<1>3. <<>> \in P
  <2>1. <<>> \in Seq(T) /\ <<>> \in Seq(Byte)
    OBVIOUS
  <2>2. split(<<>>) = start
    BY <1>1, <2>1, SplitFacts
  <2> QED BY <2>1, <2>2 DEF start
<1>4. ASSUME NEW u \in Seq(T), NEW c \in T, u \in P PROVE Append(u, c) \in P
  <2>1. u \in Seq(Byte) /\ c \in Byte /\ c # sep /\ Append(u, c) \in Seq(T)
    BY <1>2
  <2>2. split(u) = Parts(F, u)
    BY <1>4
  <2>3. Parts(F, u).fields = F /\ Parts(F, u).text = u
    BY <2>1, PartsAre
  <2>4. split(Append(u, c)) = LET p == split(u)
                      IN  IF c = sep THEN Parts(Append(p.fields, p.text), <<>>)
                          ELSE Parts(p.fields, Append(p.text, c))
    BY <1>1, <2>1, SplitFacts
  <2>5. split(Append(u, c)) = Parts(F, Append(u, c))
    BY <2>1, <2>2, <2>3, <2>4
  <2> QED BY <2>1, <2>5
<1> HIDE DEF P
<1>5. Seq(T) \subseteq P
  BY <1>3, <1>4, TextInduct
<1> QED BY <1>5 DEF P, start, Plain

\* A separator ends a text.
LEMMA SplitEnds ==
    ASSUME NEW sep \in Byte, NEW s \in Seq(Byte), NEW start \in PartsType,
           NEW F \in Seq(Seq(Byte)), NEW u \in Seq(Byte), NEW t \in Plain(sep),
           Fold(SplitStep(sep), start, s) = Parts(F, u)
    PROVE  Fold(SplitStep(sep), start, s \o <<sep>> \o t) = Parts(Append(F, u), t)
<1> DEFINE step == SplitStep(sep)
           ended == Append(s, sep)
           G == Append(F, u)
           mid == Parts(G, <<>>)
<1>1. Parts(F, u).fields = F /\ Parts(F, u).text = u
  BY PartsAre
<1>2. Fold(step, start, ended) = mid
  <2>1. Fold(step, start, Append(s, sep))
            = LET p == Fold(step, start, s)
              IN  IF sep = sep THEN Parts(Append(p.fields, p.text), <<>>)
                  ELSE Parts(p.fields, Append(p.text, sep))
    BY SplitFacts
  <2> QED BY <1>1, <2>1
<1>3. ended \in Seq(Byte) /\ t \in Seq(Byte) /\ s \o <<sep>> \o t = ended \o t
  <2>1. s \o <<sep>> = ended
    OBVIOUS
  <2>2. ended \in Seq(Byte) /\ t \in Seq(Byte)
    BY DEF Plain
  <2> HIDE DEF ended
  <2> QED BY <2>1, <2>2
<1>4. FoldsTo(PartsType, Byte, step, start)
  BY SplitFolds
<1>5. Fold(step, start, ended \o t) = Fold(step, Fold(step, start, ended), t)
  <2> HIDE DEF step, ended
  <2> QED BY ONLY <1>3, <1>4, FoldConcat
<1>6. G \in Seq(Seq(Byte))
  <2> DEFINE S == Seq(Byte)
  <2>1. F \in Seq(S) /\ u \in S
    OBVIOUS
  <2> HIDE DEF S
  <2>2. Append(F, u) \in Seq(S)
    BY <2>1
  <2> QED BY <2>2 DEF S
<1>7. Fold(step, mid, t) = Parts(G, t)
  <2> HIDE DEF G
  <2> QED BY <1>6, SplitReads
<1> QED BY <1>2, <1>3, <1>5, <1>7

\* Fields takes apart what ArrayEncode has put together, for any number of
\* texts that are not empty and have no separators.
LEMMA JoinSplit ==
    ASSUME NEW n \in Nat, NEW sep \in Byte,
           NEW texts \in [1..n -> Plain(sep) \ {<<>>}]
    PROVE  Fields(ArrayEncode(texts, sep), sep) = texts
<1> DEFINE D == 1..n
           start == Parts(<<>>, <<>>)
           split(s) == Fold(SplitStep(sep), start, s)
           front(i) == [j \in 1..(i - 1) |-> texts[j]]
<1>1. \A i \in D : texts[i] \in Plain(sep) /\ texts[i] # <<>>
  OBVIOUS
<1>2. \A s \in Plain(sep) : s \in Seq(Byte)
  BY DEF Plain
<1>3. texts \in [1..n -> Seq(Byte)]
  BY <1>1, <1>2
<1>4. PICK t \in [0..n -> Seq(Byte)] :
         /\ ArrayEncode(texts, sep) = t[n]
         /\ t[0] = <<>>
         /\ \A i \in 1..n : t[i] = IF t[i - 1] = <<>> THEN texts[i]
                                   ELSE t[i - 1] \o <<sep>> \o texts[i]
  BY <1>3, ArrayEncodeComputes
<1>5. start \in PartsType /\ <<>> \in Seq(Byte) /\ <<>> \in Seq(Seq(Byte))
  <2>1. <<>> \in Seq(Byte) /\ <<>> \in Seq(Seq(Byte))
    OBVIOUS
  <2> QED BY <2>1, PartsAre
<1>6. ASSUME NEW i \in D
      PROVE  front(i) \in Seq(Seq(Byte)) /\ Len(front(i)) = i - 1
  <2> DEFINE S == Seq(Byte)
  <2>1. \A j \in 1..(i - 1) : texts[j] \in S
    BY <1>3
  <2>2. i - 1 \in Nat
    OBVIOUS
  <2> HIDE DEF S
  <2>3. front(i) \in Seq(S) /\ Len(front(i)) = i - 1
    BY <2>1, <2>2
  <2> QED BY <2>3 DEF S
<1>7. ASSUME NEW i \in D, i + 1 \in D
      PROVE  Append(front(i), texts[i]) = front(i + 1)
  <2> DEFINE S == Seq(Byte)
             F == front(i)
             G == front(i + 1)
  <2>1. /\ F \in Seq(S) /\ Len(F) = i - 1 /\ G \in Seq(S) /\ Len(G) = i
        /\ texts[i] \in S
    BY <1>3, <1>6
  <2>2. \A j \in 1..(i - 1) : F[j] = texts[j]
    OBVIOUS
  <2>3. \A j \in 1..i : G[j] = texts[j]
    OBVIOUS
  <2> HIDE DEF S, F, G
  <2>4. Append(F, texts[i]) \in Seq(S) /\ Len(Append(F, texts[i])) = i
    BY <2>1
  <2>5. \A j \in 1..i : Append(F, texts[i])[j] = G[j]
    BY <2>1, <2>2, <2>3
  <2>6. Append(F, texts[i]) = G
    BY <2>1, <2>4, <2>5
  <2> QED BY <2>6 DEF F, G
<1>8. ASSUME NEW s \in Seq(Byte), NEW F \in Seq(Seq(Byte)), NEW u \in Seq(Byte),
              NEW v \in Plain(sep), split(s) = Parts(F, u)
       PROVE  split(s \o <<sep>> \o v) = Parts(Append(F, u), v)
  BY <1>5, <1>8, SplitEnds
<1> DEFINE Q == {i \in D : t[i] # <<>> /\ split(t[i]) = Parts(front(i), texts[i])}
<1>9. ASSUME NEW i \in D, \A j \in D : j < i => j \in Q
      PROVE  i \in Q
  <2>1. CASE i = 1
    <3>1. t[1] = texts[1]
      BY <1>4, <2>1
    <3>2. split(texts[1]) = Parts(<<>>, texts[1])
      BY <1>1, <1>5, <2>1, SplitReads
    <3>3. front(1) = <<>>
      OBVIOUS
    <3> HIDE DEF front, split
    <3> QED BY <1>1, <2>1, <3>1, <3>2, <3>3
  <2>2. CASE i # 1
    <3> DEFINE k == i - 1
    <3>1. k \in D /\ k < i /\ k + 1 = i /\ k \in 0..n
      BY <2>2
    <3>2. k \in Q
      BY <1>9, <3>1
    <3>3. t[i] = t[k] \o <<sep>> \o texts[i] /\ t[k] \in Seq(Byte)
      BY <1>4, <3>1, <3>2
    <3>4. /\ front(k) \in Seq(Seq(Byte)) /\ texts[k] \in Seq(Byte)
          /\ texts[i] \in Plain(sep)
      BY <1>1, <1>3, <1>6, <3>1
    <3>5. split(t[i]) = Parts(Append(front(k), texts[k]), texts[i])
      <4> DEFINE s == t[k]
                 F == front(k)
                 u == texts[k]
                 v == texts[i]
      <4>1. /\ s \in Seq(Byte) /\ F \in Seq(Seq(Byte)) /\ u \in Seq(Byte)
            /\ v \in Plain(sep)
            /\ Fold(SplitStep(sep), start, s) = Parts(F, u)
        BY <3>2, <3>3, <3>4
      <4>2. t[i] = s \o <<sep>> \o v
        BY <3>3
      <4> HIDE DEF s, F, u, v, start
      <4>3. Fold(SplitStep(sep), start, s \o <<sep>> \o v) = Parts(Append(F, u), v)
        BY <1>8, <4>1
      <4> QED BY <4>2, <4>3 DEF F, u, v
    <3>6. Append(front(k), texts[k]) = front(i)
      <4> HIDE DEF k, front
      <4> QED BY <1>7, <3>1
    <3>7. t[i] # <<>>
      <4> DEFINE s == t[k]
                 u == texts[i]
      <4>1. s \in Seq(Byte) /\ u \in Seq(Byte) /\ t[i] = s \o <<sep>> \o u
        BY <1>3, <3>3
      <4> HIDE DEF s, u, k
      <4>2. Len(s \o <<sep>> \o u) > 0
        BY <4>1
      <4> QED BY <4>1, <4>2
    <3> HIDE DEF front, split, k
    <3> QED BY <3>5, <3>6, <3>7
  <2> QED BY <2>1, <2>2
<1>10. D \subseteq Q
  <2>1. D \subseteq Nat
    OBVIOUS
  <2> HIDE DEF Q, D
  <2> QED BY <1>9, <2>1, StrongInduct
<1>11. CASE n = 0
  <2>1. split(t[n]) = start
    BY <1>4, <1>5, <1>11, SplitFacts
  <2>2. start.text = <<>> /\ start.fields = <<>>
    BY <1>5, PartsAre
  <2>3. texts = <<>>
    BY <1>11
  <2> QED BY <1>4, <2>1, <2>2, <2>3 DEF Fields
<1>12. CASE n # 0
  <2>1. n \in D
    BY <1>12
  <2>2. split(t[n]) = Parts(front(n), texts[n])
    BY <1>10, <2>1
  <2>3. /\ Parts(front(n), texts[n]).fields = front(n)
        /\ Parts(front(n), texts[n]).text = texts[n] /\ texts[n] # <<>>
    <3>1. front(n) \in Seq(Seq(Byte)) /\ texts[n] \in Seq(Byte)
      BY <1>3, <1>6, <2>1
    <3> HIDE DEF front
    <3> QED BY <1>1, <2>1, <3>1, PartsAre
  <2>4. Fields(t[n], sep) = Append(front(n), texts[n])
    <3> HIDE DEF front
    <3> QED BY <2>2, <2>3 DEF Fields
  <2>5. Append(front(n), texts[n]) = texts
    <3> DEFINE S == Seq(Byte)
               F == front(n)
    <3>1. F \in Seq(S) /\ Len(F) = n - 1 /\ texts \in Seq(S) /\ Len(texts) = n
      BY <1>3, <1>6, <2>1
    <3>2. \A j \in 1..(n - 1) : F[j] = texts[j]
      OBVIOUS
    <3> HIDE DEF S, F
    <3>3. Append(F, texts[n]) = texts
      BY <1>12, <3>1, <3>2
    <3> QED BY <3>3 DEF F
  <2> QED BY <1>4, <2>4, <2>5
<1> QED BY <1>11, <1>12

\* A feature that its text tells apart from any other: neither name nor value
\* has a separator, a name with a value no equals sign, and a value does not end
\* like a flag.
Readable(f) ==
    /\ f \in FeatureType
    /\ f.name \in Plain(semicolon) /\ Len(f.value) <= 1
    /\ f.value # nullopt =>
          /\ f.supported /\ f.name \in Plain(equals)
          /\ f.value[1] \in Plain(semicolon)
          /\ f.value[1] # <<>> => Last(f.value[1]) \notin {plus, minus}

LEMMA SignsAreBytes ==
    /\ plus \in Byte /\ minus \in Byte /\ equals \in Byte /\ semicolon \in Byte
    /\ plus # minus /\ plus # semicolon /\ minus # semicolon
    /\ equals \notin {plus, minus, semicolon}
BY DEF plus, minus, equals, semicolon, Byte

\* A std::optional that is not empty has one value.
LEMMA OneItem ==
    ASSUME NEW S, NEW s \in Seq(S), s # <<>>, Len(s) <= 1
    PROVE  s = <<s[1]>>
<1>1. Len(s) \in Nat /\ (Len(s) = 0 => s = <<>>)
  OBVIOUS
<1>2. Len(s) = 1
  BY <1>1
<1> QED BY <1>2

\* name+ and name- are read as they were written ...
LEMMA FlagRoundTrip ==
    ASSUME NEW f, Readable(f), f.value = nullopt
    PROVE  /\ FeatureText(f) \in Plain(semicolon) \ {<<>>}
           /\ FeatureDecode(FeatureText(f)) = Decoded(f, <<>>)
<1> DEFINE sign == IF f.supported THEN plus ELSE minus
           name == f.name
           text == name \o <<sign>>
<1>1. sign \in Byte \ {semicolon} /\ sign \in {plus, minus}
  BY SignsAreBytes
<1>2. name \in Plain(semicolon)
  BY DEF Readable
<1>3. FeatureText(f) = text
  BY DEF FeatureText
<1>4. f = Feature(name, nullopt, sign = plus)
  <2>1. f \in FeatureType /\ f.supported \in BOOLEAN
    BY DEF Readable, FeatureType
  <2>2. f.supported = (sign = plus)
    BY <2>1, SignsAreBytes
  <2>3. f = [name |-> f.name, value |-> f.value, supported |-> f.supported]
    BY <2>1 DEF FeatureType
  <2> HIDE DEF sign
  <2> QED BY <2>2, <2>3 DEF Feature
<1> HIDE DEF sign, name
<1>5. text \in Plain(semicolon) /\ text # <<>>
  BY <1>1, <1>2 DEF Plain
<1>6. Last(text) = sign
  BY <1>1, <1>2 DEF Plain, Last
<1>7. Front(text) = name
  BY <1>1, <1>2 DEF Plain, Front
<1>8. FeatureDecode(text)
         = Decoded(Feature(Front(text), nullopt, Last(text) = plus), <<>>)
  <2> HIDE DEF text
  <2> QED BY <1>1, <1>5, <1>6 DEF FeatureDecode
<1>9. FeatureDecode(text) = Decoded(f, <<>>)
  BY <1>4, <1>6, <1>7, <1>8
<1> QED BY <1>3, <1>5, <1>9

\* ... and so is name=value.
LEMMA ValueRoundTrip ==
    ASSUME NEW f, Readable(f), f.value # nullopt
    PROVE  /\ FeatureText(f) \in Plain(semicolon) \ {<<>>}
           /\ FeatureDecode(FeatureText(f)) = Decoded(f, <<>>)
<1> DEFINE name == f.name
           value == f.value[1]
           text == name \o (<<equals>> \o value)
           n == Len(name)
<1>1. /\ name \in Plain(semicolon) /\ name \in Plain(equals)
      /\ value \in Plain(semicolon)
      /\ value # <<>> => Last(value) \notin {plus, minus}
  BY DEF Readable
<1>2. FeatureText(f) = text
  BY DEF FeatureText
<1>3. f = Feature(name, <<value>>, TRUE)
  <2>1. f \in FeatureType /\ f.supported = TRUE /\ Len(f.value) <= 1
    BY DEF Readable, FeatureType
  <2>2. f = [name |-> f.name, value |-> f.value, supported |-> f.supported]
    BY <2>1 DEF FeatureType
  <2>3. f.value = <<f.value[1]>>
    <3> DEFINE S == Seq(Byte)
               vals == f.value
    <3>1. vals \in Seq(S) /\ vals # <<>> /\ Len(vals) <= 1
      BY <2>1 DEF FeatureType, nullopt
    <3> HIDE DEF S, vals
    <3>2. vals = <<vals[1]>>
      BY <3>1, OneItem
    <3> QED BY <3>2 DEF vals
  <2>4. f = Feature(f.name, f.value, f.supported)
    BY <2>2 DEF Feature
  <2> DEFINE w == <<f.value[1]>>
  <2>5. f.value = w
    BY <2>3
  <2> HIDE DEF w
  <2>6. f = Feature(f.name, w, TRUE)
    BY <2>1, <2>4, <2>5
  <2> QED BY <2>6 DEF w
<1> HIDE DEF name, value
<1>4. /\ name \in Seq(Byte) /\ value \in Seq(Byte) /\ n \in Nat
      /\ \A i \in 1..n : name[i] # equals
  BY <1>1 DEF Plain
<1>5. /\ text \in Seq(Byte) /\ Len(text) = n + 1 + Len(value)
      /\ \A i \in 1..n : text[i] = name[i]
      /\ text[n + 1] = equals
      /\ \A i \in 1..Len(value) : text[n + 1 + i] = value[i]
  BY <1>4, SignsAreBytes
<1>6. text \in Plain(semicolon) /\ text # <<>>
  <2>1. <<equals>> \in Plain(semicolon)
    BY SignsAreBytes DEF Plain
  <2>2. text \in Plain(semicolon)
    BY <1>1, <2>1 DEF Plain
  <2> QED BY <1>5, <2>2
<1>7. Last(text) \notin {plus, minus}
  <2>1. CASE value = <<>>
    <3>1. Len(text) = n + 1
      BY <1>4, <1>5, <2>1
    <3> QED BY <1>5, <3>1, SignsAreBytes DEF Last
  <2>2. CASE value # <<>>
    <3>1. Len(value) \in 1..Len(value)
      BY <1>4, <2>2
    <3>2. text[n + 1 + Len(value)] = value[Len(value)]
      BY <1>5, <3>1
    <3> QED BY <1>1, <1>5, <2>2, <3>2 DEF Last
  <2> QED BY <2>1, <2>2
<1>8. SelectInSeq(text, LAMBDA c : c = equals) = n + 1
  <2> DEFINE I == {i \in 1..Len(text) : text[i] = equals}
  <2>1. n + 1 \in I
    BY <1>4, <1>5
  <2>2. \A i \in I : i >= n + 1
    <3> SUFFICES ASSUME NEW i \in I, i <= n PROVE FALSE
      BY <1>4
    <3>1. i \in 1..n
      BY <1>4
    <3> QED BY <1>4, <1>5, <3>1
  <2>3. I \subseteq Nat
    BY <1>4, <1>5
  <2> HIDE DEF I
  <2>4. Min(I) = n + 1
    <3>1. Min(I) \in I /\ Min(I) <= n + 1
      BY <2>1, <2>3, MinOf
    <3>2. n + 1 <= Min(I) /\ Min(I) \in Nat
      BY <2>2, <2>3, <3>1
    <3> QED BY <1>4, <3>1, <3>2
  <2>5. I # {}
    BY <2>1
  <2> QED BY <2>4, <2>5 DEF SelectInSeq, I
<1>9. /\ SubSeq(text, 1, (n + 1) - 1) = name
      /\ SubSeq(text, (n + 1) + 1, Len(text)) = value
  <2>1. (n + 1) - 1 = n /\ (n + 1) + 1 = n + 2
    BY <1>4
  <2>2. SubSeq(text, 1, n) = name
    BY <1>4, <1>5
  <2>3. SubSeq(text, n + 2, Len(text)) = value
    <3> DEFINE rest == SubSeq(text, n + 2, Len(text))
               m == Len(value)
    <3>1. rest \in Seq(Byte) /\ Len(rest) = m
      BY <1>4, <1>5
    <3>2. ASSUME NEW i \in 1..m PROVE rest[i] = value[i]
      <4>1. rest[i] = text[n + 2 + i - 1]
        BY <1>4, <1>5
      <4>2. n + 2 + i - 1 = n + 1 + i
        BY <1>4
      <4> QED BY <1>5, <4>1, <4>2
    <3> HIDE DEF rest
    <3>3. rest = value
      BY <1>4, <3>1, <3>2
    <3> QED BY <3>3 DEF rest
  <2> QED BY <2>1, <2>2, <2>3
<1>10. FeatureDecode(text) = Decoded(Feature(name, <<value>>, TRUE), <<>>)
  <2> HIDE DEF text
  <2>1. n + 1 # 0
    BY <1>4
  <2> QED BY <1>7, <1>8, <1>9, <2>1 DEF FeatureDecode, ValueText
<1> QED BY <1>2, <1>3, <1>6, <1>10

\* What a client announces is decoded as it was encoded, whatever the number of
\* features.
THEOREM FeaturesRoundTrip ==
    ASSUME NEW features \in Seq(FeatureType),
           \A i \in DOMAIN features : Readable(features[i])
    PROVE  DecodeFeatures(EncodeFeatures(features)) = Decoded(features, <<>>)
<1> DEFINE n == Len(features)
           texts == [i \in DOMAIN features |-> FeatureText(features[i])]
           elems == [i \in DOMAIN texts |-> FeatureDecode(texts[i])]
<1>1. n \in Nat /\ DOMAIN features = 1..n
  OBVIOUS
<1>2. \A i \in 1..n : /\ texts[i] \in Plain(semicolon) \ {<<>>}
                      /\ FeatureDecode(texts[i]) = Decoded(features[i], <<>>)
  BY <1>1, FlagRoundTrip, ValueRoundTrip
<1>3. texts \in [1..n -> Plain(semicolon) \ {<<>>}]
  BY <1>1, <1>2
<1>4. Fields(EncodeFeatures(features), semicolon) = texts
  <2>1. EncodeFeatures(features) = ArrayEncode(texts, semicolon)
    BY DEF EncodeFeatures
  <2> HIDE DEF texts, n
  <2> QED BY <1>1, <1>3, <2>1, SignsAreBytes, JoinSplit
<1>5. DecodeFeatures(EncodeFeatures(features)) = ArrayDecode(elems)
  <2> HIDE DEF texts
  <2> QED BY <1>4 DEF DecodeFeatures
<1>6. elems = [i \in 1..n |-> Decoded(features[i], <<>>)]
  BY <1>1, <1>2
<1>7. Len(elems) = n /\ \A i \in 1..n : elems[i].exc = "none"
  <2>1. Len(elems) = n
    BY <1>1, <1>6
  <2> HIDE DEF elems
  <2> QED BY <1>6, <2>1 DEF Decoded
<1>8. SelectInSeq(elems, LAMBDA e : e.exc # "none") = 0
  <2> HIDE DEF elems
  <2>1. {i \in 1..Len(elems) : elems[i].exc # "none"} = {}
    BY <1>7
  <2> QED BY <2>1 DEF SelectInSeq
<1>9. [i \in DOMAIN elems |-> elems[i].val] = features
  <2>1. DOMAIN elems = 1..n
    BY <1>6
  <2>2. \A i \in 1..n : elems[i].val = features[i]
    <3> HIDE DEF elems
    <3> QED BY <1>6 DEF Decoded
  <2> HIDE DEF elems
  <2> QED BY <1>1, <2>1, <2>2
<1> HIDE DEF elems
<1>10. ArrayDecode(elems) = Decoded([i \in DOMAIN elems |-> elems[i].val], <<>>)
  BY <1>8 DEF ArrayDecode
<1> QED BY <1>5, <1>9, <1>10

-----------------------------------------------------------------------------
(* The announcement of a client, and everything else it sends.               *)

\* The server has the features of an announcement it has answered.
LEMMA AnnounceAnswer ==
    ASSUME NEW c \in Conns, NEW features \in Seq(FeatureType),
           \A i \in DOMAIN features : Readable(features[i])
    PROVE  process_pkt(c, <<get>> \o Supported \o <<colon>>
                               \o EncodeFeatures(features)).features = features
<1> DEFINE text == EncodeFeatures(features)
           pkt == <<get>> \o Supported \o <<colon>> \o text
           prefix == Supported \o <<colon>>
           buf == prefix \o text
<1>1. text \in Seq(Byte)
  <2> DEFINE n == Len(features)
             texts == [i \in DOMAIN features |-> FeatureText(features[i])]
  <2>1. n \in Nat /\ DOMAIN features = 1..n
    OBVIOUS
  <2>2. \A i \in 1..n : features[i] \in FeatureType
    OBVIOUS
  <2>3. texts \in [1..n -> Seq(Byte)]
    BY <2>1, <2>2, FeatureTextType
  <2>4. text = ArrayEncode(texts, semicolon)
    BY DEF EncodeFeatures
  <2> HIDE DEF n, texts, text
  <2> QED BY <2>1, <2>3, <2>4, SignsAreBytes, ArrayEncodeType
<1>2. DecodeFeatures(text) = Decoded(features, <<>>)
  BY FeaturesRoundTrip
<1> HIDE DEF text
<1>3. Supported \in Seq(Byte) /\ Len(Supported) = 9 /\ get \in Byte /\ colon \in Byte
  BY DEF Supported, get, colon, Byte
<1>4. Head(pkt) = get /\ Tail(pkt) = buf
  BY <1>1, <1>3, PacketParts
<1>5. prefix \in Seq(Byte) /\ Len(prefix) = 10
  <2> DEFINE last == <<colon>>
  <2>1. last \in Seq(Byte) /\ Len(last) = 1
    BY <1>3
  <2> HIDE DEF last
  <2>2. Supported \o last \in Seq(Byte) /\ Len(Supported \o last) = 9 + 1
    BY <1>3, <2>1, ConcatType
  <2> QED BY <2>2 DEF last
<1> HIDE DEF pkt, prefix
<1>6. /\ buf \in Seq(Byte) /\ Len(buf) = 10 + Len(text)
      /\ \A i \in 1..10 : buf[i] = prefix[i]
      /\ \A i \in 1..Len(text) : buf[10 + i] = text[i]
  <2>1. /\ buf \in Seq(Byte) /\ Len(buf) = Len(prefix) + Len(text)
        /\ \A i \in 1..Len(prefix) : buf[i] = prefix[i]
        /\ \A i \in 1..Len(text) : buf[Len(prefix) + i] = text[i]
    BY <1>1, <1>5, TextConcat
  <2> HIDE DEF buf
  <2> QED BY <1>5, <2>1
<1> HIDE DEF buf
<1>7. IsPrefix(prefix, buf)
  <2>1. Len(prefix) <= Len(buf)
    BY <1>1, <1>5, <1>6
  <2>2. SubSeq(prefix, 1, 10) = SubSeq(buf, 1, 10)
    BY <1>1, <1>5, <1>6, SMTT(20)
  <2> QED BY <1>5, <2>1, <2>2 DEF IsPrefix
<1>8. SubSeq(buf, Len(Supported) + 2, Len(buf)) = text
  <2> DEFINE rest == SubSeq(buf, 11, Len(buf))
             m == Len(text)
  <2>1. rest \in Seq(Byte) /\ Len(rest) = m /\ m \in Nat
    BY <1>1, <1>6
  <2>2. ASSUME NEW i \in 1..m PROVE rest[i] = text[i]
    <3>1. rest[i] = buf[10 + i]
      BY <1>6, <2>1
    <3> QED BY <1>6, <3>1
  <2> HIDE DEF rest
  <2>3. rest = text
    BY <1>1, <2>1, <2>2
  <2>4. Len(Supported) + 2 = 11
    BY <1>3
  <2> QED BY <2>3, <2>4 DEF rest
<1>9. process_pkt(c, pkt) = handle_supported(c, text)
  <2>1. process_pkt(c, pkt) = handle_query(c, get, buf)
    <3>1. get \notin {read_mem, write_mem}
      BY DEF get, read_mem, write_mem
    <3>2. process_pkt(c, pkt) = handle_query(c, Head(pkt), Tail(pkt))
      BY <1>4, <3>1 DEF process_pkt
    <3> QED BY <1>4, <3>2
  <2>2. handle_query(c, get, buf)
            = handle_supported(c, SubSeq(buf, Len(Supported) + 2, Len(buf)))
    BY <1>7 DEF handle_query, get, set, prefix
  <2> QED BY <1>8, <2>1, <2>2
<1>10. handle_supported(c, text).features = features
  BY <1>2 DEF handle_supported, Decoded, Answer
<1> QED BY <1>9, <1>10 DEF pkt, text

\* A packet that is no announcement, or one that cannot be decoded.
Unannounced(pkt) ==
    \/ Head(pkt) # get
    \/ ~IsPrefix(Supported \o <<colon>>, Tail(pkt))
    \/ DecodeFeatures(SubSeq(Tail(pkt), Len(Supported) + 2, Len(Tail(pkt)))).exc
          # "none"

\* It leaves the features alone, whatever else it does.
LEMMA UnannouncedKeeps ==
    ASSUME NEW c \in Conns, NEW pkt, Unannounced(pkt)
    PROVE  process_pkt(c, pkt).features = remote_features[c]
<1>1. /\ \A text : Only(c, text).features = remote_features[c]
      /\ \A bytes : append_hex(c, bytes).features = remote_features[c]
      /\ \A text, store : 
            Answer(text, store, remote_features[c]).features = remote_features[c]
  BY DEF Only, Answer, append_hex
<1>2. ASSUME NEW buf PROVE handle_read_mem(c, buf).features = remote_features[c]
  BY <1>1 DEF handle_read_mem
<1>3. ASSUME NEW buf PROVE handle_write_mem(c, buf).features = remote_features[c]
  BY <1>1 DEF handle_write_mem
<1>4. handle_query(c, Head(pkt), Tail(pkt)).features = remote_features[c]
        \/ Head(pkt) \notin {get, set}
  <2> DEFINE buf == Tail(pkt)
             prefix == Supported \o <<colon>>
             rest == SubSeq(buf, Len(Supported) + 2, Len(buf))
  <2>1. CASE ~IsPrefix(prefix, buf)
    BY <1>1, <2>1 DEF handle_query
  <2>2. CASE Head(pkt) = set
    BY <1>1, <2>2 DEF handle_query
  <2>3. CASE DecodeFeatures(rest).exc # "none"
    <3>1. handle_supported(c, rest) = Only(c, ErrorText)
      BY <2>3 DEF handle_supported
    <3> HIDE DEF rest, prefix
    <3>2. \/ handle_query(c, Head(pkt), buf) = Only(c, <<>>)
          \/ handle_query(c, Head(pkt), buf) = Only(c, ErrorText)
          \/ handle_query(c, Head(pkt), buf) = handle_supported(c, rest)
      BY DEF handle_query, rest
    <3> QED BY <1>1, <3>1, <3>2
  <2> QED BY <2>1, <2>2, <2>3 DEF Unannounced
<1> QED BY <1>1, <1>2, <1>3, <1>4 DEF process_pkt

\* Both ends have the same features of every connection.
FeatureInv == /\ remote_features = [d \in Conns |-> announced[d]]
              /\ announced = [d \in Conns |-> announced[d]]

\* Only an announcement can change that.
LEMMA UnannouncedFeatures ==
    ASSUME FeatureInv, NEW c \in Conns, NEW pkt, Exchange(c, pkt),
           Unannounced(pkt), UNCHANGED announced
    PROVE  FeatureInv'
<1>1. process_pkt(c, pkt).features = remote_features[c]
  BY UnannouncedKeeps
<1>2. remote_features' = [remote_features EXCEPT ![c] = remote_features[c]]
  BY <1>1 DEF Exchange
<1>3. remote_features' = remote_features
  BY <1>2 DEF FeatureInv
<1> QED BY <1>3 DEF FeatureInv

\* What the clients of the theorem send: features that can be told apart, and
\* beside them nothing that announces any.
FeaturesAreReadable ==
    \A features \in FeatureLists : \A i \in DOMAIN features : Readable(features[i])

OneAnnouncement == \A pkt \in Malformed : Unannounced(pkt)

LEMMA AnnounceFeatures ==
    ASSUME FeaturesAreReadable, FeatureInv, NEW c \in Conns,
           NEW features \in FeatureLists, Announce(c, features)
    PROVE  FeatureInv'
<1> DEFINE pkt == <<get>> \o Supported \o <<colon>> \o EncodeFeatures(features)
<1>1. /\ features \in Seq(FeatureType)
      /\ \A i \in DOMAIN features : Readable(features[i])
  BY RemoteMemoryAssumption DEF FeaturesAreReadable, FeatureType
<1>2. process_pkt(c, pkt).features = features
  BY <1>1, AnnounceAnswer
<1>3. Exchange(c, pkt) /\ announced' = [announced EXCEPT ![c] = features]
  BY DEF Announce, Ask
<1> HIDE DEF pkt
<1>4. remote_features' = [remote_features EXCEPT ![c] = features]
  BY <1>2, <1>3 DEF Exchange
<1> QED BY <1>3, <1>4 DEF FeatureInv

\* A text goes on with what its first part begins with.
LEMMA HeadOfConcat ==
    ASSUME NEW s \in Seq(Byte), s # <<>>, NEW t \in Seq(Byte)
    PROVE  s \o t \in Seq(Byte) /\ s \o t # <<>> /\ Head(s \o t) = Head(s)
<1>1. Len(s) \in Nat /\ Len(s) # 0
  OBVIOUS
<1>2. s \o t \in Seq(Byte) /\ Len(s \o t) # 0
  BY <1>1, ConcatType
<1> QED BY <1>1, <1>2

LEMMA WriteHead ==
    ASSUME NEW addr \in Nat, NEW data \in Seq(Byte)
    PROVE  Head(WritePacket(addr, data)) = write_mem
<1> DEFINE P0 == <<write_mem>>
           P1 == P0 \o HexText(addr)
           P2 == P1 \o <<comma>>
           P3 == P2 \o HexText(Len(data))
           P4 == P3 \o <<colon>>
           P5 == P4 \o BytesEncode(data)
<1>1. /\ HexText(addr) \in Seq(Byte) /\ HexText(Len(data)) \in Seq(Byte)
      /\ BytesEncode(data) \in Seq(Byte)
  BY HexTextRoundTrip, BytesRoundTrip DEF HexTextOf
<1>2. /\ P0 \in Seq(Byte) /\ P0 # <<>> /\ Head(P0) = write_mem
      /\ <<comma>> \in Seq(Byte) /\ <<colon>> \in Seq(Byte)
  BY DEF write_mem, comma, colon, Byte
<1>3. WritePacket(addr, data) = P5
  BY DEF WritePacket
<1> HIDE DEF P5, P4, P3, P2, P1, P0
<1>4. P1 \in Seq(Byte) /\ P1 # <<>> /\ Head(P1) = write_mem
  BY <1>1, <1>2, HeadOfConcat DEF P1
<1>5. P2 \in Seq(Byte) /\ P2 # <<>> /\ Head(P2) = write_mem
  BY <1>2, <1>4, HeadOfConcat DEF P2
<1>6. P3 \in Seq(Byte) /\ P3 # <<>> /\ Head(P3) = write_mem
  BY <1>1, <1>5, HeadOfConcat DEF P3
<1>7. P4 \in Seq(Byte) /\ P4 # <<>> /\ Head(P4) = write_mem
  BY <1>2, <1>6, HeadOfConcat DEF P4
<1>8. Head(P5) = write_mem
  BY <1>1, <1>7, HeadOfConcat DEF P5
<1> QED BY <1>3, <1>8

\* Every step keeps the agreement. MemInv is here for the addresses of the calls:
\* an m or M packet is one only if its address is a number.
LEMMA StepFeatures ==
    ASSUME FeaturesAreReadable, OneAnnouncement, MemInv, FeatureInv, [Next]_vars
    PROVE  FeatureInv'
<1>1. ASSUME UNCHANGED <<announced, remote_features>> PROVE FeatureInv'
  BY <1>1 DEF FeatureInv
<1>2. ASSUME NEW c \in Conns, Server(c) PROVE FeatureInv'
  <2>1. UNCHANGED <<announced, remote_features>>
    BY <1>2 DEF Server, Construct, remote_io_encode_str, remote_io_write,
                remote_io_read, Calls
  <2> QED BY <1>1, <2>1
<1>3. ASSUME NEW pkt, Head(pkt) \in {read_mem, write_mem} PROVE Unannounced(pkt)
  BY <1>3 DEF Unannounced, read_mem, write_mem, get
<1>4. ASSUME NEW c \in Conns, NEW n \in 1..2, Fetch(c, n) PROVE FeatureInv'
  <2> DEFINE pkt == ReadPacket(NextAddr(c), n)
  <2>1. Exchange(c, pkt) /\ UNCHANGED announced /\ n <= Left(c)
    BY <1>4 DEF Fetch
  <2>2. n \in Nat /\ n \in Nat \ {0}
    OBVIOUS
  <2>3. NextAddr(c) \in Nat
    BY <2>1, <2>2, NextPlace
  <2>4. Head(pkt) = read_mem
    BY <2>2, <2>3, ReadHead
  <2> HIDE DEF pkt
  <2> QED BY <1>3, <2>1, <2>4, UnannouncedFeatures
<1>5. ASSUME NEW c \in Conns, NEW n \in 1..2, NEW bytes \in [1..n -> FileBytes],
             Fill(c, bytes)
      PROVE  FeatureInv'
  <2> DEFINE pkt == WritePacket(NextAddr(c), bytes)
  <2>1. bytes \in Seq(Byte) /\ Len(bytes) \in Nat \ {0}
    <3>1. FileBytes \subseteq Byte
      BY RemoteMemoryAssumption
    <3>2. bytes \in [1..n -> Byte] /\ n \in Nat
      BY <3>1
    <3> QED BY <3>2
  <2>2. Exchange(c, pkt) /\ UNCHANGED announced /\ Len(bytes) <= Left(c)
    BY <1>5 DEF Fill
  <2>3. NextAddr(c) \in Nat
    BY <2>1, <2>2, NextPlace
  <2>4. Head(pkt) = write_mem
    BY <2>1, <2>3, WriteHead
  <2> HIDE DEF pkt
  <2> QED BY <1>3, <2>2, <2>4, UnannouncedFeatures
<1>6. ASSUME NEW c \in Conns, Reply(c) PROVE FeatureInv'
  BY <1>1, <1>6 DEF Reply
<1>7. ASSUME NEW c \in Conns, NEW pkt \in Malformed, Ask(c, pkt),
             UNCHANGED announced
      PROVE  FeatureInv'
  BY <1>7, UnannouncedFeatures DEF OneAnnouncement, Ask
<1>8. ASSUME NEW c \in Conns, NEW r \in UserReads, Ask(c, ReadPacket(r.addr, r.len)),
             UNCHANGED announced
      PROVE  FeatureInv'
  <2>1. r.addr \in Nat /\ r.len \in Nat
    BY RemoteMemoryAssumption
  <2>2. Unannounced(ReadPacket(r.addr, r.len))
    BY <1>3, <2>1, ReadHead
  <2> QED BY <1>8, <2>2, UnannouncedFeatures DEF Ask
<1>9. ASSUME NEW c \in Conns, Client(c) PROVE FeatureInv'
  BY <1>4, <1>5, <1>6, <1>7, <1>8, <1>9, AnnounceFeatures DEF Client
<1>10. CASE UNCHANGED vars
  BY <1>1, <1>10 DEF vars
<1> QED BY <1>2, <1>9, <1>10 DEF Next

\* The server has the features of every client as that announced them, for any
\* lists of any number of features, whatever else the clients of all connections
\* ask for in between.
THEOREM FeaturesAlwaysAgree ==
    ASSUME ClientsRefused, FeaturesAreReadable, OneAnnouncement
    PROVE  Spec => []FeaturesAgree
<1>1. Init => FeatureInv
  BY DEF Init, FeatureInv
<1>2. MemInv /\ FeatureInv /\ [Next]_vars => FeatureInv'
  BY StepFeatures
<1>3. FeatureInv => FeaturesAgree
  BY DEF FeatureInv, FeaturesAgree
<1> QED BY <1>1, <1>2, <1>3, MemInvariant, PTL DEF Spec
=============================================================================
