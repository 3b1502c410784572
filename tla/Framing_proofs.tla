--------------------------- MODULE Framing_proofs ---------------------------
(* What the protocol's byte functions guarantee for every byte, and its      *)
(* packets for every payload; and first, what the proofs about every loop    *)
(* over a text rest on.                                                      *)
EXTENDS Framing, SequenceTheorems, WellFoundedInduction, TLAPS

-----------------------------------------------------------------------------
(* Numbers: induction and recursion without operator parameters.             *)

\* Every set of numbers that is not empty has a least one.
LEMMA LeastNumber ==
    ASSUME NEW T, T \subseteq Nat, T # {}
    PROVE  \E n \in T : \A m \in T : n <= m
<1> DEFINE R == OpToRel(<, Nat)
<1>1. IsWellFoundedOn(R, Nat)
  BY NatLessThanWellFounded
<1>2. \A x, y \in Nat : y < x => <<y, x>> \in R
  BY DEF OpToRel
<1> HIDE DEF R
<1>3. PICK x \in T : \A y \in T : ~(<<y, x>> \in R)
  BY <1>1, WFMin
<1>4. ASSUME NEW y \in T PROVE x <= y
  <2>1. x \in Nat /\ y \in Nat
    OBVIOUS
  <2>2. ~(y < x)
    BY <1>2, <1>3, <2>1
  <2> QED BY <2>1, <2>2
<1> QED BY <1>4

\* Induction over an initial segment or all of the numbers: what holds of a
\* number if it holds of all smaller ones.
LEMMA StrongInduct ==
    ASSUME NEW D, D \subseteq Nat, NEW P,
           \A n \in D : (\A m \in D : m < n => m \in P) => n \in P
    PROVE  D \subseteq P
<1> SUFFICES ASSUME D \ P # {} PROVE FALSE
  OBVIOUS
<1>1. PICK n \in D \ P : \A m \in D \ P : n <= m
  BY LeastNumber
<1> QED BY <1>1

\* The data of a recursion over D with values in S: base where it stops, and
\* elsewhere the step g of the value at the smaller number h[n].
RecursionOver(D, S, stop, base, h, g) ==
    /\ D \subseteq Nat
    /\ base \in [D -> S] /\ h \in [D -> D] /\ g \in [D \X S -> S]
    /\ \A n \in D \ stop : h[n] < n

Computes(f, D, stop, base, h, g) ==
    \A n \in D : /\ n \in stop => f[n] = base[n]
                 /\ n \notin stop => f[n] = g[<<n, f[h[n]]>>]

\* There is a function that a recursion on smaller numbers defines.
LEMMA Recursion ==
    ASSUME NEW D, NEW S, NEW stop, NEW base, NEW h, NEW g,
           RecursionOver(D, S, stop, base, h, g)
    PROVE  \E f \in [D -> S] : Computes(f, D, stop, base, h, g)
<1>0. /\ D \subseteq Nat
      /\ base \in [D -> S] /\ h \in [D -> D] /\ g \in [D \X S -> S]
      /\ \A n \in D \ stop : h[n] < n
  BY DEF RecursionOver
<1> USE <1>0
<1> DEFINE Solves(f, n) ==
               \A m \in D : m <= n => f[m] = IF m \in stop THEN base[m]
                                            ELSE g[<<m, f[h[m]]>>]
           P == {n \in D : \E f \in [D -> S] : Solves(f, n)}
           w == [n \in D |-> CHOOSE f \in [D -> S] : Solves(f, n)]
<1>1. ASSUME NEW n \in D, NEW f1 \in [D -> S], Solves(f1, n),
             NEW f2 \in [D -> S], Solves(f2, n)
      PROVE  f1[n] = f2[n]
  <2> DEFINE Q == {m \in D : m <= n => f1[m] = f2[m]}
  <2>1. ASSUME NEW m \in D, \A k \in D : k < m => k \in Q, m <= n
        PROVE  f1[m] = f2[m]
    <3>1. CASE m \in stop
      BY <1>1, <2>1, <3>1
    <3>2. CASE m \notin stop
      <4>1. /\ h[m] \in D /\ h[m] < m
            /\ m \in Nat /\ n \in Nat /\ h[m] \in Nat
        BY <3>2
      <4>2. h[m] <= n
        BY <4>1, <2>1
      <4>3. f1[h[m]] = f2[h[m]]
        BY <4>1, <4>2, <2>1
      <4> QED BY <1>1, <2>1, <3>2, <4>3, ZenonT(30)
    <3> QED BY <3>1, <3>2
  <2>2. \A m \in D : (\A k \in D : k < m => k \in Q) => m \in Q
    BY <2>1
  <2> HIDE DEF Q
  <2>3. D \subseteq Q
    BY <2>2, StrongInduct
  <2> QED BY <2>3 DEF Q
<1>2. ASSUME NEW n \in P PROVE w[n] \in [D -> S] /\ Solves(w[n], n)
  <2> HIDE DEF Solves
  <2>1. \E f \in [D -> S] : Solves(f, n)
    OBVIOUS
  <2>2. w[n] = CHOOSE f \in [D -> S] : Solves(f, n)
    OBVIOUS
  <2> QED BY <2>1, <2>2
<1>3. ASSUME NEW n \in P, NEW m \in D, m <= n
      PROVE  m \in P /\ w[n][m] = w[m][m]
  <2>1. \A k \in D : k <= m => k <= n
    <3> SUFFICES ASSUME NEW k \in D, k <= m PROVE k <= n
      OBVIOUS
    <3>1. k \in Nat /\ m \in Nat /\ n \in Nat
      OBVIOUS
    <3> QED BY <3>1, <1>3
  <2> HIDE DEF w
  <2>2. Solves(w[n], m)
    BY <1>2, <2>1
  <2>3. m \in P
    BY <2>2, <1>2
  <2> HIDE DEF Solves
  <2> QED BY <2>2, <2>3, <1>2, <1>1
<1>4. ASSUME NEW n \in P
      PROVE  w[n][n] = IF n \in stop THEN base[n] ELSE g[<<n, w[h[n]][h[n]]>>]
  <2>1. w[n][n] = IF n \in stop THEN base[n] ELSE g[<<n, w[n][h[n]]>>]
    <3>1. n \in D /\ n \in Nat /\ n <= n
      BY <1>4
    <3> HIDE DEF w, P
    <3> QED BY <1>2, <3>1
  <2>2. n \notin stop => w[n][h[n]] = w[h[n]][h[n]]
    <3> SUFFICES ASSUME n \notin stop PROVE w[n][h[n]] = w[h[n]][h[n]]
      OBVIOUS
    <3>1. h[n] \in D /\ h[n] < n /\ n \in Nat /\ h[n] \in Nat
      OBVIOUS
    <3>2. h[n] <= n
      BY <3>1
    <3> HIDE DEF w, P
    <3> QED BY <3>1, <3>2, <1>3
  <2> HIDE DEF w, P
  <2>3. CASE n \in stop
    BY <2>1, <2>3
  <2>4. CASE n \notin stop
    BY <2>1, <2>2, <2>4
  <2> QED BY <2>3, <2>4
<1> HIDE DEF P, w
<1>5. ASSUME NEW n \in D, \A m \in D : m < n => m \in P PROVE n \in P
  <2> DEFINE last == IF n \in stop THEN base[n] ELSE g[<<n, w[h[n]][h[n]]>>]
             f == [m \in D |-> IF m < n THEN w[m][m]
                               ELSE IF m = n THEN last ELSE base[m]]
  <2>1. \A m \in D : m < n => w[m][m] \in S
    BY <1>5, <1>2
  <2>2. last \in S
    BY <2>1
  <2> HIDE DEF last
  <2>3. f \in [D -> S]
    BY <2>1, <2>2
  <2>4. ASSUME NEW m \in D, m <= n
        PROVE f[m] = IF m \in stop THEN base[m] ELSE g[<<m, f[h[m]]>>]
    <3>1. m \in Nat /\ n \in Nat /\ (m < n \/ m = n)
      BY <2>4
    <3>2. m \notin stop => f[h[m]] = w[h[m]][h[m]]
      <4> SUFFICES ASSUME m \notin stop PROVE f[h[m]] = w[h[m]][h[m]]
        OBVIOUS
      <4>1. h[m] \in D /\ h[m] < m /\ h[m] \in Nat
        OBVIOUS
      <4>2. h[m] < n
        BY <3>1, <4>1
      <4> QED BY <4>1, <4>2
    <3>3. CASE m < n
      <4>1. m \in P /\ f[m] = w[m][m]
        BY <3>3, <1>5
      <4> QED BY <3>2, <4>1, <1>4
    <3>4. CASE m = n
      <4>1. f[m] = last
        BY <3>1, <3>4
      <4> QED BY <3>2, <3>4, <4>1 DEF last
    <3> QED BY <3>1, <3>3, <3>4
  <2> HIDE DEF f
  <2> QED BY <2>3, <2>4 DEF P
<1>6. D \subseteq P
  BY <1>5, StrongInduct
<1> DEFINE F == [n \in D |-> w[n][n]]
<1>7. F \in [D -> S]
  BY <1>6, <1>2
<1>8. \A n \in D : F[n] = IF n \in stop THEN base[n] ELSE g[<<n, F[h[n]]>>]
  BY <1>4, <1>6
<1> HIDE DEF F
<1> QED
  <2>1. Computes(F, D, stop, base, h, g)
    BY <1>8 DEF Computes
  <2> QED BY <1>7, <2>1

-----------------------------------------------------------------------------
(* Folds over texts.                                                         *)

\* v[i] is the value after the first i elements of the text.
Folding(v, S, step, start, text) ==
    /\ v \in [0..Len(text) -> S] /\ v[0] = start
    /\ \A i \in 1..Len(text) : v[i] = step[<<v[i - 1], text[i]>>]

\* A fold of texts over T with values in S.
FoldsTo(S, T, step, start) == start \in S /\ step \in [S \X T -> S]

LEMMA FoldIsFolding ==
    ASSUME NEW S, NEW T, NEW start, NEW step, FoldsTo(S, T, step, start),
           NEW text \in Seq(T)
    PROVE  \E v : /\ Folding(v, S, step, start, text)
                  /\ Fold(step, start, text) = v[Len(text)]
<1> DEFINE D == 0..Len(text)
           Solves(f) == f = [i \in D |-> IF i = 0 THEN start
                                         ELSE step[<<f[i - 1], text[i]>>]]
           stop == {0}
           base == [i \in D |-> start]
           h == [i \in D |-> IF i = 0 THEN 0 ELSE i - 1]
           g == [p \in D \X S |-> IF p[1] = 0 THEN start
                                  ELSE step[<<p[2], text[p[1]]>>]]
           Right(f) == /\ f[0] = start
                       /\ \A i \in 1..Len(text) :
                             f[i] = step[<<f[i - 1], text[i]>>]
<1>0. \A i \in 1..Len(text) : text[i] \in T
  OBVIOUS
<1> USE DEF FoldsTo
<1>1. \E f \in [D -> S] : Right(f)
  <2>1. base \in [D -> S] /\ h \in [D -> D] /\ \A i \in D \ stop : h[i] < i
    OBVIOUS
  <2> HIDE DEF stop, base, h, g
  <2>2. PICK f \in [D -> S] : Computes(f, D, stop, base, h, g)
    <3>1. g \in [D \X S -> S]
      BY <1>0 DEF g
    <3>2. RecursionOver(D, S, stop, base, h, g)
      BY <2>1, <3>1 DEF RecursionOver
    <3> QED BY <3>2, Recursion
  <2>3. f[0] = start
    <3>1. 0 \in D /\ 0 \in stop
      BY DEF stop
    <3> QED BY <2>2, <3>1 DEF base, Computes
  <2>4. ASSUME NEW i \in 1..Len(text)
        PROVE  f[i] = step[<<f[i - 1], text[i]>>]
    <3>0. i \in D /\ i \notin stop /\ i - 1 \in D
      BY DEF stop
    <3>1. i \in D /\ i \notin stop /\ i - 1 \in D /\ f[i - 1] \in S
      <4> HIDE DEF D
      <4> QED BY <3>0
    <3>2. f[i] = g[<<i, f[h[i]]>>]
      BY <2>2, <3>1 DEF Computes
    <3>3. h[i] = i - 1
      BY <3>1 DEF h, stop
    <3>4. g[<<i, f[i - 1]>>] = step[<<f[i - 1], text[i]>>]
      BY <3>1 DEF g
    <3> QED BY <3>2, <3>3, <3>4
  <2> QED BY <2>3, <2>4
<1>2. \E f : Solves(f)
  <2>1. PICK f \in [D -> S] : Right(f)
    BY <1>1
  <2>2. \A i \in D : f[i] = IF i = 0 THEN start
                            ELSE step[<<f[i - 1], text[i]>>]
    BY <2>1
  <2> QED BY <2>2
<1> DEFINE t == CHOOSE f : Solves(f)
<1>3. Solves(t)
  BY <1>2
<1>4. Fold(step, start, text) = t[Len(text)]
  BY DEF Fold
<1> HIDE DEF t
<1>5. Right(t)
  <2>1. \A i \in D : t[i] = IF i = 0 THEN start
                            ELSE step[<<t[i - 1], text[i]>>]
    BY <1>3
  <2>2. 0 \in D /\ \A i \in 1..Len(text) : i \in D /\ i # 0
    OBVIOUS
  <2> QED BY <2>1, <2>2
<1>6. \A i \in D : t[i] \in S
  <2> DEFINE P == {i \in D : t[i] \in S}
  <2>1. ASSUME NEW i \in D, \A j \in D : j < i => j \in P PROVE i \in P
    <3>1. CASE i = 0
      BY <3>1, <1>5
    <3>2. CASE i # 0
      <4>1. i \in 1..Len(text) /\ i - 1 \in D /\ i - 1 < i /\ text[i] \in T
        BY <1>0, <3>2
      <4>2. t[i - 1] \in S
        BY <4>1, <2>1
      <4> QED BY <4>1, <4>2, <1>5
    <3> QED BY <3>1, <3>2
  <2>2. D \subseteq Nat
    OBVIOUS
  <2> HIDE DEF P, D
  <2>3. D \subseteq P
    BY <2>1, <2>2, StrongInduct
  <2> QED BY <2>3 DEF P
<1>7. t \in [D -> S]
  BY <1>3, <1>6
<1> QED BY <1>4, <1>5, <1>7 DEF Folding

\* A fold over a longer text passes the values of the shorter one.
LEMMA FoldingsAgree ==
    ASSUME NEW S, NEW T, NEW step, NEW start, NEW s \in Seq(T), NEW t \in Seq(T),
           NEW v, NEW w,
           Folding(v, S, step, start, s), Folding(w, S, step, start, t),
           Len(s) <= Len(t), \A i \in 1..Len(s) : s[i] = t[i]
    PROVE  v[Len(s)] = w[Len(s)]
<1> DEFINE D == 0..Len(s)
           P == {i \in D : v[i] = w[i]}
<1>1. ASSUME NEW i \in D, \A j \in D : j < i => j \in P PROVE i \in P
  <2>1. CASE i = 0
    BY <2>1 DEF Folding
  <2>2. CASE i # 0
    <3>1. /\ i \in 1..Len(s) /\ i \in 1..Len(t)
          /\ i - 1 \in D /\ i - 1 < i /\ s[i] = t[i]
      BY <2>2
    <3>2. v[i - 1] = w[i - 1]
      BY <1>1, <3>1
    <3> QED BY <3>1, <3>2 DEF Folding
  <2> QED BY <2>1, <2>2
<1>2. D \subseteq Nat
  OBVIOUS
<1> HIDE DEF P, D
<1>3. D \subseteq P
  BY <1>1, <1>2, StrongInduct
<1>4. Len(s) \in D
  BY DEF D
<1> QED BY <1>3, <1>4 DEF P

\* What a fold makes of nothing, and of one more element.
LEMMA FoldFacts ==
    ASSUME NEW S, NEW T, NEW start, NEW step, FoldsTo(S, T, step, start),
           NEW text \in Seq(T)
    PROVE  /\ Fold(step, start, text) \in S
           /\ Fold(step, start, <<>>) = start
           /\ \A x \in T : Fold(step, start, Append(text, x))
                               = step[<<Fold(step, start, text), x>>]
<1>1. PICK v : /\ Folding(v, S, step, start, text)
               /\ Fold(step, start, text) = v[Len(text)]
  BY FoldIsFolding
<1>2. Fold(step, start, text) \in S
  BY <1>1 DEF Folding
<1>3. Fold(step, start, <<>>) = start
  <2> DEFINE none == <<>>
  <2>1. none \in Seq(T) /\ Len(none) = 0
    OBVIOUS
  <2> HIDE DEF none
  <2>2. PICK u : /\ Folding(u, S, step, start, none)
                 /\ Fold(step, start, none) = u[Len(none)]
    <3>1. none \in Seq(T)
      BY <2>1
    <3> QED BY ONLY FoldIsFolding, <3>1, FoldsTo(S, T, step, start)
  <2>3. Fold(step, start, none) = start
    BY <2>1, <2>2 DEF Folding
  <2> QED BY <2>3 DEF none
<1>4. ASSUME NEW x \in T
      PROVE  Fold(step, start, Append(text, x))
                 = step[<<Fold(step, start, text), x>>]
  <2> DEFINE t == Append(text, x)
  <2>1. /\ t \in Seq(T) /\ Len(t) = Len(text) + 1 /\ t[Len(t)] = x
        /\ \A i \in 1..Len(text) : text[i] = t[i]
    OBVIOUS
  <2> HIDE DEF t
  <2>2. PICK w : /\ Folding(w, S, step, start, t)
                 /\ Fold(step, start, t) = w[Len(t)]
    BY <2>1, FoldIsFolding
  <2>3. v[Len(text)] = w[Len(text)]
    BY <1>1, <2>1, <2>2, FoldingsAgree
  <2>4. w[Len(t)] = step[<<w[Len(text)], x>>]
    BY <2>1, <2>2 DEF Folding
  <2> QED BY <1>1, <2>2, <2>3, <2>4 DEF t
<1> QED BY <1>2, <1>3, <1>4

\* Induction over texts, from the front to the back.
LEMMA TextInduct ==
    ASSUME NEW T, NEW P, <<>> \in P,
           \A s \in Seq(T), x \in T : s \in P => Append(s, x) \in P
    PROVE  Seq(T) \subseteq P
<1> DEFINE Q == {n \in Nat : \A s \in Seq(T) : Len(s) = n => s \in P}
<1>1. ASSUME NEW n \in Nat, \A m \in Nat : m < n => m \in Q PROVE n \in Q
  <2> SUFFICES ASSUME NEW s \in Seq(T), Len(s) = n PROVE s \in P
    OBVIOUS
  <2>1. CASE n = 0
    <3>1. s = <<>>
      BY <2>1
    <3> QED BY <3>1
  <2>2. CASE n # 0
    <3> DEFINE front == SubSeq(s, 1, n - 1)
    <3>1. front \in Seq(T) /\ Len(front) = n - 1
      BY <2>2
    <3>2. s[n] \in T /\ s = Append(front, s[n])
      BY <2>2
    <3>3. n - 1 \in Nat /\ n - 1 < n
      BY <2>2
    <3>4. front \in P
      BY <1>1, <3>1, <3>3
    <3> QED BY <3>1, <3>2, <3>4
  <2> QED BY <2>1, <2>2
<1> HIDE DEF Q
<1>2. Nat \subseteq Q
  BY <1>1, StrongInduct
<1> QED BY <1>2 DEF Q

\* A fold over two texts in turn.
LEMMA FoldConcat ==
    ASSUME NEW S, NEW T, NEW start, NEW step, FoldsTo(S, T, step, start),
           NEW s \in Seq(T), NEW t \in Seq(T)
    PROVE  Fold(step, start, s \o t) = Fold(step, Fold(step, start, s), t)
<1> DEFINE mid == Fold(step, start, s)
           P == {u \in Seq(T) : Fold(step, start, s \o u) = Fold(step, mid, u)}
<1>1. mid \in S /\ FoldsTo(S, T, step, mid)
  <2>1. mid \in S
    BY FoldFacts
  <2> QED BY <2>1 DEF FoldsTo
<1> HIDE DEF mid
<1>2. <<>> \in P
  <2>1. s \o <<>> = s /\ <<>> \in Seq(T)
    OBVIOUS
  <2>2. Fold(step, mid, <<>>) = mid
    BY <1>1, <2>1, FoldFacts
  <2> QED BY <2>1, <2>2 DEF mid
<1>3. ASSUME NEW u \in Seq(T), NEW x \in T, u \in P PROVE Append(u, x) \in P
  <2> DEFINE both == s \o u
  <2>1. s \o Append(u, x) = Append(both, x) /\ both \in Seq(T)
        /\ Append(u, x) \in Seq(T)
    OBVIOUS
  <2> HIDE DEF both
  <2>2. Fold(step, start, Append(both, x))
            = step[<<Fold(step, start, both), x>>]
    BY <2>1, FoldFacts
  <2>3. Fold(step, mid, Append(u, x)) = step[<<Fold(step, mid, u), x>>]
    BY <1>1, FoldFacts
  <2> QED BY <1>3, <2>1, <2>2, <2>3 DEF both
<1> HIDE DEF P
<1>4. Seq(T) \subseteq P
  BY <1>2, <1>3, TextInduct
<1> QED BY <1>4 DEF P, mid

-----------------------------------------------------------------------------
(* Bytes.                                                                    *)

(* code_escape_char is its own inverse and stays within a byte: the escaped  *)
(* state of receive_packet undoes what an encoder did to any byte.           *)
THEOREM EscapeInvolution ==
    ASSUME NEW c \in Byte
    PROVE  /\ code_escape_char(c) \in Byte
           /\ code_escape_char(code_escape_char(c)) = c
<1>1. CASE (c \div 32) % 2 = 0
  <2>1. /\ c + 32 \in Byte
        /\ ((c + 32) \div 32) % 2 = 1
    BY <1>1 DEF Byte
  <2> QED BY <1>1, <2>1 DEF code_escape_char, Byte
<1>2. CASE (c \div 32) % 2 # 0
  <2>1. /\ c - 32 \in Byte
        /\ ((c - 32) \div 32) % 2 = 0
    BY <1>2 DEF Byte
  <2> QED BY <1>2, <2>1 DEF code_escape_char, Byte
<1> QED BY <1>1, <1>2

(* Whatever byte send_packet encodes, no byte it emits is '$', '#' or '*',   *)
(* and '}' only as the escape itself: the framing of a response cannot be    *)
(* broken by its payload.                                                    *)
THEOREM EncodedIsNoControl ==
    ASSUME NEW c \in Byte
    PROVE  /\ Len(EncodedByte(c)) \in 1..2
           /\ \A i \in 1..Len(EncodedByte(c)) :
                 /\ EncodedByte(c)[i] \in Byte
                 /\ EncodedByte(c)[i] \notin {packet_begin, packet_end, rle}
<1>1. CASE must_escape_response(c)
  <2>1. code_escape_char(c) \in {4, 3, 93, 10}
    BY <1>1 DEF must_escape_response, must_escape_request, code_escape_char,
                packet_begin, packet_end, escape, rle
  <2> QED BY <1>1, <2>1 DEF EncodedByte, Byte, packet_begin, packet_end,
                            escape, rle
<1>2. CASE ~must_escape_response(c)
  BY <1>2 DEF EncodedByte, must_escape_response, must_escape_request, Byte
<1> QED BY <1>1, <1>2

(* A nibble survives the trip through its hexadecimal digit.                 *)
LEMMA HexRoundTrip ==
    ASSUME NEW v \in 0..15
    PROVE  encode_hex(v) \in Byte /\ decode_hex(encode_hex(v)) = v
<1>1. CASE v < 10
  BY <1>1 DEF encode_hex, decode_hex, Byte
<1>2. CASE v >= 10
  BY <1>2 DEF encode_hex, decode_hex, Byte
<1> QED BY <1>1, <1>2

(* encode_hex only looks at the low nibble.                                  *)
LEMMA HexOfLowNibble ==
    ASSUME NEW v \in Nat
    PROVE  encode_hex(v) = encode_hex(v % 16)
BY DEF encode_hex

(* The two digits of send_packet's trailer decode to the checksum: the test  *)
(* receive_packet applies to csum_high and csum_low accepts them.            *)
THEOREM ChecksumRoundTrip ==
    ASSUME NEW s \in Byte
    PROVE  /\ decode_hex(Trailer(s)[2]) >= 0
           /\ decode_hex(Trailer(s)[3]) >= 0
           /\ 16 * decode_hex(Trailer(s)[2]) + decode_hex(Trailer(s)[3]) = s
<1>1. s \div 16 \in 0..15 /\ s % 16 \in 0..15 /\ s = (16 * (s \div 16)) + (s % 16)
  BY DEF Byte
<1>2. decode_hex(encode_hex(s \div 16)) = s \div 16
  BY <1>1, HexRoundTrip
<1>3. decode_hex(encode_hex(s)) = s % 16
  BY <1>1, HexRoundTrip, HexOfLowNibble DEF Byte
<1>4. Trailer(s)[2] = encode_hex(s \div 16) /\ Trailer(s)[3] = encode_hex(s)
  BY DEF Trailer
<1> QED BY <1>1, <1>2, <1>3, <1>4

-----------------------------------------------------------------------------
(* The types of the byte functions.                                          *)

LEMMA ControlsAreBytes ==
    /\ break_character \in Byte /\ packet_begin \in Byte
    /\ packet_end \in Byte /\ ack \in Byte /\ ack_err \in Byte
    /\ escape \in Byte
BY DEF Byte, break_character, packet_begin, packet_end, ack, ack_err, escape

LEMMA EncodedByteType ==
    ASSUME NEW c \in Byte
    PROVE  /\ EncodedByte(c) \in Seq(Byte) /\ Len(EncodedByte(c)) \in 1..2
           /\ ChecksumOf(c) \in Nat
<1>1. code_escape_char(c) \in Byte /\ escape \in Byte
  BY EscapeInvolution, ControlsAreBytes
<1>2. CASE must_escape_response(c)
  BY <1>1, <1>2 DEF EncodedByte, ChecksumOf, Byte
<1>3. CASE ~must_escape_response(c)
  BY <1>3 DEF EncodedByte, ChecksumOf, Byte
<1> QED BY <1>2, <1>3

LEMMA TextConcat ==
    ASSUME NEW s \in Seq(Byte), NEW t \in Seq(Byte)
    PROVE  /\ s \o t \in Seq(Byte) /\ Len(s \o t) = Len(s) + Len(t)
           /\ \A i \in 1..Len(s) : (s \o t)[i] = s[i]
           /\ \A i \in 1..Len(t) : (s \o t)[Len(s) + i] = t[i]
OBVIOUS

LEMMA HexIsByte == ASSUME NEW v \in Nat PROVE encode_hex(v) \in Byte
BY DEF encode_hex, Byte

LEMMA TrailerType ==
    ASSUME NEW s \in Byte
    PROVE  Trailer(s) \in Seq(Byte) /\ Len(Trailer(s)) = 3
<1>1. s \in Nat /\ s \div 16 \in Nat
  BY DEF Byte
<1> QED BY <1>1, HexIsByte, ControlsAreBytes DEF Trailer

LEMMA DecodeHexType == ASSUME NEW c \in Byte PROVE decode_hex(c) \in -1..15
BY DEF decode_hex, Byte

LEMMA ModIsByte == ASSUME NEW n \in Nat PROVE n % 256 \in Byte
BY DEF Byte

LEMMA SumIsByte == ASSUME NEW a \in Byte, NEW b \in Byte PROVE (a + b) % 256 \in Byte
BY DEF Byte

-----------------------------------------------------------------------------
(* The checksum and the meaning of a body, byte by byte.                     *)

LEMMA SumFolds == FoldsTo(Byte, Byte, SumStep, 0)
<1>1. SumStep \in [Byte \X Byte -> Byte]
  <2>1. \A p \in Byte \X Byte : (p[1] + p[2]) % 256 \in Byte
    BY SumIsByte
  <2> QED BY <2>1 DEF SumStep
<1>2. 0 \in Byte
  BY DEF Byte
<1> QED BY <1>1, <1>2 DEF FoldsTo

LEMMA SumFacts ==
    /\ Sum(<<>>) = 0
    /\ \A s \in Seq(Byte) :
          /\ Sum(s) \in Byte
          /\ \A c \in Byte : Sum(Append(s, c)) = (Sum(s) + c) % 256
<1>1. ASSUME NEW s \in Seq(Byte)
      PROVE  /\ Sum(s) \in Byte
             /\ Sum(<<>>) = 0
             /\ \A c \in Byte : Sum(Append(s, c)) = SumStep[<<Sum(s), c>>]
  BY ONLY <1>1, SumFolds, FoldFacts DEF Sum
<1>2. ASSUME NEW s \in Seq(Byte), NEW c \in Byte
      PROVE  Sum(Append(s, c)) = (Sum(s) + c) % 256
  <2>1. Sum(s) \in Byte /\ Sum(Append(s, c)) = SumStep[<<Sum(s), c>>]
    BY <1>1
  <2> QED BY <2>1 DEF SumStep
<1>3. Sum(<<>>) = 0
  <2>1. <<>> \in Seq(Byte)
    OBVIOUS
  <2> QED BY <2>1, <1>1
<1> QED BY <1>1, <1>2, <1>3

LEMMA DecodingFolds == FoldsTo(Texts, Byte, DecodeStep, Text(FALSE, <<>>))
<1>1. DecodeStep \in [Texts \X Byte -> Texts]
  <2> SUFFICES ASSUME NEW t \in Texts, NEW c \in Byte
               PROVE  (IF t.escaped
                       THEN Text(FALSE, Append(t.payload, code_escape_char(c)))
                       ELSE IF c = escape THEN Text(TRUE, t.payload)
                       ELSE Text(FALSE, Append(t.payload, c))) \in Texts
    BY DEF DecodeStep
  <2>1. t.payload \in Seq(Byte) /\ code_escape_char(c) \in Byte
    BY EscapeInvolution DEF Texts
  <2> QED BY <2>1 DEF Text, Texts
<1>2. Text(FALSE, <<>>) \in Texts
  BY DEF Text, Texts
<1> QED BY <1>1, <1>2 DEF FoldsTo

\* What one more byte does to what a body stands for.
LEMMA DecodingFacts ==
    ASSUME NEW s \in Seq(Byte)
    PROVE  /\ Decoding(s) \in Texts
           /\ Decoding(<<>>) = Text(FALSE, <<>>)
           /\ \A c \in Byte :
                 Decoding(Append(s, c)) = DecodeStep[<<Decoding(s), c>>]
<1> DEFINE start == Text(FALSE, <<>>)
<1>1. FoldsTo(Texts, Byte, DecodeStep, start)
  BY DecodingFolds
<1> HIDE DEF start
<1>2. /\ Fold(DecodeStep, start, s) \in Texts
      /\ Fold(DecodeStep, start, <<>>) = start
      /\ \A c \in Byte : Fold(DecodeStep, start, Append(s, c))
                             = DecodeStep[<<Fold(DecodeStep, start, s), c>>]
  BY ONLY <1>1, s \in Seq(Byte), FoldFacts
<1> QED BY <1>2 DEF Decoding, start

LEMMA DecodingGrows ==
    ASSUME NEW s \in Seq(Byte), NEW p \in Seq(Byte), NEW e \in BOOLEAN,
           Decoding(s) = Text(e, p), NEW c \in Byte
    PROVE  Decoding(Append(s, c))
               = IF e THEN Text(FALSE, Append(p, code_escape_char(c)))
                 ELSE IF c = escape THEN Text(TRUE, p)
                 ELSE Text(FALSE, Append(p, c))
<1>1. Text(e, p) \in Texts
  BY DEF Text, Texts
<1>2. Decoding(Append(s, c)) = DecodeStep[<<Text(e, p), c>>]
  BY DecodingFacts
<1>3. Text(e, p).escaped = e /\ Text(e, p).payload = p
  BY DEF Text
<1> QED BY <1>1, <1>2, <1>3 DEF DecodeStep

-----------------------------------------------------------------------------
(* Responses, as send_packet encodes them.                                   *)

\* body stands for the payload and has no byte that would break the frame.
IsBody(body, payload) ==
    /\ body \in Seq(Byte) /\ payload \in Seq(Byte)
    /\ \A i \in 1..Len(body) : body[i] \notin {packet_begin, packet_end, rle}
    /\ Decoding(body) = Text(FALSE, payload)

LEMMA NoBody == IsBody(<<>>, <<>>)
<1>1. <<>> \in Seq(Byte) /\ 1..Len(<<>>) = {}
  OBVIOUS
<1>2. Decoding(<<>>) = Text(FALSE, <<>>)
  BY <1>1, DecodingFacts
<1> QED BY <1>1, <1>2 DEF IsBody

(* Each byte that send_packet encodes extends the body by what stands for it *)
(* and the checksum by what it adds.                                         *)
LEMMA BodyGrows ==
    ASSUME NEW body, NEW payload, IsBody(body, payload), NEW c \in Byte
    PROVE  /\ IsBody(body \o EncodedByte(c), Append(payload, c))
           /\ Sum(body \o EncodedByte(c)) = (Sum(body) + ChecksumOf(c)) % 256
<1> DEFINE e == code_escape_char(c)
           code == EncodedByte(c)
<1>1. /\ e \in Byte /\ code_escape_char(e) = c /\ escape \in Byte
      /\ body \in Seq(Byte) /\ payload \in Seq(Byte)
      /\ Decoding(body) = Text(FALSE, payload) /\ Sum(body) \in Byte
  BY EscapeInvolution, ControlsAreBytes, SumFacts DEF IsBody
<1>2. /\ code \in Seq(Byte) /\ Len(code) \in 1..2
      /\ \A i \in 1..Len(code) : code[i] \notin {packet_begin, packet_end, rle}
  BY EncodedIsNoControl, EncodedByteType
<1>3. \A i \in 1..Len(body \o code) :
         (body \o code)[i] \notin {packet_begin, packet_end, rle}
  <2> HIDE DEF code
  <2>1. Len(body \o code) = Len(body) + Len(code)
    BY <1>1, <1>2
  <2>2. ASSUME NEW i \in 1..Len(body \o code)
        PROVE  (body \o code)[i] \notin {packet_begin, packet_end, rle}
    <3>1. CASE i <= Len(body)
      <4>1. i \in 1..Len(body) /\ (body \o code)[i] = body[i]
        BY <1>1, <1>2, <3>1
      <4> QED BY <4>1 DEF IsBody
    <3>2. CASE i > Len(body)
      <4>1. /\ i - Len(body) \in 1..Len(code)
            /\ (body \o code)[i] = code[i - Len(body)]
        BY <1>1, <1>2, <2>1, <3>2
      <4> QED BY <4>1, <1>2
    <3> QED BY <1>1, <3>1, <3>2
  <2> QED BY <2>2
<1>4. /\ Decoding(body \o code) = Text(FALSE, Append(payload, c))
      /\ Sum(body \o code) = (Sum(body) + ChecksumOf(c)) % 256
  <2>1. CASE must_escape_response(c)
    <3> DEFINE first == Append(body, escape)
    <3>1. code = <<escape, e>> /\ ChecksumOf(c) = escape + e
      BY <2>1 DEF EncodedByte, ChecksumOf
    <3>2. first \in Seq(Byte) /\ body \o <<escape, e>> = Append(first, e)
      BY <1>1
    <3> HIDE DEF first, e
    <3>3. Decoding(first) = Text(TRUE, payload)
      <4>1. FALSE \in BOOLEAN
        OBVIOUS
      <4> QED BY <1>1, <4>1, DecodingGrows DEF first
    <3>4. Decoding(Append(first, e)) = Text(FALSE, Append(payload, c))
      <4>1. TRUE \in BOOLEAN
        OBVIOUS
      <4> QED BY <1>1, <3>2, <3>3, <4>1, DecodingGrows, ZenonT(30)
    <3>5. Sum(first) = (Sum(body) + escape) % 256
      BY <1>1, SumFacts DEF first
    <3>6. Sum(Append(first, e)) = (Sum(first) + e) % 256
      BY <1>1, <3>2, SumFacts
    <3>7. (((Sum(body) + escape) % 256) + e) % 256
              = (Sum(body) + (escape + e)) % 256
      <4> HIDE DEF code
      <4>1. \A x, y, z \in Byte : (((x + y) % 256) + z) % 256
                                      = (x + (y + z)) % 256
        BY DEF Byte
      <4>2. Sum(body) \in Byte /\ escape \in Byte /\ e \in Byte
        BY <1>1
      <4> QED BY ONLY <4>1, <4>2
    <3>8. body \o code = Append(first, e)
      BY <3>1, <3>2
    <3>9. Sum(Append(first, e)) = (Sum(body) + ChecksumOf(c)) % 256
      <4> HIDE DEF code
      <4> QED BY <3>1, <3>5, <3>6, <3>7
    <3> HIDE DEF code
    <3> QED BY ONLY <3>4, <3>8, <3>9
  <2>2. CASE ~must_escape_response(c)
    <3>1. code = <<c>> /\ ChecksumOf(c) = c /\ c # escape
      BY <2>2 DEF EncodedByte, ChecksumOf, must_escape_response,
                  must_escape_request
    <3>2. body \o <<c>> = Append(body, c)
      BY <1>1
    <3>3. Decoding(Append(body, c)) = Text(FALSE, Append(payload, c))
      <4>1. FALSE \in BOOLEAN
        OBVIOUS
      <4> QED BY <1>1, <3>1, <4>1, DecodingGrows
    <3>4. Sum(Append(body, c)) = (Sum(body) + c) % 256
      BY <1>1, SumFacts
    <3> QED BY <3>1, <3>2, <3>3, <3>4
  <2> QED BY <2>1, <2>2
<1>5. body \o code \in Seq(Byte) /\ Append(payload, c) \in Seq(Byte)
  BY <1>1, <1>2
<1> QED BY <1>3, <1>4, <1>5 DEF IsBody

(* A body with its trailer is a frame that carries the payload.              *)
LEMMA FrameOfBody ==
    ASSUME NEW body, NEW payload, IsBody(body, payload)
    PROVE  /\ IsFrame(Framed(body, Sum(body)), payload)
           /\ Framed(body, Sum(body)) \in Seq(Byte)
           /\ Framed(body, Sum(body))
                  = (<<packet_begin>> \o body) \o Trailer(Sum(body))
<1> DEFINE tail == Trailer(Sum(body))
           bytes == Framed(body, Sum(body))
<1>1. body \in Seq(Byte) /\ Sum(body) \in Byte
  BY SumFacts DEF IsBody
<1>2. tail \in Seq(Byte) /\ Len(tail) = 3
  BY <1>1, TrailerType
<1>3. <<packet_begin>> \in Seq(Byte) /\ Len(<<packet_begin>>) = 1
  BY ControlsAreBytes
<1>4. bytes = (<<packet_begin>> \o body) \o tail
  BY DEF Framed
<1> HIDE DEF tail
<1>5. /\ bytes \in Seq(Byte) /\ Len(bytes) = 1 + Len(body) + 3
      /\ SubSeq(bytes, 2, Len(bytes) - 3) = body
  <2> DEFINE head == <<packet_begin>>
             front == head \o body
  <2>0. head \in Seq(Byte) /\ Len(head) = 1 /\ bytes = front \o tail
    BY <1>3, <1>4
  <2> HIDE DEF head, bytes
  <2>a. /\ front \in Seq(Byte) /\ Len(front) = 1 + Len(body)
        /\ \A i \in 1..Len(body) : front[1 + i] = body[i]
    <3>1. /\ front \in Seq(Byte) /\ Len(front) = Len(head) + Len(body)
          /\ \A i \in 1..Len(body) : front[Len(head) + i] = body[i]
      BY <1>1, <2>0, TextConcat
    <3> HIDE DEF front
    <3> QED BY <2>0, <3>1
  <2> HIDE DEF front
  <2>1. bytes \in Seq(Byte) /\ Len(bytes) = 1 + Len(body) + 3
    <3>1. bytes \in Seq(Byte) /\ Len(bytes) = Len(front) + Len(tail)
      BY <1>2, <2>0, <2>a, TextConcat
    <3> QED BY <1>1, <1>2, <2>a, <3>1
  <2>2. \A i \in 1..Len(body) : bytes[i + 1] = body[i]
    <3>1. \A i \in 1..Len(front) : bytes[i] = front[i]
      BY <1>2, <2>0, <2>a, TextConcat
    <3>2. \A i \in 1..Len(body) : 1 + i \in 1..Len(front) /\ 1 + i = i + 1
      BY <1>1, <2>a
    <3> QED BY <2>a, <3>1, <3>2
  <2>3. SubSeq(bytes, 2, Len(bytes) - 3) = body
    <3> HIDE DEF bytes
    <3> DEFINE sub == SubSeq(bytes, 2, Len(bytes) - 3)
    <3>1. /\ sub \in Seq(Byte) /\ Len(sub) = Len(body)
          /\ \A i \in 1..Len(body) : sub[i] = bytes[i + 1]
      BY <1>1, <2>1
    <3> HIDE DEF sub
    <3>2. \A i \in 1..Len(body) : sub[i] = body[i]
      BY <2>2, <3>1
    <3>3. sub = body
      BY <1>1, <3>1, <3>2
    <3> QED BY <3>3 DEF sub
  <2> QED BY <2>1, <2>3
<1>6. Len(bytes) >= 4
  BY <1>1, <1>5
<1>7. {packet_begin, packet_end, rle} \cap ToSet(body) = {}
  BY <1>1 DEF IsBody, ToSet
<1> HIDE DEF bytes
<1>8. IsFrame(bytes, payload)
  BY <1>5, <1>6, <1>7 DEF IsFrame, IsBody, bytes
<1> QED BY <1>4, <1>5, <1>8 DEF bytes, tail

\* What is where in a frame.
LEMMA FrameShape ==
    ASSUME NEW bytes \in Seq(Byte), NEW payload, IsFrame(bytes, payload)
    PROVE  /\ Len(bytes) >= 4
           /\ bytes[1] = packet_begin
           /\ \A i \in 1..Len(bytes) :
                 bytes[i] = packet_end <=> i = Len(bytes) - 2
           /\ Unescaped(SubSeq(bytes, 2, Len(bytes) - 3)) = payload
<1> DEFINE body == SubSeq(bytes, 2, Len(bytes) - 3)
           head == <<packet_begin>>
           tail == Trailer(Sum(body))
           front == head \o body
<1>1. /\ Len(bytes) >= 4 /\ bytes = (head \o body) \o tail
      /\ {packet_begin, packet_end, rle} \cap ToSet(body) = {}
      /\ Decoding(body) = Text(FALSE, payload)
  BY DEF IsFrame, Framed
<1>2. body \in Seq(Byte) /\ Len(body) = Len(bytes) - 4
  <2>1. Len(bytes) >= 4
    BY <1>1
  <2>2. /\ Len(bytes) \in Nat /\ Len(bytes) - 3 \in Int
        /\ \A i \in 2..(Len(bytes) - 3) : bytes[i] \in Byte
    BY ONLY <2>1, bytes \in Seq(Byte)
  <2>3. body \in Seq(Byte)
    BY ONLY <2>2, bytes \in Seq(Byte), SubSeqProperties
  <2>4. Len(body) = IF 2 <= Len(bytes) - 3 THEN (Len(bytes) - 3) - 2 + 1 ELSE 0
    BY ONLY <2>2, bytes \in Seq(Byte), SubSeqProperties
  <2> HIDE DEF body
  <2>5. \A n \in Nat : n >= 4 => (IF 2 <= n - 3 THEN (n - 3) - 2 + 1 ELSE 0) = n - 4
    OBVIOUS
  <2>6. Len(bytes) \in Nat
    BY <2>2
  <2> QED BY ONLY <2>1, <2>3, <2>4, <2>5, <2>6
<1>3. /\ Sum(body) \in Byte /\ tail \in Seq(Byte) /\ Len(tail) = 3
      /\ head \in Seq(Byte) /\ Len(head) = 1
  <2>1. Sum(body) \in Byte
    BY ONLY <1>2, SumFacts
  <2>2. <<packet_begin>> \in Seq(Byte) /\ Len(<<packet_begin>>) = 1
    BY ControlsAreBytes
  <2> HIDE DEF body
  <2> QED BY <2>1, <2>2, TrailerType
<1>4. \A i \in 1..Len(body) : body[i] # packet_end
  <2> HIDE DEF body
  <2>1. packet_end \notin ToSet(body)
    BY <1>1
  <2>2. DOMAIN body = 1..Len(body)
    BY ONLY <1>2
  <2> QED BY ONLY <2>1, <2>2 DEF ToSet
<1>5. head[1] = packet_begin /\ packet_begin # packet_end
  BY DEF packet_begin, packet_end
<1>6. tail[1] = packet_end /\ tail[2] # packet_end /\ tail[3] # packet_end
  <2>1. \A v \in Nat : encode_hex(v) # packet_end
    BY DEF encode_hex, packet_end
  <2>2. Sum(body) \in Nat /\ Sum(body) \div 16 \in Nat
    <3>1. \A v \in Byte : v \in Nat /\ v \div 16 \in Nat
      BY DEF Byte
    <3> QED BY ONLY <3>1, <1>3
  <2>3. tail = <<packet_end, encode_hex(Sum(body) \div 16), encode_hex(Sum(body))>>
    BY DEF Trailer
  <2> HIDE DEF tail
  <2> QED BY <2>1, <2>2, <2>3
<1>7. Unescaped(body) = payload
  BY <1>1 DEF Unescaped, Text
<1> HIDE DEF body, head, tail
<1>8. /\ front \in Seq(Byte) /\ Len(front) = Len(head) + Len(body)
      /\ \A i \in 1..Len(head) : front[i] = head[i]
      /\ \A i \in 1..Len(body) : front[Len(head) + i] = body[i]
  BY <1>2, <1>3, TextConcat
<1>9. bytes = front \o tail
  BY <1>1
<1> HIDE DEF front
<1>10. /\ \A i \in 1..Len(front) : bytes[i] = front[i]
       /\ \A i \in 1..Len(tail) : bytes[Len(front) + i] = tail[i]
  BY <1>3, <1>8, <1>9, TextConcat, SMTT(20)
<1>11. Len(front) = Len(bytes) - 3 /\ Len(bytes) \in Nat
  BY <1>2, <1>3, <1>8
<1>12. bytes[1] = packet_begin
  <2>1. Len(head) \in Nat /\ Len(head) > 0 /\ Len(body) \in Nat
    BY <1>3, <1>5
  <2>2. 1 \in 1..Len(head) /\ 1 \in 1..Len(front)
    BY <1>8, <2>1
  <2>3. bytes[1] = head[1]
    BY ONLY <1>8, <1>10, <2>2
  <2> QED BY <1>5, <2>3
<1>13. ASSUME NEW i \in 1..Len(bytes)
       PROVE  bytes[i] = packet_end <=> i = Len(bytes) - 2
  <2>1. CASE i = 1
    BY <1>1, <1>5, <1>12, <2>1, SMTT(20)
  <2>2. CASE i \in 2..Len(front)
    <3>1. i - 1 \in 1..Len(body) /\ i = Len(head) + (i - 1)
      BY <1>3, <1>8, <1>11, <2>2
    <3>2. bytes[i] = body[i - 1]
      <4>1. i \in 1..Len(front)
        BY <2>2
      <4> QED BY <3>1, <4>1, <1>8, <1>10
    <3> QED BY <3>1, <3>2, <1>4, <1>11, <2>2
  <2>3. CASE i > Len(front)
    <3>1. i - Len(front) \in 1..3 /\ i = Len(front) + (i - Len(front))
      BY <1>11, <2>3
    <3>2. bytes[i] = tail[i - Len(front)]
      BY <3>1, <1>3, <1>10
    <3> QED BY <3>1, <3>2, <1>6, <1>11
  <2> QED BY <1>11, <2>1, <2>2, <2>3
<1> QED BY <1>1, <1>7, <1>12, <1>13 DEF body

\* Where the only '#' of a text is.
LEMMA OnlyEnd ==
    ASSUME NEW s \in Seq(Byte), NEW k \in Nat,
           \A i \in 1..Len(s) : s[i] = packet_end <=> i = k
    PROVE  SelectInSeq(s, LAMBDA b : b = packet_end)
               = IF k \in 1..Len(s) THEN k ELSE 0
<1> DEFINE I == {i \in 1..Len(s) : s[i] = packet_end}
<1>1. CASE k \in 1..Len(s)
  <2>1. I = {k}
    BY <1>1
  <2>2. Min({k}) = k
    BY DEF Min
  <2> QED BY <1>1, <2>1, <2>2 DEF SelectInSeq
<1>2. CASE k \notin 1..Len(s)
  <2>1. I = {}
    BY <1>2
  <2> QED BY <1>2, <2>1 DEF SelectInSeq
<1> QED BY <1>1, <1>2

(* The peer finds the packet when all of it is there, and none in a part.    *)
LEMMA FrameIsFound ==
    ASSUME NEW bytes \in Seq(Byte), NEW payload, IsFrame(bytes, payload),
           NEW n \in 0..Len(bytes)
    PROVE  FrameLengths(SubSeq(bytes, 1, n))
               = IF n = Len(bytes) THEN {n} ELSE {}
<1> DEFINE s == SubSeq(bytes, 1, n)
           k == Len(bytes) - 2
<1>1. /\ Len(bytes) >= 4 /\ bytes[1] = packet_begin
      /\ \A i \in 1..Len(bytes) : bytes[i] = packet_end <=> i = k
  BY FrameShape
<1>2. s \in Seq(Byte) /\ Len(s) = n /\ \A i \in 1..n : s[i] = bytes[i]
  BY <1>1
<1>3. k \in Nat /\ k >= 2
  BY <1>1
<1> HIDE DEF s
<1>4. \A i \in 1..Len(s) : s[i] = packet_end <=> i = k
  BY <1>1, <1>2
<1> HIDE DEF k
<1>5. SelectInSeq(s, LAMBDA b : b = packet_end) = IF k \in 1..Len(s) THEN k ELSE 0
  BY <1>2, <1>3, <1>4, OnlyEnd
<1>6. CASE n = Len(bytes)
  <2>1. k \in 1..Len(s) /\ s[1] = packet_begin
    BY <1>1, <1>2, <1>3, <1>6 DEF k
  <2>2. \A m \in 4..Len(s) : k = m - 2 <=> m = n
    BY <1>2, <1>3, <1>6 DEF k
  <2>3. n \in 4..Len(s)
    BY <1>1, <1>2, <1>6
  <2>4. FrameLengths(s) = {m \in 4..Len(s) : m = n}
    BY <1>5, <2>1, <2>2 DEF FrameLengths
  <2>5. FrameLengths(s) = {n}
    BY <2>3, <2>4
  <2> QED BY <2>5, <1>6 DEF s
<1>7. CASE n # Len(bytes)
  <2>1. \A m \in 4..Len(s) : m - 2 # 0 /\ (k = m - 2 => m > Len(s))
    BY <1>1, <1>2, <1>7 DEF k
  <2>2. FrameLengths(s) = {}
    <3>1. \A m \in 4..Len(s) : (IF k \in 1..Len(s) THEN k ELSE 0) # m - 2
      BY <2>1, <1>2
    <3> QED BY <3>1, <1>5 DEF FrameLengths
  <2> QED BY <2>2, <1>7 DEF s
<1> QED BY <1>6, <1>7

-----------------------------------------------------------------------------
(* Requests, as the peer encodes them.                                       *)

LEMMA RequestByteType ==
    ASSUME NEW c \in Byte
    PROVE  RequestByte(c) \in Seq(Byte)
<1>1. code_escape_char(c) \in Byte /\ escape \in Byte
  BY EscapeInvolution, ControlsAreBytes
<1> QED BY <1>1 DEF RequestByte

LEMMA RequestFolds ==
    ASSUME NEW start \in Seq(Byte)
    PROVE  FoldsTo(Seq(Byte), Byte, RequestStep, start)
<1>1. \A p \in Seq(Byte) \X Byte : p[1] \o RequestByte(p[2]) \in Seq(Byte)
  <2> SUFFICES ASSUME NEW b \in Seq(Byte), NEW c \in Byte
               PROVE  b \o RequestByte(c) \in Seq(Byte)
    OBVIOUS
  <2> QED BY RequestByteType, TextConcat
<1>2. RequestStep \in [Seq(Byte) \X Byte -> Seq(Byte)]
  BY <1>1 DEF RequestStep
<1> QED BY <1>2 DEF FoldsTo

LEMMA RequestFoldStep ==
    ASSUME NEW start \in Seq(Byte), NEW s \in Seq(Byte)
    PROVE  /\ Fold(RequestStep, start, s) \in Seq(Byte)
           /\ Fold(RequestStep, start, <<>>) = start
           /\ \A c \in Byte : Fold(RequestStep, start, Append(s, c))
                                  = Fold(RequestStep, start, s) \o RequestByte(c)
<1>1. FoldsTo(Seq(Byte), Byte, RequestStep, start)
  BY RequestFolds
<1>2. /\ Fold(RequestStep, start, s) \in Seq(Byte)
      /\ Fold(RequestStep, start, <<>>) = start
      /\ \A c \in Byte : Fold(RequestStep, start, Append(s, c))
                             = RequestStep[<<Fold(RequestStep, start, s), c>>]
  BY ONLY <1>1, s \in Seq(Byte), FoldFacts
<1>3. \A b \in Seq(Byte), c \in Byte :
         RequestStep[<<b, c>>] = b \o RequestByte(c)
  BY DEF RequestStep
<1> QED BY <1>2, <1>3

LEMMA RequestFacts ==
    /\ RequestBytes(<<>>) = <<>>
    /\ \A s \in Seq(Byte) :
          /\ RequestBytes(s) \in Seq(Byte)
          /\ \A c \in Byte :
                RequestBytes(Append(s, c)) = RequestBytes(s) \o RequestByte(c)
<1> DEFINE start == <<>>
<1>1. start \in Seq(Byte)
  OBVIOUS
<1> HIDE DEF start
<1>2. ASSUME NEW s \in Seq(Byte)
      PROVE  /\ Fold(RequestStep, start, s) \in Seq(Byte)
             /\ Fold(RequestStep, start, <<>>) = start
             /\ \A c \in Byte :
                   Fold(RequestStep, start, Append(s, c))
                       = Fold(RequestStep, start, s) \o RequestByte(c)
  BY <1>1, RequestFoldStep
<1> QED BY <1>1, <1>2 DEF RequestBytes, start

LEMMA TextAssoc ==
    ASSUME NEW s \in Seq(Byte), NEW t \in Seq(Byte), NEW u \in Seq(Byte)
    PROVE  (s \o t) \o u = s \o (t \o u)
BY ConcatAssociative, SMTT(20)

\* Three texts, as one fact.
ThreeTexts(s, t, u) == s \in Seq(Byte) /\ t \in Seq(Byte) /\ u \in Seq(Byte)

\* Three texts in a row, however they are grouped.
LEMMA ThreeAssoc ==
    ASSUME NEW s, NEW t, NEW u, ThreeTexts(s, t, u)
    PROVE  (s \o t) \o u = s \o (t \o u)
BY TextAssoc DEF ThreeTexts

\* A request is encoded byte by byte, wherever one starts.
LEMMA RequestFrom ==
    ASSUME NEW start \in Seq(Byte), NEW t \in Seq(Byte)
    PROVE  Fold(RequestStep, start, t) = start \o RequestBytes(t)
<1> DEFINE P == {u \in Seq(Byte) :
                    Fold(RequestStep, start, u) = start \o RequestBytes(u)}
<1>1. <<>> \in P
  <2>1. start \o <<>> = start /\ <<>> \in Seq(Byte)
    OBVIOUS
  <2> QED BY <2>1, RequestFoldStep, RequestFacts
<1>2. ASSUME NEW u \in Seq(Byte), NEW c \in Byte, u \in P
      PROVE  Append(u, c) \in P
  <2>1. /\ RequestBytes(u) \in Seq(Byte) /\ RequestByte(c) \in Seq(Byte)
        /\ Append(u, c) \in Seq(Byte)
    BY RequestFacts, RequestByteType
  <2>2. Fold(RequestStep, start, Append(u, c))
            = (start \o RequestBytes(u)) \o RequestByte(c)
    <3>1. \A d \in Byte : Fold(RequestStep, start, Append(u, d))
                               = Fold(RequestStep, start, u) \o RequestByte(d)
      BY ONLY start \in Seq(Byte), u \in Seq(Byte), RequestFoldStep
    <3>2. Fold(RequestStep, start, u) = start \o RequestBytes(u)
      BY <1>2
    <3> QED BY ONLY <3>1, <3>2, c \in Byte
  <2>3. (start \o RequestBytes(u)) \o RequestByte(c)
            = start \o (RequestBytes(u) \o RequestByte(c))
    <3>1. ThreeTexts(start, RequestBytes(u), RequestByte(c))
      BY <2>1 DEF ThreeTexts
    <3> QED BY ONLY <3>1, ThreeAssoc
  <2>4. RequestBytes(u) \o RequestByte(c) = RequestBytes(Append(u, c))
    BY RequestFacts
  <2> QED BY <2>1, <2>2, <2>3, <2>4
<1> HIDE DEF P
<1>3. Seq(Byte) \subseteq P
  BY <1>1, <1>2, TextInduct
<1> QED BY <1>3 DEF P

(* A request that is not empty begins with what stands for its first byte.   *)
LEMMA RequestHead ==
    ASSUME NEW t \in Seq(Byte), t # <<>>
    PROVE  RequestBytes(t) = RequestByte(Head(t)) \o RequestBytes(Tail(t))
<1> DEFINE c == Head(t)
           rest == Tail(t)
           one == <<c>>
<1>1. c \in Byte /\ rest \in Seq(Byte) /\ t = one \o rest /\ one \in Seq(Byte)
  OBVIOUS
<1>2. one = Append(<<>>, c) /\ <<>> \in Seq(Byte)
  OBVIOUS
<1> HIDE DEF c, rest, one
<1>3. RequestBytes(one) = <<>> \o RequestByte(c)
  BY <1>1, <1>2, RequestFacts
<1>4. RequestByte(c) \in Seq(Byte)
  BY <1>1, RequestByteType
<1>5. RequestBytes(one) = RequestByte(c)
  BY <1>3, <1>4
<1>6. FoldsTo(Seq(Byte), Byte, RequestStep, <<>>)
  BY <1>2, RequestFolds
<1>7. Fold(RequestStep, <<>>, one \o rest)
          = Fold(RequestStep, Fold(RequestStep, <<>>, one), rest)
  BY <1>1, <1>6, FoldConcat
<1>8. RequestBytes(t) = Fold(RequestStep, RequestByte(c), rest)
  BY <1>1, <1>5, <1>7 DEF RequestBytes
<1>9. RequestBytes(t) = RequestByte(c) \o RequestBytes(rest)
  BY <1>1, <1>4, <1>8, RequestFrom
<1> QED BY <1>9 DEF c, rest

(* What one more byte of a request adds to the checksum: what receive_packet *)
(* adds for it, in one step or in two.                                       *)
LEMMA RequestSum ==
    ASSUME NEW s \in Seq(Byte), NEW c \in Byte
    PROVE  Sum(RequestBytes(Append(s, c)))
               = IF must_escape_request(c)
                 THEN (((Sum(RequestBytes(s)) + escape) % 256)
                          + code_escape_char(c)) % 256
                 ELSE (Sum(RequestBytes(s)) + c) % 256
<1> DEFINE b == RequestBytes(s)
           e == code_escape_char(c)
<1>1. /\ b \in Seq(Byte) /\ e \in Byte /\ escape \in Byte
      /\ RequestBytes(Append(s, c)) = b \o RequestByte(c)
  BY RequestFacts, EscapeInvolution, ControlsAreBytes
<1> HIDE DEF b, e
<1>2. CASE must_escape_request(c)
  <2> DEFINE first == Append(b, escape)
  <2>1. b \o <<escape, e>> = Append(first, e) /\ first \in Seq(Byte)
    BY <1>1
  <2> HIDE DEF first
  <2>2. Sum(Append(first, e)) = (Sum(first) + e) % 256
    BY <1>1, <2>1, SumFacts
  <2>3. Sum(first) = (Sum(b) + escape) % 256
    BY <1>1, SumFacts DEF first
  <2>4. RequestByte(c) = <<escape, e>>
    BY <1>2 DEF RequestByte, e
  <2> QED BY <1>1, <1>2, <2>1, <2>2, <2>3, <2>4, ZenonT(30) DEF b, e
<1>3. CASE ~must_escape_request(c)
  <2>1. RequestByte(c) = <<c>> /\ b \o <<c>> = Append(b, c)
    BY <1>1, <1>3 DEF RequestByte
  <2>2. Sum(Append(b, c)) = (Sum(b) + c) % 256
    BY <1>1, SumFacts
  <2> QED BY <1>1, <1>3, <2>1, <2>2 DEF b
<1> QED BY <1>2, <1>3
=============================================================================
