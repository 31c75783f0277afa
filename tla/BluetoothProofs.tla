--------------------------- MODULE BluetoothProofs ---------------------------
(***************************************************************************)
(* Theorems about Message and Bluetooth, for any items on the line, any    *)
(* size of the buffer and of the reads, and any documents: what Route      *)
(* converts comes back as it was, postRead stays in step with what the     *)
(* device transmits, and what is published or written is what was          *)
(* transmitted or sent.                                                    *)
(*                                                                         *)
(* The community modules have no theorem about FlattenSeq or SelectInSeq,  *)
(* so the facts about them that are needed here come first.                *)
(***************************************************************************)
EXTENDS Bluetooth, SequenceTheorems, FiniteSetTheorems, WellFoundedInduction, TLAPS
-----------------------------------------------------------------------------
(* Sequences of sequences: what FlattenSeq is                              *)

\* Every inhabited set of numbers has a smallest one: the intervals 1 .. n of its
\* members do, by inclusion.
LEMMA Smallest ==
    ASSUME NEW T \in SUBSET Nat, NEW t \in T
    PROVE  \E n \in T : \A m \in T : n <= m
<1> DEFINE R == StrictSubsetOrdering(Nat)
           I == {1 .. n : n \in T}
<1>1. IsWellFoundedOn(R, FiniteSubsetsOf(Nat))
  BY FS_StrictSubsetOrderingWellFounded
<1>2. I \subseteq FiniteSubsetsOf(Nat) /\ I # {}
  <2> SUFFICES ASSUME NEW n \in T PROVE 1 .. n \in FiniteSubsetsOf(Nat)
    OBVIOUS
  <2>1. IsFiniteSet(1 .. n)
    BY FS_Interval
  <2> QED
    BY <2>1 DEF FiniteSubsetsOf
<1>3. PICK i \in I : \A j \in I : <<j, i>> \notin R
  BY <1>1, <1>2, WFMin
<1>4. PICK n \in T : i = 1 .. n
  OBVIOUS
<1>5. ASSUME NEW m \in T, m < n PROVE FALSE
  <2>1. 1 .. m \in I /\ 1 .. m \subseteq Nat /\ 1 .. n \subseteq Nat
    OBVIOUS
  <2>2. 1 .. m \subseteq 1 .. n /\ n \in 1 .. n /\ n \notin 1 .. m
    BY <1>5
  <2>3. <<1 .. m, 1 .. n>> \in R
    BY <2>1, <2>2 DEF StrictSubsetOrdering
  <2> QED
    BY <1>3, <1>4, <2>1, <2>3
<1> QED
  BY <1>5

\* So a set of numbers that holds 0, and n + 1 with n, holds all of them.  This is the
\* induction of this module: it runs over a set, not over a predicate.
LEMMA Ind ==
    ASSUME NEW S \in SUBSET Nat, 0 \in S, \A n \in S : n + 1 \in S
    PROVE  S = Nat
<1> SUFFICES ASSUME NEW t \in Nat \ S PROVE FALSE
  OBVIOUS
<1>1. PICK n \in Nat \ S : \A m \in Nat \ S : n <= m
  BY Smallest
<1>2. n - 1 \in Nat /\ ~(n <= n - 1) /\ n = (n - 1) + 1
  BY <1>1
<1>3. n - 1 \in S
  BY <1>1, <1>2
<1> QED
  BY <1>1, <1>2, <1>3

\* The function that FlattenSeq chooses.
IsFlat(g, s, n) == g = [i \in 1 .. n |-> IF i = 1 THEN s[i] ELSE g[i - 1] \o s[i]]

\* There is one for every length, so the choice has something to choose.
LEMMA FlatExists ==
    ASSUME NEW s, NEW n \in Nat
    PROVE  \E g : IsFlat(g, s, n)
<1> DEFINE S == {m \in Nat : \E g : IsFlat(g, s, m)}
<1>1. 0 \in S
  <2>1. IsFlat(<<>>, s, 0)
    BY DEF IsFlat
  <2> QED
    BY <2>1
<1>2. ASSUME NEW m \in S PROVE m + 1 \in S
  <2>1. PICK g : IsFlat(g, s, m)
    OBVIOUS
  <2> DEFINE h == [i \in 1 .. m + 1 |-> IF i = m + 1 THEN (IF i = 1 THEN s[i] ELSE g[i - 1] \o s[i]) ELSE g[i]]
  <2>2. ASSUME NEW i \in 1 .. m + 1
        PROVE  h[i] = IF i = 1 THEN s[i] ELSE h[i - 1] \o s[i]
    <3>1. m \in Nat /\ i \in Nat
      OBVIOUS
    <3>2. CASE i = m + 1
      <4>1. i # 1 => i - 1 \in 1 .. m + 1 /\ i - 1 # m + 1
        BY <3>1, <3>2
      <4>2. i # 1 => h[i - 1] = g[i - 1]
        BY <4>1
      <4> QED
        BY <3>2, <4>2
    <3>3. CASE i # m + 1
      <4>1. i \in 1 .. m /\ (i # 1 => i - 1 \in 1 .. m + 1 /\ i - 1 # m + 1)
        BY <3>1, <3>3
      <4>2. h[i] = g[i] /\ (i # 1 => h[i - 1] = g[i - 1])
        BY <3>3, <4>1
      <4>3. g[i] = IF i = 1 THEN s[i] ELSE g[i - 1] \o s[i]
        BY <2>1, <4>1 DEF IsFlat
      <4> QED
        BY <4>2, <4>3
    <3> QED
      BY <3>2, <3>3
  <2>3. IsFlat(h, s, m + 1)
    <3>1. h = [i \in 1 .. m + 1 |-> h[i]]
      OBVIOUS
    <3> HIDE DEF h
    <3> QED
      BY <2>2, <3>1 DEF IsFlat
  <2> QED
    BY <2>3
<1>3. S = Nat
  <2> HIDE DEF S
  <2>1. S \in SUBSET Nat
    BY DEF S
  <2> QED
    BY <1>1, <1>2, <2>1, Ind
<1> QED
  BY <1>3

\* What FlattenSeq of a sequence that is not empty is.
LEMMA FlatDef ==
    ASSUME NEW s, Len(s) \in Nat, Len(s) # 0
    PROVE  \E g : IsFlat(g, s, Len(s)) /\ FlattenSeq(s) = g[Len(s)]
<1> DEFINE F == CHOOSE g : IsFlat(g, s, Len(s))
<1>1. FlattenSeq(s) = F[Len(s)]
  BY Zenon DEF FlattenSeq, IsFlat
<1>2. \E g : IsFlat(g, s, Len(s))
  BY FlatExists
<1>3. IsFlat(F, s, Len(s))
  BY <1>2, Zenon
<1> QED
  BY <1>1, <1>3, Zenon
-----------------------------------------------------------------------------
(* Message: numbers, hexadecimal text and their round trips                *)

\* A number from its quotient and its remainder, and back.
LEMMA DivMod ==
    ASSUME NEW b \in Int, NEW m \in Int, m > 0
    PROVE /\ b = (b % m) + m * (b \div m)
          /\ b \div m \in Int
          /\ b % m \in 0 .. m - 1
<1>1. b = (b % m) + m * (b \div m)
  BY SMT
<1> QED
  BY <1>1

\* The remainder of a quotient put together with a remainder.
LEMMA ModOf ==
    ASSUME NEW q \in Int, NEW m \in Int, NEW r \in 0 .. m - 1
    PROVE (m * q + r) % m = r
<1>1. r \in Int /\ r >= 0 /\ r < m
  OBVIOUS
<1> QED
  BY <1>1, SMT

\* Twice a number and back.
LEMMA Halves ==
    ASSUME NEW n \in Int
    PROVE  (2 * n) % 2 = 0 /\ (2 * n) \div 2 = n
BY SMT

\* An even number is twice its half.
LEMMA Even ==
    ASSUME NEW n \in Nat, n % 2 = 0
    PROVE  n \div 2 \in Nat /\ n = 2 * (n \div 2)
<1>1. n = (n % 2) + 2 * (n \div 2) /\ n \div 2 \in Int
  BY DivMod
<1> QED
  BY <1>1

\* The range of an int.
LEMMA Half ==
    /\ IntMod \div 2 \in Int /\ IntMod \in Int
    /\ IntMod = 2 * (IntMod \div 2) /\ IntMod > 512
<1>1. IntMod \in Int /\ IntMod > 512 /\ IntMod % 2 = 0
  BY MessageAssumption
<1>2. IntMod = (IntMod % 2) + 2 * (IntMod \div 2) /\ IntMod \div 2 \in Int
  BY <1>1, DivMod
<1> QED
  BY <1>1, <1>2

\* get<int>() leaves a byte alone.
LEMMA NarrowByte ==
    ASSUME NEW t \in Byte
    PROVE  Narrow(t) = t
<1> DEFINE h == IntMod \div 2
<1>1. h \in Int /\ IntMod \in Int /\ IntMod = 2 * h /\ IntMod > 512
  BY Half
<1>2. Narrow(t) = ((t + h) % IntMod) - h
  BY DEF Narrow
<1> HIDE DEF h
<1>3. t + h \in 0 .. IntMod - 1 /\ t + h = IntMod * 0 + (t + h) /\ t \in Int
  BY <1>1 DEF Byte
<1>4. (t + h) % IntMod = t + h
  BY <1>1, <1>3, ModOf
<1> QED
  BY <1>1, <1>2, <1>3, <1>4

\* A byte is its two nibbles.
LEMMA Nibbles ==
    ASSUME NEW b \in Byte
    PROVE  b \div 16 \in 0 .. 15 /\ b % 16 \in 0 .. 15 /\ 16 * (b \div 16) + (b % 16) = b
<1> DEFINE d == b \div 16
           r == b % 16
<1>1. b \in Int /\ 0 <= b /\ b <= 255
  BY DEF Byte
<1>2. b = r + 16 * d /\ d \in Int /\ r \in 0 .. 15
  BY <1>1, DivMod
<1> HIDE DEF d, r
<1>3. d \in 0 .. 15 /\ r \in 0 .. 15 /\ 16 * d + r = b
  BY <1>1, <1>2
<1> QED
  BY <1>3 DEF d, r

\* A digit of bytesToHex is a digit of one value only.
LEMMA HexApart ==
    ASSUME NEW v \in 0 .. 15, NEW w \in 0 .. 15, UpperDigit[v + 1] \in HexChar(w)
    PROVE  v = w
BY DEF HexChar, UpperDigit, LowerDigit

\* hexCharToValue undoes a digit of bytesToHex.
LEMMA HexValue ==
    ASSUME NEW v \in 0 .. 15
    PROVE  hexCharToValue(UpperDigit[v + 1]) = v
<1>1. UpperDigit[v + 1] \in HexChar(v)
  BY DEF HexChar
<1>2. \A w \in 0 .. 15 : UpperDigit[v + 1] \in HexChar(w) => w = v
  BY HexApart
<1> QED
  BY <1>1, <1>2, Zenon DEF hexCharToValue

\* The two digits of a byte.
LEMMA Digits ==
    ASSUME NEW bytes \in Seq(Byte), NEW k \in 1 .. Len(bytes)
    PROVE  /\ Len(bytesToHex(bytes)) = 2 * Len(bytes)
           /\ DOMAIN bytesToHex(bytes) = 1 .. 2 * Len(bytes)
           /\ bytesToHex(bytes)[2 * k - 1] = UpperDigit[(bytes[k] \div 16) + 1]
           /\ bytesToHex(bytes)[2 * k] = UpperDigit[(bytes[k] % 16) + 1]
<1>1. Len(bytes) \in Nat
  BY LenProperties
<1>2. k \in Int /\ 1 <= k /\ k <= Len(bytes)
  BY <1>1
<1>3. 2 * k - 1 \in 1 .. 2 * Len(bytes) /\ 2 * k \in 1 .. 2 * Len(bytes)
  BY <1>1, <1>2
<1>4. ((2 * k - 1) + 1) \div 2 = k /\ (2 * k - 1) % 2 = 1 /\ (2 * k + 1) \div 2 = k /\ (2 * k) % 2 = 0
  BY <1>2, SMT
<1>5. DOMAIN bytesToHex(bytes) = 1 .. 2 * Len(bytes)
  BY DEF bytesToHex
<1>6. Len(bytesToHex(bytes)) = 2 * Len(bytes)
  BY <1>1 DEF bytesToHex
<1>7. bytesToHex(bytes)[2 * k - 1] = UpperDigit[(bytes[k] \div 16) + 1]
  <2> DEFINE i == 2 * k - 1
  <2>1. i \in 1 .. 2 * Len(bytes) /\ (i + 1) \div 2 = k /\ i % 2 = 1
    BY <1>3, <1>4
  <2> HIDE DEF i
  <2>2. bytesToHex(bytes)[i] = UpperDigit[1 + (bytes[(i + 1) \div 2] \div 16)]
    BY <2>1 DEF bytesToHex
  <2> QED
    BY <2>1, <2>2, ElementOfSeq, Nibbles DEF i
<1>8. bytesToHex(bytes)[2 * k] = UpperDigit[(bytes[k] % 16) + 1]
  <2> DEFINE i == 2 * k
  <2>1. i \in 1 .. 2 * Len(bytes) /\ (i + 1) \div 2 = k /\ i % 2 = 0
    BY <1>3, <1>4
  <2> HIDE DEF i
  <2>2. bytesToHex(bytes)[i] = UpperDigit[1 + (bytes[(i + 1) \div 2] % 16)]
    BY <2>1 DEF bytesToHex
  <2> QED
    BY <2>1, <2>2, ElementOfSeq, Nibbles DEF i
<1> QED
  BY <1>5, <1>6, <1>7, <1>8

\* Route::hexToBytes gives back the bytes of Route::bytesToHex, whatever they are:
\* the text is one that it accepts, two digits for each byte.
LEMMA HexRoundTrip ==
    ASSUME NEW bytes \in Seq(Byte)
    PROVE  IsHex(bytesToHex(bytes)) /\ hexToBytes(bytesToHex(bytes)) = bytes
<1> DEFINE n == Len(bytes)
           text == bytesToHex(bytes)
<1>1. n \in Nat /\ DOMAIN bytes = 1 .. n /\ bytes \in [1 .. n -> Byte]
  BY LenProperties
<1>2. Len(text) = 2 * n /\ DOMAIN text = 1 .. 2 * n
  BY <1>1 DEF bytesToHex
<1>3. Len(text) % 2 = 0 /\ Len(text) \div 2 = n
  <2> HIDE DEF n, text
  <2>1. (2 * n) % 2 = 0 /\ (2 * n) \div 2 = n
    BY <1>1, SMT
  <2> QED
    BY <1>2, <2>1
<1>4. ASSUME NEW k \in 1 .. 2 * n
      PROVE  \E v \in 0 .. 15 : text[k] \in HexChar(v)
  <2> DEFINE byte == bytes[(k + 1) \div 2]
             v == IF k % 2 = 1 THEN byte \div 16 ELSE byte % 16
  <2>1. (k + 1) \div 2 \in 1 .. n
    <3>1. k \in Int /\ 1 <= k /\ k <= 2 * n
      BY <1>1
    <3> QED
      BY <3>1, <1>1, SMT
  <2>2. byte \in Byte
    BY <2>1, <1>1
  <2>3. byte \div 16 \in 0 .. 15 /\ byte % 16 \in 0 .. 15
    <3> HIDE DEF byte
    <3> QED
      BY <2>2, Nibbles
  <2>4. text[k] = UpperDigit[1 + v]
    BY Zenon DEF bytesToHex
  <2> HIDE DEF text, v
  <2>5. v \in 0 .. 15
    BY <2>3 DEF v
  <2>6. 1 + v = v + 1
    BY <2>5
  <2>7. text[k] \in HexChar(v)
    BY <2>4, <2>6 DEF HexChar
  <2> QED
    BY <2>5, <2>7
<1>5. ASSUME NEW k \in 1 .. n
      PROVE  16 * hexCharToValue(text[2 * k - 1]) + hexCharToValue(text[2 * k]) = bytes[k]
  <2>1. bytes[k] \in Byte
    BY <1>1
  <2>2. bytes[k] \div 16 \in 0 .. 15 /\ bytes[k] % 16 \in 0 .. 15
        /\ 16 * (bytes[k] \div 16) + (bytes[k] % 16) = bytes[k]
    BY <2>1, Nibbles
  <2>3. hexCharToValue(text[2 * k - 1]) = bytes[k] \div 16
    BY <2>2, Digits, HexValue
  <2>4. hexCharToValue(text[2 * k]) = bytes[k] % 16
    BY <2>2, Digits, HexValue
  <2> QED
    BY <2>2, <2>3, <2>4, SMT
<1>6. IsHex(text)
  BY <1>2, <1>3, <1>4, Zenon DEF IsHex
<1>7. hexToBytes(text) = bytes
  <2>1. hexToBytes(text) = [k \in 1 .. n |-> 16 * hexCharToValue(text[2 * k - 1]) + hexCharToValue(text[2 * k])]
    BY <1>3, Zenon DEF hexToBytes
  <2>2. bytes = [k \in 1 .. n |-> bytes[k]]
    BY <1>1
  <2> QED
    BY <1>5, <2>1, <2>2, Zenon
<1> QED
  BY <1>6, <1>7

\* A text hexToBytes does not throw at gives one byte for two characters.
LEMMA HexBytes ==
    ASSUME NEW text, Len(text) \in Nat, DOMAIN text = 1 .. Len(text), IsHex(text)
    PROVE  /\ hexToBytes(text) \in Seq(Byte)
           /\ 2 * Len(hexToBytes(text)) = Len(text)
<1> DEFINE n == Len(text) \div 2
<1>1. n \in Nat /\ Len(text) = 2 * n
  <2>1. Len(text) % 2 = 0
    BY Zenon DEF IsHex
  <2>2. \A l \in Nat : l % 2 = 0 => l \div 2 \in Nat /\ l = 2 * (l \div 2)
    BY Even
  <2> QED
    BY <2>1, <2>2, Zenon
<1> HIDE DEF n
<1>2. ASSUME NEW k \in 1 .. Len(text) PROVE hexCharToValue(text[k]) \in 0 .. 15
  <2>1. \E v \in 0 .. 15 : text[k] \in HexChar(v)
    BY DEF IsHex
  <2> QED
    BY <2>1, Zenon DEF hexCharToValue
<1> DEFINE b(k) == 16 * hexCharToValue(text[2 * k - 1]) + hexCharToValue(text[2 * k])
<1>3. ASSUME NEW k \in 1 .. n PROVE b(k) \in Byte
  <2>1. 2 * k - 1 \in 1 .. Len(text) /\ 2 * k \in 1 .. Len(text)
    BY <1>1
  <2>2. hexCharToValue(text[2 * k - 1]) \in 0 .. 15 /\ hexCharToValue(text[2 * k]) \in 0 .. 15
    BY <1>2, <2>1
  <2>3. \A x, y \in 0 .. 15 : 16 * x + y \in 0 .. 255
    OBVIOUS
  <2> QED
    BY <2>2, <2>3 DEF Byte
<1>4. hexToBytes(text) = [k \in 1 .. n |-> b(k)]
  BY Zenon DEF hexToBytes, n
<1> HIDE DEF b
<1>5. [k \in 1 .. n |-> b(k)] \in Seq(Byte)
  BY <1>1, <1>3, IsASeq
<1>6. Len([k \in 1 .. n |-> b(k)]) = n
  BY <1>1
<1> QED
  BY <1>1, <1>4, <1>5, <1>6
-----------------------------------------------------------------------------
(* Sequences cut and joined                                                *)

\* A concatenation has the elements of its parts.
LEMMA Joined ==
    ASSUME NEW S, NEW a \in Seq(S), NEW b \in Seq(S), NEW s, s = a \o b
    PROVE  /\ s \in Seq(S)
           /\ Len(a) \in Nat /\ Len(b) \in Nat /\ Len(s) = Len(a) + Len(b)
           /\ \A i \in 1 .. Len(a) : s[i] = a[i]
           /\ \A i \in 1 .. Len(b) : s[Len(a) + i] = b[i]
<1> DEFINE t == a \o b
<1>1. Len(a) \in Nat /\ Len(b) \in Nat
  BY LenProperties
<1>2. t \in Seq(S) /\ Len(t) = Len(a) + Len(b)
  BY ConcatProperties
<1>3. \A i \in 1 .. Len(a) + Len(b) : t[i] = IF i <= Len(a) THEN a[i] ELSE b[i - Len(a)]
  BY ConcatProperties
<1> HIDE DEF t
<1>4. ASSUME NEW i \in 1 .. Len(a) PROVE t[i] = a[i]
  <2>1. i \in 1 .. Len(a) + Len(b) /\ i <= Len(a)
    BY <1>1
  <2> QED
    BY <1>3, <2>1
<1>5. ASSUME NEW i \in 1 .. Len(b) PROVE t[Len(a) + i] = b[i]
  <2>1. Len(a) + i \in 1 .. Len(a) + Len(b) /\ ~(Len(a) + i <= Len(a)) /\ (Len(a) + i) - Len(a) = i
    BY <1>1
  <2> QED
    BY <1>3, <2>1
<1>6. s = t
  BY DEF t
<1> QED
  BY <1>1, <1>2, <1>4, <1>5, <1>6

\* A subsequence has the elements it is cut from.
LEMMA CutOut ==
    ASSUME NEW S, NEW s \in Seq(S), NEW m \in 1 .. Len(s) + 1, NEW n \in m - 1 .. Len(s),
           NEW c, c = SubSeq(s, m, n)
    PROVE  /\ c \in Seq(S)
           /\ Len(c) = n - m + 1
           /\ \A i \in 1 .. n - m + 1 : c[i] = s[m + i - 1]
<1> DEFINE t == SubSeq(s, m, n)
<1>1. Len(s) \in Nat
  BY LenProperties
<1>2. m \in Int /\ n \in Int /\ m >= 1 /\ m <= Len(s) + 1 /\ n >= m - 1 /\ n <= Len(s)
  BY <1>1
<1>3. \A i \in m .. n : s[i] \in S
  <2> TAKE i \in m .. n
  <2>1. i \in 1 .. Len(s)
    BY <1>1, <1>2
  <2> QED
    BY <2>1, ElementOfSeq
<1>4. t \in Seq(S) /\ Len(t) = (IF m <= n THEN n - m + 1 ELSE 0)
      /\ \A i \in 1 .. n - m + 1 : t[i] = s[m + i - 1]
  BY <1>2, <1>3, SubSeqProperties
<1> HIDE DEF t
<1>5. Len(t) = n - m + 1
  <2>1. (IF m <= n THEN n - m + 1 ELSE 0) = n - m + 1
    BY <1>2
  <2> QED
    BY <1>4, <2>1
<1>6. c = t
  BY DEF t
<1> QED
  BY <1>4, <1>5, <1>6

\* A sequence is its front and its rest.
LEMMA Halved ==
    ASSUME NEW S, NEW s \in Seq(S), NEW k \in 0 .. Len(s)
    PROVE  /\ SubSeq(s, 1, k) \in Seq(S) /\ SubSeq(s, k + 1, Len(s)) \in Seq(S)
           /\ Len(SubSeq(s, 1, k)) = k /\ Len(SubSeq(s, k + 1, Len(s))) = Len(s) - k
           /\ s = SubSeq(s, 1, k) \o SubSeq(s, k + 1, Len(s))
<1> DEFINE a == SubSeq(s, 1, k)
           b == SubSeq(s, k + 1, Len(s))
<1>1. Len(s) \in Nat
  BY LenProperties
<1>2. /\ 1 \in 1 .. Len(s) + 1 /\ k \in 1 - 1 .. Len(s) /\ k - 1 + 1 = k
      /\ k + 1 \in 1 .. Len(s) + 1 /\ Len(s) \in (k + 1) - 1 .. Len(s) /\ Len(s) - (k + 1) + 1 = Len(s) - k
  BY <1>1
<1>3. a \in Seq(S) /\ Len(a) = k /\ \A i \in 1 .. k : a[i] = s[1 + i - 1]
  BY <1>2, CutOut
<1>4. b \in Seq(S) /\ Len(b) = Len(s) - k /\ \A i \in 1 .. Len(s) - k : b[i] = s[(k + 1) + i - 1]
  <2> DEFINE m == k + 1
             n == Len(s)
  <2>1. m \in 1 .. n + 1 /\ n \in m - 1 .. n /\ n - m + 1 = n - k /\ b = SubSeq(s, m, n)
    BY <1>2
  <2> HIDE DEF m, b
  <2>2. b \in Seq(S) /\ Len(b) = n - m + 1 /\ \A i \in 1 .. n - m + 1 : b[i] = s[m + i - 1]
    BY <2>1, CutOut
  <2> HIDE DEF n
  <2>3. b \in Seq(S) /\ Len(b) = n - k /\ \A i \in 1 .. n - k : b[i] = s[m + i - 1]
    BY <2>1, <2>2, Zenon
  <2> QED
    BY <2>3 DEF m, n
<1> HIDE DEF a, b
<1> DEFINE t == a \o b
<1>5. /\ t \in Seq(S) /\ Len(t) = Len(a) + Len(b)
      /\ \A i \in 1 .. Len(a) : t[i] = a[i]
      /\ \A i \in 1 .. Len(b) : t[Len(a) + i] = b[i]
  BY <1>3, <1>4, Joined
<1> HIDE DEF t
<1>6. Len(t) = Len(s)
  BY <1>1, <1>3, <1>4, <1>5
<1>7. ASSUME NEW i \in 1 .. Len(s) PROVE s[i] = t[i]
  <2>1. CASE i <= k
    <3>1. i \in 1 .. k /\ 1 + i - 1 = i
      BY <2>1
    <3> QED
      BY <1>3, <1>5, <3>1
  <2>2. CASE ~(i <= k)
    <3>1. i - k \in 1 .. Len(s) - k /\ k + (i - k) = i /\ (k + 1) + (i - k) - 1 = i
      BY <1>1, <2>2
    <3>2. b[i - k] = s[i]
      BY <1>4, <3>1
    <3>3. t[i] = b[i - k]
      BY <1>3, <1>4, <1>5, <3>1
    <3> QED
      BY <3>2, <3>3
  <2> QED
    BY <2>1, <2>2
<1>8. s = t
  BY <1>5, <1>6, <1>7, SeqEqual
<1> QED
  BY <1>3, <1>4, <1>8 DEF t, a, b

\* What is behind the front of a concatenation that is as long as its first part.
LEMMA Behinds ==
    ASSUME NEW S, NEW a \in Seq(S), NEW b \in Seq(S)
    PROVE  /\ SubSeq(a \o b, 1, Len(a)) = a
           /\ SubSeq(a \o b, Len(a) + 1, Len(a \o b)) = b
<1> DEFINE s == a \o b
           c == SubSeq(s, 1, Len(a))
           d == SubSeq(s, Len(a) + 1, Len(s))
<1>1. /\ s \in Seq(S) /\ Len(a) \in Nat /\ Len(b) \in Nat /\ Len(s) = Len(a) + Len(b)
      /\ \A i \in 1 .. Len(a) : s[i] = a[i]
      /\ \A i \in 1 .. Len(b) : s[Len(a) + i] = b[i]
  BY Joined
<1> HIDE DEF s
<1>2. /\ 1 \in 1 .. Len(s) + 1 /\ Len(a) \in 1 - 1 .. Len(s) /\ Len(a) - 1 + 1 = Len(a)
      /\ Len(a) + 1 \in 1 .. Len(s) + 1 /\ Len(s) \in (Len(a) + 1) - 1 .. Len(s)
      /\ Len(s) - (Len(a) + 1) + 1 = Len(b)
  BY <1>1
<1>3. c \in Seq(S) /\ Len(c) = Len(a) /\ \A i \in 1 .. Len(a) : c[i] = s[1 + i - 1]
  BY <1>1, <1>2, CutOut
<1>4. d \in Seq(S) /\ Len(d) = Len(b) /\ \A i \in 1 .. Len(b) : d[i] = s[(Len(a) + 1) + i - 1]
  BY <1>1, <1>2, CutOut
<1> HIDE DEF c, d
<1>5. ASSUME NEW i \in 1 .. Len(a) PROVE c[i] = a[i]
  <2>1. 1 + i - 1 = i
    BY <1>1
  <2> QED
    BY <1>1, <1>3, <2>1
<1>6. ASSUME NEW i \in 1 .. Len(b) PROVE d[i] = b[i]
  <2>1. (Len(a) + 1) + i - 1 = Len(a) + i
    BY <1>1
  <2> QED
    BY <1>1, <1>4, <2>1
<1>7. c = a
  BY <1>3, <1>5, SeqEqual
<1>8. d = b
  BY <1>4, <1>6, SeqEqual
<1> QED
  BY <1>7, <1>8 DEF c, d, s

\* A name for the equation, so that a lemma can be applied to it.
Joins(s, a, b) == s = a \o b

\* When two pairs make the same sequence and the one's front is the shorter one, the
\* difference of the fronts comes before the other's rest.
LEMMA Shared ==
    ASSUME NEW S, NEW a \in Seq(S), NEW b \in Seq(S), NEW c \in Seq(S), NEW d \in Seq(S),
           NEW s, Joins(s, a, b), Joins(s, c, d), Len(c) <= Len(a)
    PROVE  /\ SubSeq(a, Len(c) + 1, Len(a)) \in Seq(S)
           /\ Joins(d, SubSeq(a, Len(c) + 1, Len(a)), b)
<1> DEFINE e == SubSeq(a, Len(c) + 1, Len(a))
           f == SubSeq(a, 1, Len(c))
<1>0. s = a \o b /\ a \o b = c \o d
  BY DEF Joins
<1>1. Len(a) \in Nat /\ Len(c) \in Nat /\ Len(c) \in 0 .. Len(a)
  <2>1. Len(a) \in Nat /\ Len(c) \in Nat
    BY LenProperties
  <2> QED
    BY <2>1
<1>2. e \in Seq(S) /\ f \in Seq(S) /\ Len(f) = Len(c) /\ a = f \o e
  <2>1. a \in Seq(S) /\ Len(c) \in 0 .. Len(a)
    BY <1>1
  <2> QED
    BY ONLY <2>1, Halved, ZenonT(60)
<1>3. f = c
  <2> DEFINE t == a \o b
  <2>1. /\ \A i \in 1 .. Len(a) : t[i] = a[i]
        /\ \A i \in 1 .. Len(c) : t[i] = c[i]
    BY <1>0, Joined
  <2> HIDE DEF t
  <2>2. 1 \in 1 .. Len(a) + 1 /\ Len(c) \in 1 - 1 .. Len(a) /\ Len(c) - 1 + 1 = Len(c)
    BY <1>1
  <2>3. \A i \in 1 .. Len(c) : f[i] = a[1 + i - 1]
    BY <2>2, CutOut
  <2> HIDE DEF f, e
  <2>4. ASSUME NEW i \in 1 .. Len(c) PROVE f[i] = c[i]
    <3>1. 1 + i - 1 = i /\ i \in 1 .. Len(a)
      BY <1>1
    <3> QED
      BY <2>1, <2>3, <3>1
  <2> QED
    BY <1>2, <2>4, SeqEqual
<1>4. d = e \o b
  <2> HIDE DEF e, f
  <2>1. c \o d = c \o (e \o b)
    <3>0. c \in Seq(S) /\ e \in Seq(S) /\ b \in Seq(S)
      BY <1>2
    <3>1. (c \o e) \o b = c \o (e \o b)
      BY ONLY <3>0, ConcatAssociative, SMTT(30)
    <3>2. a = c \o e
      BY <1>2, <1>3, Zenon
    <3> QED
      BY <1>0, <3>1, <3>2, Zenon
  <2>2. e \o b \in Seq(S)
    BY <1>2, ConcatProperties
  <2> QED
    BY <2>1, <2>2, ConcatSimplifications
<1> HIDE DEF e
<1> QED
  BY <1>2, <1>4 DEF Joins, e
-----------------------------------------------------------------------------
(* Message: the round trips of Route                                       *)

\* A message is none of what is thrown.
LEMMA NotThrown ==
    ASSUME NEW t, NEW id, NEW data
    PROVE  [type |-> t, id |-> id, data |-> data] # Thrown
<1>1. DOMAIN [type |-> t, id |-> id, data |-> data] = {"type", "id", "data"}
  OBVIOUS
<1>2. DOMAIN Thrown = {"thrown"}
  BY DEF Thrown
<1>3. "thrown" \notin {"type", "id", "data"}
  OBVIOUS
<1> QED
  BY <1>1, <1>2, <1>3, Zenon

\* A name for the layout of a packet.
Packs(bytes, t, id, data) == bytes = <<t, Len(id), Len(data)>> \o id \o data

\* A packet that is put together so is read back in its parts.
LEMMA Binary ==
    ASSUME NEW t \in Byte, NEW id \in Seq(Byte), NEW data \in Seq(Byte),
           Len(id) <= 255, Len(data) <= 255,
           NEW bytes, Packs(bytes, t, id, data)
    PROVE  /\ bytes \in Seq(Byte)
           /\ Len(bytes) = 3 + Len(id) + Len(data)
           /\ bytes[1] = t /\ bytes[2] = Len(id) /\ bytes[3] = Len(data)
           /\ SubSeq(bytes, 4, 3 + Len(id)) = id
           /\ SubSeq(bytes, 4 + Len(id), Len(bytes)) = data
<1> DEFINE head == <<t, Len(id), Len(data)>>
           front == head \o id
<1>1. Len(id) \in Nat /\ Len(data) \in Nat
  BY LenProperties
<1>2. Len(id) \in Byte /\ Len(data) \in Byte
  <2>1. \A l \in Nat : l <= 255 => l \in 0 .. 255
    OBVIOUS
  <2> QED
    BY <1>1, <2>1, Zenon DEF Byte
<1>3. head \in Seq(Byte) /\ Len(head) = 3 /\ head[1] = t /\ head[2] = Len(id) /\ head[3] = Len(data)
  BY <1>2
<1> HIDE DEF head
<1>4. /\ front \in Seq(Byte) /\ Len(front) = Len(head) + Len(id)
      /\ \A i \in 1 .. Len(head) + Len(id) :
            front[i] = IF i <= Len(head) THEN head[i] ELSE id[i - Len(head)]
  <2>1. head \in Seq(Byte) /\ id \in Seq(Byte)
    BY <1>3
  <2> QED
    BY ONLY <2>1, ConcatProperties
<1>5. bytes = front \o data
  BY DEF head, Packs
<1> HIDE DEF front
<1>6. /\ bytes \in Seq(Byte) /\ Len(bytes) = Len(front) + Len(data)
      /\ \A i \in 1 .. Len(front) + Len(data) :
            bytes[i] = IF i <= Len(front) THEN front[i] ELSE data[i - Len(front)]
  <2> DEFINE u == front \o data
  <2>1. /\ u \in Seq(Byte) /\ Len(u) = Len(front) + Len(data)
        /\ \A i \in 1 .. Len(front) + Len(data) :
              u[i] = IF i <= Len(front) THEN front[i] ELSE data[i - Len(front)]
    BY <1>4, ConcatProperties
  <2> HIDE DEF u
  <2>2. bytes = u
    BY <1>5 DEF u
  <2> QED
    BY <2>1, <2>2, Zenon
<1>12. Len(front) = 3 + Len(id)
  BY <1>3, <1>4
<1>7. Len(bytes) = 3 + Len(id) + Len(data)
  BY <1>1, <1>6, <1>12
<1>8. \A i \in 1 .. 3 : bytes[i] = head[i]
  <2> TAKE i \in 1 .. 3
  <2>1. i \in 1 .. Len(front) + Len(data) /\ i <= Len(front) /\ i \in 1 .. Len(head) + Len(id) /\ i <= Len(head)
    BY <1>1, <1>3, <1>4, <1>12
  <2> QED
    BY <1>4, <1>6, <2>1
<1>9. SubSeq(bytes, 4, 3 + Len(id)) = id
  <2> DEFINE s == SubSeq(bytes, 4, 3 + Len(id))
  <2>1. \A i \in 1 .. Len(id) : bytes[4 + i - 1] = id[i]
    <3> TAKE i \in 1 .. Len(id)
    <3>1. 4 + i - 1 \in 1 .. Len(front) + Len(data) /\ 4 + i - 1 <= Len(front)
          /\ 4 + i - 1 \in 1 .. Len(head) + Len(id) /\ ~(4 + i - 1 <= Len(head))
          /\ (4 + i - 1) - Len(head) = i
      BY <1>1, <1>3, <1>4, <1>12
    <3> QED
      BY <1>4, <1>6, <3>1
  <2>2. \A i \in 4 .. 3 + Len(id) : bytes[i] \in Byte
    <3> TAKE i \in 4 .. 3 + Len(id)
    <3>1. i \in 1 .. Len(bytes)
      BY <1>1, <1>7
    <3> QED
      BY <1>6, <3>1, ElementOfSeq
  <2>3. 4 \in Int /\ 3 + Len(id) \in Int
        /\ (IF 4 <= 3 + Len(id) THEN (3 + Len(id)) - 4 + 1 ELSE 0) = Len(id)
        /\ (3 + Len(id)) - 4 + 1 = Len(id)
    BY <1>1
  <2>4. s \in Seq(Byte) /\ Len(s) = Len(id) /\ \A i \in 1 .. Len(id) : s[i] = bytes[4 + i - 1]
    BY <2>2, <2>3, SubSeqProperties
  <2> HIDE DEF s
  <2>5. s = id
    BY <2>1, <2>4, SeqEqual
  <2> QED
    BY <2>5 DEF s
<1>10. SubSeq(bytes, 4 + Len(id), Len(bytes)) = data
  <2> DEFINE s == SubSeq(bytes, 4 + Len(id), Len(bytes))
  <2>1. \A i \in 1 .. Len(data) : bytes[(4 + Len(id)) + i - 1] = data[i]
    <3> TAKE i \in 1 .. Len(data)
    <3>1. (4 + Len(id)) + i - 1 \in 1 .. Len(front) + Len(data) /\ ~((4 + Len(id)) + i - 1 <= Len(front))
          /\ ((4 + Len(id)) + i - 1) - Len(front) = i
      BY <1>1, <1>12
    <3> QED
      BY <1>6, <3>1
  <2>2. \A i \in 4 + Len(id) .. Len(bytes) : bytes[i] \in Byte
    <3> TAKE i \in 4 + Len(id) .. Len(bytes)
    <3>1. i \in 1 .. Len(bytes)
      BY <1>1, <1>7
    <3> QED
      BY <1>6, <3>1, ElementOfSeq
  <2>3. 4 + Len(id) \in Int /\ Len(bytes) \in Int
        /\ (IF 4 + Len(id) <= Len(bytes) THEN Len(bytes) - (4 + Len(id)) + 1 ELSE 0) = Len(data)
        /\ Len(bytes) - (4 + Len(id)) + 1 = Len(data)
    BY <1>1, <1>7
  <2>4. s \in Seq(Byte) /\ Len(s) = Len(data) /\ \A i \in 1 .. Len(data) : s[i] = bytes[(4 + Len(id)) + i - 1]
    BY <2>2, <2>3, SubSeqProperties
  <2> HIDE DEF s
  <2>5. s = data
    BY <2>1, <2>4, SeqEqual
  <2> QED
    BY <2>5 DEF s
<1>11. bytes[1] = t /\ bytes[2] = Len(id) /\ bytes[3] = Len(data)
  BY <1>3, <1>8
<1> QED
  BY <1>6, <1>7, <1>9, <1>10, <1>11

\* What Message::fromBinary makes of the bytes of Message::toBinary is the message,
\* for every message there is (the constructor throws at parts of more than 255).
THEOREM BinaryRoundTrip ==
    ASSUME NEW t \in Byte, NEW id \in Seq(Byte), NEW data \in Seq(Byte),
           Message(t, id, data) # Thrown
    PROVE  fromBinary(toBinary(Message(t, id, data))) = Message(t, id, data)
<1> DEFINE m == Message(t, id, data)
           bytes == toBinary(m)
<1>1. Len(id) \in Nat /\ Len(data) \in Nat
  BY LenProperties
<1>2. ~(Len(id) > 255 \/ Len(data) > 255)
  BY Zenon DEF Message
<1>3. m = [type |-> t, id |-> id, data |-> data]
  BY <1>2, Zenon DEF Message
<1>4. Packs(bytes, t, id, data)
  <2> HIDE DEF m
  <2>1. m.type = t /\ m.id = id /\ m.data = data
    BY <1>3
  <2> QED
    BY <2>1, Zenon DEF toBinary, Packs
<1>5. Len(id) <= 255 /\ Len(data) <= 255
  BY <1>1, <1>2
<1> HIDE DEF m, bytes
<1>6. /\ Len(bytes) = 3 + Len(id) + Len(data)
      /\ bytes[1] = t /\ bytes[2] = Len(id) /\ bytes[3] = Len(data)
      /\ SubSeq(bytes, 4, 3 + Len(id)) = id
      /\ SubSeq(bytes, 4 + Len(id), Len(bytes)) = data
  BY <1>4, <1>5, Binary
<1>7. WellCut(bytes)
  <2>1. Len(bytes) >= 3
    BY <1>1, <1>6
  <2> QED
    BY <1>6, <2>1 DEF WellCut
<1>8. fromBinary(bytes) = Message(t, id, data)
  BY <1>6, <1>7, Zenon DEF fromBinary
<1> QED
  BY <1>8 DEF bytes, m

\* What Route's fromJson makes of the document of toJson is the message: the type is
\* narrowed to itself and the hexadecimal text gives the bytes.
THEOREM JsonRoundTrip ==
    ASSUME NEW t \in Byte, NEW id \in Seq(Byte), NEW data \in Seq(Byte),
           Message(t, id, data) # Thrown
    PROVE  fromJson(toJson(Message(t, id, data))) = Message(t, id, data)
<1> DEFINE m == Message(t, id, data)
           doc == toJson(m)
<1>1. ~(Len(id) > 255 \/ Len(data) > 255)
  BY Zenon DEF Message
<1>2. m = [type |-> t, id |-> id, data |-> data]
  BY <1>1, Zenon DEF Message
<1>3. doc = [connection_type |-> [int |-> t], id |-> [text |-> bytesToHex(id)],
             data |-> [text |-> bytesToHex(data)]]
  BY <1>2 DEF toJson
<1> HIDE DEF m, doc
<1>4. /\ doc.connection_type.int = t /\ doc.id.text = bytesToHex(id) /\ doc.data.text = bytesToHex(data)
      /\ "int" \in DOMAIN doc.connection_type /\ "text" \in DOMAIN doc.id /\ "text" \in DOMAIN doc.data
      /\ DOMAIN doc = {"connection_type", "id", "data"}
  BY <1>3
<1>5. Narrow(t) = t /\ t \in Byte
  BY NarrowByte
<1>6. /\ IsHex(bytesToHex(id)) /\ hexToBytes(bytesToHex(id)) = id
      /\ IsHex(bytesToHex(data)) /\ hexToBytes(bytesToHex(data)) = data
  BY HexRoundTrip
<1>7. WellFormed(doc)
  <2>1. {"connection_type", "id", "data"} \subseteq DOMAIN doc
    BY <1>4
  <2>2. "text" \in DOMAIN doc.id \cap DOMAIN doc.data
    BY <1>4
  <2> QED
    BY <1>4, <1>5, <1>6, <2>1, <2>2, Zenon DEF WellFormed
<1>8. fromJson(doc) = Message(t, id, data)
  BY <1>4, <1>5, <1>6, <1>7, Zenon DEF fromJson
<1> QED
  BY <1>8 DEF doc, m
-----------------------------------------------------------------------------
(* FlattenSeq of an item more, and of two halves                           *)

\* Nothing to put together.
LEMMA FlattenEmpty == FlattenSeq(<<>>) = <<>>
BY Zenon DEF FlattenSeq

\* The function at a place.
LEMMA FlatStep ==
    ASSUME NEW g, NEW s, NEW n \in Nat, IsFlat(g, s, n), NEW i \in 1 .. n
    PROVE  /\ g[i] = IF i = 1 THEN s[i] ELSE g[i - 1] \o s[i]
           /\ i # 1 => i - 1 \in 1 .. n
<1>1. i # 1 => i - 1 \in 1 .. n
  OBVIOUS
<1>2. g[i] = IF i = 1 THEN s[i] ELSE g[i - 1] \o s[i]
  BY Zenon DEF IsFlat
<1> QED
  BY <1>1, <1>2

\* Two such functions agree on the front that their sequences share.
LEMMA FlatAgree ==
    ASSUME NEW g, NEW h, NEW s, NEW t, NEW m \in Nat, NEW n \in Nat, m <= n,
           IsFlat(g, s, m), IsFlat(h, t, n), \A i \in 1 .. m : s[i] = t[i]
    PROVE  \A i \in 1 .. m : g[i] = h[i]
<1> DEFINE T == {i \in Nat : i \in 1 .. m => g[i] = h[i]}
<1>1. 0 \in T
  OBVIOUS
<1>2. ASSUME NEW i \in T PROVE i + 1 \in T
  <2> SUFFICES ASSUME i + 1 \in 1 .. m PROVE g[i + 1] = h[i + 1]
    OBVIOUS
  <2>1. i \in Nat /\ (i \in 1 .. m => g[i] = h[i])
    OBVIOUS
  <2>2. i + 1 \in 1 .. n /\ (i + 1 # 1 => i \in 1 .. m) /\ (i + 1) - 1 = i
    BY <2>1
  <2> DEFINE j == i + 1
  <2>3. j \in 1 .. m /\ j \in 1 .. n /\ j - 1 = i
    BY <2>2
  <2> HIDE DEF j
  <2>4. g[j] = IF j = 1 THEN s[j] ELSE g[j - 1] \o s[j]
    BY <2>3, FlatStep
  <2>5. h[j] = IF j = 1 THEN t[j] ELSE h[j - 1] \o t[j]
    BY <2>3, FlatStep
  <2>6. j # 1 => g[i] = h[i]
    BY <2>1, <2>2 DEF j
  <2>7. g[j] = h[j]
    BY <2>3, <2>4, <2>5, <2>6, Zenon
  <2> QED
    BY <2>7 DEF j
<1>3. T = Nat
  <2> HIDE DEF T
  <2>1. T \in SUBSET Nat
    BY DEF T
  <2> QED
    BY <1>1, <1>2, <2>1, Ind
<1>4. ASSUME NEW i \in 1 .. m PROVE g[i] = h[i]
  <2>1. i \in Nat
    OBVIOUS
  <2>2. i \in T
    BY <1>3, <2>1, Zenon
  <2> QED
    BY <2>2
<1> QED
  BY <1>4

\* The last element comes last.
LEMMA FlattenLast ==
    ASSUME NEW s, NEW t, NEW m \in Nat, m # 0, Len(s) = m, Len(t) = m + 1,
           \A i \in 1 .. m : s[i] = t[i]
    PROVE  FlattenSeq(t) = FlattenSeq(s) \o t[m + 1]
<1> DEFINE n == m + 1
<1>1. n \in Nat /\ n # 0 /\ m <= n /\ n \in 1 .. n /\ n # 1 /\ n - 1 = m /\ m \in 1 .. m
  OBVIOUS
<1>2. Len(t) = n
  OBVIOUS
<1> HIDE DEF n
<1>3. PICK g : IsFlat(g, s, m) /\ FlattenSeq(s) = g[m]
  BY FlatDef
<1>4. PICK h : IsFlat(h, t, n) /\ FlattenSeq(t) = h[n]
  BY <1>1, <1>2, FlatDef
<1>5. IsFlat(g, s, m)
  BY <1>3
<1>6. IsFlat(h, t, n)
  BY <1>4
<1>7. m <= n
  BY <1>1
<1>8. n \in Nat
  BY <1>1
<1>9. \A i \in 1 .. m : g[i] = h[i]
  BY <1>5, <1>6, <1>7, <1>8, FlatAgree
<1>10. n \in 1 .. n
  BY <1>1
<1>11. h[n] = IF n = 1 THEN t[n] ELSE h[n - 1] \o t[n]
  BY <1>6, <1>8, <1>10, FlatStep
<1>12. h[n] = g[m] \o t[n]
  BY <1>1, <1>9, <1>11, Zenon
<1> QED
  BY <1>3, <1>4, <1>12, Zenon DEF n

\* One element more.
LEMMA FlattenAppend ==
    ASSUME NEW S, NEW s \in Seq(Seq(S)), NEW x \in Seq(S), FlattenSeq(s) \in Seq(S)
    PROVE  FlattenSeq(Append(s, x)) = FlattenSeq(s) \o x
<1> DEFINE t == Append(s, x)
           m == Len(s)
<1>1. m \in Nat /\ Len(t) = m + 1 /\ t[m + 1] = x /\ \A i \in 1 .. m : s[i] = t[i]
  BY LenProperties, AppendProperties
<1> HIDE DEF t
<1>2. CASE s = <<>>
  <2>1. m = 0 /\ Len(t) = 1 /\ t[1] = x
    BY <1>1, <1>2
  <2>6. Len(t) \in Nat /\ Len(t) # 0
    BY <2>1
  <2>2. PICK h : IsFlat(h, t, Len(t)) /\ FlattenSeq(t) = h[Len(t)]
    BY <2>6, FlatDef
  <2>3. h[1] = t[1]
    BY <2>1, <2>2, FlatStep
  <2>4. FlattenSeq(t) = x
    BY <2>1, <2>2, <2>3, Zenon
  <2>5. <<>> \o x = x
    BY ConcatEmptySeq
  <2> QED
    BY <1>2, <2>4, <2>5, FlattenEmpty, Zenon DEF t
<1>3. CASE s # <<>>
  <2>1. m # 0
    BY <1>3, EmptySeq
  <2>2. FlattenSeq(t) = FlattenSeq(s) \o t[m + 1]
    BY <1>1, <2>1, FlattenLast
  <2> QED
    BY <1>1, <2>2, Zenon DEF t
<1> QED
  BY <1>2, <1>3

\* The sequences of a length at which a fact is known.
LEMMA FlattenType ==
    ASSUME NEW S, NEW s \in Seq(Seq(S))
    PROVE  FlattenSeq(s) \in Seq(S)
<1> DEFINE T == {n \in Nat : \A t \in Seq(Seq(S)) : Len(t) = n => FlattenSeq(t) \in Seq(S)}
<1>1. 0 \in T
  <2> SUFFICES ASSUME NEW t \in Seq(Seq(S)), Len(t) = 0 PROVE FlattenSeq(t) \in Seq(S)
    OBVIOUS
  <2>1. t = <<>>
    BY EmptySeq
  <2> QED
    BY <2>1, FlattenEmpty, EmptySeq
<1>2. ASSUME NEW n \in T PROVE n + 1 \in T
  <2> SUFFICES ASSUME NEW t \in Seq(Seq(S)), Len(t) = n + 1 PROVE FlattenSeq(t) \in Seq(S)
    OBVIOUS
  <2>1. n \in Nat
    OBVIOUS
  <2>2. t # <<>>
    BY <2>1, EmptySeq
  <2>3. PICK u \in Seq(Seq(S)), x \in Seq(S) : t = Append(u, x)
    BY <2>2, SequenceEmptyOrAppend
  <2>4. Len(u) = n
    BY <2>1, <2>3, AppendProperties, LenProperties
  <2>5. FlattenSeq(u) \in Seq(S)
    BY <2>4
  <2>6. FlattenSeq(t) = FlattenSeq(u) \o x
    BY <2>3, <2>5, FlattenAppend
  <2> QED
    BY <2>5, <2>6, ConcatProperties
<1>3. T = Nat
  <2> HIDE DEF T
  <2>1. T \in SUBSET Nat
    BY DEF T
  <2> QED
    BY <1>1, <1>2, <2>1, Ind
<1>4. Len(s) \in Nat
  BY LenProperties
<1>5. Len(s) \in T
  BY <1>3, <1>4, Zenon
<1> QED
  BY <1>5

\* One element is itself.
LEMMA FlattenOne ==
    ASSUME NEW S, NEW x \in Seq(S)
    PROVE  FlattenSeq(<<x>>) = x
<1>1. <<>> \in Seq(Seq(S)) /\ FlattenSeq(<<>>) \in Seq(S) /\ <<>> \o x = x
  BY FlattenEmpty, EmptySeq, ConcatEmptySeq
<1>2. <<x>> = Append(<<>>, x)
  OBVIOUS
<1>3. FlattenSeq(Append(<<>>, x)) = FlattenSeq(<<>>) \o x
  BY <1>1, FlattenAppend
<1> QED
  BY <1>1, <1>2, <1>3, FlattenEmpty, Zenon

\* Two sequences of sequences, one behind the other.
LEMMA FlattenJoined ==
    ASSUME NEW S, NEW s \in Seq(Seq(S)), NEW t \in Seq(Seq(S))
    PROVE  FlattenSeq(s \o t) = FlattenSeq(s) \o FlattenSeq(t)
<1> DEFINE T == {n \in Nat : \A u \in Seq(Seq(S)) : Len(u) = n => FlattenSeq(s \o u) = FlattenSeq(s) \o FlattenSeq(u)}
<1>1. 0 \in T
  <2> SUFFICES ASSUME NEW u \in Seq(Seq(S)), Len(u) = 0
               PROVE  FlattenSeq(s \o u) = FlattenSeq(s) \o FlattenSeq(u)
    OBVIOUS
  <2>1. u = <<>>
    BY EmptySeq
  <2>2. s \o u = s
    BY <2>1, ConcatEmptySeq
  <2>3. FlattenSeq(s) \o FlattenSeq(u) = FlattenSeq(s)
    BY <2>1, FlattenEmpty, FlattenType, ConcatEmptySeq
  <2> QED
    BY <2>2, <2>3
<1>2. ASSUME NEW n \in T PROVE n + 1 \in T
  <2> SUFFICES ASSUME NEW u \in Seq(Seq(S)), Len(u) = n + 1
               PROVE  FlattenSeq(s \o u) = FlattenSeq(s) \o FlattenSeq(u)
    OBVIOUS
  <2>1. n \in Nat
    OBVIOUS
  <2>2. u # <<>>
    BY <2>1, EmptySeq
  <2>3. PICK v \in Seq(Seq(S)), x \in Seq(S) : u = Append(v, x)
    BY <2>2, SequenceEmptyOrAppend
  <2>4. Len(v) = n
    BY <2>1, <2>3, AppendProperties, LenProperties
  <2>5. FlattenSeq(s \o v) = FlattenSeq(s) \o FlattenSeq(v)
    BY <2>4
  <2>6. FlattenSeq(u) = FlattenSeq(v) \o x
    BY <2>3, FlattenType, FlattenAppend
  <2>7. s \o u = Append(s \o v, x) /\ s \o v \in Seq(Seq(S))
    <3> DEFINE B == Seq(S)
               w == <<x>>
    <3>1. s \in Seq(B) /\ v \in Seq(B) /\ x \in B
      OBVIOUS
    <3> HIDE DEF B
    <3>2. Append(v, x) = v \o w /\ w \in Seq(B)
      BY <3>1, AppendIsConcat
    <3>3. s \o v \in Seq(B)
      BY <3>1, ConcatProperties
    <3>4. Append(s \o v, x) = (s \o v) \o w
      BY <3>1, <3>3, AppendIsConcat
    <3> HIDE DEF w
    <3>7. s \in Seq(B)
      BY <3>1
    <3>8. v \in Seq(B)
      BY <3>1
    <3>9. w \in Seq(B)
      BY <3>2
    <3>5. (s \o v) \o w = s \o (v \o w)
      BY ONLY <3>7, <3>8, <3>9, ConcatAssociative, SMTT(30)
    <3>6. s \o u = Append(s \o v, x)
      BY <2>3, <3>2, <3>4, <3>5, Zenon
    <3> QED
      BY <3>3, <3>6 DEF B
  <2>8. FlattenSeq(s \o u) = FlattenSeq(s \o v) \o x
    BY <2>7, FlattenType, FlattenAppend
  <2>9. (FlattenSeq(s) \o FlattenSeq(v)) \o x = FlattenSeq(s) \o (FlattenSeq(v) \o x)
    <3>1. FlattenSeq(s) \in Seq(S) /\ FlattenSeq(v) \in Seq(S)
      BY FlattenType
    <3>2. \A y, z \in Seq(S) : (y \o z) \o x = y \o (z \o x)
      BY ConcatAssociative, SMTT(30)
    <3> QED
      BY <3>1, <3>2, Zenon
  <2> QED
    BY <2>5, <2>6, <2>8, <2>9, Zenon
<1>3. T = Nat
  <2> HIDE DEF T
  <2>1. T \in SUBSET Nat
    BY DEF T
  <2> QED
    BY <1>1, <1>2, <2>1, Ind
<1>4. Len(t) \in Nat
  BY LenProperties
<1>5. Len(t) \in T
  BY <1>3, <1>4, Zenon
<1> QED
  BY <1>5
-----------------------------------------------------------------------------
(* What noise, frames and acknowledgements look like                       *)

\* The first k items are noise, and k + 1 is the first that is not, if there is one.
Leads(items, k) ==
    /\ k \in 0 .. Len(items)
    /\ \A i \in 1 .. k : IsNoise(items[i])
    /\ k < Len(items) => ~IsNoise(items[k + 1])

\* What is left of the items that were transmitted: all from the first one on that is
\* not noise, and in front of it what is left of the noise.
Stands(left, items) ==
    \E k \in 0 .. Len(items) :
        LET front == FlattenSeq(SubSeq(items, 1, k))
            rest == FlattenSeq(SubSeq(items, k + 1, Len(items)))
        IN /\ Leads(items, k)
           /\ \E j \in 0 .. Len(front) : left = SubSeq(front, j + 1, Len(front)) \o rest

\* No pair in s begins a header or an acknowledgement.
Silent(s) == \A i \in 1 .. Len(s) - 1 : ~Begins(s[i], s[i + 1])

\* And it does not complete a pair that began before it.
Quiet(s) == Silent(s) /\ (s # <<>> => s[1] \notin {221, 75})

\* An item is a sequence of bytes, and not empty.
LEMMA ItemIsSeq ==
    ASSUME NEW item \in Items
    PROVE  item \in Seq(Byte) /\ item # <<>> /\ Len(item) \in Nat \ {0}
<1>1. item \in Seq(Byte) /\ item # <<>>
  BY BluetoothAssumption
<1> QED
  BY <1>1, EmptySeq

\* Items make a sequence of sequences.
LEMMA ItemsAreSeqs == Seq(Items) \subseteq Seq(Seq(Byte))
<1>1. Items \subseteq Seq(Byte)
  BY BluetoothAssumption
<1> QED
  BY <1>1, SeqMonotonic

\* A header at a place, by its two bytes.
LEMMA StartsHeader ==
    ASSUME NEW s \in Seq(Byte), NEW i \in 1 .. Len(s) - 1
    PROVE  StartsWith(s, i, Header) <=> s[i] = 241 /\ s[i + 1] = 221
<1> DEFINE c == SubSeq(s, i, i + 1)
<1>1. Len(s) \in Nat
  BY LenProperties
<1>2. /\ i \in 1 .. Len(s) + 1 /\ i + 1 \in i - 1 .. Len(s) /\ (i + 1) - i + 1 = 2
      /\ i + 2 - 1 = i + 1 /\ i + 2 - 1 <= Len(s) /\ i + 1 - 1 = i /\ 1 \in 1 .. 2 /\ 2 \in 1 .. 2
  BY <1>1
<1>3. c \in Seq(Byte) /\ Len(c) = (i + 1) - i + 1 /\ \A k \in 1 .. (i + 1) - i + 1 : c[k] = s[i + k - 1]
  BY <1>2, CutOut
<1>4. Len(c) = 2 /\ c[1] = s[i] /\ c[2] = s[i + 1]
  BY <1>2, <1>3
<1>5. Header = <<241, 221>> /\ Len(Header) = 2 /\ Header[1] = 241 /\ Header[2] = 221 /\ Header \in Seq(Byte)
  BY DEF Header, Byte
<1>6. StartsWith(s, i, Header) <=> c = Header
  BY <1>2, <1>5 DEF StartsWith
<1> HIDE DEF c
<1>7. ASSUME c[1] = 241, c[2] = 221 PROVE c = Header
  <2>1. \A k \in 1 .. Len(c) : c[k] = Header[k]
    <3>1. \A k \in 1 .. 2 : k = 1 \/ k = 2
      OBVIOUS
    <3> QED
      BY <1>4, <1>5, <1>7, <3>1
  <2> QED
    BY <1>3, <1>4, <1>5, <2>1, SeqEqual
<1>8. c = Header <=> c[1] = 241 /\ c[2] = 221
  BY <1>5, <1>7
<1> QED
  BY <1>4, <1>6, <1>8

\* An acknowledgement at a place, by its four bytes.
LEMMA StartsAck ==
    ASSUME NEW s \in Seq(Byte), NEW i \in 1 .. Len(s) - 3
    PROVE  StartsWith(s, i, Ack) <=> s[i] = 79 /\ s[i + 1] = 75 /\ s[i + 2] = 13 /\ s[i + 3] = 10
<1> DEFINE c == SubSeq(s, i, i + 3)
<1>1. Len(s) \in Nat
  BY LenProperties
<1>2. /\ i \in 1 .. Len(s) + 1 /\ i + 3 \in i - 1 .. Len(s) /\ (i + 3) - i + 1 = 4
      /\ i + 4 - 1 = i + 3 /\ i + 4 - 1 <= Len(s)
      /\ i + 1 - 1 = i /\ i + 2 - 1 = i + 1 /\ i + 3 - 1 = i + 2 /\ i + 4 - 1 = i + 3
      /\ 1 \in 1 .. 4 /\ 2 \in 1 .. 4 /\ 3 \in 1 .. 4 /\ 4 \in 1 .. 4
  BY <1>1
<1>3. c \in Seq(Byte) /\ Len(c) = (i + 3) - i + 1 /\ \A k \in 1 .. (i + 3) - i + 1 : c[k] = s[i + k - 1]
  BY <1>2, CutOut
<1>4. Len(c) = 4 /\ c[1] = s[i] /\ c[2] = s[i + 1] /\ c[3] = s[i + 2] /\ c[4] = s[i + 3]
  BY <1>2, <1>3
<1>5. /\ Len(Ack) = 4 /\ Ack[1] = 79 /\ Ack[2] = 75 /\ Ack[3] = 13 /\ Ack[4] = 10
      /\ Ack \in Seq(Byte)
  BY DEF Ack, Byte
<1>6. StartsWith(s, i, Ack) <=> c = Ack
  BY <1>2, <1>5 DEF StartsWith
<1> HIDE DEF c
<1>7. ASSUME c[1] = 79, c[2] = 75, c[3] = 13, c[4] = 10 PROVE c = Ack
  <2>1. \A k \in 1 .. Len(c) : c[k] = Ack[k]
    <3>1. \A k \in 1 .. 4 : k = 1 \/ k = 2 \/ k = 3 \/ k = 4
      OBVIOUS
    <3> QED
      BY <1>4, <1>5, <1>7, <3>1
  <2> QED
    BY <1>3, <1>4, <1>5, <2>1, SeqEqual, SMTT(30)
<1>8. c = Ack <=> c[1] = 79 /\ c[2] = 75 /\ c[3] = 13 /\ c[4] = 10
  BY <1>5, <1>7
<1> QED
  BY <1>4, <1>6, <1>8

\* What an item that is not noise looks like.
LEMMA Looks ==
    ASSUME NEW item \in Items, ~IsNoise(item)
    PROVE  /\ Len(item) >= 4
           /\ item = Ack \/ IsFrame(item)
           /\ IsFrame(item) => item[1] = 241 /\ item[2] = 221 /\ Len(item) = item[3] + 3
           /\ item = Ack => /\ Len(item) = 4 /\ item[1] = 79 /\ item[2] = 75 /\ item[3] = 13
                            /\ item[4] = 10 /\ ~IsFrame(item)
<1>1. item \in Seq(Byte) /\ Len(item) \in Nat
  BY ItemIsSeq
<1>2. item = Ack \/ IsFrame(item)
  BY DEF IsNoise
<1>3. ASSUME IsFrame(item) PROVE Len(item) >= 4 /\ item[1] = 241 /\ item[2] = 221 /\ Len(item) = item[3] + 3
  <2>1. Len(item) >= 4 /\ StartsWith(item, 1, Header) /\ Len(item) = item[3] + 3
    BY <1>3 DEF IsFrame, FrameLen
  <2>2. 1 \in 1 .. Len(item) - 1
    BY <1>1, <2>1
  <2>3. item[1] = 241 /\ item[1 + 1] = 221
    BY <1>1, <2>1, <2>2, StartsHeader
  <2> QED
    BY <2>1, <2>3
<1>4. ASSUME item = Ack
      PROVE  Len(item) = 4 /\ item[1] = 79 /\ item[2] = 75 /\ item[3] = 13 /\ item[4] = 10
  BY <1>4 DEF Ack
<1> QED
  BY <1>2, <1>3, <1>4

\* What is assumed of noise, by the name used here.
LEMMA NoiseIsQuiet ==
    ASSUME NEW item \in Items, IsNoise(item)
    PROVE  Quiet(item)
BY LineAssumption DEF Quiet, Silent, Header, Ack

\* Two pieces that hold no such pair make none where they meet.
LEMMA QuietJoined ==
    ASSUME NEW a \in Seq(Byte), NEW b \in Seq(Byte), Quiet(a), Quiet(b)
    PROVE  Quiet(a \o b)
<1> DEFINE s == a \o b
<1>1. /\ s \in Seq(Byte) /\ Len(a) \in Nat /\ Len(b) \in Nat /\ Len(s) = Len(a) + Len(b)
      /\ \A i \in 1 .. Len(a) : s[i] = a[i]
      /\ \A i \in 1 .. Len(b) : s[Len(a) + i] = b[i]
  BY Joined
<1>2. a = <<>> => s = b
  BY ConcatEmptySeq
<1>3. b = <<>> => s = a
  BY ConcatEmptySeq
<1> HIDE DEF s
<1>4. ASSUME a # <<>>, b # <<>> PROVE Quiet(s)
  <2>1. Len(a) >= 1 /\ Len(b) >= 1
    BY <1>4, EmptySeq
  <2>2. s[1] = a[1] /\ s[Len(a)] = a[Len(a)] /\ s[Len(a) + 1] = b[1]
    <3>1. 1 \in 1 .. Len(a) /\ Len(a) \in 1 .. Len(a) /\ 1 \in 1 .. Len(b)
      BY <1>1, <2>1
    <3> QED
      BY <1>1, <3>1
  <2>3. s[1] \notin {221, 75} /\ b[1] \notin {221, 75}
    BY <1>4, <2>2 DEF Quiet
  <2>4. ASSUME NEW i \in 1 .. Len(s) - 1 PROVE ~Begins(s[i], s[i + 1])
    <3>1. CASE i < Len(a)
      <4>1. i \in 1 .. Len(a) - 1 /\ i \in 1 .. Len(a) /\ i + 1 \in 1 .. Len(a)
        BY <1>1, <3>1
      <4>2. ~Begins(a[i], a[i + 1])
        BY <4>1 DEF Quiet, Silent
      <4> QED
        BY <1>1, <4>1, <4>2
    <3>2. CASE i = Len(a)
      BY <2>2, <2>3, <3>2 DEF Begins, Header, Ack
    <3>3. CASE i > Len(a)
      <4> DEFINE k == i - Len(a)
      <4>1. k \in 1 .. Len(b) - 1 /\ k \in 1 .. Len(b) /\ k + 1 \in 1 .. Len(b)
            /\ i = Len(a) + k /\ i + 1 = Len(a) + (k + 1)
        BY <1>1, <3>3
      <4> HIDE DEF k
      <4>2. ~Begins(b[k], b[k + 1])
        BY <4>1 DEF Quiet, Silent
      <4>3. s[i] = b[k] /\ s[i + 1] = b[k + 1]
        BY <1>1, <4>1
      <4> QED
        BY <4>2, <4>3
    <3> QED
      BY <1>1, <3>1, <3>2, <3>3
  <2> QED
    BY <2>3, <2>4 DEF Quiet, Silent
<1> QED
  BY <1>2, <1>3, <1>4 DEF s

\* Noise behind noise makes noise.
LEMMA NoiseFlattened ==
    ASSUME NEW items \in Seq(Items), \A i \in 1 .. Len(items) : IsNoise(items[i])
    PROVE  Quiet(FlattenSeq(items))
<1> DEFINE T == {n \in Nat : \A t \in Seq(Items) :
                    Len(t) = n /\ (\A i \in 1 .. Len(t) : IsNoise(t[i])) => Quiet(FlattenSeq(t))}
<1>1. 0 \in T
  <2> SUFFICES ASSUME NEW t \in Seq(Items), Len(t) = 0 PROVE Quiet(FlattenSeq(t))
    OBVIOUS
  <2>1. t = <<>>
    BY EmptySeq
  <2>2. Len(<<>>) = 0
    OBVIOUS
  <2> QED
    BY <2>1, <2>2, FlattenEmpty DEF Quiet, Silent
<1>2. ASSUME NEW n \in T PROVE n + 1 \in T
  <2> SUFFICES ASSUME NEW t \in Seq(Items), Len(t) = n + 1, \A i \in 1 .. Len(t) : IsNoise(t[i])
               PROVE  Quiet(FlattenSeq(t))
    OBVIOUS
  <2>1. n \in Nat
    OBVIOUS
  <2>2. t # <<>>
    BY <2>1, EmptySeq
  <2>3. PICK u \in Seq(Items), x \in Items : t = Append(u, x)
    BY <2>2, SequenceEmptyOrAppend
  <2>4. Len(u) \in Nat /\ Len(t) = Len(u) + 1 /\ t[Len(u) + 1] = x /\ \A i \in 1 .. Len(u) : t[i] = u[i]
    BY <2>3, LenProperties, AppendProperties
  <2>5. Len(u) = n
    BY <2>1, <2>4
  <2>6. IsNoise(x)
    <3>1. Len(u) + 1 \in 1 .. Len(t)
      BY <2>4
    <3> QED
      BY <2>4, <3>1
  <2>7. \A i \in 1 .. Len(u) : IsNoise(u[i])
    <3> TAKE i \in 1 .. Len(u)
    <3>1. i \in 1 .. Len(t)
      BY <2>4
    <3> QED
      BY <2>4, <3>1
  <2>8. Quiet(FlattenSeq(u))
    BY <2>5, <2>7
  <2>9. FlattenSeq(t) = FlattenSeq(u) \o x /\ FlattenSeq(u) \in Seq(Byte)
    <3>1. u \in Seq(Seq(Byte)) /\ x \in Seq(Byte)
      BY ItemsAreSeqs, ItemIsSeq
    <3>2. FlattenSeq(u) \in Seq(Byte)
      BY <3>1, FlattenType
    <3> QED
      BY <2>3, <3>1, <3>2, FlattenAppend
  <2>10. Quiet(x) /\ x \in Seq(Byte)
    BY <2>6, NoiseIsQuiet, ItemIsSeq
  <2> QED
    BY <2>8, <2>9, <2>10, QuietJoined
<1>3. T = Nat
  <2> HIDE DEF T
  <2>1. T \in SUBSET Nat
    BY DEF T
  <2> QED
    BY <1>1, <1>2, <2>1, Ind
<1>4. Len(items) \in Nat
  BY LenProperties
<1>5. Len(items) \in T
  BY <1>3, <1>4, Zenon
<1> QED
  BY <1>5
-----------------------------------------------------------------------------
(* Where the program stands in what was transmitted                        *)

\* The items up to k, and those from k + 1 on.
LEMMA FlattenSplit ==
    ASSUME NEW S, NEW s \in Seq(Seq(S)), NEW k \in 0 .. Len(s)
    PROVE  /\ SubSeq(s, 1, k) \in Seq(Seq(S)) /\ SubSeq(s, k + 1, Len(s)) \in Seq(Seq(S))
           /\ FlattenSeq(SubSeq(s, 1, k)) \in Seq(S)
           /\ FlattenSeq(SubSeq(s, k + 1, Len(s))) \in Seq(S)
           /\ FlattenSeq(s) = FlattenSeq(SubSeq(s, 1, k)) \o FlattenSeq(SubSeq(s, k + 1, Len(s)))
<1> DEFINE a == SubSeq(s, 1, k)
           b == SubSeq(s, k + 1, Len(s))
<1>1. a \in Seq(Seq(S)) /\ b \in Seq(Seq(S)) /\ s = a \o b
  BY Halved
<1> HIDE DEF a, b
<1>2. FlattenSeq(a) \in Seq(S) /\ FlattenSeq(b) \in Seq(S)
  BY <1>1, FlattenType
<1>3. FlattenSeq(a \o b) = FlattenSeq(a) \o FlattenSeq(b)
  BY <1>1, FlattenJoined
<1>4. FlattenSeq(s) = FlattenSeq(a) \o FlattenSeq(b)
  BY <1>1, <1>3, Zenon
<1> QED
  BY <1>1, <1>2, <1>4 DEF a, b

\* The items from k + 1 on are item k + 1 and those behind it.
LEMMA FlattenFirst ==
    ASSUME NEW S, NEW s \in Seq(Seq(S)), NEW k \in Nat, k < Len(s)
    PROVE  /\ s[k + 1] \in Seq(S)
           /\ FlattenSeq(SubSeq(s, k + 2, Len(s))) \in Seq(S)
           /\ FlattenSeq(SubSeq(s, k + 1, Len(s))) = s[k + 1] \o FlattenSeq(SubSeq(s, k + 2, Len(s)))
<1> DEFINE n == Len(s)
           B == Seq(S)
           x == s[k + 1]
           b == SubSeq(s, k + 2, n)
           c == SubSeq(s, k + 1, n)
<1>1. n \in Nat
  BY LenProperties
<1>2. k + 1 \in 1 .. n /\ n \in k + 1 .. n /\ (k + 1) + 1 = k + 2 /\ k + 1 \in 0 .. n
  BY <1>1
<1>3. x \in B
  BY <1>2, ElementOfSeq
<1>4. b \in Seq(B) /\ FlattenSeq(b) \in Seq(S)
  <2>1. SubSeq(s, (k + 1) + 1, n) \in Seq(B) /\ FlattenSeq(SubSeq(s, (k + 1) + 1, n)) \in Seq(S)
    BY <1>2, FlattenSplit
  <2> QED
    BY <1>2, <2>1
<1>5. c = <<x>> \o b
  <2>1. s \in Seq(B)
    OBVIOUS
  <2> HIDE DEF B
  <2>2. SubSeq(s, k + 1, n) = <<s[k + 1]>> \o SubSeq(s, (k + 1) + 1, n)
    BY <1>2, <2>1, SubSeqRecursiveFirst
  <2> QED
    BY <1>2, <2>2
<1>6. <<x>> \in Seq(B)
  BY <1>3
<1> HIDE DEF x, b, c, n
<1>7. FlattenSeq(<<x>>) = x
  BY <1>3, FlattenOne
<1> DEFINE w == <<x>>
<1>8. w \in Seq(B)
  BY <1>6
<1> HIDE DEF w
<1>9. FlattenSeq(w \o b) = FlattenSeq(w) \o FlattenSeq(b)
  BY <1>4, <1>8, FlattenJoined
<1>10. FlattenSeq(c) = x \o FlattenSeq(b)
  BY <1>5, <1>7, <1>9, Zenon DEF w
<1> QED
  BY <1>3, <1>4, <1>10 DEF x, b, c, n

\* There always is a first item that is not noise, or none at all.
LEMMA SomeLead ==
    ASSUME NEW items \in Seq(Items)
    PROVE  \E k \in 0 .. Len(items) : Leads(items, k)
<1> DEFINE T == {i \in 1 .. Len(items) : ~IsNoise(items[i])}
<1>1. Len(items) \in Nat
  BY LenProperties
<1>2. CASE T = {}
  <2>1. Leads(items, Len(items))
    BY <1>1, <1>2 DEF Leads
  <2> QED
    BY <1>1, <2>1
<1>3. CASE T # {}
  <2>1. T \in SUBSET Nat
    BY <1>1
  <2>2. PICK n \in T : \A m \in T : n <= m
    BY <1>3, <2>1, Smallest
  <2> DEFINE k == n - 1
  <2>3. n \in 1 .. Len(items) /\ ~IsNoise(items[n]) /\ k \in 0 .. Len(items) /\ k + 1 = n
    BY <1>1, <2>2
  <2>4. ASSUME NEW i \in 1 .. k PROVE IsNoise(items[i])
    <3>1. i \in 1 .. Len(items) /\ ~(n <= i)
      BY <1>1, <2>3
    <3> QED
      BY <2>2, <3>1
  <2> HIDE DEF k
  <2>5. Leads(items, k)
    BY <2>3, <2>4 DEF Leads
  <2> QED
    BY <2>3, <2>5
<1> QED
  BY <1>2, <1>3

\* Stands, from the noise that is gone and the noise that is left.
LEMMA StandsIntro ==
    ASSUME NEW items \in Seq(Items), NEW k, Leads(items, k),
           NEW gone \in Seq(Byte), NEW noise \in Seq(Byte), NEW left,
           FlattenSeq(SubSeq(items, 1, k)) = gone \o noise,
           left = noise \o FlattenSeq(SubSeq(items, k + 1, Len(items)))
    PROVE  Stands(left, items)
<1> DEFINE front == FlattenSeq(SubSeq(items, 1, k))
           rest == FlattenSeq(SubSeq(items, k + 1, Len(items)))
           j == Len(gone)
<1>1. front = gone \o noise
  OBVIOUS
<1>2. left = noise \o rest
  OBVIOUS
<1> HIDE DEF front, rest
<1>3. SubSeq(front, j + 1, Len(front)) = noise
  BY <1>1, Behinds
<1>4. j \in Nat /\ j \in 0 .. Len(front)
  <2>1. Len(gone) \in Nat /\ Len(noise) \in Nat /\ Len(front) = Len(gone) + Len(noise)
    BY <1>1, Joined
  <2> QED
    BY <2>1
<1>5. left = SubSeq(front, j + 1, Len(front)) \o rest
  BY <1>2, <1>3, Zenon
<1>6. k \in 0 .. Len(items)
  BY DEF Leads
<1> HIDE DEF j
<1>7. \E i \in 0 .. Len(front) : left = SubSeq(front, i + 1, Len(front)) \o rest
  BY <1>4, <1>5, Zenon
<1> QED
  BY <1>6, <1>7, Zenon DEF Stands, front, rest

\* The other way: the noise that is gone, the noise that is left and the rest.
LEMMA StandsElim ==
    ASSUME NEW items \in Seq(Items), NEW left, Stands(left, items)
    PROVE  \E k \in 0 .. Len(items) : \E gone, noise \in Seq(Byte) :
              /\ Leads(items, k)
              /\ FlattenSeq(SubSeq(items, 1, k)) = gone \o noise
              /\ left = noise \o FlattenSeq(SubSeq(items, k + 1, Len(items)))
<1>1. PICK k \in 0 .. Len(items) :
          /\ Leads(items, k)
          /\ \E j \in 0 .. Len(FlattenSeq(SubSeq(items, 1, k))) :
                left = SubSeq(FlattenSeq(SubSeq(items, 1, k)), j + 1, Len(FlattenSeq(SubSeq(items, 1, k))))
                            \o FlattenSeq(SubSeq(items, k + 1, Len(items)))
  BY Zenon DEF Stands
<1> DEFINE front == FlattenSeq(SubSeq(items, 1, k))
           rest == FlattenSeq(SubSeq(items, k + 1, Len(items)))
<1>2. PICK j \in 0 .. Len(front) : left = SubSeq(front, j + 1, Len(front)) \o rest
  BY <1>1
<1>3. front \in Seq(Byte)
  BY ItemsAreSeqs, FlattenSplit
<1> HIDE DEF front, rest
<1> DEFINE gone == SubSeq(front, 1, j)
           noise == SubSeq(front, j + 1, Len(front))
<1>4. gone \in Seq(Byte) /\ noise \in Seq(Byte) /\ front = gone \o noise
  BY <1>3, Halved
<1>5. left = noise \o rest
  BY <1>2
<1> HIDE DEF gone, noise
<1> QED
  BY <1>1, <1>4, <1>5 DEF front, rest

\* All items are on their way.
LEMMA StandsFresh ==
    ASSUME NEW items \in Seq(Items), NEW left, left = FlattenSeq(items)
    PROVE  Stands(left, items)
<1>1. PICK k \in 0 .. Len(items) : Leads(items, k)
  BY SomeLead
<1> DEFINE front == FlattenSeq(SubSeq(items, 1, k))
           rest == FlattenSeq(SubSeq(items, k + 1, Len(items)))
<1>2. front \in Seq(Byte) /\ rest \in Seq(Byte) /\ FlattenSeq(items) = front \o rest
  BY ItemsAreSeqs, FlattenSplit
<1>3. <<>> \in Seq(Byte) /\ front = <<>> \o front
  BY <1>2, ConcatEmptySeq, EmptySeq
<1>4. left = front \o rest
  BY <1>2
<1> QED
  BY <1>1, <1>2, <1>3, <1>4, StandsIntro

\* Nothing is left in front of the first item that is not noise.
LEMMA StandsAtItem ==
    ASSUME NEW items \in Seq(Items), NEW k \in 0 .. Len(items), Leads(items, k), NEW left,
           left = FlattenSeq(SubSeq(items, k + 1, Len(items)))
    PROVE  Stands(left, items)
<1> DEFINE front == FlattenSeq(SubSeq(items, 1, k))
           rest == FlattenSeq(SubSeq(items, k + 1, Len(items)))
<1>1. front \in Seq(Byte) /\ rest \in Seq(Byte)
  BY ItemsAreSeqs, FlattenSplit
<1>2. <<>> \in Seq(Byte) /\ front = front \o <<>> /\ rest = <<>> \o rest
  BY <1>1, ConcatEmptySeq, EmptySeq
<1>3. left = <<>> \o rest
  BY <1>2
<1> QED
  BY <1>1, <1>2, <1>3, StandsIntro
-----------------------------------------------------------------------------
(* The scan stops at the first item that is not noise                      *)

\* The noise that is left holds no pair at which the scan could stop.
LEMMA SilentLead ==
    ASSUME NEW items \in Seq(Items), NEW k \in 0 .. Len(items), Leads(items, k),
           NEW gone \in Seq(Byte), NEW noise \in Seq(Byte),
           FlattenSeq(SubSeq(items, 1, k)) = gone \o noise
    PROVE  Silent(noise)
<1> DEFINE lead == SubSeq(items, 1, k)
           front == gone \o noise
<1>1. Len(items) \in Nat
  BY LenProperties
<1>2. lead \in Seq(Items) /\ Len(lead) = k
  BY Halved
<1>3. \A i \in 1 .. k : lead[i] = items[i]
  <2>1. 1 \in 1 .. Len(items) + 1 /\ k \in 1 - 1 .. Len(items) /\ k - 1 + 1 = k
    BY <1>1
  <2>2. \A i \in 1 .. k : lead[i] = items[1 + i - 1]
    BY <2>1, CutOut
  <2> HIDE DEF lead
  <2> TAKE i \in 1 .. k
  <2>3. 1 + i - 1 = i
    OBVIOUS
  <2> QED
    BY <2>2, <2>3
<1> HIDE DEF lead
<1>4. \A i \in 1 .. Len(lead) : IsNoise(lead[i])
  BY <1>2, <1>3 DEF Leads
<1>5. Quiet(FlattenSeq(lead))
  BY <1>2, <1>4, NoiseFlattened
<1>6. Silent(front)
  BY <1>5 DEF Quiet, lead
<1>7. /\ Len(gone) \in Nat /\ Len(noise) \in Nat /\ Len(front) = Len(gone) + Len(noise)
      /\ \A i \in 1 .. Len(noise) : front[Len(gone) + i] = noise[i]
  BY Joined
<1> HIDE DEF front
<1>8. ASSUME NEW i \in 1 .. Len(noise) - 1 PROVE ~Begins(noise[i], noise[i + 1])
  <2> DEFINE j == Len(gone) + i
  <2>4. Len(gone) \in Nat /\ Len(noise) \in Nat /\ Len(front) = Len(gone) + Len(noise)
    BY <1>7
  <2>1. j \in 1 .. Len(front) - 1 /\ i \in 1 .. Len(noise) /\ i + 1 \in 1 .. Len(noise)
        /\ j + 1 = Len(gone) + (i + 1)
    BY ONLY <2>4, i \in 1 .. Len(noise) - 1
  <2>2. front[j] = noise[i] /\ front[j + 1] = noise[i + 1]
    BY <1>7, <2>1
  <2>3. ~Begins(front[j], front[j + 1])
    BY <1>6, <2>1 DEF Silent
  <2> QED
    BY <2>2, <2>3
<1> QED
  BY <1>8 DEF Silent

\* A hit is at a pair that begins a header or an acknowledgement.
LEMMA HitBegins ==
    ASSUME NEW g \in Seq(Byte), NEW h \in Hits(g)
    PROVE  /\ h \in 1 .. Len(g) - 3 /\ h \in Nat /\ Len(g) \in Nat
           /\ Begins(g[h], g[h + 1])
<1>1. Len(g) \in Nat
  BY LenProperties
<1>2. h \in 1 .. Len(g) - 3 /\ (StartsWith(g, h, Ack) \/ StartsWith(g, h, Header))
  BY DEF Hits
<1>3. h \in 1 .. Len(g) - 1 /\ h \in Nat
  BY <1>1, <1>2
<1>4. CASE StartsWith(g, h, Ack)
  <2>1. g[h] = 79 /\ g[h + 1] = 75
    BY <1>2, <1>4, StartsAck
  <2> QED
    BY <1>1, <1>2, <1>3, <2>1 DEF Begins, Header, Ack
<1>5. CASE StartsWith(g, h, Header)
  <2>1. g[h] = 241 /\ g[h + 1] = 221
    BY <1>3, <1>5, StartsHeader
  <2> QED
    BY <1>1, <1>2, <1>3, <2>1 DEF Begins, Header, Ack
<1> QED
  BY <1>2, <1>4, <1>5

\* The scan cannot stop before the first item that is not noise, and stops at it.
LEMMA HitIsItem ==
    ASSUME NEW items \in Seq(Items), NEW k \in 0 .. Len(items), Leads(items, k),
           NEW g \in Seq(Byte), NEW w \in Seq(Byte), NEW noise \in Seq(Byte), Silent(noise),
           NEW rest, rest = FlattenSeq(SubSeq(items, k + 1, Len(items))),
           NEW s, Joins(s, g, w), Joins(s, noise, rest), Hits(g) # {}
    PROVE  /\ k < Len(items)
           /\ FirstHit(g) = Len(noise) + 1
           /\ Len(noise) + 1 \in 1 .. Len(g) - 3
           /\ StartsWith(g, Len(noise) + 1, Header) <=> IsFrame(items[k + 1])
           /\ StartsWith(g, Len(noise) + 1, Ack) <=> items[k + 1] = Ack
<1> DEFINE all == g \o w
           n == Len(noise)
<1>0. all = noise \o rest
  BY DEF Joins
<1>1. Len(items) \in Nat /\ k \in Nat
  BY LenProperties
<1>2. rest \in Seq(Byte)
  BY ItemsAreSeqs, FlattenSplit
<1>3. /\ Len(g) \in Nat /\ Len(w) \in Nat /\ Len(all) = Len(g) + Len(w)
      /\ \A i \in 1 .. Len(g) : all[i] = g[i]
  BY Joined
<1>4. /\ n \in Nat /\ Len(rest) \in Nat /\ Len(all) = n + Len(rest)
      /\ \A i \in 1 .. n : all[i] = noise[i]
      /\ \A i \in 1 .. Len(rest) : all[n + i] = rest[i]
  BY <1>0, <1>2, Joined
<1> HIDE DEF all
<1>5. ASSUME Len(rest) >= 1
      PROVE  /\ k < Len(items) /\ items[k + 1] \in Items /\ ~IsNoise(items[k + 1])
             /\ \A i \in 1 .. 4 : i \in 1 .. Len(rest) /\ rest[i] = items[k + 1][i]
  <2>1. k < Len(items)
    <3>1. CASE k = Len(items)
      <4>1. SubSeq(items, k + 1, Len(items)) = <<>>
        <5>1. k + 1 \in Int /\ Len(items) \in Int /\ Len(items) < k + 1
          BY <1>1, <3>1
        <5> QED
          BY <5>1, SubSeqEmpty
      <4>2. rest = <<>>
        BY <4>1, FlattenEmpty
      <4> QED
        BY <1>5, <4>2, EmptySeq
    <3> QED
      BY <1>1, <3>1
  <2>2. k + 1 \in 1 .. Len(items)
    BY <1>1, <2>1
  <2>3. items[k + 1] \in Items /\ ~IsNoise(items[k + 1])
    BY <2>1, <2>2, ElementOfSeq DEF Leads
  <2> DEFINE x == items[k + 1]
             more == FlattenSeq(SubSeq(items, k + 2, Len(items)))
  <2>4. x \in Seq(Byte) /\ more \in Seq(Byte) /\ rest = x \o more
    <3>1. items \in Seq(Seq(Byte))
      BY ItemsAreSeqs
    <3> QED
      BY <1>1, <2>1, <3>1, FlattenFirst
  <2>5. Len(x) >= 4
    BY <2>3, Looks
  <2> HIDE DEF x, more
  <2>6. /\ Len(x) \in Nat /\ Len(more) \in Nat /\ Len(rest) = Len(x) + Len(more)
        /\ \A i \in 1 .. Len(x) : rest[i] = x[i]
    BY <2>4, Joined
  <2>7. ASSUME NEW i \in 1 .. 4 PROVE i \in 1 .. Len(rest) /\ rest[i] = x[i]
    <3>1. i \in 1 .. Len(x) /\ i \in 1 .. Len(rest)
      BY <2>5, <2>6
    <3> QED
      BY <2>6, <3>1
  <2> QED
    BY <2>1, <2>3, <2>7 DEF x
<1>6. ASSUME NEW h \in Hits(g) PROVE h > n /\ Len(rest) >= 1 /\ h \in 1 .. Len(g) - 3
  <2>1. h \in 1 .. Len(g) - 3 /\ h \in Nat /\ Begins(g[h], g[h + 1])
    BY HitBegins
  <2>2. h \in 1 .. Len(g) /\ h + 1 \in 1 .. Len(g)
    BY <1>3, <2>1
  <2>3. Begins(all[h], all[h + 1])
    BY <1>3, <2>1, <2>2
  <2>4. ~(h + 1 <= n)
    <3> SUFFICES ASSUME h + 1 <= n PROVE FALSE
      OBVIOUS
    <3>1. h \in 1 .. n - 1 /\ h \in 1 .. n /\ h + 1 \in 1 .. n
      BY <1>4, <2>1
    <3>2. all[h] = noise[h] /\ all[h + 1] = noise[h + 1]
      BY <1>4, <3>1
    <3> QED
      BY <2>3, <3>1, <3>2 DEF Silent
  <2>5. Len(rest) >= 1
    BY <1>3, <1>4, <2>1, <2>4
  <2>6. h # n
    <3> SUFFICES ASSUME h = n PROVE FALSE
      OBVIOUS
    <3>1. 1 \in 1 .. Len(rest) /\ h + 1 = n + 1
      BY <1>4, <2>5
    <3>2. all[h + 1] = rest[1] /\ rest[1] = items[k + 1][1]
      BY <1>4, <1>5, <2>5, <3>1, SMTT(30)
    <3>3. items[k + 1][1] = 241 \/ items[k + 1][1] = 79
      BY <1>5, <2>5, Looks
    <3>4. all[h + 1] = 221 \/ all[h + 1] = 75
      <4>1. \A a, b : Begins(a, b) => b = 221 \/ b = 75
        BY DEF Begins, Header, Ack
      <4> QED
        BY <2>3, <4>1
    <3>5. items[k + 1][1] = 221 \/ items[k + 1][1] = 75
      BY ONLY <3>2, <3>4
    <3> DEFINE z == items[k + 1][1]
    <3>6. (z = 221 \/ z = 75) /\ (z = 241 \/ z = 79)
      BY <3>3, <3>5
    <3> HIDE DEF z
    <3> QED
      BY ONLY <3>6
  <2> QED
    BY <1>4, <2>1, <2>4, <2>5, <2>6
<1>7. Len(rest) >= 1 /\ n + 1 \in 1 .. Len(g) - 3
  <2>1. PICK h \in Hits(g) : TRUE
    OBVIOUS
  <2>2. h > n /\ Len(rest) >= 1 /\ h \in 1 .. Len(g) - 3
    BY <1>6
  <2> QED
    BY <1>3, <1>4, <2>2
<1> DEFINE x == items[k + 1]
<1>8. k < Len(items) /\ x \in Items /\ ~IsNoise(x)
  BY <1>5, <1>7
<1>9. \A i \in 1 .. 4 : g[n + i] = x[i]
  <2> TAKE i \in 1 .. 4
  <2>1. i \in 1 .. Len(rest) /\ rest[i] = x[i]
    BY <1>5, <1>7
  <2>2. n + i \in 1 .. Len(g)
    BY <1>3, <1>4, <1>7
  <2> QED
    BY <1>3, <1>4, <2>1, <2>2
<1> HIDE DEF x
<1>10. g[n + 1] = x[1] /\ g[(n + 1) + 1] = x[2] /\ g[(n + 1) + 2] = x[3] /\ g[(n + 1) + 3] = x[4]
  <2>1. (n + 1) + 1 = n + 2 /\ (n + 1) + 2 = n + 3 /\ (n + 1) + 3 = n + 4
        /\ 1 \in 1 .. 4 /\ 2 \in 1 .. 4 /\ 3 \in 1 .. 4 /\ 4 \in 1 .. 4
    BY <1>4
  <2> QED
    BY <1>9, <2>1
<1>11. StartsWith(g, n + 1, Header) <=> x[1] = 241 /\ x[2] = 221
  <2>1. n + 1 \in 1 .. Len(g) - 1
    BY <1>3, <1>4, <1>7
  <2> QED
    BY <1>10, <2>1, StartsHeader
<1>12. StartsWith(g, n + 1, Ack) <=> x[1] = 79 /\ x[2] = 75 /\ x[3] = 13 /\ x[4] = 10
  <2> HIDE DEF n
  <2>1. /\ StartsWith(g, n + 1, Ack) <=>
              g[n + 1] = 79 /\ g[(n + 1) + 1] = 75 /\ g[(n + 1) + 2] = 13 /\ g[(n + 1) + 3] = 10
    BY <1>7, StartsAck
  <2> QED
    BY <1>10, <2>1, Zenon
<1>13. /\ x = Ack \/ IsFrame(x)
       /\ IsFrame(x) => x[1] = 241 /\ x[2] = 221
       /\ x = Ack => x[1] = 79 /\ x[2] = 75 /\ x[3] = 13 /\ x[4] = 10 /\ ~IsFrame(x)
  BY <1>8, Looks
<1>14. (StartsWith(g, n + 1, Header) <=> IsFrame(x)) /\ (StartsWith(g, n + 1, Ack) <=> x = Ack)
  BY <1>11, <1>12, <1>13
<1>15. n + 1 \in Hits(g)
  BY <1>7, <1>13, <1>14 DEF Hits
<1>16. FirstHit(g) = n + 1
  <2>1. \A h \in Hits(g) : h > n /\ h \in Nat
    BY <1>6, HitBegins
  <2>2. \A h \in Hits(g) : n + 1 <= h
    BY <1>4, <2>1
  <2>3. \A i \in Hits(g) : (\A j \in Hits(g) : i <= j) => i = n + 1
    <3> TAKE i \in Hits(g)
    <3> HAVE \A j \in Hits(g) : i <= j
    <3>1. i <= n + 1 /\ n + 1 <= i /\ i \in Nat
      BY <1>15, <2>1, <2>2
    <3> QED
      BY <1>4, <3>1
  <2> QED
    BY <1>15, <2>2, <2>3, Zenon DEF FirstHit
<1> QED
  BY <1>7, <1>8, <1>14, <1>16 DEF x
-----------------------------------------------------------------------------
(* Taking an item, and one item more on the line                           *)

\* The smallest number is the one that is the smallest.
LEMMA Least ==
    ASSUME NEW I \in SUBSET Nat, NEW i \in I, \A j \in I : i <= j
    PROVE  Min(I) = i
<1>1. \A m \in I : (\A j \in I : m <= j) => m = i
  <2> TAKE m \in I
  <2> HAVE \A j \in I : m <= j
  <2>1. m <= i /\ i <= m /\ m \in Nat /\ i \in Nat
    OBVIOUS
  <2> QED
    BY <2>1
<1> QED
  BY <1>1, Zenon DEF Min

\* The first item of the given kinds, when no noise is of these kinds.
LEMMA BehindTaken ==
    ASSUME NEW items \in Seq(Items), NEW k \in Nat, k < Len(items), Leads(items, k),
           NEW kinds, items[k + 1] \in kinds, \A item \in kinds : ~IsNoise(item)
    PROVE  Behind(items, kinds) = SubSeq(items, k + 2, Len(items))
<1> DEFINE I == {i \in 1 .. Len(items) : items[i] \in kinds}
           f == SelectInSeq(items, LAMBDA item : item \in kinds)
<1>1. Len(items) \in Nat
  BY LenProperties
<1>2. I \in SUBSET Nat /\ k + 1 \in I
  BY <1>1
<1>3. ASSUME NEW j \in I PROVE k + 1 <= j
  <2>1. j \in 1 .. Len(items) /\ ~IsNoise(items[j])
    OBVIOUS
  <2>2. ~(j \in 1 .. k)
    BY <2>1 DEF Leads
  <2> QED
    BY <1>1, <2>1, <2>2
<1>4. f = IF I # {} THEN Min(I) ELSE 0
  BY DEF SelectInSeq
<1> HIDE DEF I
<1>5. f = k + 1
  BY <1>2, <1>3, <1>4, Least
<1>6. k + 1 # 0 /\ (k + 1) + 1 = k + 2
  OBVIOUS
<1>7. Behind(items, kinds) = IF f = 0 THEN <<>> ELSE SubSeq(items, f + 1, Len(items))
  BY DEF Behind
<1> HIDE DEF f
<1> QED
  BY <1>5, <1>6, <1>7, Zenon

\* What is behind an item is no longer than the whole.
LEMMA BehindType ==
    ASSUME NEW items \in Seq(Items), NEW kinds
    PROVE  /\ Behind(items, kinds) \in Seq(Items)
           /\ Len(Behind(items, kinds)) <= Len(items)
<1> DEFINE I == {i \in 1 .. Len(items) : items[i] \in kinds}
           f == SelectInSeq(items, LAMBDA item : item \in kinds)
<1>1. Len(items) \in Nat
  BY LenProperties
<1>2. f = IF I # {} THEN Min(I) ELSE 0
  BY DEF SelectInSeq
<1>3. I \in SUBSET Nat /\ I \subseteq 1 .. Len(items)
  BY <1>1
<1> HIDE DEF I
<1>4. f = 0 \/ f \in 1 .. Len(items)
  <2>1. CASE I = {}
    BY <1>2, <2>1
  <2>2. CASE I # {}
    <3>1. PICK i \in I : \A j \in I : i <= j
      BY <1>3, <2>2, Smallest
    <3>2. Min(I) = i
      BY <1>3, <3>1, Least
    <3> QED
      BY <1>2, <1>3, <2>2, <3>2
  <2> QED
    BY <2>1, <2>2
<1>5. Behind(items, kinds) = IF f = 0 THEN <<>> ELSE SubSeq(items, f + 1, Len(items))
  BY DEF Behind
<1> HIDE DEF f
<1>6. CASE f = 0
  BY <1>1, <1>5, <1>6, EmptySeq
<1>7. CASE f # 0
  <2>1. f \in 0 .. Len(items) /\ f # 0
    BY <1>1, <1>4, <1>7
  <2>2. SubSeq(items, f + 1, Len(items)) \in Seq(Items) /\ Len(SubSeq(items, f + 1, Len(items))) = Len(items) - f
    BY <2>1, Halved
  <2>3. Len(items) - f <= Len(items)
    BY <1>1, <2>1
  <2> QED
    BY <1>5, <1>7, <2>2, <2>3
<1> QED
  BY <1>6, <1>7

\* The scan of g stops at h, where f begins, and item k + 1 is the first one that is
\* not noise: it lies there, with what is not read yet (w) behind f.
Finds(items, g, w, h, f, k) ==
    LET item == items[k + 1]
        more == FlattenSeq(SubSeq(items, k + 2, Len(items)))
    IN /\ k < Len(items) /\ Leads(items, k)
       /\ item \in Items /\ ~IsNoise(item)
       /\ StartsWith(g, h, Header) <=> IsFrame(item)
       /\ StartsWith(g, h, Ack) <=> item = Ack
       /\ f \in Seq(Byte) /\ Len(f) >= 4
       /\ more \in Seq(Byte)
       /\ f \o w = item \o more
       /\ f \o w = FlattenSeq(SubSeq(items, k + 1, Len(items)))
       /\ item = Ack => /\ ignoreBuffer(g, h + 3) \in Seq(Byte)
                        /\ ignoreBuffer(g, h + 3) \o w = more

\* What postRead finds at a hit.
LEMMA Taking ==
    ASSUME NEW items \in Seq(Items), NEW g \in Seq(Byte), NEW w \in Seq(Byte),
           NEW s, Joins(s, g, w), Stands(s, items), Hits(g) # {},
           NEW h, h = FirstHit(g), NEW f, f = ignoreBuffer(g, h - 1)
    PROVE  \E k \in Nat : Finds(items, g, w, h, f, k)
<1>0. s = g \o w
  BY DEF Joins
<1>1. PICK k \in 0 .. Len(items) : \E gone, noise \in Seq(Byte) :
          /\ Leads(items, k)
          /\ FlattenSeq(SubSeq(items, 1, k)) = gone \o noise
          /\ g \o w = noise \o FlattenSeq(SubSeq(items, k + 1, Len(items)))
  BY <1>0, StandsElim
<1>2. PICK gone \in Seq(Byte), noise \in Seq(Byte) :
          /\ Leads(items, k)
          /\ FlattenSeq(SubSeq(items, 1, k)) = gone \o noise
          /\ g \o w = noise \o FlattenSeq(SubSeq(items, k + 1, Len(items)))
  BY <1>1
<1>3. Silent(noise)
  BY <1>2, SilentLead
<1> DEFINE x == items[k + 1]
           rest == FlattenSeq(SubSeq(items, k + 1, Len(items)))
           more == FlattenSeq(SubSeq(items, k + 2, Len(items)))
           n == Len(noise)
<1>4. /\ k < Len(items)
      /\ h = n + 1
      /\ n + 1 \in 1 .. Len(g) - 3
      /\ StartsWith(g, n + 1, Header) <=> IsFrame(x)
      /\ StartsWith(g, n + 1, Ack) <=> x = Ack
  <2> HIDE DEF rest
  <2>1. rest = FlattenSeq(SubSeq(items, k + 1, Len(items)))
    BY DEF rest
  <2> DEFINE all == g \o w
  <2>2. Leads(items, k) /\ Joins(all, noise, rest) /\ Joins(all, g, w)
    BY <1>2 DEF rest, Joins
  <2> HIDE DEF all
  <2>3. /\ k < Len(items)
        /\ FirstHit(g) = Len(noise) + 1
        /\ Len(noise) + 1 \in 1 .. Len(g) - 3
        /\ StartsWith(g, Len(noise) + 1, Header) <=> IsFrame(items[k + 1])
        /\ StartsWith(g, Len(noise) + 1, Ack) <=> items[k + 1] = Ack
    BY <1>3, <2>1, <2>2, HitIsItem
  <2> QED
    BY <2>3
<1>5. Len(items) \in Nat /\ k \in Nat /\ n \in Nat /\ Len(g) \in Nat
  BY LenProperties
<1>6. x \in Items /\ ~IsNoise(x) /\ Len(x) >= 4 /\ x \in Seq(Byte) /\ Len(x) \in Nat
  <2>1. k + 1 \in 1 .. Len(items)
    BY <1>4, <1>5
  <2>2. x \in Items
    BY <2>1, ElementOfSeq
  <2>3. ~IsNoise(x)
    BY <1>2, <1>4 DEF Leads
  <2> HIDE DEF x
  <2> QED
    BY <2>2, <2>3, Looks, ItemIsSeq
<1>7. more \in Seq(Byte) /\ rest = x \o more
  <2>1. items \in Seq(Seq(Byte))
    BY ItemsAreSeqs
  <2> QED
    BY <1>4, <1>5, <2>1, FlattenFirst
<1>8. rest \in Seq(Byte)
  <2>1. x \in Seq(Byte) /\ more \in Seq(Byte)
    BY <1>6, <1>7
  <2> HIDE DEF x, more, rest
  <2>2. x \o more \in Seq(Byte)
    BY ONLY <2>1, ConcatProperties
  <2> QED
    BY <1>7, <2>2, Zenon
<1>9. g \o w = noise \o rest
  BY <1>2
<1> HIDE DEF x, rest, more
<1>10. f = SubSeq(g, n + 1, Len(g)) /\ f \in Seq(Byte) /\ Len(f) >= 4
  <2>1. (h - 1) + 1 = n + 1 /\ n \in 0 .. Len(g) /\ Len(g) - n >= 4
    BY <1>4, <1>5
  <2>2. f = SubSeq(g, n + 1, Len(g))
    BY <2>1 DEF ignoreBuffer
  <2>3. SubSeq(g, n + 1, Len(g)) \in Seq(Byte) /\ Len(SubSeq(g, n + 1, Len(g))) = Len(g) - n
    BY <2>1, Halved
  <2> QED
    BY <2>1, <2>2, <2>3
<1>11. f \o w = rest
  <2>1. n <= Len(g)
    BY <1>4, <1>5
  <2>2. rest = SubSeq(g, n + 1, Len(g)) \o w
    <3> DEFINE all == g \o w
               e == SubSeq(g, n + 1, Len(g))
    <3>1. Joins(all, g, w) /\ Joins(all, noise, rest)
      BY <1>9 DEF Joins
    <3> HIDE DEF all
    <3>2. Joins(rest, e, w)
      BY <1>8, <2>1, <3>1, Shared
    <3> HIDE DEF e
    <3>3. rest = e \o w
      BY <3>2 DEF Joins
    <3> QED
      BY <3>3 DEF e
  <2> QED
    BY <1>10, <2>2
<1>12. ASSUME x = Ack
       PROVE  ignoreBuffer(g, h + 3) \in Seq(Byte) /\ ignoreBuffer(g, h + 3) \o w = more
  <2> DEFINE c == noise \o x
  <2>1. c \in Seq(Byte) /\ Len(c) = n + 4
    <3>1. Len(x) = 4
      BY <1>12 DEF Ack
    <3>2. c \in Seq(Byte) /\ Len(c) = Len(noise) + Len(x)
      BY <1>6, Joined
    <3> HIDE DEF c
    <3> QED
      BY <3>1, <3>2
  <2>2. g \o w = c \o more
    <3>1. noise \in Seq(Byte) /\ x \in Seq(Byte) /\ more \in Seq(Byte)
      BY <1>6, <1>7
    <3>2. (noise \o x) \o more = noise \o (x \o more)
      BY ONLY <3>1, ConcatAssociative, SMTT(30)
    <3> QED
      BY <1>7, <1>9, <3>2, Zenon
  <2> HIDE DEF c
  <2>3. Len(c) <= Len(g) /\ (h + 3) + 1 = Len(c) + 1
    BY <1>4, <1>5, <2>1
  <2>4. SubSeq(g, Len(c) + 1, Len(g)) \in Seq(Byte) /\ more = SubSeq(g, Len(c) + 1, Len(g)) \o w
    <3> DEFINE all == g \o w
               e == SubSeq(g, Len(c) + 1, Len(g))
    <3>1. Joins(all, g, w) /\ Joins(all, c, more)
      BY <2>2 DEF Joins
    <3> HIDE DEF all
    <3>2. e \in Seq(Byte) /\ Joins(more, e, w)
      BY <1>7, <2>1, <2>3, <3>1, Shared
    <3> HIDE DEF e
    <3>3. more = e \o w
      BY <3>2 DEF Joins
    <3> QED
      BY <3>2, <3>3 DEF e
  <2>5. ignoreBuffer(g, h + 3) = SubSeq(g, Len(c) + 1, Len(g))
    BY <2>3 DEF ignoreBuffer
  <2> QED
    BY <2>4, <2>5
<1>13. /\ StartsWith(g, h, Header) <=> IsFrame(x)
       /\ StartsWith(g, h, Ack) <=> x = Ack
  BY <1>4
<1>14. f \o w = x \o more
  BY <1>7, <1>11
<1>15. Finds(items, g, w, h, f, k)
  BY <1>2, <1>4, <1>6, <1>7, <1>10, <1>11, <1>12, <1>13, <1>14, Zenon DEF x, more, rest, Finds
<1> QED
  BY <1>5, <1>15

\* A frame at the front.
LEMMA TakeFrame ==
    ASSUME NEW f \in Seq(Byte), NEW w \in Seq(Byte), NEW x \in Seq(Byte), NEW more \in Seq(Byte),
           NEW s, Joins(s, f, w), Joins(s, x, more), Len(f) >= 4, Len(x) >= 4, Len(x) = x[3] + 3
    PROVE  /\ FrameLen(f) = Len(x)
           /\ Len(f) >= FrameLen(f) =>
                /\ \A i \in 1 .. Len(x) : f[i] = x[i]
                /\ ignoreBuffer(f, FrameLen(f)) \in Seq(Byte)
                /\ Joins(more, ignoreBuffer(f, FrameLen(f)), w)
<1> DEFINE all == f \o w
<1>0. all = x \o more
  BY DEF Joins
<1>1. Len(f) \in Nat /\ Len(x) \in Nat
  BY LenProperties
<1>2. \A i \in 1 .. Len(f) : all[i] = f[i]
  BY Joined
<1>3. \A i \in 1 .. Len(x) : all[i] = x[i]
  BY <1>0, Joined
<1>6. Joins(all, f, w) /\ Joins(all, x, more)
  BY <1>0 DEF Joins
<1> HIDE DEF all
<1>4. FrameLen(f) = Len(x)
  <2>1. 3 \in 1 .. Len(f) /\ 3 \in 1 .. Len(x)
    BY <1>1
  <2>2. f[3] = x[3]
    BY <1>2, <1>3, <2>1
  <2> QED
    BY <2>2 DEF FrameLen
<1>5. ASSUME Len(f) >= FrameLen(f)
      PROVE  /\ \A i \in 1 .. Len(x) : f[i] = x[i]
             /\ ignoreBuffer(f, FrameLen(f)) \in Seq(Byte)
             /\ Joins(more, ignoreBuffer(f, FrameLen(f)), w)
  <2>1. Len(x) <= Len(f)
    BY <1>1, <1>4, <1>5
  <2>2. ASSUME NEW i \in 1 .. Len(x) PROVE f[i] = x[i]
    <3>1. i \in 1 .. Len(f)
      BY <1>1, <2>1
    <3> QED
      BY <1>2, <1>3, <3>1
  <2>3. /\ SubSeq(f, Len(x) + 1, Len(f)) \in Seq(Byte)
        /\ Joins(more, SubSeq(f, Len(x) + 1, Len(f)), w)
    BY <1>6, <2>1, Shared
  <2>4. ignoreBuffer(f, FrameLen(f)) = SubSeq(f, Len(x) + 1, Len(f))
    BY <1>4 DEF ignoreBuffer
  <2> QED
    BY <2>2, <2>3, <2>4
<1> QED
  BY <1>4, <1>5

\* One item more on the line.
LEMMA StandsMore ==
    ASSUME NEW items \in Seq(Items), NEW left \in Seq(Byte), Stands(left, items),
           NEW item \in Items
    PROVE  Stands(left \o item, Append(items, item))
<1>1. PICK k \in 0 .. Len(items) : \E gone, noise \in Seq(Byte) :
          /\ Leads(items, k)
          /\ FlattenSeq(SubSeq(items, 1, k)) = gone \o noise
          /\ left = noise \o FlattenSeq(SubSeq(items, k + 1, Len(items)))
  BY StandsElim
<1>2. PICK gone \in Seq(Byte), noise \in Seq(Byte) :
          /\ Leads(items, k)
          /\ FlattenSeq(SubSeq(items, 1, k)) = gone \o noise
          /\ left = noise \o FlattenSeq(SubSeq(items, k + 1, Len(items)))
  BY <1>1
<1> DEFINE longer == Append(items, item)
           n == Len(items)
           lead == SubSeq(items, 1, k)
           tail == SubSeq(items, k + 1, n)
<1>3. n \in Nat /\ k \in Nat /\ k <= n
  <2>1. n \in Nat
    BY LenProperties
  <2> QED
    BY <2>1
<1>4. /\ longer \in Seq(Items) /\ Len(longer) = n + 1
      /\ longer[n + 1] = item /\ \A i \in 1 .. n : longer[i] = items[i]
  BY AppendProperties
<1>5. item \in Seq(Byte)
  BY ItemIsSeq
<1>6. /\ lead \in Seq(Items) /\ tail \in Seq(Items) /\ Len(lead) = k /\ items = lead \o tail
  <2>1. items \in Seq(Items) /\ k \in 0 .. Len(items)
    OBVIOUS
  <2> QED
    BY ONLY <2>1, Halved, ZenonT(60)
<1>7. lead \in Seq(Seq(Byte)) /\ tail \in Seq(Seq(Byte))
  BY <1>6, ItemsAreSeqs
<1>8. FlattenSeq(lead) = gone \o noise /\ left = noise \o FlattenSeq(tail)
  BY <1>2
<1>9. FlattenSeq(tail) \in Seq(Byte) /\ FlattenSeq(lead) \in Seq(Byte)
  BY <1>7, FlattenType
<1> HIDE DEF lead, tail
<1> DEFINE tailer == Append(tail, item)
<1>10. tailer \in Seq(Items) /\ longer = lead \o tailer
  <2> DEFINE w == <<item>>
  <2>1. w \in Seq(Items) /\ tailer = tail \o w /\ longer = items \o w
    BY <1>6, AppendIsConcat
  <2>2. tailer \in Seq(Items)
    BY <1>6, AppendProperties
  <2> HIDE DEF w, tailer, longer
  <2>3. lead \in Seq(Items) /\ tail \in Seq(Items)
    BY <1>6
  <2>4. w \in Seq(Items)
    BY <2>1
  <2>5. (lead \o tail) \o w = lead \o (tail \o w)
    BY ONLY <2>3, <2>4, ConcatAssociative, SMTT(30)
  <2>6. longer = lead \o tailer
    BY <1>6, <2>1, <2>5, Zenon
  <2> QED
    BY <2>2, <2>6
<1>11. FlattenSeq(tailer) = FlattenSeq(tail) \o item
  BY <1>5, <1>7, <1>9, FlattenAppend
<1> HIDE DEF tailer, longer
<1>12. SubSeq(longer, 1, k) = lead /\ SubSeq(longer, k + 1, Len(longer)) = tailer
  BY <1>6, <1>10, Behinds
<1>13. left \o item = noise \o (FlattenSeq(tail) \o item)
  <2> DEFINE r == FlattenSeq(tail)
  <2>1. noise \in Seq(Byte) /\ r \in Seq(Byte) /\ item \in Seq(Byte) /\ left = noise \o r
    BY <1>5, <1>8, <1>9
  <2> HIDE DEF r
  <2>2. (noise \o r) \o item = noise \o (r \o item)
    BY ONLY <2>1, ConcatAssociative
  <2> QED
    BY <2>1, <2>2, Zenon DEF r
<1>14. \A i \in 1 .. k : IsNoise(longer[i])
  <2> TAKE i \in 1 .. k
  <2>1. i \in 1 .. n
    BY <1>3
  <2> QED
    BY <1>2, <1>4, <2>1 DEF Leads
<1>15. CASE k < n
  <2>1. k + 1 \in 1 .. n /\ k \in 0 .. Len(longer) /\ k < Len(longer)
    BY <1>3, <1>4, <1>15
  <2>2. ~IsNoise(longer[k + 1])
    BY <1>2, <1>4, <1>15, <2>1 DEF Leads
  <2>3. Leads(longer, k)
    BY <1>14, <2>1, <2>2 DEF Leads
  <2>4. FlattenSeq(SubSeq(longer, 1, k)) = gone \o noise
    BY <1>8, <1>12
  <2>5. left \o item = noise \o FlattenSeq(SubSeq(longer, k + 1, Len(longer)))
    BY <1>11, <1>12, <1>13, Zenon
  <2>6. Stands(left \o item, longer)
    BY <1>4, <2>3, <2>4, <2>5, StandsIntro
  <2> QED
    BY <2>6 DEF longer
<1>16. CASE k = n /\ ~IsNoise(item)
  <2>1. k \in 0 .. Len(longer) /\ longer[k + 1] = item
    BY <1>3, <1>4, <1>16
  <2>3. Leads(longer, k)
    BY <1>14, <1>16, <2>1 DEF Leads
  <2>4. FlattenSeq(SubSeq(longer, 1, k)) = gone \o noise
    BY <1>8, <1>12
  <2>5. left \o item = noise \o FlattenSeq(SubSeq(longer, k + 1, Len(longer)))
    BY <1>11, <1>12, <1>13, Zenon
  <2>6. Stands(left \o item, longer)
    BY <1>4, <2>3, <2>4, <2>5, StandsIntro
  <2> QED
    BY <2>6 DEF longer
<1>17. CASE k = n /\ IsNoise(item)
  <2> DEFINE noise2 == noise \o item
  <2>1. lead = items /\ FlattenSeq(tail) = <<>>
    <3>1. SubSeq(items, 1, Len(items)) = items
      BY SubSeqFull
    <3>2. SubSeq(items, k + 1, n) = <<>>
      <4>1. k + 1 \in Int /\ n \in Int /\ n < k + 1
        BY <1>3, <1>17
      <4> QED
        BY <4>1, SubSeqEmpty
    <3> QED
      BY <1>17, <3>1, <3>2, FlattenEmpty DEF lead, tail
  <2>2. n + 1 \in 0 .. Len(longer) /\ ~(n + 1 < Len(longer))
    BY <1>3, <1>4
  <2>3. ASSUME NEW i \in 1 .. n + 1 PROVE IsNoise(longer[i])
    <3>1. i \in 1 .. n \/ i = n + 1
      BY <1>3
    <3> QED
      BY <1>4, <1>14, <1>17, <3>1
  <2>4. Leads(longer, n + 1)
    BY <2>2, <2>3 DEF Leads
  <2>5. noise2 \in Seq(Byte)
    BY <1>5, ConcatProperties
  <2>6. SubSeq(longer, 1, n + 1) = longer
    BY <1>4, SubSeqFull
  <2>7. FlattenSeq(longer) = FlattenSeq(items) \o item
    <3>1. items \in Seq(Seq(Byte))
      BY ItemsAreSeqs
    <3> QED
      BY <1>5, <3>1, FlattenType, FlattenAppend DEF longer
  <2>8. FlattenSeq(items) = gone \o noise
    BY <1>8, <2>1
  <2>9. FlattenSeq(longer) = gone \o noise2
    <3>1. gone \in Seq(Byte) /\ noise \in Seq(Byte) /\ item \in Seq(Byte)
      BY <1>5
    <3>2. (gone \o noise) \o item = gone \o (noise \o item)
      BY ONLY <3>1, ConcatAssociative, SMTT(30)
    <3> QED
      BY <2>7, <2>8, <3>2, Zenon
  <2>10. left = noise
    BY <1>8, <2>1, ConcatEmptySeq
  <2>11. SubSeq(longer, (n + 1) + 1, Len(longer)) = <<>>
    <3>1. (n + 1) + 1 \in Int /\ Len(longer) \in Int /\ Len(longer) < (n + 1) + 1
      BY <1>3, <1>4
    <3> QED
      BY <3>1, SubSeqEmpty
  <2>12. left \o item = noise2 \o FlattenSeq(SubSeq(longer, (n + 1) + 1, Len(longer)))
    <3>1. noise2 \o <<>> = noise2
      BY <2>5, ConcatEmptySeq
    <3> QED
      BY <2>10, <2>11, <3>1, FlattenEmpty, Zenon
  <2>13. FlattenSeq(SubSeq(longer, 1, n + 1)) = gone \o noise2
    BY <2>6, <2>9
  <2> HIDE DEF noise2
  <2>14. Stands(left \o item, longer)
    BY <1>4, <2>4, <2>5, <2>12, <2>13, StandsIntro
  <2> QED
    BY <2>14 DEF longer
<1>18. k < n \/ k = n
  BY <1>3
<1> QED
  BY <1>15, <1>16, <1>17, <1>18
-----------------------------------------------------------------------------
(* The packet of a frame, and the message of a document                    *)

\* A byte as a number.
LEMMA ByteIsInt ==
    ASSUME NEW b \in Byte
    PROVE  b \in Int /\ b >= 0 /\ b <= 255 /\ (b >= 4 => b - 4 \in Byte)
BY DEF Byte

\* The packet of a frame at the front.
LEMMA PacketOf ==
    ASSUME NEW f \in Seq(Byte), Len(f) >= 4, f[3] >= 4, Len(f) >= FrameLen(f)
    PROVE  /\ SubSeq(f, 4, 5) \in Seq(Byte) /\ Len(SubSeq(f, 4, 5)) = 2
           /\ SubSeq(f, 8, FrameLen(f)) \in Seq(Byte) /\ Len(SubSeq(f, 8, FrameLen(f))) = f[3] - 4
           /\ f[3] \in Byte /\ f[3] - 4 \in Byte
           /\ ToPacket(f) \in Seq(Byte)
           /\ fromBinary(ToPacket(f))
                  = [type |-> BLE_MESH, id |-> SubSeq(f, 4, 5), data |-> SubSeq(f, 8, FrameLen(f))]
<1> DEFINE id == SubSeq(f, 4, 5)
           data == SubSeq(f, 8, FrameLen(f))
           bytes == ToPacket(f)
<1>1. Len(f) \in Nat /\ f[3] \in Byte
  <2>1. Len(f) \in Nat
    BY LenProperties
  <2>2. 3 \in 1 .. Len(f)
    BY <2>1
  <2> QED
    BY <2>1, <2>2, ElementOfSeq
<1>2. f[3] \in Int /\ f[3] <= 255 /\ FrameLen(f) = f[3] + 3 /\ f[3] - 4 \in Byte
  <2>1. f[3] \in Int /\ f[3] <= 255 /\ (f[3] >= 4 => f[3] - 4 \in Byte)
    BY <1>1, ByteIsInt
  <2>2. FrameLen(f) = f[3] + 3
    BY Zenon DEF FrameLen
  <2> QED
    BY <2>1, <2>2
<1> DEFINE n == FrameLen(f)
<1>3. n \in Nat /\ n = f[3] + 3 /\ n >= 7 /\ n <= Len(f)
  BY <1>1, <1>2
<1> HIDE DEF n
<1>4. id \in Seq(Byte) /\ Len(id) = 2
  <2>1. 4 \in 1 .. Len(f) + 1 /\ 5 \in 4 - 1 .. Len(f) /\ 5 - 4 + 1 = 2
    BY <1>1, <1>3
  <2>2. id \in Seq(Byte) /\ Len(id) = 5 - 4 + 1
    BY <2>1, CutOut
  <2> QED
    BY <2>1, <2>2
<1>5. data \in Seq(Byte) /\ Len(data) = f[3] - 4
  <2>1. 8 \in 1 .. Len(f) + 1 /\ n \in 8 - 1 .. Len(f) /\ n - 8 + 1 = f[3] - 4
    BY <1>1, <1>2, <1>3
  <2>2. SubSeq(f, 8, n) \in Seq(Byte) /\ Len(SubSeq(f, 8, n)) = n - 8 + 1
    BY <2>1, CutOut
  <2> QED
    BY <2>1, <2>2 DEF n
<1>6. Packs(bytes, BLE_MESH, id, data)
  <2>1. bytes = <<BLE_MESH, 2, f[3] - 4>> \o id \o data
    BY DEF ToPacket
  <2> HIDE DEF bytes, id, data
  <2> QED
    BY <1>4, <1>5, <2>1 DEF Packs
<1>7. BLE_MESH \in Byte /\ Len(id) <= 255 /\ Len(data) <= 255
  <2>1. f[3] - 4 <= 255
    BY <1>2
  <2> QED
    BY <1>4, <1>5, <2>1 DEF BLE_MESH, Byte
<1> HIDE DEF bytes, id, data
<1>8. /\ bytes \in Seq(Byte)
      /\ Len(bytes) = 3 + Len(id) + Len(data)
      /\ bytes[1] = BLE_MESH /\ bytes[2] = Len(id) /\ bytes[3] = Len(data)
      /\ SubSeq(bytes, 4, 3 + Len(id)) = id
      /\ SubSeq(bytes, 4 + Len(id), Len(bytes)) = data
  <2>1. id \in Seq(Byte) /\ data \in Seq(Byte) /\ BLE_MESH \in Byte /\ Len(id) <= 255 /\ Len(data) <= 255
    BY <1>4, <1>5, <1>7
  <2> QED
    BY ONLY <1>6, <2>1, Binary
<1>9. WellCut(bytes)
  <2>1. Len(bytes) >= 3
    <3>1. Len(id) \in Nat /\ Len(data) \in Nat /\ Len(bytes) = 3 + Len(id) + Len(data)
      BY <1>4, <1>5, <1>8, LenProperties
    <3> QED
      BY ONLY <3>1
  <2> QED
    BY <1>8, <2>1 DEF WellCut
<1>10. fromBinary(bytes) = Message(BLE_MESH, id, data)
  BY <1>8, <1>9, Zenon DEF fromBinary
<1>11. ~(Len(id) > 255 \/ Len(data) > 255)
  BY <1>2, <1>4, <1>5
<1>12. fromBinary(bytes) = [type |-> BLE_MESH, id |-> id, data |-> data]
  BY <1>10, <1>11, Zenon DEF Message
<1> QED
  BY <1>1, <1>2, <1>4, <1>5, <1>8, <1>12 DEF bytes, id, data

\* What is published for it.
LEMMA Published ==
    ASSUME NEW f \in Seq(Byte), Len(f) >= 4, f[3] >= 4, Len(f) >= FrameLen(f),
           NEW x \in Seq(Byte), Len(x) = FrameLen(f), \A i \in 1 .. Len(x) : f[i] = x[i]
    PROVE  /\ fromBinary(ToPacket(f)) # Thrown
           /\ toJson(fromBinary(ToPacket(f))).connection_type.int = BLE_MESH
           /\ hexToBytes(toJson(fromBinary(ToPacket(f))).id.text) = SubSeq(x, 4, 5)
           /\ hexToBytes(toJson(fromBinary(ToPacket(f))).data.text) = SubSeq(x, 8, Len(x))
<1> DEFINE id == SubSeq(f, 4, 5)
           data == SubSeq(f, 8, FrameLen(f))
           m == fromBinary(ToPacket(f))
           n == Len(x)
<1>1. /\ id \in Seq(Byte) /\ Len(id) = 2 /\ data \in Seq(Byte) /\ Len(data) = f[3] - 4
      /\ f[3] \in Byte
      /\ m = [type |-> BLE_MESH, id |-> id, data |-> data]
  BY PacketOf
<1>2. n \in Nat /\ n = f[3] + 3 /\ n >= 7 /\ Len(f) \in Nat /\ n <= Len(f)
  <2>1. n \in Nat /\ Len(f) \in Nat
    BY LenProperties
  <2>2. f[3] \in Int /\ f[3] >= 4
    BY <1>1, ByteIsInt
  <2>3. n = f[3] + 3 /\ Len(f) >= n
    BY DEF FrameLen
  <2> HIDE DEF n
  <2> QED
    BY <2>1, <2>2, <2>3
<1>3. data = SubSeq(f, 8, n)
  OBVIOUS
<1> HIDE DEF m, n
<1>4. id = SubSeq(x, 4, 5)
  <2> DEFINE c == SubSeq(x, 4, 5)
  <2>1. 4 \in 1 .. Len(f) + 1 /\ 5 \in 4 - 1 .. Len(f) /\ 5 - 4 + 1 = 2
        /\ 4 \in 1 .. n + 1 /\ 5 \in 4 - 1 .. n
    BY <1>2
  <2>2. \A i \in 1 .. 5 - 4 + 1 : id[i] = f[4 + i - 1]
    BY <2>1, CutOut
  <2>3. c \in Seq(Byte) /\ Len(c) = 5 - 4 + 1 /\ \A i \in 1 .. 5 - 4 + 1 : c[i] = x[4 + i - 1]
    BY <2>1, CutOut DEF n
  <2> HIDE DEF c, id
  <2>4. ASSUME NEW i \in 1 .. 2 PROVE id[i] = c[i]
    <3>1. i \in 1 .. 5 - 4 + 1 /\ 4 + i - 1 \in 1 .. n
      BY <1>2
    <3> QED
      BY <2>2, <2>3, <3>1 DEF n
  <2>5. Len(c) = 2
    BY <2>1, <2>3
  <2>6. id = c
    BY <1>1, <2>3, <2>4, <2>5, SeqEqual
  <2> QED
    BY <2>6 DEF c
<1>5. data = SubSeq(x, 8, n)
  <2> DEFINE c == SubSeq(x, 8, n)
  <2>1. 8 \in 1 .. Len(f) + 1 /\ n \in 8 - 1 .. Len(f) /\ 8 \in 1 .. n + 1 /\ n \in 8 - 1 .. n
    BY <1>2
  <2>2. \A i \in 1 .. n - 8 + 1 : data[i] = f[8 + i - 1]
    BY <1>3, <2>1, CutOut
  <2>3. c \in Seq(Byte) /\ Len(c) = n - 8 + 1 /\ \A i \in 1 .. n - 8 + 1 : c[i] = x[8 + i - 1]
    BY <2>1, CutOut DEF n
  <2>4. n - 8 + 1 = f[3] - 4
    <3>1. f[3] \in Int /\ n = f[3] + 3
      BY <1>1, <1>2, ByteIsInt
    <3>2. \A z \in Int : \A y : y = z + 3 => y - 8 + 1 = z - 4
      OBVIOUS
    <3> QED
      BY <3>1, <3>2, Zenon
  <2> HIDE DEF c, data
  <2>5. ASSUME NEW i \in 1 .. n - 8 + 1 PROVE data[i] = c[i]
    <3>1. 8 + i - 1 \in 1 .. n
      BY <1>2
    <3> QED
      BY <2>2, <2>3, <3>1 DEF n
  <2>6. Len(data) = n - 8 + 1
    BY <1>1, <2>4
  <2>7. data = c
    BY <1>1, <2>3, <2>5, <2>6, SeqEqual
  <2> QED
    BY <2>7 DEF c
<1> HIDE DEF id, data
<1>6. m # Thrown
  BY <1>1, NotThrown, Zenon
<1>7. toJson(m) = [connection_type |-> [int |-> BLE_MESH], id |-> [text |-> bytesToHex(id)],
                   data |-> [text |-> bytesToHex(data)]]
  BY <1>1 DEF toJson
<1> DEFINE doc == toJson(m)
<1> HIDE DEF doc
<1>8. /\ doc.connection_type.int = BLE_MESH /\ doc.id.text = bytesToHex(id)
      /\ doc.data.text = bytesToHex(data)
  BY <1>7 DEF doc
<1>9. hexToBytes(bytesToHex(id)) = id /\ hexToBytes(bytesToHex(data)) = data
  BY <1>1, HexRoundTrip
<1>10. hexToBytes(doc.id.text) = id /\ hexToBytes(doc.data.text) = data
  BY <1>8, <1>9, Zenon
<1> QED
  BY <1>4, <1>5, <1>6, <1>8, <1>10 DEF doc, m, n

\* What Route makes of a document.
LEMMA MessageOf ==
    ASSUME NEW doc \in Documents, fromJson(doc) # Thrown
    PROVE  /\ WellFormed(doc)
           /\ doc.connection_type.int \in Int /\ Narrow(doc.connection_type.int) \in Byte
           /\ hexToBytes(doc.id.text) \in Seq(Byte) /\ Len(hexToBytes(doc.id.text)) <= 255
           /\ hexToBytes(doc.data.text) \in Seq(Byte) /\ Len(hexToBytes(doc.data.text)) <= 255
           /\ 2 * Len(hexToBytes(doc.id.text)) = Len(doc.id.text) /\ Len(doc.id.text) \in Nat
           /\ fromJson(doc) = [type |-> Narrow(doc.connection_type.int),
                               id |-> hexToBytes(doc.id.text), data |-> hexToBytes(doc.data.text)]
<1> DEFINE t == Narrow(doc.connection_type.int)
           id == hexToBytes(doc.id.text)
           data == hexToBytes(doc.data.text)
<1>1. WellFormed(doc) /\ fromJson(doc) = Message(t, id, data)
  BY Zenon DEF fromJson
<1>2. /\ "connection_type" \in DOMAIN doc /\ "id" \in DOMAIN doc /\ "data" \in DOMAIN doc
      /\ "int" \in DOMAIN doc.connection_type
      /\ "text" \in DOMAIN doc.id /\ "text" \in DOMAIN doc.data
  BY <1>1 DEF WellFormed
<1>3. t \in Byte /\ IsHex(doc.id.text) /\ IsHex(doc.data.text)
  BY <1>1, Zenon DEF WellFormed
<1>4. \A f \in DOMAIN doc : ("int" \in DOMAIN doc[f] => doc[f].int \in Int)
                            /\ ("text" \in DOMAIN doc[f] => doc[f].text \in Seq(STRING))
  BY DocumentAssumption
<1>5. /\ doc.connection_type.int \in Int
      /\ doc.id.text \in Seq(STRING) /\ doc.data.text \in Seq(STRING)
  BY <1>2, <1>4
<1>6. \A text \in Seq(STRING) : Len(text) \in Nat /\ DOMAIN text = 1 .. Len(text)
  BY LenProperties
<1>7. \A text \in Seq(STRING) : IsHex(text) =>
          hexToBytes(text) \in Seq(Byte) /\ 2 * Len(hexToBytes(text)) = Len(text)
  BY <1>6, HexBytes
<1>8. /\ id \in Seq(Byte) /\ data \in Seq(Byte)
      /\ 2 * Len(id) = Len(doc.id.text) /\ Len(doc.id.text) \in Nat
  BY <1>3, <1>5, <1>6, <1>7, Zenon
<1>9. Len(id) \in Nat /\ Len(data) \in Nat
  BY <1>8, LenProperties
<1> HIDE DEF t, id, data
<1>10. ~(Len(id) > 255 \/ Len(data) > 255)
  BY <1>1, Zenon DEF Message
<1>11. Len(id) <= 255 /\ Len(data) <= 255
  BY <1>9, <1>10
<1>12. fromJson(doc) = [type |-> t, id |-> id, data |-> data]
  BY <1>1, <1>10, Zenon DEF Message
<1> QED
  BY <1>1, <1>3, <1>5, <1>8, <1>11, <1>12 DEF t, id, data
-----------------------------------------------------------------------------
(* What is written, found first and due                                    *)

\* The line that is written for a document.
LineFor(doc) == IF fromJson(doc) = Thrown THEN <<>> ELSE preWrite(toBinary(fromJson(doc)))

\* The last part of a concatenation is a suffix of it.
LEMMA SuffixOf ==
    ASSUME NEW S, NEW a \in Seq(S), NEW b \in Seq(S), NEW s, Joins(s, a, b)
    PROVE  IsSuffix(b, s)
<1> DEFINE t == a \o b
           rt == Reverse(t)
           rb == Reverse(b)
           n == Len(b)
<1>1. /\ t \in Seq(S) /\ Len(a) \in Nat /\ n \in Nat /\ Len(t) = Len(a) + n
      /\ \A i \in 1 .. n : t[Len(a) + i] = b[i]
  BY Joined
<1>2. s = t
  BY DEF Joins
<1> HIDE DEF t
<1>3. rb = [j \in 1 .. n |-> b[(n - j) + 1]]
  BY DEF Reverse
<1>4. rt = [j \in 1 .. Len(t) |-> t[(Len(t) - j) + 1]]
  BY DEF Reverse
<1>5. rb \in Seq(S) /\ Len(rb) = n /\ \A j \in 1 .. n : rb[j] = b[(n - j) + 1]
  <2>1. ASSUME NEW j \in 1 .. n PROVE b[(n - j) + 1] \in S
    <3>1. (n - j) + 1 \in 1 .. n
      BY <1>1
    <3> QED
      BY <3>1, ElementOfSeq
  <2> DEFINE e(j) == b[(n - j) + 1]
  <2>2. \A j \in 1 .. n : e(j) \in S
    BY <2>1
  <2>3. rb = [j \in 1 .. n |-> e(j)]
    BY <1>3
  <2> HIDE DEF e
  <2>4. [j \in 1 .. n |-> e(j)] \in Seq(S)
    BY <1>1, <2>2, IsASeq
  <2> HIDE DEF rb
  <2>5. rb \in Seq(S) /\ Len(rb) = n
    BY <1>1, <2>3, <2>4
  <2> QED
    BY <1>3, <2>5
<1>6. rt \in Seq(S) /\ Len(rt) = Len(t) /\ \A j \in 1 .. Len(t) : rt[j] = t[(Len(t) - j) + 1]
  <2> DEFINE l == Len(t)
             e(j) == t[(l - j) + 1]
  <2>0. l \in Nat
    BY <1>1
  <2>1. ASSUME NEW j \in 1 .. l PROVE e(j) \in S
    <3>1. (l - j) + 1 \in 1 .. l
      BY <2>0
    <3> QED
      BY <1>1, <3>1, ElementOfSeq
  <2>3. rt = [j \in 1 .. l |-> e(j)]
    BY <1>4
  <2> HIDE DEF e
  <2>4. [j \in 1 .. l |-> e(j)] \in Seq(S)
    BY <2>0, <2>1, IsASeq
  <2> HIDE DEF rt, l
  <2>5. rt \in Seq(S) /\ Len(rt) = l
    BY <2>0, <2>3, <2>4
  <2> QED
    BY <1>4, <2>5 DEF l
<1> HIDE DEF rb, rt
<1> DEFINE c == SubSeq(rt, 1, n)
<1>7. c \in Seq(S) /\ Len(c) = n /\ \A j \in 1 .. n : c[j] = rt[1 + j - 1]
  <2>1. 1 \in 1 .. Len(rt) + 1 /\ n \in 1 - 1 .. Len(rt) /\ n - 1 + 1 = n
    BY <1>1, <1>6
  <2> QED
    BY <1>6, <2>1, CutOut
<1> HIDE DEF c
<1>8. ASSUME NEW j \in 1 .. n PROVE rb[j] = c[j]
  <2>1. 1 + j - 1 = j /\ j \in 1 .. Len(t) /\ (n - j) + 1 \in 1 .. n
        /\ (Len(t) - j) + 1 = Len(a) + ((n - j) + 1)
    BY <1>1
  <2>2. c[j] = rt[j]
    BY <1>7, <2>1
  <2>3. rt[j] = t[Len(a) + ((n - j) + 1)]
    BY <1>6, <2>1
  <2>4. t[Len(a) + ((n - j) + 1)] = b[(n - j) + 1]
    BY <1>1, <2>1
  <2> QED
    BY <1>5, <2>2, <2>3, <2>4
<1>9. rb = c
  BY <1>5, <1>7, <1>8, SeqEqual
<1>10. SubSeq(rb, 1, n) = rb
  BY <1>5, SubSeqFull
<1>11. Len(rb) <= Len(rt)
  BY <1>1, <1>5, <1>6
<1>12. IsPrefix(rb, rt)
  BY <1>5, <1>9, <1>10, <1>11 DEF IsPrefix, c
<1> QED
  BY <1>2, <1>12, Zenon DEF IsSuffix, rb, rt

\* What is written for a document: a type within a byte is BLE_MESH, the id has four
\* digits, and id and data end the line.
LEMMA Written ==
    ASSUME NEW doc \in Documents, NEW line, line = LineFor(doc)
    PROVE  /\ line \in Seq(Byte)
           /\ line # <<>> =>
                /\ doc.connection_type.int \in Byte => doc.connection_type.int = BLE_MESH
                /\ Len(doc.id.text) = 4
                /\ IsSuffix(hexToBytes(doc.id.text) \o hexToBytes(doc.data.text) \o <<13, 10>>, line)
<1>1. CASE fromJson(doc) = Thrown
  BY <1>1, EmptySeq, Zenon DEF LineFor
<1>2. CASE fromJson(doc) # Thrown
  <2> DEFINE t == Narrow(doc.connection_type.int)
             id == hexToBytes(doc.id.text)
             data == hexToBytes(doc.data.text)
             packet == toBinary(fromJson(doc))
  <2>1. /\ doc.connection_type.int \in Int /\ t \in Byte
        /\ id \in Seq(Byte) /\ Len(id) <= 255 /\ data \in Seq(Byte) /\ Len(data) <= 255
        /\ 2 * Len(id) = Len(doc.id.text) /\ Len(doc.id.text) \in Nat
        /\ fromJson(doc) = [type |-> t, id |-> id, data |-> data]
    BY <1>2, MessageOf
  <2>2. line = preWrite(packet)
    BY <1>2, Zenon DEF LineFor
  <2> DEFINE m == fromJson(doc)
  <2>3. Packs(packet, t, id, data)
    <3> HIDE DEF m, t, id, data
    <3>1. m = [type |-> t, id |-> id, data |-> data]
      BY <2>1 DEF m
    <3>2. m.type = t /\ m.id = id /\ m.data = data
      BY <3>1
    <3> QED
      BY <3>2, Zenon DEF toBinary, Packs, m
  <2>4. doc.connection_type.int \in Byte => doc.connection_type.int = t
    BY NarrowByte
  <2> HIDE DEF m, t, id, data, packet
  <2>5. /\ packet \in Seq(Byte)
        /\ Len(packet) = 3 + Len(id) + Len(data)
        /\ packet[1] = t /\ packet[2] = Len(id) /\ packet[3] = Len(data)
        /\ SubSeq(packet, 4, 3 + Len(id)) = id
        /\ SubSeq(packet, 4 + Len(id), Len(packet)) = data
    BY <2>1, <2>3, Binary
  <2>6. Len(id) \in Nat /\ Len(data) \in Nat
    BY <2>1, LenProperties
  <2>7. ASSUME Accepts(packet)
        PROVE  /\ t = BLE_MESH /\ Len(id) = 2
               /\ line = AtMesh \o id \o data \o <<13, 10>>
    <3>1. packet[1] = BLE_MESH /\ packet[2] = 2
      BY <2>7 DEF Accepts
    <3>2. t = BLE_MESH /\ Len(id) = 2
      BY <2>5, <3>1
    <3>3. 3 + Len(id) = 5 /\ 4 + Len(id) = 6 /\ Len(packet) = 5 + packet[3]
      BY <2>5, <2>6, <3>2
    <3>4. SubSeq(packet, 4, 5) = id /\ SubSeq(packet, 6, 5 + packet[3]) = data
      BY <2>5, <3>3
    <3>5. preWrite(packet) = AtMesh \o SubSeq(packet, 4, 5) \o SubSeq(packet, 6, 5 + packet[3]) \o <<13, 10>>
      BY <2>7, Zenon DEF preWrite
    <3> QED
      BY <2>2, <3>2, <3>4, <3>5, Zenon
  <2>8. ~Accepts(packet) => line = <<>>
    BY <2>2, Zenon DEF preWrite
  <2>9. ASSUME Accepts(packet)
        PROVE  line \in Seq(Byte) /\ IsSuffix(id \o data \o <<13, 10>>, line)
    <3> DEFINE end == <<13, 10>>
               tail == id \o data \o end
    <3>1. AtMesh \in Seq(Byte) /\ end \in Seq(Byte) /\ id \in Seq(Byte) /\ data \in Seq(Byte)
      BY <2>1 DEF AtMesh, Byte
    <3>2. line = AtMesh \o id \o data \o end
      BY <2>7, <2>9
    <3> HIDE DEF end
    <3>3. id \o data \in Seq(Byte)
      BY <3>1, ConcatProperties
    <3>4. tail \in Seq(Byte)
      BY <3>1, <3>3, ConcatProperties
    <3>5. AtMesh \o id \o data = AtMesh \o (id \o data)
      BY ONLY <3>1, ConcatAssociative
    <3>6. (AtMesh \o (id \o data)) \o end = AtMesh \o tail
      BY ONLY <3>1, <3>3, ConcatAssociative
    <3>7. line = AtMesh \o tail
      BY <3>2, <3>5, <3>6
    <3> HIDE DEF tail
    <3>8. line \in Seq(Byte)
      BY <3>1, <3>4, <3>7, ConcatProperties
    <3>9. IsSuffix(tail, line)
      BY <3>1, <3>4, <3>7, SuffixOf, Zenon DEF Joins
    <3> QED
      BY <3>8, <3>9 DEF tail, end
  <2>10. Accepts(packet) => Len(doc.id.text) = 4
    <3>1. ASSUME Accepts(packet) PROVE Len(doc.id.text) = 4
      <4>1. Len(id) = 2 /\ 2 * Len(id) = Len(doc.id.text)
        BY <2>1, <2>7, <3>1
      <4> QED
        BY ONLY <4>1
    <3> QED
      BY <3>1
  <2>11. CASE Accepts(packet)
    BY <2>4, <2>7, <2>9, <2>10, <2>11 DEF id, data
  <2>12. CASE ~Accepts(packet)
    BY <2>8, <2>12, EmptySeq
  <2> QED
    BY <2>11, <2>12
<1> QED
  BY <1>1, <1>2

\* What the search for the first item that is not noise finds.
LEMMA FirstNoNoise ==
    ASSUME NEW items \in Seq(Items), NEW k \in Nat, Leads(items, k)
    PROVE  SelectInSeq(items, LAMBDA item : ~IsNoise(item)) = IF k < Len(items) THEN k + 1 ELSE 0
<1> DEFINE I == {i \in 1 .. Len(items) : ~IsNoise(items[i])}
           f == SelectInSeq(items, LAMBDA item : ~IsNoise(item))
<1>1. Len(items) \in Nat /\ k \in 0 .. Len(items)
  BY LenProperties DEF Leads
<1>2. f = IF I # {} THEN Min(I) ELSE 0
  BY DEF SelectInSeq
<1>3. I \in SUBSET Nat
  BY <1>1
<1>4. ASSUME NEW j \in I PROVE k + 1 <= j /\ k < Len(items)
  <2>1. j \in 1 .. Len(items) /\ ~IsNoise(items[j])
    OBVIOUS
  <2>2. ~(j \in 1 .. k)
    BY <2>1 DEF Leads
  <2> QED
    BY <1>1, <2>1, <2>2
<1>5. k < Len(items) => k + 1 \in I
  BY <1>1 DEF Leads
<1> HIDE DEF I
<1>6. CASE k < Len(items)
  <2>1. Min(I) = k + 1
    BY <1>3, <1>4, <1>5, <1>6, Least
  <2> QED
    BY <1>2, <1>5, <1>6, <2>1
<1>7. CASE ~(k < Len(items))
  <2>1. I = {}
    BY <1>4, <1>7
  <2> QED
    BY <1>2, <1>7, <2>1
<1> QED
  BY <1>6, <1>7

\* The frame that is due.
LEMMA FirstFrame ==
    ASSUME NEW items \in Seq(Items), NEW k \in Nat, k < Len(items), Leads(items, k),
           IsFrame(items[k + 1])
    PROVE  SelectInSeq(items, IsFrame) = k + 1
<1> DEFINE I == {i \in 1 .. Len(items) : IsFrame(items[i])}
           f == SelectInSeq(items, IsFrame)
<1>1. Len(items) \in Nat
  BY LenProperties
<1>2. f = IF I # {} THEN Min(I) ELSE 0
  BY DEF SelectInSeq
<1>3. I \in SUBSET Nat /\ k + 1 \in I
  BY <1>1
<1>4. ASSUME NEW j \in I PROVE k + 1 <= j
  <2>1. j \in 1 .. Len(items) /\ ~IsNoise(items[j])
    BY DEF IsNoise
  <2>2. ~(j \in 1 .. k)
    BY <2>1 DEF Leads
  <2> QED
    BY <1>1, <2>1, <2>2
<1> HIDE DEF I
<1>5. Min(I) = k + 1
  BY <1>3, <1>4, Least
<1> QED
  BY <1>2, <1>3, <1>5
-----------------------------------------------------------------------------
(* The invariant, its start and the steps that take nothing                *)

\* What is buffered and under way is what was transmitted from the first item on that
\* was not taken, but for some of the noise in front of it.
InStep == ~dropped => Stands(readBuffer_ \o wire, pending)

\* Once a read was discarded nothing is followed any more.
Emptied == dropped => pending = <<>>

\* The inductive invariant.
IInv == TypeOK /\ InStep /\ Emptied /\ PublishesTheFrame /\ CommandCarriesTheDocument

\* The bounds are numbers.
LEMMA Bounds ==
    /\ MaxPending \in Nat /\ Capacity \in Nat /\ MaxRead \in Nat
    /\ 1 .. MaxRead \subseteq Nat
<1>1. MaxPending \in Nat /\ Capacity \in Nat /\ MaxRead \in Nat
  BY BluetoothAssumption
<1> QED
  BY <1>1

\* It holds when the device is opened.
LEMMA InitInv ==
    ASSUME Init
    PROVE  IInv
<1>1. /\ wire = <<>> /\ readBuffer_ = <<>> /\ dropped = FALSE /\ pending = <<>>
      /\ uplink = Nothing /\ command = NoCommand
  BY DEF Init
<1>2. uplink.packet = <<>> /\ uplink.frame = <<>> /\ command.line = <<>>
  BY <1>1 DEF Nothing, NoCommand
<1>3. /\ <<>> \in Seq(Byte) /\ <<>> \in Seq(Items) /\ Len(<<>>) = 0
  BY EmptySeq
<1>4. TypeOK
  <2>1. 0 <= Capacity /\ 0 <= MaxPending
    BY Bounds
  <2> QED
    BY <1>1, <1>2, <1>3, <2>1 DEF TypeOK
<1>5. InStep
  <2>1. readBuffer_ \o wire = <<>>
    BY <1>1, <1>3, ConcatEmptySeq
  <2>2. readBuffer_ \o wire = FlattenSeq(pending)
    BY <1>1, <2>1, FlattenEmpty
  <2>3. pending \in Seq(Items)
    BY <1>1, <1>3
  <2> QED
    BY <2>2, <2>3, StandsFresh DEF InStep
<1>6. Emptied
  BY <1>1 DEF Emptied
<1>7. PublishesTheFrame
  BY <1>2, Zenon DEF PublishesTheFrame
<1>8. CommandCarriesTheDocument
  BY <1>2, Zenon DEF CommandCarriesTheDocument
<1> QED
  BY <1>4, <1>5, <1>6, <1>7, <1>8 DEF IInv

\* The last packet, while there is no other.
LEMMA UplinkStays ==
    ASSUME PublishesTheFrame, uplink' = uplink
    PROVE  PublishesTheFrame'
BY Zenon DEF PublishesTheFrame

\* The last command, while there is no other.
LEMMA CommandStays ==
    ASSUME CommandCarriesTheDocument, command' = command
    PROVE  CommandCarriesTheDocument'
BY Zenon DEF CommandCarriesTheDocument

\* An item more goes under way behind the others.
LEMMA TransmitStep ==
    ASSUME IInv, NEW item \in Items, Transmit(item)
    PROVE  IInv'
<1>1. /\ Len(pending) < MaxPending /\ ~dropped
      /\ wire' = wire \o item /\ pending' = Append(pending, item)
      /\ readBuffer_' = readBuffer_ /\ dropped' = dropped /\ uplink' = uplink /\ command' = command
  BY DEF Transmit
<1>2. /\ wire \in Seq(Byte) /\ readBuffer_ \in Seq(Byte) /\ Len(readBuffer_) <= Capacity
      /\ dropped \in BOOLEAN /\ pending \in Seq(Items) /\ Len(pending) <= MaxPending
      /\ uplink.packet \in Seq(Byte) /\ command.line \in Seq(Byte)
  BY DEF IInv, TypeOK
<1>3. item \in Seq(Byte)
  BY ItemIsSeq
<1>4. TypeOK'
  <2>1. wire' \in Seq(Byte)
    BY <1>1, <1>2, <1>3, ConcatProperties
  <2>2. pending' \in Seq(Items) /\ Len(pending') = Len(pending) + 1 /\ Len(pending) \in Nat
    BY <1>1, <1>2, AppendProperties, LenProperties
  <2>3. Len(pending') <= MaxPending
    BY <1>1, <2>2, Bounds
  <2> QED
    BY <1>1, <1>2, <2>1, <2>2, <2>3 DEF TypeOK
<1>5. InStep'
  <2> DEFINE left == readBuffer_ \o wire
  <2>1. left \in Seq(Byte)
    BY <1>2, ConcatProperties
  <2>2. readBuffer_' \o wire' = left \o item
    <3>1. readBuffer_ \in Seq(Byte) /\ wire \in Seq(Byte) /\ item \in Seq(Byte)
      BY <1>2, <1>3
    <3>2. (readBuffer_ \o wire) \o item = readBuffer_ \o (wire \o item)
      BY ONLY <3>1, ConcatAssociative
    <3> QED
      BY <1>1, <3>2, Zenon
  <2>3. Stands(left, pending)
    BY <1>1 DEF IInv, InStep
  <2> HIDE DEF left
  <2>4. Stands(left \o item, Append(pending, item))
    BY <1>2, <2>1, <2>3, StandsMore
  <2> QED
    BY <1>1, <2>2, <2>4, Zenon DEF InStep
<1>6. Emptied'
  BY <1>1 DEF Emptied
<1>7. PublishesTheFrame' /\ CommandCarriesTheDocument'
  BY <1>1, UplinkStays, CommandStays DEF IInv
<1> QED
  BY <1>4, <1>5, <1>6, <1>7 DEF IInv

\* A read moves bytes from the line to the buffer.
LEMMA ReadFacts ==
    ASSUME TypeOK, NEW n \in 1 .. MaxRead, Read(n)
    PROVE  /\ Grown(n) \in Seq(Byte) /\ wire' \in Seq(Byte)
           /\ Grown(n) \o wire' = readBuffer_ \o wire
           /\ command' = command
<1> DEFINE a == SubSeq(wire, 1, n)
           b == SubSeq(wire, n + 1, Len(wire))
<1>1. n <= Len(wire) /\ wire' = b /\ command' = command
  BY DEF Read, ignoreBuffer
<1>2. wire \in Seq(Byte) /\ readBuffer_ \in Seq(Byte)
  BY DEF TypeOK
<1>3. n \in 0 .. Len(wire)
  <2>1. Len(wire) \in Nat /\ n \in Nat
    BY <1>2, Bounds, LenProperties
  <2> QED
    BY <1>1, <2>1
<1>4. a \in Seq(Byte) /\ b \in Seq(Byte) /\ wire = a \o b
  BY <1>2, <1>3, Halved
<1> HIDE DEF a, b
<1>5. Grown(n) = readBuffer_ \o a
  BY DEF Grown, a
<1>6. Grown(n) \in Seq(Byte)
  BY <1>2, <1>4, <1>5, ConcatProperties
<1>7. (readBuffer_ \o a) \o b = readBuffer_ \o (a \o b)
  <2>1. readBuffer_ \in Seq(Byte) /\ a \in Seq(Byte) /\ b \in Seq(Byte)
    BY <1>2, <1>4
  <2> QED
    BY ONLY <2>1, ConcatAssociative
<1>8. Grown(n) \o wire' = readBuffer_ \o wire
  BY <1>1, <1>4, <1>5, <1>7, Zenon
<1> QED
  BY <1>1, <1>4, <1>6, <1>8

\* What a step that leaves the packet alone has to show.
LEMMA ReadStep ==
    ASSUME IInv, NEW n \in 1 .. MaxRead, Read(n), uplink' = uplink,
           dropped' \in BOOLEAN,
           readBuffer_' \in Seq(Byte), Len(readBuffer_') <= Capacity,
           pending' \in Seq(Items), Len(pending') <= MaxPending,
           InStep', Emptied'
    PROVE  IInv'
<1>1. wire' \in Seq(Byte) /\ command' = command
  BY ReadFacts DEF IInv
<1>2. PublishesTheFrame' /\ CommandCarriesTheDocument'
  BY <1>1, UplinkStays, CommandStays DEF IInv
<1>3. uplink.packet \in Seq(Byte) /\ command.line \in Seq(Byte)
  BY DEF IInv, TypeOK
<1>4. uplink'.packet \in Seq(Byte) /\ command'.line \in Seq(Byte)
  BY <1>1, <1>3
<1>5. TypeOK'
  BY <1>1, <1>4 DEF TypeOK
<1> QED
  BY <1>2, <1>5 DEF IInv

\* A read for which there is no room.
LEMMA ReadDiscardedStep ==
    ASSUME IInv, NEW n \in 1 .. MaxRead, ReadDiscarded(n)
    PROVE  IInv'
<1>1. /\ Read(n) /\ dropped' = TRUE /\ pending' = <<>>
      /\ readBuffer_' = readBuffer_ /\ uplink' = uplink
  BY DEF ReadDiscarded
<1>2. readBuffer_ \in Seq(Byte) /\ Len(readBuffer_) <= Capacity
  BY DEF IInv, TypeOK
<1>3. pending' \in Seq(Items) /\ Len(pending') <= MaxPending
  BY <1>1, Bounds, EmptySeq
<1>4. InStep' /\ Emptied'
  BY <1>1 DEF InStep, Emptied
<1>5. readBuffer_' \in Seq(Byte) /\ Len(readBuffer_') <= Capacity /\ dropped' \in BOOLEAN
  BY <1>1, <1>2
<1> QED
  BY <1>1, <1>3, <1>4, <1>5, ReadStep

\* A read in which nothing is found stays in the buffer.
LEMMA NothingFoundStep ==
    ASSUME IInv, NEW n \in 1 .. MaxRead, NothingFound(n)
    PROVE  IInv'
<1>1. /\ Read(n) /\ Len(Grown(n)) <= Capacity /\ readBuffer_' = Grown(n)
      /\ dropped' = dropped /\ pending' = pending /\ uplink' = uplink
  BY DEF NothingFound, Scan
<1>2. Grown(n) \in Seq(Byte) /\ Grown(n) \o wire' = readBuffer_ \o wire
  BY <1>1, ReadFacts DEF IInv
<1>3. pending \in Seq(Items) /\ Len(pending) <= MaxPending /\ dropped \in BOOLEAN
  BY DEF IInv, TypeOK
<1>4. InStep'
  <2>1. readBuffer_' \o wire' = readBuffer_ \o wire
    BY <1>1, <1>2
  <2> QED
    BY <1>1, <2>1, Zenon DEF IInv, InStep
<1>5. Emptied'
  BY <1>1, Zenon DEF IInv, Emptied
<1> QED
  BY <1>1, <1>2, <1>3, <1>4, <1>5, ReadStep
-----------------------------------------------------------------------------
(* The steps that find something                                           *)

\* Where the scan stops there is something.
LEMMA FirstHitIsHit ==
    ASSUME NEW g \in Seq(Byte), Hits(g) # {}
    PROVE  FirstHit(g) \in 1 .. Len(g) - 3 /\ FirstHit(g) \in Nat /\ Len(g) \in Nat
<1>1. Len(g) \in Nat
  BY LenProperties
<1>2. Hits(g) \in SUBSET Nat /\ Hits(g) \subseteq 1 .. Len(g) - 3
  BY <1>1 DEF Hits
<1>3. \E i \in Hits(g) : \A j \in Hits(g) : i <= j
  BY <1>2, Smallest
<1>4. FirstHit(g) \in Hits(g)
  BY <1>3, Zenon DEF FirstHit
<1> QED
  BY <1>1, <1>2, <1>4

\* What ignoreBuffer leaves.
LEMMA Ignored ==
    ASSUME NEW s \in Seq(Byte), NEW m \in Nat, m <= Len(s)
    PROVE  ignoreBuffer(s, m) \in Seq(Byte) /\ Len(ignoreBuffer(s, m)) = Len(s) - m
<1>1. Len(s) \in Nat
  BY LenProperties
<1>2. m \in 0 .. Len(s)
  BY <1>1
<1> QED
  BY <1>2, Halved DEF ignoreBuffer

\* From the frame on there are four bytes or more in the buffer.
LEMMA FrameShape ==
    ASSUME TypeOK, NEW n \in 1 .. MaxRead, FrameFound(n), NEW f, f = FromFrame(n)
    PROVE  /\ f \in Seq(Byte) /\ Len(f) \in Nat /\ Len(f) >= 4 /\ Len(f) <= Capacity
           /\ FrameLen(f) \in Nat
<1> DEFINE g == Grown(n)
           h == FirstHit(g)
<1>1. Read(n) /\ Len(g) <= Capacity /\ Hits(g) # {}
  BY DEF FrameFound, Scan
<1>2. g \in Seq(Byte)
  BY <1>1, ReadFacts
<1>3. f = ignoreBuffer(g, h - 1)
  BY DEF FromFrame
<1> HIDE DEF g
<1>4. h \in 1 .. Len(g) - 3 /\ h \in Nat /\ Len(g) \in Nat
  BY <1>1, <1>2, FirstHitIsHit
<1> HIDE DEF h
<1>5. h - 1 \in Nat /\ h - 1 <= Len(g) /\ Len(g) - (h - 1) >= 4 /\ Len(g) - (h - 1) <= Capacity
      /\ Len(g) - (h - 1) \in Nat
  BY <1>1, <1>4, Bounds
<1> DEFINE m == h - 1
<1>6. m \in Nat /\ m <= Len(g) /\ f = ignoreBuffer(g, m)
  BY <1>3, <1>5
<1> HIDE DEF m
<1>7. f \in Seq(Byte) /\ Len(f) = Len(g) - m
  BY <1>2, <1>6, Ignored
<1>8. Len(f) \in Nat /\ Len(f) >= 4 /\ Len(f) <= Capacity
  BY <1>5, <1>7 DEF m
<1>9. FrameLen(f) \in Nat
  <2>1. 3 \in 1 .. Len(f)
    BY <1>8
  <2>2. f[3] \in Byte
    BY <1>7, <2>1, ElementOfSeq
  <2>3. \A b \in Byte : b + 3 \in Nat
    BY ByteIsInt
  <2> QED
    BY <2>2, <2>3, Zenon DEF FrameLen
<1> QED
  BY <1>7, <1>8, <1>9

\* The frame that is found is the first item that is not noise.
LEMMA FrameTaken ==
    ASSUME IInv, ~dropped, NEW n \in 1 .. MaxRead, FrameFound(n), NEW f, f = FromFrame(n)
    PROVE  \E k \in Nat : \E more \in Seq(Byte) :
              /\ k < Len(pending) /\ Leads(pending, k)
              /\ pending[k + 1] \in Items /\ IsFrame(pending[k + 1]) /\ pending[k + 1] \in Seq(Byte)
              /\ Len(pending[k + 1]) >= 4 /\ Len(pending[k + 1]) = pending[k + 1][3] + 3
              /\ more = FlattenSeq(SubSeq(pending, k + 2, Len(pending)))
              /\ f \o wire' = pending[k + 1] \o more
              /\ f \o wire' = FlattenSeq(SubSeq(pending, k + 1, Len(pending)))
<1> DEFINE g == Grown(n)
           h == FirstHit(g)
<1>1. Read(n) /\ Hits(g) # {} /\ StartsWith(g, h, Header)
  BY DEF FrameFound, Scan
<1>2. g \in Seq(Byte) /\ wire' \in Seq(Byte) /\ g \o wire' = readBuffer_ \o wire
  BY <1>1, ReadFacts DEF IInv
<1>3. pending \in Seq(Items)
  BY DEF IInv, TypeOK
<1>4. Stands(g \o wire', pending)
  BY <1>2, Zenon DEF IInv, InStep
<1>5. f = ignoreBuffer(g, h - 1)
  BY DEF FromFrame
<1> HIDE DEF g
<1> DEFINE items == pending
           w == wire'
           all == g \o w
<1>6. /\ items \in Seq(Items) /\ w \in Seq(Byte)
      /\ Joins(all, g, w) /\ Stands(all, items) /\ h = FirstHit(g)
  BY <1>2, <1>3, <1>4 DEF Joins
<1> HIDE DEF items, w, all, h
<1>7. \E k \in Nat : Finds(items, g, w, h, f, k)
  BY <1>1, <1>2, <1>5, <1>6, Taking
<1>8. PICK k \in Nat : Finds(items, g, w, h, f, k)
  BY <1>7
<1> DEFINE more == FlattenSeq(SubSeq(items, k + 2, Len(items)))
<1> DEFINE x == items[k + 1]
<1>9. x \in Items /\ ~IsNoise(x) /\ IsFrame(x)
  BY <1>1, <1>8, Zenon DEF Finds
<1>12. more \in Seq(Byte)
  BY <1>8, Zenon DEF Finds
<1> HIDE DEF x
<1>10. x \in Seq(Byte) /\ Len(x) >= 4 /\ Len(x) = x[3] + 3
  BY <1>9, ItemIsSeq, Looks
<1>11. /\ k < Len(items) /\ Leads(items, k)
       /\ x \in Items /\ IsFrame(x) /\ x \in Seq(Byte)
       /\ Len(x) >= 4 /\ Len(x) = x[3] + 3
       /\ more = FlattenSeq(SubSeq(items, k + 2, Len(items)))
       /\ f \o w = x \o more
       /\ f \o w = FlattenSeq(SubSeq(items, k + 1, Len(items)))
  BY <1>8, <1>9, <1>10, Zenon DEF x, Finds
<1> QED
  BY <1>11, <1>12, Zenon DEF items, w, x

\* A frame that is not whole stays at the front, and the noise before it goes.
LEMMA HalfFrameStep ==
    ASSUME IInv, NEW n \in 1 .. MaxRead, HalfFrame(n)
    PROVE  IInv'
<1> DEFINE f == FromFrame(n)
<1>1. /\ FrameFound(n) /\ Read(n) /\ readBuffer_' = f
      /\ dropped' = dropped /\ pending' = pending /\ uplink' = uplink
  BY DEF HalfFrame, FrameFound, Scan
<1> HIDE DEF f
<1>2. f \in Seq(Byte) /\ Len(f) <= Capacity
  BY <1>1, FrameShape DEF f, IInv
<1>3. pending \in Seq(Items) /\ Len(pending) <= MaxPending /\ dropped \in BOOLEAN
  BY DEF IInv, TypeOK
<1>4. InStep'
  <2> SUFFICES ASSUME ~dropped PROVE Stands(f \o wire', pending)
    BY <1>1, Zenon DEF InStep
  <2>1. PICK k \in Nat, more \in Seq(Byte) :
              /\ k < Len(pending) /\ Leads(pending, k)
              /\ f \o wire' = FlattenSeq(SubSeq(pending, k + 1, Len(pending)))
    BY <1>1, FrameTaken DEF f
  <2>2. k \in 0 .. Len(pending)
    BY <2>1 DEF Leads
  <2> QED
    BY <1>3, <2>1, <2>2, StandsAtItem
<1>5. Emptied'
  BY <1>1, Zenon DEF IInv, Emptied
<1> QED
  BY <1>1, <1>2, <1>3, <1>4, <1>5, ReadStep

\* The frames among the items.
Frames == {item \in Items : IsFrame(item)}

\* Nothing that is taken is noise.
LEMMA NoNoiseIn ==
    /\ \A item \in Frames : ~IsNoise(item)
    /\ \A item \in {Ack} : ~IsNoise(item)
BY DEF Frames, IsNoise

\* What taking an item leaves, in step or not.
LEMMA EmptiedBehind ==
    ASSUME IInv, NEW kinds, dropped' = dropped, pending' = Behind(pending, kinds)
    PROVE  pending' \in Seq(Items) /\ Len(pending') <= MaxPending /\ Emptied'
<1>1. pending \in Seq(Items) /\ Len(pending) <= MaxPending
  BY DEF IInv, TypeOK
<1>2. pending' \in Seq(Items) /\ Len(pending') <= Len(pending)
  BY <1>1, BehindType
<1>3. Len(pending) \in Nat /\ Len(pending') \in Nat
  BY <1>1, <1>2, LenProperties
<1>4. Len(pending') <= MaxPending
  BY <1>1, <1>2, <1>3, Bounds
<1>5. ASSUME dropped' PROVE pending' = <<>>
  <2>1. pending = <<>>
    BY <1>5 DEF IInv, Emptied
  <2>2. Len(pending') = 0
    BY <1>2, <1>3, <2>1, EmptySeq
  <2> QED
    BY <1>2, <2>2, EmptySeq
<1> QED
  BY <1>2, <1>4, <1>5 DEF Emptied

\* An acknowledgement goes, with the noise before it.
LEMMA AckFoundStep ==
    ASSUME IInv, NEW n \in 1 .. MaxRead, AckFound(n)
    PROVE  IInv'
<1> DEFINE g == Grown(n)
           h == FirstHit(g)
           f == ignoreBuffer(g, h - 1)
<1>1. /\ Read(n) /\ Len(g) <= Capacity /\ Hits(g) # {} /\ StartsWith(g, h, Ack)
      /\ readBuffer_' = ignoreBuffer(g, h + 3)
      /\ pending' = Behind(pending, {Ack}) /\ dropped' = dropped /\ uplink' = uplink
  BY DEF AckFound, Scan
<1>2. g \in Seq(Byte) /\ wire' \in Seq(Byte) /\ g \o wire' = readBuffer_ \o wire
  BY <1>1, ReadFacts DEF IInv
<1>3. dropped \in BOOLEAN /\ pending \in Seq(Items)
  BY DEF IInv, TypeOK
<1> HIDE DEF g
<1>4. h \in 1 .. Len(g) - 3 /\ h \in Nat /\ Len(g) \in Nat
  BY <1>1, <1>2, FirstHitIsHit
<1> HIDE DEF h, f
<1>5. readBuffer_' \in Seq(Byte) /\ Len(readBuffer_') <= Capacity
  <2> DEFINE m == h + 3
  <2>1. m \in Nat /\ m <= Len(g) /\ Len(g) - m <= Capacity
    BY <1>1, <1>4, Bounds
  <2> HIDE DEF m
  <2>2. ignoreBuffer(g, m) \in Seq(Byte) /\ Len(ignoreBuffer(g, m)) = Len(g) - m
    BY <1>2, <2>1, Ignored
  <2> QED
    BY <1>1, <2>1, <2>2 DEF m
<1>6. pending' \in Seq(Items) /\ Len(pending') <= MaxPending /\ Emptied'
  BY <1>1, EmptiedBehind
<1>7. InStep'
  <2> SUFFICES ASSUME ~dropped PROVE Stands(readBuffer_' \o wire', pending')
    BY <1>1, Zenon DEF InStep
  <2>1. Stands(g \o wire', pending)
    BY <1>2, Zenon DEF IInv, InStep
  <2>2. h = FirstHit(g) /\ f = ignoreBuffer(g, h - 1)
    BY DEF h, f
  <2> DEFINE items == pending
             w == wire'
             all == g \o w
  <2>3. items \in Seq(Items) /\ w \in Seq(Byte) /\ Joins(all, g, w) /\ Stands(all, items)
    BY <1>2, <1>3, <2>1 DEF Joins
  <2> HIDE DEF items, w, all
  <2>4. \E k \in Nat : Finds(items, g, w, h, f, k)
    BY <1>1, <1>2, <2>2, <2>3, Taking
  <2>5. PICK k \in Nat : Finds(items, g, w, h, f, k)
    BY <2>4
  <2> DEFINE more == FlattenSeq(SubSeq(items, k + 2, Len(items)))
  <2>10. /\ k < Len(items) /\ Leads(items, k)
         /\ StartsWith(g, h, Ack) <=> items[k + 1] = Ack
         /\ items[k + 1] = Ack => ignoreBuffer(g, h + 3) \o w = more
    BY <2>5, Zenon DEF Finds
  <2>6. items[k + 1] = Ack
    BY <1>1, <2>10, Zenon
  <2>7. items[k + 1] \in {Ack}
    BY <2>6
  <2>8. Behind(items, {Ack}) = SubSeq(items, k + 2, Len(items))
    BY <2>3, <2>10, <2>7, NoNoiseIn, BehindTaken
  <2>9. readBuffer_' \o wire' = FlattenSeq(pending')
    BY <1>1, <2>10, <2>6, <2>8, Zenon DEF items, w
  <2> QED
    <3> DEFINE left == readBuffer_' \o wire'
               rest == pending'
    <3>1. rest \in Seq(Items) /\ left = FlattenSeq(rest)
      BY <1>6, <2>9
    <3> HIDE DEF left, rest
    <3>2. Stands(left, rest)
      BY <3>1, StandsFresh
    <3> QED
      BY <3>2 DEF left, rest
<1> QED
  BY <1>1, <1>3, <1>5, <1>6, <1>7, ReadStep

\* What every whole frame leaves, valid or not.
LEMMA WholeFrameLeaves ==
    ASSUME IInv, NEW n \in 1 .. MaxRead, WholeFrame(n), dropped' = dropped,
           pending' = Behind(pending, Frames)
    PROVE  /\ Read(n)
           /\ readBuffer_' \in Seq(Byte) /\ Len(readBuffer_') <= Capacity
           /\ pending' \in Seq(Items) /\ Len(pending') <= MaxPending
           /\ InStep' /\ Emptied'
<1> DEFINE f == FromFrame(n)
<1>1. /\ Read(n) /\ FrameFound(n) /\ Len(f) >= FrameLen(f)
      /\ readBuffer_' = ignoreBuffer(f, FrameLen(f))
  BY DEF WholeFrame, FrameFound, Scan
<1>2. pending \in Seq(Items)
  BY DEF IInv, TypeOK
<1>3. wire' \in Seq(Byte)
  BY <1>1, ReadFacts DEF IInv
<1> HIDE DEF f
<1>4. f \in Seq(Byte) /\ Len(f) \in Nat /\ Len(f) >= 4 /\ Len(f) <= Capacity /\ FrameLen(f) \in Nat
  BY <1>1, FrameShape DEF f, IInv
<1>5. readBuffer_' \in Seq(Byte) /\ Len(readBuffer_') <= Capacity
  <2>1. ignoreBuffer(f, FrameLen(f)) \in Seq(Byte)
        /\ Len(ignoreBuffer(f, FrameLen(f))) = Len(f) - FrameLen(f)
    BY <1>1, <1>4, Ignored
  <2>2. Len(f) - FrameLen(f) <= Capacity
    BY <1>1, <1>4, Bounds
  <2> QED
    BY <1>1, <2>1, <2>2
<1>6. pending' \in Seq(Items) /\ Len(pending') <= MaxPending /\ Emptied'
  BY EmptiedBehind
<1>7. InStep'
  <2> SUFFICES ASSUME ~dropped PROVE Stands(readBuffer_' \o wire', pending')
    BY Zenon DEF InStep
  <2>1. PICK k \in Nat, more \in Seq(Byte) :
              /\ k < Len(pending) /\ Leads(pending, k)
              /\ pending[k + 1] \in Items /\ IsFrame(pending[k + 1]) /\ pending[k + 1] \in Seq(Byte)
              /\ Len(pending[k + 1]) >= 4 /\ Len(pending[k + 1]) = pending[k + 1][3] + 3
              /\ more = FlattenSeq(SubSeq(pending, k + 2, Len(pending)))
              /\ f \o wire' = pending[k + 1] \o more
    <3>1. \E k \in Nat : \E more \in Seq(Byte) :
              /\ k < Len(pending) /\ Leads(pending, k)
              /\ pending[k + 1] \in Items /\ IsFrame(pending[k + 1]) /\ pending[k + 1] \in Seq(Byte)
              /\ Len(pending[k + 1]) >= 4 /\ Len(pending[k + 1]) = pending[k + 1][3] + 3
              /\ more = FlattenSeq(SubSeq(pending, k + 2, Len(pending)))
              /\ f \o wire' = pending[k + 1] \o more
              /\ f \o wire' = FlattenSeq(SubSeq(pending, k + 1, Len(pending)))
      BY <1>1, FrameTaken DEF f
    <3> QED
      BY <3>1, Zenon
  <2> DEFINE x == pending[k + 1]
             w == wire'
             all == f \o w
  <2>2. /\ x \in Seq(Byte) /\ Len(x) >= 4 /\ Len(x) = x[3] + 3 /\ w \in Seq(Byte)
        /\ Joins(all, f, w) /\ Joins(all, x, more)
    BY <1>3, <2>1, Zenon DEF Joins
  <2> HIDE DEF x, w, all
  <2>7. Joins(more, ignoreBuffer(f, FrameLen(f)), w)
    BY <1>1, <1>4, <2>2, TakeFrame
  <2>3. ignoreBuffer(f, FrameLen(f)) \o w = more
    BY <2>7, Zenon DEF Joins
  <2>4. pending[k + 1] \in Frames
    BY <2>1 DEF Frames
  <2>5. pending' = SubSeq(pending, k + 2, Len(pending))
    BY <1>2, <2>1, <2>4, NoNoiseIn, BehindTaken
  <2>6. readBuffer_' \o wire' = FlattenSeq(pending')
    BY <1>1, <2>1, <2>3, <2>5, Zenon DEF w
  <2> QED
    <3> DEFINE left == readBuffer_' \o wire'
               rest == pending'
    <3>1. rest \in Seq(Items) /\ left = FlattenSeq(rest)
      BY <1>6, <2>6
    <3> HIDE DEF left, rest
    <3>2. Stands(left, rest)
      BY <3>1, StandsFresh
    <3> QED
      BY <3>2 DEF left, rest
<1> QED
  BY <1>1, <1>5, <1>6, <1>7

\* A frame too short for an address goes, and nothing is published.
LEMMA InvalidFrameStep ==
    ASSUME IInv, NEW n \in 1 .. MaxRead, InvalidFrame(n)
    PROVE  IInv'
<1>1. WholeFrame(n) /\ dropped' = dropped /\ uplink' = uplink /\ pending' = Behind(pending, Frames)
  BY DEF InvalidFrame, Frames
<1>2. dropped' \in BOOLEAN
  BY <1>1 DEF IInv, TypeOK
<1>3. /\ Read(n)
      /\ readBuffer_' \in Seq(Byte) /\ Len(readBuffer_') <= Capacity
      /\ pending' \in Seq(Items) /\ Len(pending') <= MaxPending
      /\ InStep' /\ Emptied'
  BY <1>1, WholeFrameLeaves
<1> QED
  BY <1>1, <1>2, <1>3, ReadStep
-----------------------------------------------------------------------------
(* The packet, the command and the invariance                              *)

\* A frame goes, and its packet is the one of the frame that was due.
LEMMA PacketFoundStep ==
    ASSUME IInv, NEW n \in 1 .. MaxRead, PacketFound(n)
    PROVE  IInv'
<1> DEFINE f == FromFrame(n)
           w == wire'
<1>1. /\ WholeFrame(n) /\ f[3] >= 4 /\ dropped' = dropped
      /\ uplink' = [packet |-> ToPacket(f), frame |-> Due]
      /\ pending' = Behind(pending, Frames)
  BY DEF PacketFound, Frames
<1>2. /\ Read(n) /\ FrameFound(n) /\ Len(f) >= FrameLen(f)
  BY <1>1 DEF WholeFrame, FrameFound, Scan
<1>3. /\ Read(n)
      /\ readBuffer_' \in Seq(Byte) /\ Len(readBuffer_') <= Capacity
      /\ pending' \in Seq(Items) /\ Len(pending') <= MaxPending
      /\ InStep' /\ Emptied'
  BY <1>1, WholeFrameLeaves
<1>4. wire' \in Seq(Byte) /\ command' = command
  BY <1>2, ReadFacts DEF IInv
<1>5. uplink'.packet = ToPacket(f) /\ uplink'.frame = Due
  BY <1>1
<1>6. f = FromFrame(n) /\ f \in Seq(Byte) /\ Len(f) \in Nat /\ Len(f) >= 4
  <2> HIDE DEF f
  <2>1. f \in Seq(Byte) /\ Len(f) \in Nat /\ Len(f) >= 4
    BY <1>2, FrameShape DEF f, IInv
  <2> QED
    BY <2>1 DEF f
<1> HIDE DEF f, w
<1>7. ToPacket(f) \in Seq(Byte)
  BY <1>1, <1>2, <1>6, PacketOf
<1>8. TypeOK'
  <2>1. dropped' \in BOOLEAN /\ command'.line \in Seq(Byte)
    BY <1>1, <1>4 DEF IInv, TypeOK
  <2> QED
    BY <1>3, <1>4, <1>5, <1>7, <2>1 DEF TypeOK
<1>9. CommandCarriesTheDocument'
  BY <1>4, CommandStays DEF IInv
<1>10. ASSUME Due # <<>>
       PROVE  /\ fromBinary(ToPacket(f)) # Thrown
              /\ toJson(fromBinary(ToPacket(f))).connection_type.int = BLE_MESH
              /\ hexToBytes(toJson(fromBinary(ToPacket(f))).id.text) = SubSeq(Due, 4, 5)
              /\ hexToBytes(toJson(fromBinary(ToPacket(f))).data.text) = SubSeq(Due, 8, Len(Due))
  <2>1. ~dropped
    <3> SUFFICES ASSUME dropped PROVE FALSE
      OBVIOUS
    <3>1. pending = <<>>
      BY DEF IInv, Emptied
    <3> DEFINE I == {i \in 1 .. Len(pending) : IsFrame(pending[i])}
               g == SelectInSeq(pending, IsFrame)
    <3>2. g = IF I # {} THEN Min(I) ELSE 0
      BY DEF SelectInSeq
    <3>3. I = {}
      BY <3>1, EmptySeq
    <3> HIDE DEF I
    <3>4. g = 0
      BY <3>2, <3>3
    <3>5. Due = <<>>
      BY <3>4 DEF Due
    <3> QED
      BY <1>10, <3>5
  <2>2. \E k \in Nat : \E more \in Seq(Byte) :
              /\ k < Len(pending) /\ Leads(pending, k)
              /\ pending[k + 1] \in Items /\ IsFrame(pending[k + 1]) /\ pending[k + 1] \in Seq(Byte)
              /\ Len(pending[k + 1]) >= 4 /\ Len(pending[k + 1]) = pending[k + 1][3] + 3
              /\ more = FlattenSeq(SubSeq(pending, k + 2, Len(pending)))
              /\ f \o wire' = pending[k + 1] \o more
              /\ f \o wire' = FlattenSeq(SubSeq(pending, k + 1, Len(pending)))
    BY <1>2, <1>6, <2>1, FrameTaken
  <2>3. PICK k \in Nat, more \in Seq(Byte) :
              /\ k < Len(pending) /\ Leads(pending, k)
              /\ IsFrame(pending[k + 1]) /\ pending[k + 1] \in Seq(Byte)
              /\ Len(pending[k + 1]) >= 4 /\ Len(pending[k + 1]) = pending[k + 1][3] + 3
              /\ f \o wire' = pending[k + 1] \o more
    BY <2>2, Zenon
  <2> DEFINE x == pending[k + 1]
             all == f \o wire'
  <2>4. /\ x \in Seq(Byte) /\ Len(x) >= 4 /\ Len(x) = x[3] + 3 /\ w \in Seq(Byte)
        /\ Joins(all, f, w) /\ Joins(all, x, more)
    BY <1>4, <2>3, Zenon DEF Joins, w
  <2>5. Due = x
    <3> DEFINE items == pending
    <3>1. items \in Seq(Items) /\ k < Len(items) /\ Leads(items, k) /\ IsFrame(items[k + 1])
      BY <2>3 DEF IInv, TypeOK
    <3> HIDE DEF items
    <3>2. SelectInSeq(items, IsFrame) = k + 1
      BY <3>1, FirstFrame
    <3>3. k + 1 # 0
      OBVIOUS
    <3> QED
      BY <3>2, <3>3, Zenon DEF Due, items
  <2> HIDE DEF x, all
  <2>6. FrameLen(f) = Len(x) /\ \A i \in 1 .. Len(x) : f[i] = x[i]
    BY <1>2, <1>6, <2>4, TakeFrame
  <2>7. /\ fromBinary(ToPacket(f)) # Thrown
        /\ toJson(fromBinary(ToPacket(f))).connection_type.int = BLE_MESH
        /\ hexToBytes(toJson(fromBinary(ToPacket(f))).id.text) = SubSeq(x, 4, 5)
        /\ hexToBytes(toJson(fromBinary(ToPacket(f))).data.text) = SubSeq(x, 8, Len(x))
    BY <1>1, <1>2, <1>6, <2>4, <2>6, Published
  <2> QED
    BY <2>5, <2>7, Zenon
<1>11. PublishesTheFrame'
  BY <1>5, <1>10, Zenon DEF PublishesTheFrame
<1> QED
  BY <1>3, <1>8, <1>9, <1>11 DEF IInv

\* A document of the broker.
LEMMA CommandStep ==
    ASSUME IInv, NEW doc \in Documents, Command(doc)
    PROVE  IInv'
<1>1. /\ command' = [doc |-> doc, line |-> LineFor(doc)]
      /\ wire' = wire /\ readBuffer_' = readBuffer_ /\ dropped' = dropped
      /\ pending' = pending /\ uplink' = uplink
  BY DEF Command, LineFor, up
<1> DEFINE line == LineFor(doc)
<1>2. command'.doc = doc /\ command'.line = line
  BY <1>1
<1> HIDE DEF line
<1>3. /\ line \in Seq(Byte)
      /\ line # <<>> =>
            /\ doc.connection_type.int \in Byte => doc.connection_type.int = BLE_MESH
            /\ Len(doc.id.text) = 4
            /\ IsSuffix(hexToBytes(doc.id.text) \o hexToBytes(doc.data.text) \o <<13, 10>>, line)
  BY Written DEF line
<1>4. TypeOK'
  BY <1>1, <1>2, <1>3 DEF IInv, TypeOK
<1>5. InStep' /\ Emptied'
  BY <1>1, Zenon DEF IInv, InStep, Emptied
<1>6. PublishesTheFrame'
  BY <1>1, UplinkStays DEF IInv
<1>7. CommandCarriesTheDocument'
  BY <1>2, <1>3, Zenon DEF CommandCarriesTheDocument
<1> QED
  BY <1>4, <1>5, <1>6, <1>7 DEF IInv

\* Every step keeps the invariant.
LEMMA NextInv ==
    ASSUME IInv, [Next]_vars
    PROVE  IInv'
<1>1. CASE UNCHANGED vars
  <2>1. /\ wire' = wire /\ readBuffer_' = readBuffer_ /\ dropped' = dropped
        /\ pending' = pending /\ uplink' = uplink /\ command' = command
    BY <1>1 DEF vars, up
  <2>2. TypeOK'
    BY <2>1 DEF IInv, TypeOK
  <2>3. InStep' /\ Emptied'
    BY <2>1, Zenon DEF IInv, InStep, Emptied
  <2>4. PublishesTheFrame' /\ CommandCarriesTheDocument'
    BY <2>1, UplinkStays, CommandStays DEF IInv
  <2> QED
    BY <2>2, <2>3, <2>4 DEF IInv
<1>2. ASSUME NEW item \in Items, Transmit(item) PROVE IInv'
  BY <1>2, TransmitStep
<1>3. ASSUME NEW n \in 1 .. MaxRead, postRead(n) PROVE IInv'
  <2>1. CASE ReadDiscarded(n)
    BY <2>1, ReadDiscardedStep
  <2>2. CASE NothingFound(n)
    BY <2>2, NothingFoundStep
  <2>3. CASE AckFound(n)
    BY <2>3, AckFoundStep
  <2>4. CASE HalfFrame(n)
    BY <2>4, HalfFrameStep
  <2>5. CASE InvalidFrame(n)
    BY <2>5, InvalidFrameStep
  <2>6. CASE PacketFound(n)
    BY <2>6, PacketFoundStep
  <2> QED
    BY <1>3, <2>1, <2>2, <2>3, <2>4, <2>5, <2>6, Zenon DEF postRead
<1>4. ASSUME NEW doc \in Documents, Command(doc) PROVE IInv'
  BY <1>4, CommandStep
<1> QED
  BY <1>1, <1>2, <1>3, <1>4, Zenon DEF Next

\* The invariant holds in every state of every execution.
THEOREM Invariance == Spec => []IInv
<1>1. Init => IInv
  BY InitInv
<1>2. IInv /\ [Next]_vars => IInv'
  BY NextInv
<1> QED
  BY <1>1, <1>2, PTL DEF Spec

\* The variables keep their types, the buffer its capacity and the line its bound.
THEOREM TypeCorrect == Spec => []TypeOK
<1>1. IInv => TypeOK
  BY DEF IInv
<1> QED
  BY <1>1, Invariance, PTL

\* What the invariant says of the suffixes.
LEMMA Shows ==
    ASSUME IInv
    PROVE  KeepsInStep
<1> DEFINE transmitted == FlattenSeq(pending)
           left == readBuffer_ \o wire
           items == pending
           search == SelectInSeq(pending, LAMBDA item : ~IsNoise(item))
<1> SUFFICES ASSUME ~dropped
             PROVE  /\ IsSuffix(left, transmitted)
                    /\ search # 0 => IsSuffix(FlattenSeq(SubSeq(pending, search, Len(pending))), left)
  BY Zenon DEF KeepsInStep
<1>1. Stands(left, items)
  BY DEF IInv, InStep
<1>2. items \in Seq(Items) /\ left \in Seq(Byte)
  BY ConcatProperties DEF IInv, TypeOK
<1>3. items \in Seq(Seq(Byte))
  BY <1>2, ItemsAreSeqs
<1> HIDE DEF left, items
<1>4. PICK k \in 0 .. Len(items) : \E gone, noise \in Seq(Byte) :
          /\ Leads(items, k)
          /\ FlattenSeq(SubSeq(items, 1, k)) = gone \o noise
          /\ left = noise \o FlattenSeq(SubSeq(items, k + 1, Len(items)))
  BY <1>1, <1>2, StandsElim
<1>5. PICK gone \in Seq(Byte), noise \in Seq(Byte) :
          /\ Leads(items, k)
          /\ FlattenSeq(SubSeq(items, 1, k)) = gone \o noise
          /\ left = noise \o FlattenSeq(SubSeq(items, k + 1, Len(items)))
  BY <1>4
<1> DEFINE rest == FlattenSeq(SubSeq(items, k + 1, Len(items)))
<1>6. rest \in Seq(Byte) /\ FlattenSeq(items) = FlattenSeq(SubSeq(items, 1, k)) \o rest
  BY <1>3, FlattenSplit
<1> HIDE DEF rest
<1>7. FlattenSeq(items) = gone \o left
  <2>1. gone \in Seq(Byte) /\ noise \in Seq(Byte) /\ rest \in Seq(Byte)
    BY <1>6
  <2>2. (gone \o noise) \o rest = gone \o (noise \o rest)
    BY ONLY <2>1, ConcatAssociative
  <2>3. left = noise \o rest
    BY <1>5 DEF rest
  <2> QED
    BY <1>5, <1>6, <2>2, <2>3, Zenon
<1>8. IsSuffix(left, transmitted)
  <2>1. Joins(transmitted, gone, left)
    BY <1>7, Zenon DEF Joins, items
  <2> HIDE DEF transmitted
  <2> QED
    BY <1>2, <2>1, SuffixOf
<1>9. ASSUME search # 0
      PROVE  IsSuffix(FlattenSeq(SubSeq(pending, search, Len(pending))), left)
  <2> DEFINE found == SelectInSeq(items, LAMBDA item : ~IsNoise(item))
  <2>1. k \in Nat
    BY <1>2, LenProperties
  <2>2. found = IF k < Len(items) THEN k + 1 ELSE 0
    BY <1>2, <1>5, <2>1, FirstNoNoise
  <2>3. found = search
    BY DEF items
  <2> HIDE DEF found, search
  <2>4. search = k + 1
    BY <1>9, <2>2, <2>3
  <2>5. Joins(left, noise, rest)
    BY <1>5, Zenon DEF Joins, rest
  <2>6. IsSuffix(rest, left)
    BY <1>6, <2>5, SuffixOf
  <2> QED
    BY <2>4, <2>6, Zenon DEF rest, items
<1> QED
  BY <1>8, <1>9

\* However the stream is cut into reads, what is buffered and under way is what was
\* transmitted from the first item on that was not taken, with no more than some noise
\* gone in front of it: postRead cuts no frame, skips none and takes none twice, until a
\* read is discarded.  For any items, any size of the buffer and any size of the reads.
THEOREM StaysInStep == Spec => []KeepsInStep
<1>1. IInv => KeepsInStep
  BY Shows
<1> QED
  BY <1>1, Invariance, PTL

\* What is published for a frame carries the address and the payload of that frame, as
\* text in hexadecimal (postRead, fromBinary, toJson).
THEOREM FramesArePublished == Spec => []PublishesTheFrame
<1>1. IInv => PublishesTheFrame
  BY DEF IInv
<1> QED
  BY <1>1, Invariance, PTL

\* What is written for a document of the broker ends with its id and its data, and nothing
\* is written unless its id has two bytes, nor for a type within 0..255 but BLE_MESH
\* (fromJson, toBinary, preWrite).
THEOREM DocumentsAreCarried == Spec => []CommandCarriesTheDocument
<1>1. IInv => CommandCarriesTheDocument
  BY DEF IInv
<1> QED
  BY <1>1, Invariance, PTL
-----------------------------------------------------------------------------
(* A whole item is not passed over                                         *)

\* The same for the equation by its name.
LEMMA Parts ==
    ASSUME NEW S, NEW a \in Seq(S), NEW b \in Seq(S), NEW s, Joins(s, a, b)
    PROVE  /\ s \in Seq(S)
           /\ Len(a) \in Nat /\ Len(b) \in Nat /\ Len(s) = Len(a) + Len(b)
           /\ \A i \in 1 .. Len(a) : s[i] = a[i]
           /\ \A i \in 1 .. Len(b) : s[Len(a) + i] = b[i]
BY Joined DEF Joins

\* An item all of whose bytes are in g is a hit.
LEMMA WholeIsHit ==
    ASSUME NEW items \in Seq(Items), NEW k \in Nat, k < Len(items), Leads(items, k),
           NEW g \in Seq(Byte), NEW w \in Seq(Byte), NEW noise \in Seq(Byte),
           NEW rest, rest = FlattenSeq(SubSeq(items, k + 1, Len(items))),
           NEW s, Joins(s, g, w), Joins(s, noise, rest),
           Len(FlattenSeq(SubSeq(items, k + 2, Len(items)))) >= Len(w)
    PROVE  Hits(g) # {}
<1> DEFINE x == items[k + 1]
           more == FlattenSeq(SubSeq(items, k + 2, Len(items)))
           n == Len(noise)
<1>1. x \in Seq(Byte) /\ more \in Seq(Byte) /\ Joins(rest, x, more)
  <2>1. items \in Seq(Seq(Byte))
    BY ItemsAreSeqs
  <2> QED
    BY <2>1, FlattenFirst DEF Joins
<1>2. x \in Items /\ ~IsNoise(x)
  <2>1. k + 1 \in 1 .. Len(items)
    BY LenProperties
  <2> QED
    BY <2>1, ElementOfSeq DEF Leads
<1>3. Len(more) >= Len(w)
  OBVIOUS
<1> HIDE DEF x, more
<1>4. /\ Len(x) >= 4
      /\ x = Ack \/ IsFrame(x)
      /\ IsFrame(x) => x[1] = 241 /\ x[2] = 221
      /\ x = Ack => x[1] = 79 /\ x[2] = 75 /\ x[3] = 13 /\ x[4] = 10
  BY <1>2, Looks
<1>5. /\ Len(x) \in Nat /\ Len(more) \in Nat /\ Len(rest) = Len(x) + Len(more)
      /\ rest \in Seq(Byte)
      /\ \A i \in 1 .. Len(x) : rest[i] = x[i]
  BY <1>1, Parts
<1>7. /\ Len(g) \in Nat /\ Len(w) \in Nat /\ Len(s) = Len(g) + Len(w)
      /\ \A i \in 1 .. Len(g) : s[i] = g[i]
  BY Parts
<1>8. /\ n \in Nat /\ Len(s) = n + Len(rest)
      /\ \A i \in 1 .. Len(rest) : s[n + i] = rest[i]
  BY <1>5, Parts, SMTT(30)
<1> HIDE DEF n
<1>9. Len(g) >= n + Len(x)
  <2>1. \A a, b, c, d, e \in Nat : a + b = c + (d + e) /\ e >= b => a >= c + d
    OBVIOUS
  <2>2. Len(g) + Len(w) = n + (Len(x) + Len(more))
    BY <1>5, <1>7, <1>8
  <2> QED
    BY <1>3, <1>5, <1>7, <1>8, <2>1, <2>2
<1>10. \A i \in 1 .. 4 : g[n + i] = x[i]
  <2> TAKE i \in 1 .. 4
  <2>1. i \in 1 .. Len(x) /\ i \in 1 .. Len(rest) /\ n + i \in 1 .. Len(g)
    <3>1. /\ Len(g) \in Nat /\ Len(x) \in Nat /\ Len(more) \in Nat /\ n \in Nat
          /\ Len(x) >= 4 /\ Len(g) >= n + Len(x) /\ Len(rest) = Len(x) + Len(more)
      BY <1>4, <1>5, <1>7, <1>8, <1>9, SMTT(30)
    <3>2. i \in Nat /\ i >= 1 /\ i <= 4
      OBVIOUS
    <3> QED
      BY ONLY <3>1, <3>2
  <2> QED
    BY <1>5, <1>7, <1>8, <2>1
<1> DEFINE h == n + 1
<1>11. g[h] = x[1] /\ g[h + 1] = x[2] /\ g[h + 2] = x[3] /\ g[h + 3] = x[4]
  <2>1. h + 1 = n + 2 /\ h + 2 = n + 3 /\ h + 3 = n + 4
        /\ 1 \in 1 .. 4 /\ 2 \in 1 .. 4 /\ 3 \in 1 .. 4 /\ 4 \in 1 .. 4
    BY <1>8
  <2> QED
    BY <1>10, <2>1
<1>12. h \in 1 .. Len(g) - 3 /\ h \in 1 .. Len(g) - 1
  <2>1. {Len(g), Len(x), n} \subseteq Nat /\ Len(x) >= 4 /\ Len(g) >= n + Len(x)
    BY <1>4, <1>5, <1>7, <1>8, <1>9
  <2> QED
    BY ONLY <2>1
<1> HIDE DEF h
<1>13. StartsWith(g, h, Header) <=> g[h] = 241 /\ g[h + 1] = 221
  BY <1>12, StartsHeader
<1>14. StartsWith(g, h, Ack) <=> g[h] = 79 /\ g[h + 1] = 75 /\ g[h + 2] = 13 /\ g[h + 3] = 10
  BY <1>12, StartsAck
<1>15. StartsWith(g, h, Ack) \/ StartsWith(g, h, Header)
  BY <1>4, <1>11, <1>13, <1>14
<1> QED
  BY <1>12, <1>15 DEF Hits

\* The read after which the item is whole takes one.
LEMMA Takes ==
    ASSUME IInv, NEW n \in 1 .. MaxRead, postRead(n), ~dropped, Len(Grown(n)) <= Capacity,
           FirstWhole(Grown(n))
    PROVE  pending' # pending
<1> DEFINE g == Grown(n)
           w == wire'
           h == FirstHit(g)
           f == FromFrame(n)
           items == pending
           all == g \o w
           search == SelectInSeq(pending, LAMBDA item : ~IsNoise(item))
           behind == Len(FlattenSeq(SubSeq(pending, search + 1, Len(pending))))
<1>1. Read(n)
  BY DEF postRead, ReadDiscarded, NothingFound, AckFound, HalfFrame, InvalidFrame, PacketFound,
         WholeFrame, FrameFound, Scan
<1>2. g \in Seq(Byte) /\ w \in Seq(Byte) /\ all = readBuffer_ \o wire
  BY <1>1, ReadFacts DEF IInv
<1>3. items \in Seq(Items)
  BY DEF IInv, TypeOK
<1>4. Stands(all, items) /\ Joins(all, g, w)
  BY <1>2, Zenon DEF IInv, InStep, Joins
<1>5. f = ignoreBuffer(g, h - 1) /\ h = FirstHit(g)
  BY DEF FromFrame
<1>6. search # 0 /\ behind >= Len(w)
  BY Zenon DEF FirstWhole
<1>7. search = SelectInSeq(items, LAMBDA item : ~IsNoise(item))
      /\ behind = Len(FlattenSeq(SubSeq(items, search + 1, Len(items))))
  OBVIOUS
<1>8. ~ReadDiscarded(n)
  <2>1. Len(g) \in Nat /\ Capacity \in Nat
    BY <1>2, Bounds, LenProperties
  <2>2. ~(Len(g) > Capacity)
    BY <2>1
  <2> QED
    BY <2>2 DEF ReadDiscarded
<1> HIDE DEF search, behind, all, items, w
<1>9. \A k \in Nat : Leads(items, k) => k < Len(items) /\ search = k + 1
  <2> TAKE k \in Nat
  <2> HAVE Leads(items, k)
  <2>1. search = IF k < Len(items) THEN k + 1 ELSE 0
    BY <1>3, <1>7, FirstNoNoise
  <2> QED
    BY <1>6, <2>1
<1>10. Hits(g) # {}
  <2> HIDE DEF g
  <2>1. PICK k \in 0 .. Len(items) : \E gone, noise \in Seq(Byte) :
          /\ Leads(items, k)
          /\ FlattenSeq(SubSeq(items, 1, k)) = gone \o noise
          /\ all = noise \o FlattenSeq(SubSeq(items, k + 1, Len(items)))
    BY <1>3, <1>4, StandsElim
  <2> DEFINE rest == FlattenSeq(SubSeq(items, k + 1, Len(items)))
  <2>2. PICK noise \in Seq(Byte) : Leads(items, k) /\ Joins(all, noise, rest)
    BY <2>1 DEF Joins
  <2>3. rest = FlattenSeq(SubSeq(items, k + 1, Len(items)))
    OBVIOUS
  <2> HIDE DEF rest
  <2>4. k \in Nat
    BY <1>3, LenProperties
  <2>5. k < Len(items) /\ search = k + 1
    BY <1>9, <2>2, <2>4
  <2>6. (k + 1) + 1 = k + 2
    BY <2>4
  <2>7. Len(FlattenSeq(SubSeq(items, k + 2, Len(items)))) >= Len(w)
    BY <1>6, <1>7, <2>5, <2>6
  <2> QED
    BY <1>2, <1>3, <1>4, <2>2, <2>3, <2>4, <2>5, <2>7, WholeIsHit
<1> HIDE DEF g, h, f
<1>11. \E k \in Nat : Finds(items, g, w, h, f, k)
  BY <1>2, <1>3, <1>4, <1>5, <1>10, Taking
<1>12. PICK k \in Nat : Finds(items, g, w, h, f, k)
  BY <1>11
<1> DEFINE x == items[k + 1]
           more == FlattenSeq(SubSeq(items, k + 2, Len(items)))
<1>13. /\ k < Len(items) /\ Leads(items, k) /\ x \in Items /\ ~IsNoise(x)
       /\ StartsWith(g, h, Header) <=> IsFrame(x)
       /\ StartsWith(g, h, Ack) <=> x = Ack
       /\ f \in Seq(Byte) /\ Len(f) >= 4 /\ more \in Seq(Byte)
       /\ f \o w = x \o more
  BY <1>12, Zenon DEF Finds
<1>14. Len(more) >= Len(w)
  <2>1. search + 1 = k + 2
    BY <1>9, <1>13
  <2> QED
    BY <1>6, <1>7, <2>1
<1>15. SubSeq(items, k + 2, Len(items)) # items
  <2>1. k + 1 \in 0 .. Len(items) /\ Len(items) \in Nat /\ (k + 1) + 1 = k + 2
    BY <1>3, <1>13, LenProperties
  <2>2. Len(SubSeq(items, k + 2, Len(items))) = Len(items) - (k + 1)
    BY <1>3, <2>1, Halved
  <2> QED
    BY <2>1, <2>2
<1> HIDE DEF x, more
<1>16. ASSUME IsFrame(x) PROVE Len(f) >= FrameLen(f)
  <2>1. x \in Seq(Byte) /\ Len(x) >= 4 /\ Len(x) = x[3] + 3
    BY <1>13, <1>16, ItemIsSeq, Looks
  <2> DEFINE a == f \o w
  <2>2. Joins(a, f, w) /\ Joins(a, x, more)
    BY <1>13, Zenon DEF Joins
  <2> HIDE DEF a
  <2>3. Len(f) + Len(w) = Len(x) + Len(more) /\ {Len(f), Len(w), Len(x), Len(more)} \subseteq Nat
    <3>1. Len(a) = Len(f) + Len(w) /\ Len(f) \in Nat /\ Len(w) \in Nat
      BY <1>2, <1>13, <2>2, Parts
    <3>2. Len(a) = Len(x) + Len(more) /\ Len(x) \in Nat /\ Len(more) \in Nat
      BY <1>13, <2>1, <2>2, Parts
    <3> QED
      BY <3>1, <3>2
  <2>4. FrameLen(f) = Len(x)
    BY <1>2, <1>13, <2>1, <2>2, TakeFrame
  <2> QED
    BY <1>14, <2>3, <2>4
<1>17. CASE NothingFound(n)
  BY <1>10, <1>17 DEF NothingFound, g
<1>18. CASE AckFound(n)
  <2>1. StartsWith(g, h, Ack) /\ pending' = Behind(items, {Ack})
    BY <1>18 DEF AckFound, g, h, items
  <2>2. items[k + 1] \in {Ack}
    BY <1>13, <2>1 DEF x
  <2>3. Behind(items, {Ack}) = SubSeq(items, k + 2, Len(items))
    BY <1>3, <1>13, <2>2, NoNoiseIn, BehindTaken
  <2> QED
    BY <1>15, <2>1, <2>3, Zenon DEF items
<1>19. CASE HalfFrame(n)
  <2>1. StartsWith(g, h, Header) /\ Len(f) < FrameLen(f) /\ FrameFound(n)
    BY <1>19 DEF HalfFrame, FrameFound, g, h, f
  <2>2. Len(f) >= FrameLen(f)
    BY <1>13, <1>16, <2>1
  <2>3. Len(f) \in Nat /\ FrameLen(f) \in Nat
    BY <2>1, FrameShape DEF IInv, f
  <2> QED
    BY <2>1, <2>2, <2>3
<1>20. CASE InvalidFrame(n) \/ PacketFound(n)
  <2>1. StartsWith(g, h, Header) /\ pending' = Behind(items, Frames)
    BY <1>20 DEF InvalidFrame, PacketFound, WholeFrame, FrameFound, g, h, items, Frames
  <2>2. items[k + 1] \in Frames
    BY <1>13, <2>1 DEF x, Frames
  <2>3. Behind(items, Frames) = SubSeq(items, k + 2, Len(items))
    BY <1>3, <1>13, <2>2, NoNoiseIn, BehindTaken
  <2> QED
    BY <1>15, <2>1, <2>3, Zenon DEF items
<1> QED
  BY <1>8, <1>17, <1>18, <1>19, <1>20, Zenon DEF postRead

\* A read after which the first item that is not noise is whole in the buffer takes an
\* item, unless it had to be discarded: postRead never leaves a whole frame lying.
THEOREM ItemsAreTaken == Spec => WholeItemIsTaken
<1>1. IInv => \A n \in 1 .. MaxRead :
                  postRead(n) /\ ~dropped /\ Len(Grown(n)) <= Capacity /\ FirstWhole(Grown(n))
                      => pending' # pending
  BY Takes
<1> QED
  BY <1>1, Invariance, PTL DEF WholeItemIsTaken
=============================================================================
