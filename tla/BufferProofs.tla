---------------------------- MODULE BufferProofs ----------------------------
(***************************************************************************)
(* Theorems about Buffer, for every capacity (0 included), every set of    *)
(* byte values and every bound on the calls: the indices stay in range and *)
(* the ring buffer implements ByteQueue.                                   *)
(***************************************************************************)
EXTENDS Buffer, SequenceTheorems, TLAPS

\* The one remainder the code takes, of a position less than two turns away.
LEMMA ModRing ==
    ASSUME NEW n \in Nat \ {0}, NEW x \in 0 .. 2 * n - 1
    PROVE  x % n = IF x < n THEN x ELSE x - n
<1>1. CASE x < n
  BY <1>1
<1>2. CASE x >= n
  <2>1. x = n * 1 + (x - n) /\ x - n \in 0 .. n - 1
    BY <1>2
  <2> QED
    BY <2>1, <1>2
<1> QED
  BY <1>1, <1>2

\* A block of bytes is a sequence.
\* Where the k-th byte held lies: the index wraps round at most once.
LEMMA IndexRing ==
    ASSUME TypeOK, NEW k \in 0 .. Size - 1
    PROVE  /\ Index(k) = IF start_ + k < Size THEN start_ + k ELSE start_ + k - Size
           /\ Index(k) \in 0 .. Size - 1
  BY BufferAssumption DEF BufferAssumption, TypeOK, Index

LEMMA BlockIsSeq ==
    ASSUME NEW n \in Nat, NEW f \in [1 .. n -> Byte]
    PROVE  f \in Seq(Byte) /\ Len(f) = n
OBVIOUS

LEMMA WritePosition ==
    ASSUME TypeOK, len_ < Size
    PROVE  (start_ + len_) % Size = Index(len_) /\ Index(len_) \in 0 .. Size - 1
<1>1. /\ Size \in Nat \ {0} /\ start_ \in Nat /\ len_ \in Nat
      /\ start_ + len_ \in 0 .. 2 * Size - 1
  BY BufferAssumption DEF BufferAssumption, TypeOK
<1>2. \A x \in 0 .. 2 * Size - 1 : x % Size = IF x < Size THEN x ELSE x - Size
  BY <1>1, ModRing
<1>3. PICK x \in 0 .. 2 * Size - 1 : x = start_ + len_
  BY <1>1
<1>4. x % Size = IF x < Size THEN x ELSE x - Size
  BY <1>2
<1>5. Index(len_) = IF x < Size THEN x ELSE x - Size
  BY <1>1, <1>3 DEF Index
<1>6. (start_ + len_) % Size = Index(len_)
  BY <1>3, <1>4, <1>5, Zenon
<1> QED
  BY <1>1, <1>3, <1>5, <1>6

ContentsShape ==
    /\ Contents \in Seq(Byte)
    /\ Len(Contents) = len_
    /\ \A i \in 1 .. len_ : Contents[i] = buffer_[Index(i - 1)]

LEMMA ContentsIsSeq == TypeOK => ContentsShape
<1> SUFFICES ASSUME TypeOK PROVE ContentsShape
  OBVIOUS
<1>1. len_ \in Nat
  BY BufferAssumption DEF BufferAssumption, TypeOK
<1>2. \A i \in 1 .. len_ : Index(i - 1) \in 0 .. Size - 1
  BY BufferAssumption DEF BufferAssumption, TypeOK, Index
<1>3. Contents \in [1 .. len_ -> Byte]
  BY <1>2 DEF Contents, TypeOK
<1> QED
  BY <1>1, <1>3, BlockIsSeq DEF Contents, ContentsShape

LEMMA ContentsIsSeqNext == TypeOK' => ContentsShape'
  BY ContentsIsSeq, PTL

\* What the two memcpy calls of read and peek take out is the oldest bytes held.
LEMMA CopyOutIsPrefix ==
    ASSUME TypeOK, NEW n \in 1 .. len_
    PROVE  CopyOut(n) = SubSeq(Contents, 1, n)
<1> DEFINE first == IF start_ + n <= Size THEN n ELSE Size - start_
<1>1. n \in Nat /\ len_ \in Nat /\ start_ \in Nat /\ Size \in Nat /\ n <= len_ /\ len_ <= Size
  BY BufferAssumption DEF BufferAssumption, TypeOK
<1>2. \A i \in 1 .. n : CopyOut(n)[i] = buffer_[Index(i - 1)] /\ Index(i - 1) \in 0 .. Size - 1
  <2> SUFFICES ASSUME NEW i \in 1 .. n
               PROVE  CopyOut(n)[i] = buffer_[Index(i - 1)] /\ Index(i - 1) \in 0 .. Size - 1
    OBVIOUS
  <2>1. CASE i <= first
    BY <1>1, <2>1 DEF CopyOut, Index, TypeOK
  <2>2. CASE ~(i <= first)
    BY <1>1, <2>2 DEF CopyOut, Index, TypeOK
  <2> QED
    BY <2>1, <2>2
<1>3. CopyOut(n) \in [1 .. n -> Byte]
  BY <1>2 DEF CopyOut, TypeOK
<1>4. CopyOut(n) \in Seq(Byte) /\ Len(CopyOut(n)) = n
  BY <1>1, <1>3, BlockIsSeq
<1>5. \A i \in 1 .. n : Contents[i] \in Byte
  BY <1>1, <1>2, ContentsIsSeq DEF ContentsShape, TypeOK
<1>6. /\ SubSeq(Contents, 1, n) \in Seq(Byte)
      /\ Len(SubSeq(Contents, 1, n)) = n
      /\ \A i \in 1 .. n : SubSeq(Contents, 1, n)[i] = Contents[i]
  BY <1>1, <1>5, SubSeqProperties
<1>7. \A i \in 1 .. n : CopyOut(n)[i] = SubSeq(Contents, 1, n)[i]
  <2>1. \A i \in 1 .. n : Contents[i] = buffer_[Index(i - 1)]
    BY <1>1, ContentsIsSeq DEF ContentsShape
  <2> QED
    BY <1>2, <1>6, <2>1
<1> QED
  BY <1>4, <1>6, <1>7, SeqEqual

\* Where the bytes land that write copies in, and which it leaves alone.
\* The index arithmetic of write's two memcpy calls, apart from the ring itself:
\* a byte already held lies outside both of them, and the k-th byte written lies
\* in the first while k <= first and in the second after that.
LEMMA CopyInKeeps ==
    ASSUME NEW size \in Nat, NEW s \in Nat, NEW l \in Nat, NEW n \in Nat, s < size, l < size, l + n <= size,
           NEW p \in Int, p = IF s + l < size THEN s + l ELSE s + l - size,
           NEW f \in Int, f = IF p + n <= size THEN n ELSE size - p,
           NEW k \in Int, 0 <= k, k < l,
           NEW i \in Int, i = IF s + k < size THEN s + k ELSE s + k - size
    PROVE  ~(p <= i /\ i < p + f) /\ ~(i < n - f)
OBVIOUS

InPlace(size, s, l, n, p, f, k, i) ==
    /\ s < size /\ l < size /\ l + n <= size
    /\ p = IF s + l < size THEN s + l ELSE s + l - size
    /\ f = IF p + n <= size THEN n ELSE size - p
    /\ 1 <= k /\ k <= n
    /\ i = IF s + (l + k - 1) < size THEN s + (l + k - 1) ELSE s + (l + k - 1) - size

Placed(n, p, f, k, i) ==
    /\ k <= f => p <= i /\ i < p + f /\ i - p + 1 = k
    /\ k > f => ~(p <= i) /\ i < n - f /\ f + i + 1 = k

LEMMA CopyInPlaces ==
    ASSUME NEW size \in Nat, NEW s \in Nat, NEW l \in Nat, NEW n \in Nat,
           NEW p \in Int, NEW f \in Int, NEW k \in Int, NEW i \in Int, InPlace(size, s, l, n, p, f, k, i)
    PROVE  Placed(n, p, f, k, i)
BY DEF InPlace, Placed

LEMMA CopyInEntries ==
    ASSUME TypeOK, NEW src \in Seq(Byte), src # <<>>, Len(src) <= Size - len_
    PROVE  LET new == CopyIn((start_ + len_) % Size, src)
           IN /\ new \in [0 .. Size - 1 -> Byte]
              /\ \A k \in 0 .. len_ - 1 : new[Index(k)] = buffer_[Index(k)]
              /\ \A k \in 1 .. Len(src) : new[Index(len_ + k - 1)] = src[k]
<1> DEFINE pos == (start_ + len_) % Size
           first == IF pos + Len(src) <= Size THEN Len(src) ELSE Size - pos
           new == CopyIn(pos, src)
<1>1. Len(src) \in Nat \ {0}
  BY EmptySeq
<1>2. /\ len_ \in Nat /\ start_ \in Nat /\ Size \in Nat /\ len_ < Size /\ start_ < Size
      /\ len_ + Len(src) <= Size
  BY <1>1, BufferAssumption DEF BufferAssumption, TypeOK
<1>3. /\ pos \in 0 .. Size - 1
      /\ pos = IF start_ + len_ < Size THEN start_ + len_ ELSE start_ + len_ - Size
  BY <1>2, WritePosition DEF Index
<1>4. /\ first \in 0 .. Len(src)
      /\ first = IF pos + Len(src) <= Size THEN Len(src) ELSE Size - pos
  BY <1>1, <1>2, <1>3
<1>10. /\ Size \in Nat /\ start_ \in Nat /\ len_ \in Nat /\ Len(src) \in Nat
       /\ start_ < Size /\ len_ < Size /\ len_ + Len(src) <= Size
       /\ pos \in Int /\ pos = IF start_ + len_ < Size THEN start_ + len_ ELSE start_ + len_ - Size
       /\ first \in Int /\ first = IF pos + Len(src) <= Size THEN Len(src) ELSE Size - pos
  BY <1>1, <1>2, <1>3, <1>4
<1>5. \A i \in 0 .. Size - 1 :
        new[i] = IF pos <= i /\ i < pos + first THEN src[i - pos + 1]
                 ELSE IF i < Len(src) - first THEN src[first + i + 1]
                 ELSE buffer_[i]
  BY DEF CopyIn
<1>6. \A k \in 1 .. Len(src) : src[k] \in Byte
  BY ElementOfSeq
<1>7. new \in [0 .. Size - 1 -> Byte]
  <2>1. \A i \in 0 .. Size - 1 : new[i] \in Byte
    <3> SUFFICES ASSUME NEW i \in 0 .. Size - 1 PROVE new[i] \in Byte
      OBVIOUS
    <3>1. CASE pos <= i /\ i < pos + first
      <4>1. i - pos + 1 \in 1 .. Len(src)
        BY <1>1, <1>3, <1>4, <3>1
      <4> QED
        BY <1>5, <1>6, <3>1, <4>1
    <3>2. CASE ~(pos <= i /\ i < pos + first) /\ i < Len(src) - first
      <4>1. first + i + 1 \in 1 .. Len(src)
        BY <1>1, <1>4, <3>2
      <4> QED
        BY <1>5, <1>6, <3>2, <4>1
    <3>3. CASE ~(pos <= i /\ i < pos + first) /\ ~(i < Len(src) - first)
      BY <1>5, <3>3 DEF TypeOK
    <3> QED
      BY <3>1, <3>2, <3>3
  <2>2. new = [i \in 0 .. Size - 1 |-> new[i]]
    BY DEF CopyIn
  <2> HIDE DEF new
  <2> QED
    BY <2>1, <2>2
<1>8. ASSUME NEW k \in 0 .. len_ - 1
      PROVE  new[Index(k)] = buffer_[Index(k)]
  <2> HIDE DEF pos, first, new
  <2>1. /\ Index(k) \in 0 .. Size - 1
        /\ ~(pos <= Index(k) /\ Index(k) < pos + first)
        /\ ~(Index(k) < Len(src) - first)
    <3>1. k \in 0 .. Size - 1 /\ k \in Int /\ 0 <= k /\ k < len_
      BY <1>2
    <3>2. /\ Index(k) \in 0 .. Size - 1 /\ Index(k) \in Int
          /\ Index(k) = IF start_ + k < Size THEN start_ + k ELSE start_ + k - Size
      BY <3>1, IndexRing
    <3>3. ~(pos <= Index(k) /\ Index(k) < pos + first) /\ ~(Index(k) < Len(src) - first)
      BY <1>10, <3>1, <3>2, CopyInKeeps, Zenon
    <3> QED
      BY <3>2, <3>3
  <2> QED
    BY <1>5, <2>1
<1>9. ASSUME NEW k \in 1 .. Len(src)
      PROVE  new[Index(len_ + k - 1)] = src[k]
  <2> DEFINE j == Index(len_ + k - 1)
  <2>1. /\ j \in 0 .. Size - 1
        /\ j = IF start_ + (len_ + k - 1) < Size THEN start_ + (len_ + k - 1) ELSE start_ + (len_ + k - 1) - Size
    <3>1. len_ + k - 1 \in 0 .. Size - 1
      BY <1>1, <1>2
    <3> QED
      BY <3>1, IndexRing
  <2> HIDE DEF j, pos, first, new
  <2>2. /\ k <= first => pos <= j /\ j < pos + first /\ j - pos + 1 = k
        /\ k > first => ~(pos <= j) /\ j < Len(src) - first /\ first + j + 1 = k
    <3>1. k \in Int /\ 1 <= k /\ k <= Len(src) /\ j \in Int
      BY <1>1, <2>1
    <3>2. InPlace(Size, start_, len_, Len(src), pos, first, k, j)
      BY <1>10, <2>1, <3>1, Zenon DEF InPlace
    <3>3. Placed(Len(src), pos, first, k, j)
      <4>1. /\ Size \in Nat /\ start_ \in Nat /\ len_ \in Nat /\ Len(src) \in Nat
            /\ pos \in Int /\ first \in Int /\ k \in Int /\ j \in Int
        BY <1>10, <3>1
      <4> QED
        BY <3>2, <4>1, CopyInPlaces
    <3> QED
      BY <3>3 DEF Placed
  <2>3. k <= first \/ k > first
    BY <1>1, <1>4
  <2>4. new[j] = src[k]
    BY <1>5, <2>1, <2>2, <2>3
  <2> QED
    BY <2>4 DEF j
<1> QED
  BY <1>7, <1>8, <1>9

\* start_ after a read of n bytes stays in range, and the k-th byte left is the
\* (n + k)-th byte that was held.
LEMMA StartAfterRead ==
    ASSUME TypeOK, NEW n \in 1 .. len_,
           NEW s \in Nat, s = IF len_ = n THEN 0 ELSE StartAfter(n)
    PROVE  /\ s \in 0 .. Size - 1
           /\ \A k \in 0 .. len_ - n - 1 :
                Index(n + k) = IF s + k < Size THEN s + k ELSE s + k - Size
  BY BufferAssumption DEF BufferAssumption, TypeOK, StartAfter, Index

LEMMA StartAfterType ==
    ASSUME TypeOK, NEW n \in 1 .. len_
    PROVE  StartAfter(n) \in Nat
  BY BufferAssumption DEF BufferAssumption, TypeOK, StartAfter

\* Every call of an operation keeps the ring's indices in range.
LEMMA StepType == TypeOK /\ [Next]_vars => TypeOK'
<1> SUFFICES ASSUME TypeOK, [Next]_vars PROVE TypeOK'
  OBVIOUS
<1>1. ASSUME NEW n \in 0 .. MaxLen, NEW src \in [1 .. n -> Byte], WriteTaken(src)
      PROVE  TypeOK'
  <2>1. src \in Seq(Byte)
    BY BlockIsSeq, BufferAssumption DEF BufferAssumption
  <2>2. buffer_' \in [0 .. Size - 1 -> Byte]
    BY <1>1, <2>1, CopyInEntries DEF WriteTaken
  <2>3. Len(src) \in Nat /\ len_ \in Nat /\ Size \in Nat
    BY <2>1, BufferAssumption DEF BufferAssumption, TypeOK
  <2>4. len_' \in 0 .. Size
    BY <1>1, <2>3 DEF WriteTaken
  <2> QED
    BY <1>1, <2>2, <2>4 DEF WriteTaken, TypeOK
<1>2. ASSUME NEW n \in 0 .. MaxLen, ReadSome(n)
      PROVE  TypeOK'
  <2>1. Atmost(n) \in 1 .. len_
    BY <1>2, BufferAssumption DEF BufferAssumption, ReadSome, Atmost, TypeOK
  <2>2. StartAfter(Atmost(n)) \in Nat
    BY <2>1, StartAfterType
  <2>3. start_' \in Nat /\ start_' = IF len_ = Atmost(n) THEN 0 ELSE StartAfter(Atmost(n))
    BY <1>2, <2>2 DEF ReadSome
  <2>4. start_' \in 0 .. Size - 1
    BY <2>1, <2>3, StartAfterRead
  <2>5. len_' \in 0 .. Size
    BY <1>2, <2>1, BufferAssumption DEF BufferAssumption, ReadSome, TypeOK
  <2> QED
    BY <1>2, <2>4, <2>5, BufferAssumption DEF BufferAssumption, ReadSome, TypeOK
<1>3. CASE Clear
  BY <1>3, BufferAssumption DEF BufferAssumption, Clear, TypeOK
<1>4. CASE UNCHANGED <<buffer_, start_, len_>>
  BY <1>4 DEF TypeOK
<1> QED
  BY <1>1, <1>2, <1>3, <1>4 DEF Next, Write, Read, Peek, WriteNothing, WriteRefused,
     ReadNothing, PeekRefused, PeekTaken, Query, vars

LEMMA InitType == Init => TypeOK
  BY BufferAssumption DEF BufferAssumption, Init, TypeOK

\* The indices never leave the ring (Buffer::start_, len_, buffer_).
THEOREM TypeCorrect == Spec => []TypeOK
  BY InitType, StepType, PTL DEF Spec
-----------------------------------------------------------------------------
\* write appends.
LEMMA WriteAppends ==
    ASSUME TypeOK, TypeOK', NEW src \in Seq(Byte), WriteTaken(src)
    PROVE  Contents' = Contents \o src
<1>1. /\ Contents \in Seq(Byte) /\ Len(Contents) = len_
      /\ \A i \in 1 .. len_ : Contents[i] = buffer_[Index(i - 1)]
  BY ContentsIsSeq DEF ContentsShape
<1>2. /\ Contents' \in Seq(Byte) /\ Len(Contents') = len_'
      /\ \A i \in 1 .. len_' : Contents'[i] = buffer_'[Index(i - 1)']
  BY ContentsIsSeqNext DEF ContentsShape
<1>3. len_' = len_ + Len(src) /\ Len(src) \in Nat /\ len_ \in Nat
  BY BufferAssumption DEF BufferAssumption, WriteTaken, TypeOK
<1>4. \A k : Index(k)' = Index(k)
  BY DEF WriteTaken, Index
<1>5. /\ \A k \in 0 .. len_ - 1 : buffer_'[Index(k)] = buffer_[Index(k)]
      /\ \A k \in 1 .. Len(src) : buffer_'[Index(len_ + k - 1)] = src[k]
  BY CopyInEntries DEF WriteTaken
<1>6. /\ Contents \o src \in Seq(Byte)
      /\ Len(Contents \o src) = len_ + Len(src)
      /\ \A i \in 1 .. len_ + Len(src) :
            (Contents \o src)[i] = IF i <= len_ THEN Contents[i] ELSE src[i - len_]
  BY <1>1, ConcatProperties
<1>7. ASSUME NEW i \in 1 .. len_'
      PROVE  Contents'[i] = (Contents \o src)[i]
  <2>1. Contents'[i] = buffer_'[Index(i - 1)]
    BY <1>2, <1>4
  <2>2. CASE i <= len_
    <3>1. i - 1 \in 0 .. len_ - 1 /\ i \in 1 .. len_
      BY <1>3, <2>2
    <3>2. buffer_'[Index(i - 1)] = buffer_[Index(i - 1)]
      BY <1>5, <3>1
    <3>3. Contents[i] = buffer_[Index(i - 1)]
      BY <1>1, <3>1
    <3> QED
      BY <1>3, <1>6, <2>1, <2>2, <3>2, <3>3
  <2>3. CASE i > len_
    <3>1. i - len_ \in 1 .. Len(src) /\ len_ + (i - len_) - 1 = i - 1
      BY <1>3, <2>3
    <3>2. buffer_'[Index(i - 1)] = src[i - len_]
      BY <1>5, <3>1
    <3> QED
      BY <1>3, <1>6, <2>1, <2>3, <3>2
  <2>4. i <= len_ \/ i > len_
    BY <1>3
  <2> QED
    BY <2>2, <2>3, <2>4, Zenon
<1> QED
  BY <1>2, <1>3, <1>6, <1>7, SeqEqual

\* read takes the oldest bytes out and leaves the rest.
LEMMA ReadTakesPrefix ==
    ASSUME TypeOK, TypeOK', NEW n \in Nat, ReadSome(n)
    PROVE  /\ Atmost(n) \in 1 .. len_
           /\ Contents' = SubSeq(Contents, Atmost(n) + 1, len_)
<1> DEFINE r == Atmost(n)
<1>1. r \in 1 .. len_ /\ len_ \in Nat
  BY BufferAssumption DEF BufferAssumption, ReadSome, Atmost, TypeOK
<1>2. len_' = len_ - r /\ buffer_' = buffer_
  BY DEF ReadSome
<1>3. /\ Contents \in Seq(Byte) /\ Len(Contents) = len_
      /\ \A i \in 1 .. len_ : Contents[i] = buffer_[Index(i - 1)]
  BY ContentsIsSeq DEF ContentsShape
<1>4. /\ Contents' \in Seq(Byte) /\ Len(Contents') = len_'
      /\ \A i \in 1 .. len_' : Contents'[i] = buffer_'[Index(i - 1)']
  BY ContentsIsSeqNext DEF ContentsShape
<1>5. start_' \in Nat /\ start_' = IF len_ = r THEN 0 ELSE StartAfter(r)
  BY <1>1, StartAfterType DEF ReadSome
<1>6. \A k \in 0 .. len_ - r - 1 :
        Index(r + k) = IF start_' + k < Size THEN start_' + k ELSE start_' + k - Size
  BY <1>1, <1>5, StartAfterRead
<1>7. \A k \in 0 .. len_ - r - 1 : Index(k)' = Index(r + k)
  BY <1>6 DEF Index
<1>8. \A i \in r + 1 .. len_ : Contents[i] \in Byte
  BY <1>1, <1>3, ElementOfSeq
<1>9. /\ SubSeq(Contents, r + 1, len_) \in Seq(Byte)
      /\ Len(SubSeq(Contents, r + 1, len_)) = len_ - r
      /\ \A i \in 1 .. len_ - r : SubSeq(Contents, r + 1, len_)[i] = Contents[r + i]
  <2>1. /\ SubSeq(Contents, r + 1, len_) \in Seq(Byte)
        /\ Len(SubSeq(Contents, r + 1, len_)) =
              IF r + 1 <= len_ THEN len_ - (r + 1) + 1 ELSE 0
        /\ \A i \in 1 .. len_ - (r + 1) + 1 :
              SubSeq(Contents, r + 1, len_)[i] = Contents[r + 1 + i - 1]
    BY <1>1, <1>8, SubSeqProperties
  <2> HIDE DEF r
  <2>2. len_ - (r + 1) + 1 = len_ - r /\ (r + 1 <= len_ \/ len_ - r = 0)
    BY <1>1
  <2>3. \A i \in 1 .. len_ - r : r + 1 + i - 1 = r + i
    BY <1>1
  <2> QED
    BY <2>1, <2>2, <2>3
<1>10. ASSUME NEW i \in 1 .. len_'
       PROVE  Contents'[i] = SubSeq(Contents, r + 1, len_)[i]
  <2>1. /\ i - 1 \in 0 .. len_ - r - 1 /\ i \in 1 .. len_ - r
        /\ r + i \in 1 .. len_ /\ r + (i - 1) = (r + i) - 1
    BY <1>1, <1>2
  <2>2. Contents'[i] = buffer_[Index(i - 1)']
    BY <1>2, <1>4
  <2>3. Index(i - 1)' = Index((r + i) - 1)
    BY <1>7, <2>1
  <2>4. Contents[r + i] = buffer_[Index((r + i) - 1)]
    BY <1>3, <2>1
  <2>5. SubSeq(Contents, r + 1, len_)[i] = Contents[r + i]
    BY <1>9, <2>1
  <2> QED
    BY <2>2, <2>3, <2>4, <2>5, Zenon
<1> QED
  BY <1>1, <1>2, <1>4, <1>9, <1>10, SeqEqual

\* Every call is a call of the queue with the same result.
LEMMA StepRefines ==
    ASSUME TypeOK, TypeOK', [Next]_vars
    PROVE  [Q!Next]_(Q!vars)
<1>0. /\ len_ \in Nat /\ Size \in Nat /\ len_ <= Size /\ MaxLen \in Nat
      /\ Contents \in Seq(Byte) /\ Len(Contents) = len_
      /\ Contents = <<>> <=> len_ = 0
  <2>1. /\ len_ \in Nat /\ Size \in Nat /\ len_ <= Size /\ MaxLen \in Nat
    BY BufferAssumption DEF BufferAssumption, TypeOK
  <2>2. Contents \in Seq(Byte) /\ Len(Contents) = len_
    BY ContentsIsSeq DEF ContentsShape
  <2> QED
    BY <2>1, <2>2, EmptySeq
<1>1. UNCHANGED <<buffer_, start_, len_>> => UNCHANGED Contents
  BY DEF Contents, Index
<1>2. ASSUME NEW n \in 0 .. MaxLen, NEW src \in [1 .. n -> Byte], Write(src)
      PROVE  Q!Write(src)
  <2>1. src \in Seq(Byte) /\ Len(src) = n
    BY <1>0, BlockIsSeq
  <2>2. CASE WriteNothing(src)
    <3>1. Contents \o src = Contents
      BY <1>0, <2>2, ConcatEmptySeq DEF WriteNothing
    <3>2. (Len(src) <= Size - Len(Contents)) = TRUE
      BY <1>0, <2>2, <2>1, EmptySeq DEF WriteNothing
    <3>3. Contents' = Contents \o src
      BY <1>1, <2>2, <3>1 DEF WriteNothing
    <3>4. ret' = Q!Result("write", Len(src), TRUE, 0, src)
      BY <2>1, <2>2, EmptySeq DEF WriteNothing, Q!Result, Result
    <3> QED
      BY <3>2, <3>3, <3>4, Zenon DEF Q!Write
  <2>3. CASE WriteRefused(src)
    <3>1. (Len(src) <= Size - Len(Contents)) = FALSE
      BY <1>0, <2>1, <2>3 DEF WriteRefused
    <3>2. Contents' = Contents
      BY <1>1, <2>3 DEF WriteRefused
    <3>3. ret' = Q!Result("write", Len(src), FALSE, 0, src)
      BY <2>3 DEF WriteRefused, Q!Result, Result
    <3> QED
      BY <3>1, <3>2, <3>3, Zenon DEF Q!Write
  <2>4. CASE WriteTaken(src)
    BY <1>0, <2>1, <2>4, WriteAppends DEF WriteTaken, Q!Write, Q!Result, Result
  <2> QED
    BY <1>2, <2>2, <2>3, <2>4 DEF Write
<1>3. ASSUME NEW n \in 0 .. MaxLen, Read(n)
      PROVE  Q!Read(n)
  <2>1. Q!Atmost(n) = Atmost(n)
    BY <1>0 DEF Q!Atmost, Atmost
  <2>2. CASE ReadNothing(n)
    <3>1. SubSeq(Contents, 1, 0) = <<>>
      BY SubSeqEmpty
    <3>2. SubSeq(Contents, 0 + 1, Len(Contents)) = Contents
      BY <1>0, SubSeqFull
    <3> QED
      BY <1>1, <2>1, <2>2, <3>1, <3>2 DEF ReadNothing, Q!Read, Q!Result, Result
  <2>3. CASE ReadSome(n)
    <3>1. n \in Nat
      BY <1>0
    <3>2. Atmost(n) \in 1 .. len_ /\ Contents' = SubSeq(Contents, Atmost(n) + 1, len_)
      BY <2>3, <3>1, ReadTakesPrefix
    <3>3. CopyOut(Atmost(n)) = SubSeq(Contents, 1, Atmost(n))
      BY <3>2, CopyOutIsPrefix
    <3> QED
      BY <1>0, <2>1, <2>3, <3>2, <3>3 DEF ReadSome, Q!Read, Q!Result, Result
  <2> QED
    BY <1>3, <2>2, <2>3 DEF Read
<1>4. ASSUME NEW n \in 0 .. MaxLen, Peek(n)
      PROVE  Q!Peek(n) /\ UNCHANGED Contents
  <2>1. CASE PeekRefused(n)
    <3>1. (n > 0 /\ n <= Len(Contents)) = FALSE
      BY <1>0, <2>1 DEF PeekRefused
    <3>2. UNCHANGED Contents
      BY <1>1, <2>1 DEF PeekRefused
    <3>3. ret' = Q!Result("peek", n, FALSE, 0, <<>>)
      BY <2>1 DEF PeekRefused, Q!Result, Result
    <3> QED
      BY <3>1, <3>2, <3>3, Zenon DEF Q!Peek
  <2>2. CASE PeekTaken(n)
    <3>1. CopyOut(n) = SubSeq(Contents, 1, n)
      BY <1>0, <2>2, CopyOutIsPrefix DEF PeekTaken
    <3> QED
      BY <1>0, <1>1, <2>2, <3>1 DEF PeekTaken, Q!Peek, Q!Result, Result
  <2> QED
    BY <1>4, <2>1, <2>2 DEF Peek
<1>5. CASE Clear
  <2>1. Contents' = <<>>
    BY <1>5 DEF Clear, Contents
  <2> QED
    BY <1>5, <2>1 DEF Clear, Q!Next, Q!Clear, Q!Result, Result
<1>6. CASE Query
  BY <1>0, <1>1, <1>6 DEF Query, Q!Next, Q!Query, Q!Result, Result
<1>7. CASE UNCHANGED vars
  BY <1>1, <1>7 DEF vars, Q!vars
<1> QED
  BY <1>2, <1>3, <1>4, <1>5, <1>6, <1>7 DEF Next, Q!Next

LEMMA InitRefines == Init => Q!Init
  BY DEF Init, Q!Init, Contents, Q!Result, Result

\* The ring buffer implements the bounded queue of bytes, result by result.
THEOREM ImplementsByteQueue == Spec => ByteQueueSpec
<1>1. Init => Q!Init
  BY InitRefines
<1>2. TypeOK /\ TypeOK' /\ [Next]_vars => [Q!Next]_(Q!vars)
  BY StepRefines
<1> QED
  BY <1>1, <1>2, TypeCorrect, PTL DEF Spec, ByteQueueSpec, Q!Spec
=============================================================================
