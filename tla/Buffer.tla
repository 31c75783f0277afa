------------------------------- MODULE Buffer -------------------------------
(***************************************************************************)
(* App/Buffer.cpp: the ring buffer between a device and the gateway.       *)
(*                                                                         *)
(* Every operation holds mutex_ from its first access to its return, so it *)
(* is one action.  What can go wrong is the arithmetic of the ring: where  *)
(* a block wraps, the two memcpy calls, and where start_ goes.             *)
(***************************************************************************)
EXTENDS Integers, Sequences

CONSTANTS
    Byte,    \* the values of a byte
    Size,    \* the argument of the constructor
    Zero,    \* the byte std::vector<char> fills the buffer with
    MaxLen   \* bound: longest write, and largest number asked for

ASSUME BufferAssumption ==
    /\ Size \in Nat
    /\ MaxLen \in Nat
    /\ Zero \in Byte

VARIABLES
    buffer_,  \* Buffer::buffer_, indexed from 0
    start_,   \* Buffer::start_, index of the oldest byte
    len_,     \* Buffer::len_, number of bytes held
    ret       \* the last call and its result (see ByteQueue)

vars == <<buffer_, start_, len_, ret>>

Result(call, arg, ok, num, data) ==
    [call |-> call, arg |-> arg, ok |-> ok, num |-> num, data |-> data]

Init ==
    /\ buffer_ = [i \in 0 .. Size - 1 |-> Zero]
    /\ start_ = 0
    /\ len_ = 0
    /\ ret = Result("none", 0, FALSE, 0, <<>>)
-----------------------------------------------------------------------------
\* n bytes from start_, in one block or in two.
CopyOut(n) ==
    LET first == IF start_ + n <= Size THEN n ELSE Size - start_
    IN [i \in 1 .. n |-> IF i <= first THEN buffer_[start_ + i - 1] ELSE buffer_[i - first - 1]]

\* Fault: the second block is copied to where the first one began.
CopyInOverlapped(pos, src) ==
    LET first == IF pos + Len(src) <= Size THEN Len(src) ELSE Size - pos
    IN [i \in 0 .. Size - 1 |->
            IF pos <= i /\ i < pos + first THEN src[i - pos + 1] ELSE buffer_[i]]

\* The buffer with src copied in at pos, in one block or in two.
CopyIn(pos, src) ==
    LET first == IF pos + Len(src) <= Size THEN Len(src) ELSE Size - pos
    IN [i \in 0 .. Size - 1 |->
            IF pos <= i /\ i < pos + first THEN src[i - pos + 1]
            ELSE IF i < Len(src) - first THEN src[first + i + 1]
            ELSE buffer_[i]]

\* Nothing to write succeeds without a look at the buffer.
WriteNothing(src) ==
    /\ src = <<>>
    /\ ret' = Result("write", 0, TRUE, 0, src)
    /\ UNCHANGED <<buffer_, start_, len_>>

WriteRefused(src) ==
    /\ src # <<>>
    /\ Len(src) > Size - len_
    /\ ret' = Result("write", Len(src), FALSE, 0, src)
    /\ UNCHANGED <<buffer_, start_, len_>>

WriteTaken(src) ==
    /\ src # <<>>
    /\ Len(src) <= Size - len_
    /\ buffer_' = CopyIn((start_ + len_) % Size, src)
    /\ len_' = len_ + Len(src)
    /\ ret' = Result("write", Len(src), TRUE, 0, src)
    /\ UNCHANGED start_

Atmost(n) == IF n < len_ THEN n ELSE len_

ReadNothing(n) ==
    /\ Atmost(n) = 0
    /\ ret' = Result("read", n, TRUE, 0, <<>>)
    /\ UNCHANGED <<buffer_, start_, len_>>

\* start_ after n bytes were read and before the test for an empty buffer.
StartAfter(n) ==
    IF start_ + n <= Size
    THEN IF start_ + n = Size THEN 0 ELSE start_ + n
    ELSE n - (Size - start_)

ReadSome(n) ==
    LET read_len == Atmost(n)
    IN /\ read_len > 0
       /\ ret' = Result("read", n, TRUE, read_len, CopyOut(read_len))
       /\ len_' = len_ - read_len
       /\ start_' = IF len_ = read_len THEN 0 ELSE StartAfter(read_len)
       /\ UNCHANGED buffer_

PeekRefused(n) ==
    /\ n = 0 \/ len_ < n
    /\ ret' = Result("peek", n, FALSE, 0, <<>>)
    /\ UNCHANGED <<buffer_, start_, len_>>

PeekTaken(n) ==
    /\ n > 0
    /\ n <= len_
    /\ ret' = Result("peek", n, TRUE, 0, CopyOut(n))
    /\ UNCHANGED <<buffer_, start_, len_>>

Clear ==
    /\ start_' = 0
    /\ len_' = 0
    /\ ret' = Result("clear", 0, TRUE, 0, <<>>)
    /\ UNCHANGED buffer_

\* readableSize, writableSize, capacity, empty and full.
Query ==
    /\ ret' \in {Result("readableSize", 0, TRUE, len_, <<>>),
                 Result("writableSize", 0, TRUE, Size - len_, <<>>),
                 Result("capacity", 0, TRUE, Size, <<>>),
                 Result("empty", 0, len_ = 0, 0, <<>>),
                 Result("full", 0, len_ = Size, 0, <<>>)}
    /\ UNCHANGED <<buffer_, start_, len_>>

Write(src) == WriteNothing(src) \/ WriteRefused(src) \/ WriteTaken(src)

Read(n) == ReadNothing(n) \/ ReadSome(n)

Peek(n) == PeekRefused(n) \/ PeekTaken(n)

Next ==
    \/ \E n \in 0 .. MaxLen : \E src \in [1 .. n -> Byte] : Write(src)
    \/ \E n \in 0 .. MaxLen : Read(n) \/ Peek(n)
    \/ Clear
    \/ Query

Spec == Init /\ [][Next]_vars
-----------------------------------------------------------------------------
TypeOK ==
    /\ buffer_ \in [0 .. Size - 1 -> Byte]
    /\ start_ \in 0 .. Size
    /\ len_ \in 0 .. Size
    /\ start_ = Size => Size = 0

\* Where the k-th byte held (from 0) is in the ring.
Index(k) == IF start_ + k < Size THEN start_ + k ELSE start_ + k - Size

\* The bytes held, oldest first.
Contents == [i \in 1 .. len_ |-> buffer_[Index(i - 1)]]

\* The ring buffer is a bounded first-in first-out queue of bytes: whatever the
\* wrap-around, no byte is lost, repeated or reordered, and every result is the
\* queue's (Buffer::read, write, peek, clear and the sizes).
Q == INSTANCE ByteQueue WITH
        contents <- Contents,
        Capacity <- Size

ByteQueueSpec == Q!Spec
=============================================================================
