----------------------------- MODULE ByteQueue -----------------------------
(***************************************************************************)
(* What a byte buffer of fixed capacity promises to its callers: bytes come *)
(* out in the order in which they went in, none lost and none invented; a   *)
(* write is taken as a whole or refused as a whole; a read returns what     *)
(* there is, up to what was asked for.                                      *)
(*                                                                          *)
(* ret records the last call: call and arg say what was asked, ok is the    *)
(* truth value of the result, num its number, data the bytes handed in or   *)
(* out.  A caller can tell two behaviours apart by nothing else.            *)
(***************************************************************************)
EXTENDS Naturals, Sequences

CONSTANTS
    Byte,      \* the values of a byte
    Capacity,  \* the number of bytes the buffer holds
    MaxLen     \* bound: longest write, and largest number asked for

VARIABLES contents, ret

vars == <<contents, ret>>

Result(call, arg, ok, num, data) ==
    [call |-> call, arg |-> arg, ok |-> ok, num |-> num, data |-> data]

Atmost(n) == IF n < Len(contents) THEN n ELSE Len(contents)

Init ==
    /\ contents = <<>>
    /\ ret = Result("none", 0, FALSE, 0, <<>>)

Write(src) ==
    LET fits == Len(src) <= Capacity - Len(contents)
    IN /\ contents' = IF fits THEN contents \o src ELSE contents
       /\ ret' = Result("write", Len(src), fits, 0, src)

Read(n) ==
    /\ contents' = SubSeq(contents, Atmost(n) + 1, Len(contents))
    /\ ret' = Result("read", n, TRUE, Atmost(n), SubSeq(contents, 1, Atmost(n)))

\* All or nothing, and nothing is taken out.
Peek(n) ==
    LET enough == n > 0 /\ n <= Len(contents)
    IN ret' = Result("peek", n, enough, 0, IF enough THEN SubSeq(contents, 1, n) ELSE <<>>)

Clear ==
    /\ contents' = <<>>
    /\ ret' = Result("clear", 0, TRUE, 0, <<>>)

\* The sizes and the two tests a caller may ask for.
Query ==
    ret' \in {Result("readableSize", 0, TRUE, Len(contents), <<>>),
              Result("writableSize", 0, TRUE, Capacity - Len(contents), <<>>),
              Result("capacity", 0, TRUE, Capacity, <<>>),
              Result("empty", 0, contents = <<>>, 0, <<>>),
              Result("full", 0, Len(contents) = Capacity, 0, <<>>)}

Next ==
    \/ \E n \in 0 .. MaxLen : \E src \in [1 .. n -> Byte] : Write(src)
    \/ \E n \in 0 .. MaxLen : Read(n)
    \/ Clear
    \/ /\ UNCHANGED contents
       /\ Query \/ \E n \in 0 .. MaxLen : Peek(n)

Spec == Init /\ [][Next]_vars
=============================================================================
