----------------------------- MODULE MCGateway -----------------------------
\* Instances of Gateway for TLC.
EXTENDS Gateway, TLC

CONSTANTS d1, u1, u2, g1, w1, w2

\* Lengths of packets: a task that peeked at the shorter one cuts the longer one, and
\* what it leaves is long enough to pass for a packet.
Lengths == d1 :> 6 @@ u1 :> 3 @@ u2 :> 6 @@ g1 :> 3

\* Two messages of the device, of which a block cut from them may come back.
TwoUp == [up |-> {u1, u2}, down |-> {g1}, losses |-> 0]

\* One from either side, and that of the device comes back; the packets fit into a buffer
\* of nine together.
OneEach == [up |-> {u1}, down |-> {d1, u1}, losses |-> 1]

\* The same with packets that do not.
TooLong == [up |-> {u2}, down |-> {d1, u2}, losses |-> 0]

TwoAtATime == {TwoUp, OneEach, TooLong}
=============================================================================
