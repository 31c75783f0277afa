------------------------------ MODULE MCDevice ------------------------------
\* Instances of Device for TLC.
EXTENDS Device

CONSTANTS w1, w2

\* Half packets, packets of different lengths, and a third one that never arrives whole.
ThreeInTwoOut == [recv |-> <<4, 7, 10>>, send |-> <<3, 8>>]

\* More bytes than a buffer of seven holds, either way; or a packet and a half in and one out.
MoreThanFits ==
    {[recv |-> 8, send |-> 0], [recv |-> 5, send |-> 3], [recv |-> 0, send |-> 8]}

\* Two packets of different lengths.
TwoIn == [recv |-> <<3, 7>>, send |-> <<>>]

AllOfIt == {[recv |-> 7, send |-> 0]}
=============================================================================
