------------------------------ MODULE MCCrbDma ------------------------------
EXTENDS CrbDma
MCBound == [program |-> 3, net |-> 1, answer |-> 3, frame |-> 1, open |-> 2]
MCTotal == 4
=============================================================================
