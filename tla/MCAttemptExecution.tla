------------------------- MODULE MCAttemptExecution -------------------------
EXTENDS AttemptProperties, TLC

CONSTANTS r1, i1, i2

InOneRun == [i \in Invocations |-> r1]

\* No Invocation exhausts its allocation.
AllWithin == {"within"}
=============================================================================
