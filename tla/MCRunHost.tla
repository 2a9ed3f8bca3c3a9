------------------------------ MODULE MCRunHost ------------------------------
EXTENDS RunHostProperties, TLC

CONSTANTS r1, r2, r3
=============================================================================
