---------------------------- MODULE MCPublication ----------------------------
EXTENDS PublicationProperties, TLC

CONSTANTS p1, p2, r1, d1, d2, op

\* Two attempts at publishing one Run.
TwoOfOneRun == p1 :> r1 @@ p2 :> r1
ForwardOnly == p1 :> "automatic" @@ p2 :> "fast_forward"
=============================================================================
