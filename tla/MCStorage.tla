------------------------------- MODULE MCStorage -------------------------------
EXTENDS Storage, TLC

CONSTANTS a1, a2, a3, d1, d2, none

\* Two Artifacts share a content.
TwoOfOneContent == a1 :> d1 @@ a2 :> d1 @@ a3 :> d2

Contents == Permutations({a1, a2})
=============================================================================
