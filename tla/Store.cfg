CONSTANTS
  a1 = a1
  a2 = a2
  a3 = a3
  d1 = d1
  d2 = d2
  none = none
  Artifacts = {a1, a2, a3}
  Digests = {d1, d2}
  DigestOf <- TwoOfOneContent
  NoArtifact = none
  MaxDepth = 2
  MaxCreates = 4
  MaxLosses = 1
SPECIFICATION Spec
INVARIANT ContentAccounted
PROPERTY AdmittedClean
SYMMETRY Contents
