SPECIFICATION Spec
CONSTANTS
  v1 = v1  v2 = v2  v3 = v3  v4 = v4
  b1 = b1  b2 = b2
  Hash = {v1, v2}
  Branch = {b1}
  Unknown = unknown
  NoBranch = no_branch
  HonestHashes = FALSE
SYMMETRY Interchangeable
PROPERTY FrozenVersions
