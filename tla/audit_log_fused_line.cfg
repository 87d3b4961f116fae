SPECIFICATION Spec
CONSTANTS
  h1 = h1  h2 = h2
  d1 = d1  d2 = d2  d3 = d3  d4 = d4
  k1 = k1  k2 = k2
  Handle = {h1}
  Digest = {d1, d2, d3, d4}
  Genesis = genesis
  Key = {k1}
  Registered = {k1}
  Signing <- HonestSigning
  Garbage = garbage
  NoEntry = none
  Torn = torn
  TornSeq = {12}
  Faults <- OnlyCrashes
PROPERTY AckedIsALine
CHECK_DEADLOCK FALSE
