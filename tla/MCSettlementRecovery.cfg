\* An approved instruction is decided in the end, across a crash (refuted).
CONSTANTS
  Instructions = {i1}
  Workers = {w1, w2}
  Rows <- OnChainRows
SPECIFICATION FairSpec
PROPERTY Recoverable
