\* Delivery on chain against payment in the books (refuted).
CONSTANTS
  Instructions = {i1}
  Workers = {w1, w2}
  Rows <- OnChainRows
SPECIFICATION Spec
INVARIANT DeliveredIsNotFailed
