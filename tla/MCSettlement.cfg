\* Two workers, two instructions of the two normal kinds, every interleaving
\* of their steps, redeliveries, crashes and database errors.
CONSTANTS
  Instructions = {i1, i2}
  Workers = {w1, w2}
  Rows <- AllRows
SPECIFICATION Spec
SYMMETRY Symmetry
INVARIANTS
  LedgerFollowsStatus
  PaymentAgainstDelivery
  SubmittedOnce
  AuditTellsStatus
PROPERTIES
  FollowsLifecycle
  KeepsPromise
