\* Progress without faults: two instructions, two
\* workers, duplicates delivered at any time.
CONSTANTS
  Instructions = {i1, i2}
  Workers = {w1, w2}
  Rows <- LiveRows
SPECIFICATION FaultFreeSpec
PROPERTY EventuallyDecided
