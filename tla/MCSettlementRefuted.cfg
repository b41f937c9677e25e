\* An acknowledged record led to an outcome; the view shows the status; each
\* row of the audit trail names the status that was left (all refuted).
CONSTANTS
  Instructions = {i1}
  Workers = {w1, w2}
  Rows <- MainRows
SPECIFICATION Spec
INVARIANTS
  AcknowledgedIsDecided
  ViewShowsStatus
  RecordedFromIsTrue
