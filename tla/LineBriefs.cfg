\* A page that is opened again and again, a second client, one edit, one
\* change of stock and one fault.
CONSTANTS
  Rows = {0}
  Prints = {out, low, ok}
  Flagged = {out, low}
  Editors = {e}
  Readers = {g}
  Jobs = {j1, j2}
  MaxEdits = 1
  MaxNews = 1
  MaxFaults = 1
  None = None
SPECIFICATION FairSpec
INVARIANTS TypeOK OneJobTakesAll
PROPERTIES BriefsCatchUp
CHECK_DEADLOCK FALSE
