\* Two requests for one part, which may each add a row to the queue, the sync and two faults.
CONSTANTS
  p1 = p1  r1 = r1  r2 = r2
  Parts = {p1}
  Requests = {r1, r2}
  Sync = sync
  Kinds <- AllKinds
  Recurring = {}
  Providers = {"digikey"}
  Batch = 2
  MaxAttempts = 3
  Stamps = {1, 2}
  Expires = FALSE
  MaxFaults = 2
  None = None
SYMMETRY Symmetric
SPECIFICATION Spec
INVARIANTS TypeOK PendingIsQueued
PROPERTIES GivenUpAfterMaxAttempts
