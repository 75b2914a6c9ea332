\* Two requests, no faults, and a distributor that answers or not.
CONSTANTS
  p1 = p1  r1 = r1  r2 = r2
  Parts = {p1}
  Requests = {r1, r2}
  Sync = sync
  Kinds <- Gateway
  Recurring = {}
  Providers = {"digikey"}
  Batch = 1
  MaxAttempts = 2
  Stamps = {1}
  Expires = TRUE
  MaxFaults = 0
  None = None
SPECIFICATION Spec
INVARIANTS PendingIsQueued
