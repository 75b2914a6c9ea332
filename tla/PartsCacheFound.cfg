\* A recurring request, the sync and two faults; a NoMatch turns stale, and two
\* distributors answer for the part.
CONSTANTS
  p1 = p1  r1 = r1  r2 = r2
  Parts = {p1}
  Requests = {r1}
  Sync = sync
  Kinds <- Gateway
  Recurring = {r1}
  Providers = {"digikey", "mouser"}
  Batch = 1
  MaxAttempts = 2
  Stamps = {1}
  Expires = TRUE
  MaxFaults = 2
  None = None
SPECIFICATION FairSpec
PROPERTIES QueueDrains EventuallyFound
