\* Two calls over one row, or three that check and revoke, and each event delivered twice at once; one fault.
CONSTANTS
  u1 = u1  u2 = u2  a1 = a1  a2 = a2  c1 = c1  c2 = c2  e1 = e1  t1 = t1  t2 = t2  k1 = k1  k2 = k2
  Accounts = {a1, a2}
  Emails = {u1, u2}
  Customers = {c1, c2}
  Events = {e1}
  Copies = {k1, k2}
  Tasks = {t1, t2}
  Mixes = {{"status", "grant", "revoke", "setPlan", "clearPlan"}, {"status", "revoke"}, {"checkout", "event"}, {"check", "event"}}
  Payloads = {"paid", "active", "canceled"}
  Priced = {"scale"}
  MaxRows = 1
  MaxCalls <- CallsOf
  MaxFaults = 1
  None = None
SYMMETRY Symmetric
SPECIFICATION Spec
INVARIANTS TypeOK SteadySourceGivesAccess AccessNeedsASource RevokedStaysOff CustomerIsOwn AppliedAtMostOnce UnappliedIsRetried
CHECK_DEADLOCK FALSE
