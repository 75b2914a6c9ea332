\* One gateway process over an object store; failures, dropped requests, a crash.
CONSTANTS
  b1 = b1  b2 = b2  t1 = t1  t2 = t2  t3 = t3  g1 = g1  g2 = g2
  Boms = {b1, b2}
  Extends <- NoPrefix
  Tasks = {t1, t2}
  Refreshers = {}
  Instances = {g1}
  InstanceOf <- OneGateway
  Mode = "S3"
  Risks = {"clear", "atRisk"}
  ReuseIds = FALSE
  MaxIds = 3
  MaxFaults = 1
  None = None
SYMMETRY Symmetric
SPECIFICATION Spec
INVARIANTS TypeOK CommittedEditsKept OneCommitPerVersion ListMatchesDetail
PROPERTIES RefinesLedger
