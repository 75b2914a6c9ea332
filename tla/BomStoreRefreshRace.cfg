\* Two gateway processes over an object store, without faults.
CONSTANTS
  b1 = b1  b2 = b2  t1 = t1  t2 = t2  t3 = t3  g1 = g1  g2 = g2
  Boms = {b1}
  Extends <- NoPrefix
  Tasks = {t1, t2}
  Refreshers = {t2}
  Instances = {g1, g2}
  InstanceOf <- TwoGateways
  Mode = "S3"
  Risks = {"clear", "atRisk"}
  ReuseIds = FALSE
  MaxIds = 2
  MaxFaults = 0
  None = None
SPECIFICATION Spec
PROPERTIES RefreshKeepsEdits
