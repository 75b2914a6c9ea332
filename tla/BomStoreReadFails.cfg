\* One gateway process over an object store; one read of index.json fails.
CONSTANTS
  b1 = b1  b2 = b2  t1 = t1  t2 = t2  t3 = t3  g1 = g1  g2 = g2
  Boms = {b1, b2}
  Extends <- NoPrefix
  Tasks = {t1}
  Refreshers = {}
  Instances = {g1}
  InstanceOf <- OneGateway
  Mode = "S3"
  Risks = {"clear"}
  ReuseIds = FALSE
  MaxIds = 3
  MaxFaults = 1
  None = None
SPECIFICATION Spec
PROPERTIES StaysListed
