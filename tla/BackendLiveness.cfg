\* A caller and the daily refresh on one gateway process over files, one fault;
\* lookups at the limiter.
CONSTANTS
  b1 = b1  b2 = b2  t1 = t1  t2 = t2  t3 = t3  g1 = g1  g2 = g2
  Boms = {b1}
  Extends <- NoPrefix
  Tasks = {t1, t2}
  Refreshers = {t2}
  Instances = {g1}
  InstanceOf <- OneGateway
  Mode = "Local"
  Risks = {"clear", "atRisk"}
  ReuseIds = FALSE
  MaxIds = 2
  MaxFaults = 1
  None = None
  Machines = {"store", "limiter"}
  Lookups = {c1, c2, c3}
  MaxLookups = 3
  Raise = 0
  LastDay = 0
  LongestPause = 1
  ListIds = {l1, l2, l3}
  Permits = 2
  PerMinute = 1
  PerDay = 2
  Minute = 1
  LastAttempt = 1
  Carts <- SampleCarts
  Products <- SampleProducts
  Prices = {1, 2}
  MaxRequests = 2
  Files <- SampleFiles
  Synonyms = {"MPN", "Qty", "Total", "Value"}
  Kind <- SampleKind
  Weak <- SampleWeak
  Strong <- SampleStrong
  Exact <- SampleExact
  Close <- SampleClose
  QtyNames = {"Qty", "Total"}
  Numbers = {"10", "3"}
  Costs = {"total cost"}
  Skus = {"490-1"}
  Split <- SampleSplit
  Corrections = {"mpn", "refdes"}
  SheetRows = 3
  HeaderRows = 2
  RowLimit = 3
  MaxUploads = 2
  Blank = ""
  Rules <- SampleRules
  Known = {"micro", "controller", "resistor"}
  NameSuffixes = {"inc", "co"}
  Programs <- SamplePrograms
  China = {"CN"}
  ShortestCode = 1
  Uploads <- SampleUploads
  Parts = {"p1", "p2"}
  Makers <- SampleMakers
  Facts <- SampleFacts
  Loaded <- SampleLoaded
  Days = {1}
  TopLimit = 1
  Sent <- SampleSent
  MaxLines = 2
  MaxChanges = 2
  Seconds = {1, 2}
  Limits = {0, 1, 3}
  DefaultLimit = 2
  MaxLimit = 2
  MaxWrites = 3
  MaxReads = 1
  Datasets <- SampleDatasets
  Codes <- SampleCodes
  Origins <- SampleOrigins
  DutyDays = {1, 2}
SPECIFICATION FairSpecAll
PROPERTIES StaysListed RequestsAnswered DailyRefreshRepairs LookupsAreAnswered
CHECK_DEADLOCK FALSE
