SPECIFICATION FairSpec
CONSTANTS
  web = web
  db = db
  wordpress = wordpress
  ip1 = ip1
  ip2 = ip2
  None = None
  Assemblies = {web, db}
  Resources = {wordpress}
  Home <- OnWeb
  Reference <- ToDb
  Parameter <- ByAddress
  Addresses = {ip1, ip2}
  Configs <- Whole
  MaxRequests = 1
  Burst = 2
  MaxInstances = 3
INVARIANTS
  TypeOK
  
  ParamsCurrent
  ServicesCurrent
  DigestsSafe

  
CHECK_DEADLOCK FALSE
