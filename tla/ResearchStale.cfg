SPECIFICATION Spec
CONSTANTS
  r1 = r1  r2 = r2  r3 = r3
  home = home  page = page  news = news
  A = A  B = B
  MinCoverage = 85  MinSupport = 80
  Runs = {r1, r2, r3}
  Pages = {home}
  Urls = {page}
  Canonical <- HomePage
  Redirects <- Leads
  Contents = {A, B}
  Partition <- SessionAndGlobal
  Ttl <- Hours
  MaxSources <- OneSource
  Persistent = TRUE
  MaxTime = 1
  MaxFaults = 0
SYMMETRY Symmetric
CHECK_DEADLOCK FALSE
INVARIANTS
  EvidenceIsOfItsVersion
