SPECIFICATION Spec
CONSTANTS
  r1 = r1  r2 = r2  r3 = r3
  home = home  page = page  news = news
  A = A  B = B
  MinCoverage = 85  MinSupport = 80
  Runs = {r1, r2}
  Pages = {home}
  Urls = {page, news}
  Canonical <- HomePage
  Redirects <- Leads
  Contents = {A, B}
  Partition <- SessionAndGlobal
  Ttl <- Hours
  MaxSources <- TwoAndOne
  Persistent = TRUE
  MaxTime = 2
  MaxFaults = 1
SYMMETRY Symmetric
CHECK_DEADLOCK FALSE
INVARIANTS
  EndedRunsAreClosed
  LostEvidenceHasACause
  StaleEvidenceHasACause
PROPERTIES
  OutcomeIsFinal
  DeletedStaysDeleted
