SPECIFICATION FairSpec
CONSTANTS
  Base = 3
  Width = 2
  Ordinals = {0, 1, 2}
  Deployments <- MCDeployments
  Records = {0, 1, 2, 3, 4}
INVARIANTS
  TypeOK
  CrawlsPartition
  GroupReports
PROPERTIES
  ProcessEnds
