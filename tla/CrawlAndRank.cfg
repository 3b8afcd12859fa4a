\* Two crawlers that share one of two links, and the PageRank service.
SPECIFICATION Spec
CONSTANTS
  a = a
  b = b
  c1 = c1
  c2 = c2
  Urls = {a, b}
  Crawlers = {c1, c2}
  Part <- Overlapping
  Pages <- SomePages
  ReIndexThreshold = 2
  MaxUpdates = 3
INVARIANTS TypeOK NoDanglingEdges SettledPage FailsOnlyRecrawled
PROPERTY PoliteCrawl
