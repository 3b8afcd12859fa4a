\* One crawler and the PageRank service.
SPECIFICATION Spec
CONSTANTS
  a = a
  b = b
  c1 = c1
  c2 = c2
  Urls = {a, b}
  Crawlers = {c1}
  Part <- Single
  Pages <- SomePages
  ReIndexThreshold = 0
  MaxUpdates = 3
INVARIANT PassTolerant
