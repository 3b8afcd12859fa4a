SPECIFICATION FairSpec
CONSTANTS
  home = home
  news = news
  blog = blog
  Pages <- MCPages
  Loads <- MCLoads
  Workers = {w1, w2, w3}
  One = 8957952
  DampNum = 1
  DampDen = 2
  MinSAD = 1500000
  Grain <- MCGrain
  MaxSuperstep = 6
  MaxPasses = 2
INVARIANTS
  TypeOK
  MassConserved
PROPERTIES
  Contracts
  CalculationEnds
  ImplementsPowerIteration
CHECK_DEADLOCK FALSE
