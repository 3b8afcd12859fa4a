SPECIFICATION Spec
CONSTANTS
  Backends = {"bleve", "es"}
  Links = {1, 2, 3}
  Texts = {"", "words", "phrase", "other"}
  Ranks = {0, 1, 2}
  Indexed <- MCIndexed
  MaxWrites = 2
  BatchSize = 1
  ResultsPerPage = 2
INVARIANTS
  TypeOK
  NeitherUndoesTheOther
  FailsOnlyDisturbed
  PagesComplete
