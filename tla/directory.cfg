SPECIFICATION Spec
CONSTANTS
  a = a
  b = b
  h1 = h1
  h2 = h2
  h3 = h3
  Login = {a, b}
  Handler = {h1, h2}
  TTL = 3
  MaxDelay = 1
  Capacity = 1
  MaxPublications = 2
  MaxTime = 4
SYMMETRY Alike
INVARIANTS
  TypeOK
  AnswerIsFresh
  CompletedIsVisible
  CapacityRespected
