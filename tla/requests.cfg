SPECIFICATION Spec
CONSTANTS
  a = a
  b = b
  Login = {a, b}
  Handler = {"h1", "h2"}
  MaxIds = 3
  Limit = 2
INVARIANTS
  TypeOK
  AnsweredIsQueued
  AnsweredIsListed
  EmptyIsTrue
PROPERTIES
  IdsStable
