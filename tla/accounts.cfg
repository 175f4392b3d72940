SPECIFICATION Spec
CONSTANTS
  bob = bob
  BOB = BOB
  Login = {bob, BOB}
  Fold <- FoldToLower
  Password = {"p", "q"}
  Handler = {"h1", "h2"}
  Command = {"c1"}
  NoRow = NoRow
  Unknown = Unknown
  MaxSalts = 4
INVARIANTS
  TypeOK
  VerifierIsCurrent
  AcceptedIsCurrent
PROPERTY
  ImplementsCredentials
