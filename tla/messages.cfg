SPECIFICATION Spec
CONSTANTS
  a = a
  b = b
  Login = {a, b}
  Handler = {"h1", "h2"}
  InitAccounts = {a, b}
  InitContacts <- OneWay
  Managed = {a}
  MaxMessages = 2
INVARIANTS
  TypeOK
  ReferencesExist
  DeliveredWasShown
  DeliveredInOrder
  NotReceivedAgain
