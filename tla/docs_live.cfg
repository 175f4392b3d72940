SPECIFICATION FairSpec
CONSTANTS
  ann = ann
  bob = bob
  bio = bio
  pic = pic
  client = client
  old = old
  text = text
  note = note
  long = long
  NoBody = NoBody
  NoRecord = NoRecord
  NoLogin = NoLogin
  Login <- MCLogin
  Item = {bio}
  Body <- MCBody
  Record <- MCRecord
  FullRecord = {"r1", "r2"}
  ThreeField = {old}
  Crc <- MCCrc
  Identity <- MCIdentity
  ContactDocument <- MCContactDocument
  Fold <- MCFold
  MaxDocuments = 1
  MaxRevision = 3
  Server = {"p1", "p2"}
  Admin = {}
  InitAccounts <- MCLogin
  InitContacts <- BothWays
  Clients = {ann}
  Managed = {}
  Uploads <- ContactUploads
  Publications <- PeerPublishesOnce
PROPERTIES
  RequestsEnd
