CONSTANTS
  d1 = d1
  d2 = d2
  d3 = d3
  d4 = d4
  u1 = u1
  u2 = u2
  u3 = u3
  NoOne = NoOne
  NoName = NoName
  NoRow = NoRow
  NoValue = "none"
  NoCi = NoCi
  Device = {d1, d2, d3, d4}
  User = {u1, u2, u3}
  UserOrder <- UserSeq
  Name = {"LENOVO", "Lenovo", "Acme^", "T14", "X1"}
  Settings <- Mixed
  Owner <- Owners
  UserOf <- Users
  SerialOf <- Serials
  NameOf <- Names
  HasClass = {d1, d2, d3}
  MakerOf <- Makers
  ModelOf <- Models
  PageSize = 2
  Repeated = {d1, d2}
  Slipping = {d3}
  Key <- Keys
  BatchLimit = 2
  MaxRetries = 1
  Reported = {d1, d2}
  GraphRam = {d1}
  MatchOrder <- KeyOrder
  ValuesOf <- Values
  UnsafeValue = {"1^"}
  Row <- SysUsers
  ActiveOnly = TRUE
  ChunkSize = 2
  RowsPerValue = 2
  Catalogue <- Catalogued
  TableOf <- Tables
  NamesPerQuery = 2
  RowsPerName = 1
  AliasOf <- Aliases
  UnsafeName = {"Acme^"}
  MinSerial = 3
SPECIFICATION Spec
INVARIANTS IInv ListingComplete ThrottledGetsAllTries AttributeWhole AssignedIsUnique
  BatchIsPerUser CreateOnce LinkedByName NoDuplicateRow EveryDeviceAccounted ObservedIsOwn
  OnlyOwnedWritten
PROPERTIES AnsweredOnce EveryStepIsProgress
