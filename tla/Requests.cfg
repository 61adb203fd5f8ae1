CONSTANTS
  Names = {"ann", "bob"}
  Clients = {"c1", "c2"}
  Engines = {"sqlite", "postgresql"}
  MaxIds = 2
  LoginNames = {"ann", "bob"}
  Browsers = {"b1", "b2"}
  MaxFailures = 3
  LockTime = 2
  MaxNow = 4
  AlbumIds = {"a1"}
  Pics = {"p", "q"}
  Editors = {"e1", "e2"}
  NoPic = "no cover"
  NoAlbum = "no album"
  Panels = {"p1", "p2"}
  Chosen = {"f"}
  Drives = {"Z:"}
  Aliases = {"nas"}
  Keys = {"id_rsa"}
  Hosts = {"nas", "vps"}
  Photos = {"p", "q"}
  MaxFaults = 3
  Shots = {1, 2, 3}
  PyOrder <- MCPyOrder
  LastDay = 3
  Limit = 1
  MaxChanges = 1
  ZipFiles = {"p", "q", "r"}
  Stems = {"IMG"}
  ZipDays = {"mon", "tue"}
  MaxZips = 1
  MaxMoves = 1
  LastFolder = 3
  PhoneFiles = {"p"}
  MaxDepth = 1
  Viewers = {"v1", "v2"}
  LastMtime = 1
  MaxEdits = 3
  Pictures = {"p"}
  Bare = {2}
  LastEdition = 3
  LastStamp = 2
  MaxMishaps = 2
SPECIFICATION RequestsSpec
INVARIANTS
  RequestsOK
  IndexKeepsOne
  FailuresBounded
  SettingsKept
  UploadTellsTruth
  PagesShowFeed
  ArchiveKeepsAll
  ScanFindsAll
  ThumbsAreCurrent
  MetadataIsCurrent
PROPERTIES
  AdminStays
  CoverStaysIn
CHECK_DEADLOCK FALSE
