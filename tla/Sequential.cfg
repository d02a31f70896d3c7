SPECIFICATION MCSpec
CONSTANTS
  n1 = n1
  n2 = n2
  n3 = n3
  n4 = n4
  v1 = v1
  v2 = v2
  HeadNode = HeadNode
  Null = Null
  Nodes = {n1, n2, n3, n4}
  Values = {v1, v2}
  CR = CR
  LF = LF
  NUL = NUL
  Space = Space
  A = A
  B = B
  MaxText = 5
  Characters <- MCCharacters
  Code <- MCCode
  Keys <- MCKeys
  Names <- MCNames
  Hidden <- MCHidden
  Depth = 2
  Texts <- MCTexts
  Colon = B
  Octets = 3
  OctetBits = 2
  Base = 4
  Width <- MCWidth
  Items <- MCItems
  MaxItems = 3
  Bits = 3
  Requests = {0, 1}
  Bytes = {0, 1}
  MaxLength = 5
  Libraries = {"first", "second", "third"}
  Plugs = {"p", "q", "r"}
  Offers <- MCOffers
  NoPlug = "no plug"
  NoLibrary = "no library"
  MaxLoads = 2
  Inputs = {"a", "b"}
  Empty = ""
  MaxLaunches = 2
INVARIANTS Linked TextKept BlockAgrees RoundTrip FilesAgree DriverKept LaunchFresh
PROPERTIES RefinesContainer RefinesBuffer
CHECK_DEADLOCK FALSE
