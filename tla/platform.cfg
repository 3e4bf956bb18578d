SPECIFICATION Spec
CONSTANTS
  IbMsgs <- MCMsgs
  IbKind <- MCKind
  IbBad = {2}
  IbReceivers = {a, b}
  IbWindow = 1
  IbSkew = 1
  IbMaxClock = 1
  IbMaxCopies = 2
  IbNobody = IbNobody
  LvWriters = {a, b}
  LvMaxRows = 2
  LvMaxPages = 1
  LvMaxDrops = 1
  PrProjects = {p1, p2}
  PrRooms = {r1, r2}
  PrSensorRows = {s1}
  PrDeviceRows = {d1}
  PrAdmins = {a, b}
  PrMaxEdits = 3
  PrFirst = p1
  PrHere = r1
  PrNone = PrNone
  FdFolders = {f1, f2, f3}
  FdResources = {x1}
  FdUsers = {a, b}
  FdRoot = FdRoot
  FdGone = FdGone
  SmRuns = {n1, n2}
  SmMaxStarts = 2
  NdClasses = {"bmp280", "temp_humi", "rotation", "generic_sensor", "level",
               "pressure", "temperature", "flow", "flow_rate", "touch", "pump",
               "servo", "generic_device", "pins"}
  NdValues = {0, 1, 7, 45, 700}
  NdMaxCommands = 2
  NdMaxVolume = 2
  NdText = NdText
  PoLast = 3
  PoPageSize = 2
  PoUsers = {o1}
  PoEdited = {2}
  CpLimit = 4
  CpMarker = 2
  CpWidth = 2
  CpRecords = 3
  CpMaxText = 3
  CpMaxWrites = 3
  CpLengths = {0, 1000000}
  RrIds = {i1, i2}
  RrTopics = {control, data}
  RrUsers = {a, b}
  RrMaxReports = 1
  RrCustom = RrCustom
  RrNone = RrNone
  SwBand = 1
  SwErrors <- MCErrors
  SwSpan = 2
  SwStep = 2
  SwTicks = 3
  SwTimes = {1, 2}
INVARIANTS
  NoInboundLost
  ResolvedIsStored
  NoGap
  FoldersReachable
  RunIsShown
  CaptureHonest
  LogsWhole
  TopicsFollow
  PwmShare
PROPERTIES
  HeartbeatNeverBack
  SchemeProtected
  PageOnly
  Hysteresis
CHECK_DEADLOCK FALSE
SYMMETRY Symmetry
