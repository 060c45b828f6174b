CONSTANTS
  LF = LF
  NUL = NUL
  none = none
  Grids = {"bulletins"}
  Trees = {"menus"}
  homePage = "home"
  MaxRequests = 2
  Letters = {"a"}
  Pieces = {2}
  outgoing = 1
  incoming = 1
  Periods = {0, 2}
  MaxFrames = 3
  Years = {1900, 2000, 2001}
  Today <- MCToday
  RangeDates <- MCRangeDates
  Hours = {1}
  MaxOpens = 2
  Photos = 2
  MaxLayers = 3
  MaxCloses = 2
  animated = TRUE
  RoleData <- MCRoleData
  Unknown = "9"
  Panels = {"p1", "p2", "p3"}
  State <- MCState
  MaxMoves = 3
  MaxBlocks = 3
  MaxEdits = 3
  Sizes = {1, 2}
  MaxSize = 3
  MaxPanels = 4
  RoleMenus = {"a", "a1", "a2", "a11", "b"}
  pid <- MCPid
  rootValue = "0"
SPECIFICATION SpecScripts
INVARIANTS
  
  GridConsecutive
  
  
  
  
  ContentFollows
  TableRegular
  FormReturns
  RoleKept
PROPERTIES
  HeartbeatWatches
  TipSettles
\* A dialog that is closed, an editor that is full: nothing need happen any more.
CHECK_DEADLOCK FALSE
