-------------------------------- MODULE Scripts --------------------------------
(***************************************************************************)
(* The scripts of the console, one behaviour for each: they run in windows *)
(* of their own and share nothing.  `part` is the script of a behaviour,   *)
(* and the variables v1, v2, ... stand for those of its module; what a     *)
(* script does not use stays `none`.  The window of the console itself has *)
(* the variables of ManageConsole, which in the others stay as at first.   *)
(* The constants are those of the modules, explained there.                *)
(***************************************************************************)
EXTENDS ManageConsole

CONSTANTS
  Letters, Pieces, outgoing, incoming, Periods, MaxFrames, LF, NUL,   \* Stomp
  Years, Today, RangeDates, Hours, MaxOpens,                          \* LayDate
  Photos, MaxLayers, MaxCloses,                                       \* Layer
  animated,                                                           \* PoshyTip
  RoleData, Unknown,                                                  \* MultipleSelect
  Panels, State, MaxMoves,                                            \* Portal
  MaxBlocks, MaxEdits,                                                \* WangEditor
  Sizes, MaxSize, MaxPanels,                                          \* WangMenus
  RoleMenus, pid, rootValue                                           \* RoleTree

Blocks == [tag : {"P", "PRE", "H", "DIV"}, items : Seq({"a", "img", "\n"})]   \* of WangEditor
Tables == Seq(Seq({"TH", "TD"}))                                             \* of WangMenus
Dates  == [year : Nat, month : 0 .. 11, date : 1 .. 31]                      \* of LayDate

VARIABLES part, v1, v2, v3, v4, v5, v6, v7, v8, v9, v10, v11, v12, v13, v14

scripts == <<vars, part, v1, v2, v3, v4, v5, v6, v7, v8, v9, v10, v11, v12, v13, v14>>

S == INSTANCE Stomp WITH
  ws <- v1, connected <- v2, counter <- v3, subscriptions <- v4, partialData <- v5,
  silence <- v6, pinger <- v7, ponger <- v8, handled <- v9, calls <- v10, up <- v11, down <- v12,
  broker <- v13

D == INSTANCE LayDate WITH
  range <- v1, type <- v2, opens <- v3, open <- v4, dateTime <- v5, startDate <- v6,
  endDate <- v7, startTime <- v8, endTime <- v9, startState <- v10, endState <- v11,
  enabled <- v12, text <- v13, hidden <- v14

L == INSTANCE Layer WITH layers <- v1, full <- v2, dicts <- v3, keyups <- v4, end <- v5

T == INSTANCE PoshyTip WITH
  mouse <- v1, title <- v2, active <- v3, tip <- v4, showTimeout <- v5, hideTimeout <- v6

M == INSTANCE MultipleSelect WITH
  data <- RoleData, target <- v1, self <- v2, boxes <- v3, loaded <- v4

P == INSTANCE Portal WITH columns <- v1, dragged <- v2, moves <- v3, start <- v4

E == INSTANCE WangEditor WITH
  html <- v1, caret <- v2, _willBreakCode <- v3, compositionEnd <- v4, held <- v5,
  beforeChangeHtml <- v6, onChange <- v7, content <- v8, originalContent <- v9, xhrs <- v10,
  _selectedImg <- v11, edits <- v12, unseen <- v13, undone <- v14

B == INSTANCE WangMenus WITH
  table <- v1, cell <- v2, _active <- v3, changing <- v4, shown <- v5,
  _isCreatedPanelMenus <- v6, panel <- v7, made <- v8

R == INSTANCE RoleTree WITH
  Menus <- RoleMenus, rows <- v1, granted <- v2, tree <- v3, checked <- v4, menuIds <- v5, before <- v6,
  touched <- v7

ASSUME ScriptsAssumption ==
  /\ none \notin Seq(Blocks) /\ none \notin Tables
  /\ Years \subseteq Nat
  /\ Today \in Dates /\ RangeDates \subseteq Dates
  /\ Photos \in Nat /\ Sizes \subseteq Nat
  /\ S!StompAssumption /\ M!SelectAssumption /\ P!PortalAssumption

-----------------------------------------------------------------------------
\* The variables beyond the first n.
none13 == v14 = none
none8 == v9 = none /\ v10 = none /\ v11 = none /\ v12 = none /\ v13 = none /\ none13
none7 == v8 = none /\ none8
none6 == v7 = none /\ none7
none5 == v6 = none /\ none6
none4 == v5 = none /\ none5
none0 == v1 = none /\ v2 = none /\ v3 = none /\ v4 = none /\ none4

keep0 == UNCHANGED <<part, v1, v2, v3, v4, v5, v6, v7, v8, v9, v10, v11, v12, v13, v14>>
keep4 == UNCHANGED <<vars, part, v5, v6, v7, v8, v9, v10, v11, v12, v13, v14>>
keep5 == UNCHANGED <<vars, part, v6, v7, v8, v9, v10, v11, v12, v13, v14>>
keep6 == UNCHANGED <<vars, part, v7, v8, v9, v10, v11, v12, v13, v14>>
keep7 == UNCHANGED <<vars, part, v8, v9, v10, v11, v12, v13, v14>>
keep8 == UNCHANGED <<vars, part, v9, v10, v11, v12, v13, v14>>
keep13 == UNCHANGED <<vars, part, v14>>
keep14 == UNCHANGED <<vars, part>>

InitScripts ==
  /\ Init
  /\ \/ part = "console" /\ none0
     \/ part = "stomp" /\ S!Init /\ none13
     \/ part = "laydate" /\ D!Init
     \/ part = "layer" /\ L!Init /\ none5
     \/ part = "poshytip" /\ T!Init /\ none6
     \/ part = "select" /\ M!Init /\ none4
     \/ part = "portal" /\ P!Init /\ none4
     \/ part = "editor" /\ E!Init
     \/ part = "toolbar" /\ B!Init /\ none8
     \/ part = "role" /\ R!Init /\ none7

NextScripts ==
  \/ part = "console" /\ Next /\ keep0
  \/ part = "stomp" /\ S!Next /\ keep13
  \/ part = "laydate" /\ D!Next /\ keep14
  \/ part = "layer" /\ L!Next /\ keep5
  \/ part = "poshytip" /\ T!Next /\ keep6
  \/ part = "select" /\ M!Next /\ keep4
  \/ part = "portal" /\ P!Next /\ keep4
  \/ part = "editor" /\ E!Next /\ keep14
  \/ part = "toolbar" /\ B!Next /\ keep8
  \/ part = "role" /\ R!Next /\ keep7

\* The scripts' own: a socket delivers, a timer that is due fires, an animation ends.
Fairness ==
  /\ WF_scripts(part = "stomp" /\ S!onopen /\ keep13)
  /\ WF_scripts(part = "stomp" /\ S!onmessage /\ keep13)
  /\ WF_scripts(part = "stomp" /\ S!onclose /\ keep13)
  /\ WF_scripts(part = "stomp" /\ S!ping /\ keep13)
  /\ WF_scripts(part = "stomp" /\ S!checkPong /\ keep13)
  /\ WF_scripts(part = "stomp" /\ S!Tick /\ keep13)
  /\ WF_scripts(part = "poshytip" /\ T!show /\ keep6)
  /\ WF_scripts(part = "poshytip" /\ T!hide /\ keep6)
  /\ WF_scripts(part = "poshytip" /\ T!animationEnd /\ keep6)

SpecScripts == InitScripts /\ [][NextScripts]_scripts /\ Fairness

-----------------------------------------------------------------------------
\* A temporal formula is evaluated in the states of every script: what another script keeps
\* in the variable is not looked at.
Own(p, v, other) == IF part = p THEN v ELSE other

SO == INSTANCE Stomp WITH
  ws <- Own("stomp", v1, "closed"), connected <- v2, counter <- v3, subscriptions <- v4,
  partialData <- v5, silence <- v6, pinger <- v7, ponger <- Own("stomp", v8, [ttl |-> 0]),
  handled <- v9, calls <- v10, up <- v11, down <- v12,
  broker <- Own("stomp", v13, [alive |-> FALSE])

TO == INSTANCE PoshyTip WITH
  mouse <- Own("poshytip", v1, "elm"), title <- Own("poshytip", v2, ""),
  active <- Own("poshytip", v3, FALSE), tip <- Own("poshytip", v4, "detached"),
  showTimeout <- v5, hideTimeout <- v6

\* The frames of the STOMP client (Stomp!FramesIntact).
FramesIntact == part = "stomp" => S!FramesIntact
\* Its heart-beats (Stomp!HeartbeatWatches).
HeartbeatWatches == part = "stomp" => SO!HeartbeatWatches
\* The cells of the calendar (LayDate!GridConsecutive).
GridConsecutive == part = "laydate" => D!GridConsecutive
\* The halves of a range of dates (LayDate!RangeAgrees).
RangeAgrees == part = "laydate" => D!RangeAgrees
\* The layers of the image preview (Layer!LayersTidy).
LayersTidy == part = "layer" => L!LayersTidy
\* The tips of a grid (PoshyTip!TipSettles).
TipSettles == part = "poshytip" => TO!TipSettles
\* The roles chosen for an operator (MultipleSelect!SelectionAgrees).
SelectionAgrees == part = "select" => M!SelectionAgrees
\* The panels of the first page (Portal!DragMovesOne).
DragMovesOne == part = "portal" => P!DragMovesOne
\* The text that a form sends (WangEditor!ContentFollows).
ContentFollows == part = "editor" => E!ContentFollows
\* The table that is edited (WangMenus!TableRegular).
TableRegular == part = "toolbar" => B!TableRegular
\* The menus of a role (RoleTree!RoleKept).
RoleKept == part = "role" => R!RoleKept
=============================================================================
