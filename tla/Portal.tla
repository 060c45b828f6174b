--------------------------------- MODULE Portal ---------------------------------
(***************************************************************************)
(* The panels of the first page (common/portal.js) in the columns of       *)
(* js/easyUI/ext/jquery.portal.js, between which they are dragged.         *)
(***************************************************************************)
EXTENDS Integers, Sequences, SequencesExt, FiniteSets

CONSTANTS
  Panels,        \* ids with options, see getOptionById
  State,         \* "p1,p3:p2,p4": per column the ids in it
  MaxMoves       \* bound on the changes of the mouse's place during one drag

VARIABLES
  columns,       \* per column the panels, and during a drag the spacer
  dragged,       \* the panel that is dragged, or nothing
  moves,
  start          \* history: the columns before the drag

vars == <<columns, dragged, moves, start>>

spacer == "spacer"
nothing == "nothing"

\* There are panels, and the state has each once.
PortalAssumption ==
  /\ Panels # {} /\ spacer \notin Panels /\ nothing \notin Panels
  /\ State \in Seq(Seq(STRING))
  /\ \A i, k \in DOMAIN State : \A j \in DOMAIN State[i], l \in DOMAIN State[k] :
       State[i][j] = State[k][l] => i = k /\ j = l

-----------------------------------------------------------------------------

\* getOptionById: ids without options are skipped.
withOptions(ids) ==
  LET known == {i \in DOMAIN ids : ids[i] \in Panels}
      order == CHOOSE o \in [1 .. Cardinality(known) -> known] :
                 \A k, l \in DOMAIN o : k < l => o[k] < o[l]
  IN  [k \in DOMAIN order |-> ids[order[k]]]

Init ==
  /\ columns = [i \in DOMAIN State |-> withOptions(State[i])]
  /\ start = columns /\ dragged = nothing /\ moves = 0

\* An element of the page is at one place, and leaves it.
Without(x, cs) == [i \in DOMAIN cs |-> RemoveFirst(cs[i], x)]
Column(x, cs) == CHOOSE i \in DOMAIN cs : Contains(cs[i], x)

\* x put before or after another member of a column.
insert(x, cs, target, shift) ==
  LET c == Column(target, cs)
  IN  [cs EXCEPT ![c] = InsertAt(@, SelectInSeq(@, LAMBDA p : p = target) + shift, x)]

onStartDrag(p) ==
  /\ dragged = nothing /\ dragged' = p /\ moves' = 0
  /\ columns' = insert(spacer, columns, p, 1)
  /\ start' = columns

\* findPanel: the mouse is over one half of another panel.
overPanel(target, shift) ==
  /\ dragged # nothing /\ target # dragged /\ moves < MaxMoves
  /\ moves' = moves + 1
  /\ columns' = insert(spacer, Without(spacer, columns), target, shift)
  /\ UNCHANGED <<dragged, start>>

\* Fault: the column's own spacer is not looked for.
overColumnTwice(c) ==
  /\ dragged # nothing /\ moves < MaxMoves
  /\ moves' = moves + 1
  /\ columns' = [columns EXCEPT ![c] = Append(@, spacer)]
  /\ UNCHANGED <<dragged, start>>

\* findColumn: the mouse is over no panel but over a column.
overColumn(c) ==
  /\ dragged # nothing /\ moves < MaxMoves
  /\ moves' = moves + 1
  /\ columns' = IF Contains(columns[c], spacer) THEN columns
                ELSE [Without(spacer, columns) EXCEPT ![c] = Append(@, spacer)]
  /\ UNCHANGED <<dragged, start>>

\* The panel goes behind the spacer, which goes.
onStopDrag ==
  /\ dragged # nothing /\ dragged' = nothing /\ moves' = 0
  /\ columns' = Without(spacer, insert(dragged, Without(dragged, columns), spacer, 1))
  /\ UNCHANGED start

add(p, c) ==
  /\ dragged = nothing /\ p \in Panels /\ \A i \in DOMAIN columns : ~Contains(columns[i], p)
  /\ columns' = [columns EXCEPT ![c] = Append(@, p)]
  /\ start' = columns' /\ UNCHANGED <<dragged, moves>>

remove(p) ==
  /\ dragged = nothing
  /\ columns' = Without(p, columns)
  /\ start' = columns' /\ UNCHANGED <<dragged, moves>>

Present == {p \in Panels : \E i \in DOMAIN columns : Contains(columns[i], p)}

Next ==
  \/ \E p \in Present : \/ onStartDrag(p) \/ remove(p)
                        \/ \E shift \in {0, 1} : overPanel(p, shift)
  \/ \E c \in DOMAIN columns : overColumn(c) \/ \E p \in Panels : add(p, c)
  \/ onStopDrag

-----------------------------------------------------------------------------
(* Properties *)

\* A drag moves one panel: whatever the mouse passed on its way, all the others are where
\* they were, none is lost or doubled, and no spacer is left.
DragMovesOne ==
  /\ \A p \in Panels \union {spacer} :
       Cardinality(UNION {{i} \X {j \in DOMAIN columns[i] : columns[i][j] = p} : i \in DOMAIN columns})
         = Cardinality({i \in DOMAIN start : Contains(start[i], p)})
           + (IF p = spacer /\ dragged # nothing THEN 1 ELSE 0)
  /\ dragged # nothing => Without(spacer, columns) = start
  /\ \E p \in Panels : Without(p, Without(spacer, columns)) = Without(p, start)
=============================================================================
