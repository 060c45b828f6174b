-------------------------------- MODULE WangMenus --------------------------------
(***************************************************************************)
(* The tool bar of js/editor/wangEditor.js: the menu of tables, which has  *)
(* a panel to insert one and a panel of buttons that edit the one where    *)
(* the caret is, and another menu with a panel.  One table is followed, a  *)
(* sequence of rows of cells; WangEditor has the text.                     *)
(***************************************************************************)
EXTENDS Integers, Sequences, SequencesExt, FiniteSets

CONSTANTS
  Sizes,          \* rows and columns that are asked for
  MaxSize,        \* a bound of the table
  MaxPanels,      \* a bound of those made between two clicks in the text
  none

VARIABLES
  table,          \* a sequence of sequences of "TH" and "TD", or none
  cell,           \* the row and the column that hold the caret, none outside of cells
  _active,        \* of the menu of tables
  changing,       \* its tryChangeActive is due
  shown,          \* the panels in the page, [menu, number, edit]
  _isCreatedPanelMenus,
  panel,          \* of each menu, the number of the one it made last, or none
  made            \* the panels since the last click in the text

vars == <<table, cell, _active, changing, shown, _isCreatedPanelMenus, panel, made>>
panels == <<shown, _isCreatedPanelMenus, panel, made>>

Menus == {"table", "link"}

Init ==
  /\ table = none /\ cell = none /\ _active = FALSE /\ changing = FALSE
  /\ shown = {} /\ _isCreatedPanelMenus = {} /\ panel = [m \in Menus |-> none] /\ made = 0

-----------------------------------------------------------------------------
(* Panels *)

\* Without a container, because it was never shown, a panel leaves the page as it is.
HidePanels(numbers, menus) ==
  /\ shown' = {p \in shown : p.number \notin numbers}
  /\ _isCreatedPanelMenus' = _isCreatedPanelMenus \ menus

\* What show does once it is known that the menu has no panel: the others are hidden
\* through their menus, the menu of tables knows only its panels for inserting.
Show(menu, edit) ==
  LET others == {m \in _isCreatedPanelMenus : panel[m] # none}
  IN  /\ shown' = {p \in shown : p.number \notin {panel[m] : m \in others}}
                  \union {[menu |-> menu, number |-> made, edit |-> edit]}
      /\ _isCreatedPanelMenus' = (_isCreatedPanelMenus \ others) \union {menu}

onClick(menu) ==
  LET edit == menu = "table" /\ _active
  IN  /\ made < MaxPanels /\ made' = made + 1
      /\ IF menu \in _isCreatedPanelMenus THEN UNCHANGED <<shown, _isCreatedPanelMenus>>
         ELSE Show(menu, edit)
      /\ panel' = IF edit THEN panel ELSE [panel EXCEPT ![menu] = made]
      /\ UNCHANGED <<table, cell, _active, changing>>

\* The cross of a panel.
close(p) ==
  /\ HidePanels({p.number}, {p.menu})
  /\ UNCHANGED <<table, cell, _active, changing, panel, made>>

\* A click in the text, inside or outside of the table, reaches the body, where every
\* panel that was ever shown listens.
clickText(at) ==
  /\ cell' = at /\ changing' = TRUE
  /\ HidePanels({p.number : p \in shown}, Menus)
  /\ made' = 0 /\ panel' = [m \in Menus |-> none]   \* none of the old ones is shown again
  /\ UNCHANGED <<table, _active>>

\* 100 ms after a click or a command.
tryChangeActive ==
  /\ changing /\ changing' = FALSE
  /\ _active' = (cell # none)
  /\ UNCHANGED <<table, cell, panels>>

-----------------------------------------------------------------------------
(* The table *)

Row(name, n) == [i \in 1 .. n |-> name]
Cells == {at \in (1 .. MaxSize) \X (1 .. MaxSize) :
            table # none /\ at[1] \in DOMAIN table /\ at[2] \in DOMAIN table[at[1]]}

\* The button of a panel; it acts, and the panel is closed.  The table is changed
\* directly, so the menus are not told.
Button(edit) ==
  /\ \E p \in shown : p.menu = "table" /\ p.edit = edit /\ HidePanels({p.number}, {"table"})
  /\ UNCHANGED <<panel, made>>

_insert(rowNum, colNum) ==
  /\ Button(FALSE)
  /\ table = none
  /\ table' = [r \in 1 .. rowNum |-> Row(IF r = 1 THEN "TH" ELSE "TD", colNum)]
  /\ changing' = TRUE
  /\ UNCHANGED <<cell, _active>>

\* Outside of a cell none of the buttons knows where it is.
Edit(newTable, newCell) ==
  /\ Button(TRUE)
  /\ IF cell = none THEN UNCHANGED <<table, cell>> ELSE table' = newTable /\ cell' = newCell
  /\ UNCHANGED <<_active, changing>>

_addRow ==
  /\ cell # none => Len(table) < MaxSize
  /\ Edit(InsertAt(table, cell[1] + 1, Row("TD", Len(table[cell[1]]))), cell)

\* Fault: the new cells all take the name of the current one.
_addColCurrent ==
  /\ cell # none => Len(table[1]) < MaxSize
  /\ Edit([i \in DOMAIN table |-> InsertAt(table[i], cell[2] + 1, table[cell[1]][cell[2]])], cell)

_addCol ==
  /\ cell # none => Len(table[1]) < MaxSize
  /\ Edit([i \in DOMAIN table |-> InsertAt(table[i], cell[2] + 1, table[i][cell[2]])], cell)

\* The range moves to the parent of what was removed, which is no cell.
_delRow   == Edit(RemoveAt(table, cell[1]), none)
_delCol   == Edit([i \in DOMAIN table |-> RemoveAt(table[i], cell[2])], none)
_delTable == Edit(none, none)

\* A click type menu or a drop list: a command, after which the menus look again.
command ==
  /\ changing' = TRUE
  /\ UNCHANGED <<table, cell, _active, panels>>

Next ==
  \/ \E menu \in Menus : onClick(menu)
  \/ \E p \in shown : close(p)
  \/ \E at \in Cells \union {none} : clickText(at)
  \/ tryChangeActive
  \/ \E rowNum, colNum \in Sizes : _insert(rowNum, colNum)
  \/ _addRow \/ _addCol \/ _delRow \/ _delCol \/ _delTable
  \/ command

-----------------------------------------------------------------------------
(* Properties *)

\* Whatever panel is left open while the caret moves, a table keeps rows of one length,
\* each of one kind of cell, and no head but in its first row.
TableRegular ==
  table # none =>
    \A r \in DOMAIN table :
      /\ Len(table[r]) = Len(table[1])
      /\ Cardinality(ToSet(table[r])) <= 1
      /\ r > 1 => "TH" \notin ToSet(table[r])
=============================================================================
