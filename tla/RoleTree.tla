-------------------------------- MODULE RoleTree --------------------------------
(***************************************************************************)
(* The dialog that gives a role its menus (templates/role/auth_page.ftl    *)
(* and the tree functions of js/common/general.js): the rows of the menus  *)
(* become a tree of check boxes, the role's menus are checked in it, and   *)
(* what is checked is what the role has once the form is sent.             *)
(***************************************************************************)
CONSTANTS
  Menus,          \* ids
  pid,            \* of every id the one above, rootValue at the top
  rootValue,
  none

VARIABLES
  rows,           \* the menus there are
  granted,        \* those of the role, on the server
  tree,           \* the nodes of the open dialog, or none
  checked,        \* the leaves whose box is checked
  menuIds,        \* the hidden field
  before,         \* history: what the role had when the dialog was opened
  touched         \* history: the leaves that clicks were about

vars == <<rows, granted, tree, checked, menuIds, before, touched>>

-----------------------------------------------------------------------------
(* The tree.  EasyUI keeps the boxes of inner nodes: checked, indeterminate *)
(* or neither by the leaves below them, external. *)

\* The rows that hang together with a top one: the least set that has the top ones and,
\* with a row, the rows below it.
dataFilter(data) ==
  {id \in data : \A nodes \in SUBSET data :
     (\A x \in data : pid[x] \in nodes \union {rootValue} => x \in nodes) => id \in nodes}

isLeaf(nodes, id) == \A child \in nodes : pid[child] # id
leaves(nodes) == {id \in nodes : isLeaf(nodes, id)}

\* With a menu there is what leads to it.
Upward(ids) == \A x \in ids : pid[x] \in ids \union {rootValue}

\* A menu and all that lead to it.
path == [id \in Menus |-> {x \in Menus : \A ids \in SUBSET Menus : id \in ids /\ Upward(ids) => x \in ids}]

below(nodes, id) == {leaf \in leaves(nodes) : id \in path[leaf]}

\* The nodes that are checked and those that are indeterminate.
checkNode(nodes, boxes) == {id \in nodes : below(nodes, id) \intersect boxes # {}}

\* Fault: a box is checked for every menu of the role, and with it all that is below.
checkboxAll(nodes, ids) == UNION {below(nodes, id) : id \in ids \intersect nodes}

\* Only the leaves are checked, a box above follows from them.
checkbox(nodes, ids) == ids \intersect leaves(nodes)

-----------------------------------------------------------------------------
(* The dialog *)

\* The role has what an earlier dialog gave it.
Init ==
  /\ rows \in SUBSET Menus
  /\ granted \in {checkNode(dataFilter(rows), boxes) : boxes \in SUBSET leaves(dataFilter(rows))}
  /\ tree = none /\ checked = {} /\ menuIds = {} /\ before = {} /\ touched = {}

\* onLoadSuccess: the boxes are checked one by one, and each writes the field again; with
\* none of them it stays as the page had it.
open ==
  /\ tree = none
  /\ tree' = dataFilter(rows)
  /\ checked' = checkbox(tree', granted)
  /\ menuIds' = IF checked' = {} THEN granted ELSE checkNode(tree', checked')
  /\ before' = granted /\ touched' = {}
  /\ UNCHANGED <<rows, granted>>

\* A click checks all that is below, or takes it away where all of it is checked.
onCheck(id) ==
  /\ LET boxes == below(tree, id)
     IN  /\ checked' = IF boxes \subseteq checked THEN checked \ boxes ELSE checked \union boxes
         /\ touched' = touched \union boxes
  /\ menuIds' = checkNode(tree, checked')
  /\ UNCHANGED <<rows, granted, tree, before>>

Leave == tree' = none /\ checked' = {} /\ menuIds' = {} /\ before' = {} /\ touched' = {}

submit == tree # none /\ granted' = menuIds /\ Leave /\ UNCHANGED rows
cancel == tree # none /\ Leave /\ UNCHANGED <<rows, granted>>

\* Another operator adds or deletes a menu.
edit(id) ==
  /\ rows' = IF id \in rows THEN rows \ {id} ELSE rows \union {id}
  /\ UNCHANGED <<granted, tree, checked, menuIds, before, touched>>

Next ==
  \/ open \/ submit \/ cancel
  \/ tree # none /\ \E id \in tree : onCheck(id)
  \/ \E id \in Menus : edit(id)

-----------------------------------------------------------------------------
(* Properties *)

\* Giving or taking one menu changes no other: what the form will send has the leaves
\* the role had, but for those clicked on, and with a menu all that leads to it, whatever
\* happens to the menus meanwhile (checkbox, checkNode).  Of a menu that had nothing
\* below it and has by now, this says nothing: it is no leaf any more and is lost.
RoleKept ==
  tree # none =>
    /\ \A leaf \in leaves(tree) \ touched : leaf \in menuIds <=> leaf \in before
    /\ \A id \in menuIds \intersect tree : pid[id] \in menuIds \union {rootValue}
=============================================================================
