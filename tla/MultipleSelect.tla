----------------------------- MODULE MultipleSelect -----------------------------
(***************************************************************************)
(* The list of check boxes of js/multiple/multiple-select.js, by which the *)
(* pages of an operator choose its roles: an input shows the names of what *)
(* is selected, a hidden one (`target`) keeps the ids.                     *)
(***************************************************************************)
EXTENDS Integers, Sequences, SequencesExt, FiniteSets, Functions

CONSTANTS
  data,         \* what the server answers: a sequence of [hide, show]
  Unknown       \* an id of the target that the answer does not have

VARIABLES
  target,       \* the ids, in the order in which they were selected
  self,         \* the names shown
  boxes,        \* the options whose box is checked
  loaded

vars == <<target, self, boxes, loaded>>

hides == {data[i].hide : i \in DOMAIN data}
name(id) == data[CHOOSE i \in DOMAIN data : data[i].hide = id].show

\* A role has an id of its own and a name (templates/role/add_page.ftl requires one).
SelectAssumption ==
  /\ data \in Seq([hide : STRING, show : STRING \ {""}])
  /\ \A i, j \in DOMAIN data : data[i].hide = data[j].hide => i = j
  /\ Unknown \in STRING \ hides

\* Indices in their order.
inOrder(indices) ==
  CHOOSE order \in [1 .. Cardinality(indices) -> indices] :
    \A k, l \in DOMAIN order : k < l => order[k] < order[l]

\* A page that adds an operator has an empty target, one that edits it a filled one.
Init ==
  /\ target \in UNION {SetToSeqs(s) : s \in SUBSET (hides \union {Unknown})}
  /\ self = <<>> /\ boxes = {} /\ loaded = FALSE

removeValue(array, val) == IF val \in Range(array) THEN RemoveFirst(array, val) ELSE array

\* getRemoteData and render: the boxes and the names are those of the target, in the
\* order of the data.
render ==
  /\ ~loaded /\ loaded' = TRUE
  /\ boxes' = hides \intersect Range(target)
  /\ self' = LET checked == inOrder({i \in DOMAIN data : data[i].hide \in Range(target)})
             IN  [k \in DOMAIN checked |-> data[checked[k]].show]
  /\ UNCHANGED target

\* A comma precedes the name also where only unknown ids are selected.
add(hide) ==
  /\ loaded /\ hide \notin boxes /\ boxes' = boxes \union {hide}
  /\ target' = Append(target, hide)
  /\ self' = IF target = <<>> THEN <<name(hide)>>
             ELSE Append(IF self = <<>> THEN <<"">> ELSE self, name(hide))
  /\ UNCHANGED loaded

\* Fault: the name is looked for where the id is.
removeAt(hide) ==
  /\ loaded /\ hide \in boxes /\ boxes' = boxes \ {hide}
  /\ LET index == CHOOSE i \in DOMAIN target : target[i] = hide
     IN  /\ target' = removeValue(target, hide)
         /\ self' = IF index \in DOMAIN self THEN RemoveAt(self, index) ELSE self
  /\ UNCHANGED loaded

remove(hide) ==
  /\ loaded /\ hide \in boxes /\ boxes' = boxes \ {hide}
  /\ IF hide \in Range(target)
     THEN /\ target' = removeValue(target, hide)
          /\ LET names == removeValue(self, name(hide))
             IN  self' = IF names = <<"">> THEN <<>> ELSE names
     ELSE UNCHANGED <<target, self>>
  /\ UNCHANGED loaded

Next == render \/ \E hide \in hides : add(hide) \/ remove(hide)

-----------------------------------------------------------------------------
(* Properties *)

\* What is shown, what is checked and what will be submitted agree, though the names are
\* in another order than the ids and two roles may have one name.
SelectionAgrees ==
  loaded =>
    /\ boxes = hides \intersect Range(target)
    /\ \A n \in {data[i].show : i \in DOMAIN data} :
         Cardinality({i \in DOMAIN self : self[i] = n})
           = Cardinality({i \in DOMAIN target : target[i] # Unknown /\ name(target[i]) = n})
=============================================================================
