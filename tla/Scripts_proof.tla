-------------------------- MODULE Scripts_proof --------------------------
(***************************************************************************)
(* Proofs about the scripts of the console (Scripts), each for all values  *)
(* of its constants and any number of steps:                               *)
(*                                                                         *)
(*  - ManageConsole: the answer to a form finds the dialog and the opener  *)
(*    it was sent from.  What makes it so is the mask: as long as it is on *)
(*    since the form was sent, nothing can be clicked that would change    *)
(*    either.                                                              *)
(*  - Layer: the page is locked by a layer that stays, one album listens   *)
(*    to keys, an end callback is called once.                             *)
(*  - LayDate: a calendar shows consecutive days and every day of its      *)
(*    month, for every year; a range is in order, and both fields have it. *)
(*  - WangEditor: the form has the text that is shown.                     *)
(*  - WangMenus: a table stays regular.                                    *)
(*  - RoleTree: the menus sent for a role keep what nobody clicked, and    *)
(*    hang together.                                                       *)
(*  - MultipleSelect: the names that are shown are those of the ids sent.  *)
(*  - Portal: a drag moves one panel.                                      *)
(*                                                                         *)
(* Each has an inductive invariant over the variables of its own script;   *)
(* the last section puts them together for SpecScripts.  The STOMP client, *)
(* and the lemmas about sequences, are in Stomp_proof.                     *)
(***************************************************************************)
EXTENDS Stomp_proof

-----------------------------------------------------------------------------
(* Forms: the inductive invariant *)

Kinds == {"form", "submit", "fields", "confirm", "get"}

Records == [kind : Kinds, page : Pages \union {""}, bare : BOOLEAN]

\* Only a dialog of a page sends a form that reloads a grid.
RequestsOK ==
  /\ requests \subseteq Records
  /\ \A r \in requests : r.kind = "form" => r.page \in Pages

HandlerOK == handler # none /\ handler.form => handler.page \in Pages \union {""}

\* A form sent under a mask that is still on has its dialog open and its opener noted.
FormHeld(r) ==
  /\ progress
  /\ handler # none /\ handler.page = r.page
  /\ IF r.page \in Grids THEN opennerDataGrid = r.page ELSE opennerTreeGrid = r.page

FormsHeld == \A r \in requests : r.kind = "form" /\ ~r.bare => FormHeld(r)

IInv == RequestsOK /\ HandlerOK /\ FormsHeld /\ FormReturns

-----------------------------------------------------------------------------
(* Forms: every step preserves it *)

LEMMA InitIInv == Init => IInv
BY DEF Init, IInv, RequestsOK, HandlerOK, FormsHeld, FormReturns

\* Where a click is possible no form waits under its mask, so a click that sends none may
\* change the dialog as it likes.
LEMMA ClickStep ==
  ASSUME IInv, ~progress, HandlerOK', UNCHANGED answer,
         \A r \in requests' : r \in requests \/ r \in [kind : {"fields", "confirm", "get"},
                                                       page : Pages, bare : {FALSE}]
  PROVE  IInv'
<1>1. \A r \in requests' : r \in Records
                           /\ (r.kind = "form" => r \in requests)
  BY DEF IInv, RequestsOK, Records, Kinds
<1>2. RequestsOK'
  BY <1>1 DEF IInv, RequestsOK
<1>3. FormsHeld'
  BY <1>1 DEF IInv, FormsHeld, FormHeld
<1> QED
  BY <1>2, <1>3 DEF IInv, FormReturns

\* A page that opens, closes or is loaded again forgets requests and makes none.
LEMMA TabStep ==
  ASSUME IInv,
         \/ \E page \in Pages : addTabs(page)
         \/ \E type \in {"close", "closeright", "closeother", "closeall"}, i \in DOMAIN tabs :
              closeTabs(type, i)
  PROVE  IInv'
<1>1. requests' \subseteq requests /\ ~progress /\ UNCHANGED <<handler, answer>>
  BY DEF addTabs, closeTabs, Desk, Console, Forget
<1> QED
  BY <1>1, ClickStep DEF IInv, HandlerOK

LEMMA AskStep ==
  ASSUME NEW kind \in {"fields", "confirm", "get"}, NEW page \in Pages, Ask(Request(kind, page))
  PROVE  \A r \in requests' : r \in requests \/ r \in [kind : {"fields", "confirm", "get"},
                                                       page : Pages, bare : {FALSE}]
<1>1. Request(kind, page) \in [kind : {"fields", "confirm", "get"}, page : Pages, bare : {FALSE}]
  BY DEF Request
<1>2. requests' = requests \union {Request(kind, page)}
  BY DEF Ask
<1> QED
  BY <1>1, <1>2

\* A dialog that opens, and a request without a form.
LEMMA PageStep ==
  ASSUME IInv, NEW page \in Pages, editFun(page) \/ confirm(page) \/ get(page)
  PROVE  IInv'
<1>1. ~progress /\ handler = none /\ UNCHANGED answer
  BY DEF editFun, confirm, get, Desk, Console
<1>2. HandlerOK'
  <2>1. \/ handler' = [page |-> page, form |-> TRUE]
        \/ UNCHANGED handler
    BY <1>1 DEF editFun, confirm, get, windowDialog
  <2>2. CASE handler' = [page |-> page, form |-> TRUE]
    BY <2>2 DEF HandlerOK
  <2>3. CASE UNCHANGED handler
    BY <2>3 DEF IInv, HandlerOK
  <2> QED
    BY <2>1, <2>2, <2>3
<1>3. \A r \in requests' : r \in requests \/ r \in [kind : {"fields", "confirm", "get"},
                                                    page : Pages, bare : {FALSE}]
  BY AskStep DEF editFun, confirm, get
<1> QED
  BY <1>1, <1>2, <1>3, ClickStep

LEMMA WindowStep ==
  ASSUME IInv, (\E page \in Pages \union {homePage} : show(page)) \/ changePwd \/ onClose
  PROVE  IInv'
<1>1. ~progress /\ UNCHANGED <<requests, answer>>
  BY DEF show, changePwd, onClose, Desk, Console
<1>2. HandlerOK'
  <2>1. \/ \E page \in Pages \union {homePage} : handler' = [page |-> page, form |-> FALSE]
        \/ handler' = [page |-> "", form |-> TRUE]
        \/ handler' = none
    BY DEF show, changePwd, onClose, Desk, windowDialog
  <2>2. ASSUME NEW page \in Pages \union {homePage}, handler' = [page |-> page, form |-> FALSE]
        PROVE  HandlerOK'
    BY <2>2 DEF HandlerOK
  <2>3. CASE handler' = [page |-> "", form |-> TRUE]
    BY <2>3 DEF HandlerOK
  <2>4. CASE handler' = none
    BY <2>4 DEF HandlerOK
  <2> QED
    BY <2>1, <2>2, <2>3, <2>4
<1> QED
  BY <1>1, <1>2, ClickStep

\* A form is sent from its dialog, which stays, and notes its opener.
LEMMA onSubmitStep ==
  ASSUME IInv, NEW isValid \in BOOLEAN, onSubmit(isValid)
  PROVE  IInv'
<1> DEFINE new == Request(IF handler.page = "" THEN "submit" ELSE "form", handler.page)
<1>1. /\ ~progress /\ handler # none /\ handler.page \in Pages \union {""}
      /\ UNCHANGED <<handler, answer>>
  BY DEF onSubmit, Console, IInv, HandlerOK
<1>2. \A r \in requests' : r \in requests \/ (r = new /\ progress')
  BY DEF onSubmit, Ask
<1>3. /\ new.kind \in {"submit", "form"} /\ new.page = handler.page /\ new.bare = FALSE
      /\ new.kind = "form" => new.page \in Pages
      /\ new \in Records
  BY <1>1 DEF Request, Records, Kinds
<1>4. handler.page \in Pages =>
        IF handler.page \in Grids THEN opennerDataGrid' = handler.page
        ELSE opennerTreeGrid' = handler.page
  BY DEF onSubmit, Opener, Pages
<1> HIDE DEF new
<1>5. RequestsOK' /\ HandlerOK'
  BY <1>1, <1>2, <1>3 DEF IInv, RequestsOK, HandlerOK
<1>6. FormsHeld'
  BY <1>1, <1>2, <1>3, <1>4 DEF IInv, FormsHeld, FormHeld
<1> QED
  BY <1>1, <1>5, <1>6 DEF IInv, FormReturns

LEMMA BaredRecord ==
  ASSUME NEW q \in Records, NEW b \in BOOLEAN
  PROVE  /\ [q EXCEPT !.bare = b] \in Records
         /\ [q EXCEPT !.bare = b].kind = q.kind
         /\ [q EXCEPT !.bare = b].page = q.page
         /\ b => [q EXCEPT !.bare = b].bare
BY DEF Records

\* With the mask goes what it has protected.
LEMMA UnmaskStep ==
  ASSUME IInv, NEW r \in requests, Unmask(requests \ {r})
  PROVE  RequestsOK' /\ FormsHeld'
<1>1. requests' = {[q EXCEPT !.bare = q.kind \in Masked] : q \in requests \ {r}}
  BY DEF Unmask
<1>2. ASSUME NEW p \in requests'
      PROVE  p \in Records /\ (p.kind = "form" => p.page \in Pages /\ p.bare)
  <2>1. PICK q \in requests : p = [q EXCEPT !.bare = q.kind \in Masked]
    BY <1>1
  <2>2. q \in Records /\ (q.kind = "form" => q.page \in Pages)
    BY DEF IInv, RequestsOK
  <2>3. q.kind = "form" => q.kind \in Masked
    BY DEF Masked
  <2>4. (q.kind \in Masked) \in BOOLEAN
    OBVIOUS
  <2> QED
    BY <2>1, <2>2, <2>3, <2>4, BaredRecord
<1>3. RequestsOK'
  BY <1>2 DEF RequestsOK
<1>4. FormsHeld'
  BY <1>2 DEF FormsHeld
<1> QED
  BY <1>3, <1>4

\* The answer to a form that is still under its mask closes its dialog and reloads its
\* opener's grid.
LEMMA formSubmitStep ==
  ASSUME IInv, NEW r \in requests, NEW code \in {200, 500}, formSubmit(r, code)
  PROVE  IInv'
<1>1. RequestsOK' /\ FormsHeld'
  BY UnmaskStep DEF formSubmit
<1>2. HandlerOK'
  <2>1. CASE handler' = none
    BY <2>1 DEF HandlerOK
  <2>2. CASE UNCHANGED handler
    BY <2>2 DEF IInv, HandlerOK
  <2> QED
    BY <2>1, <2>2 DEF formSubmit
<1>3. FormReturns'
  <2>1. CASE code = 200
    <3>2. CASE r.bare
      BY <2>1, <3>2 DEF formSubmit, FormReturns
    <3>3. CASE ~r.bare
      BY <2>1, <3>3 DEF formSubmit, IInv, FormsHeld, FormHeld, FormReturns
    <3> QED
      BY <3>2, <3>3
  <2>2. CASE code = 500
    BY <2>2 DEF formSubmit, IInv, FormReturns
  <2> QED
    BY <2>1, <2>2
<1> QED
  BY <1>1, <1>2, <1>3 DEF IInv

\* Other answers, which take the mask away or leave everything as it is.
LEMMA AnswerStep ==
  ASSUME IInv, NEW r \in requests, NEW code \in {200, 500},
         submit(r) \/ done(r, code) \/ fields(r, code)
  PROVE  IInv'
<1>1. UNCHANGED <<handler, opennerDataGrid, opennerTreeGrid, answer>>
  BY DEF submit, done, fields, opener
<1>2. \/ Unmask(requests \ {r})
      \/ requests' = requests \ {r} /\ UNCHANGED progress
  BY DEF submit, done, fields
<1>3. ASSUME requests' = requests \ {r}, UNCHANGED progress
      PROVE  RequestsOK' /\ FormsHeld'
  BY <1>1, <1>3 DEF IInv, RequestsOK, FormsHeld, FormHeld
<1>4. HandlerOK'
  BY <1>1 DEF IInv, HandlerOK
<1>5. FormReturns'
  BY <1>1 DEF IInv, FormReturns
<1> QED
  BY <1>2, <1>3, <1>4, <1>5, UnmaskStep DEF IInv

LEMMA NextIInv == IInv /\ [Next]_vars => IInv'
<1> SUFFICES ASSUME IInv, [Next]_vars PROVE IInv'
  OBVIOUS
<1>1. CASE confirmAlert \/ UNCHANGED vars
  <2>1. UNCHANGED <<handler, opennerDataGrid, opennerTreeGrid, progress, requests, answer>>
    BY <1>1 DEF confirmAlert, vars, opener
  <2>2. RequestsOK' /\ FormsHeld'
    BY <2>1 DEF IInv, RequestsOK, FormsHeld, FormHeld
  <2>3. HandlerOK' /\ FormReturns'
    BY <2>1 DEF IInv, HandlerOK, FormReturns
  <2> QED
    BY <2>2, <2>3 DEF IInv
<1> QED
  BY <1>1, TabStep, PageStep, WindowStep, onSubmitStep, formSubmitStep, AnswerStep DEF Next

-----------------------------------------------------------------------------
(* Forms: what it implies *)

\* However tabs, dialogs, requests and messages of all pages interleave: a form that
\* succeeds under its mask has closed its own dialog and reloaded its own opener.
THEOREM FormsReturn == Spec => []FormReturns
<1>1. IInv => FormReturns
  BY DEF IInv
<1> QED
  BY <1>1, InitIInv, NextIInv, PTL DEF Spec

-----------------------------------------------------------------------------
(* Layers *)

Types == {"dialog", "page", "loading", "photos"}
Modes == {"plain", "min", "full"}

Layer == [type : Types, dict : Nat, removals : Nat, shown : BOOLEAN, mode : Modes, ends : Nat]

PageType == [layers : Seq(Layer), full : Nat, keyups : SUBSET Nat, end : SUBSET Nat]

\* Only photos have an album, and they go at once; the end callback is registered as long
\* as the layer is there.
LayerOK(p, i) ==
  /\ p.layers[i].dict # 0 => p.layers[i].type = "photos"
  /\ p.layers[i].type = "photos" => p.layers[i].removals = 0
  /\ i \in p.end <=> p.layers[i].shown
  /\ p.layers[i].shown => p.layers[i].ends = 0
  /\ p.layers[i].ends <= 1

\* The page is locked by a layer that stays.
LockOK(p) == p.full # 0 => p.full \in DOMAIN p.layers /\ p.layers[p.full].shown
                           /\ p.layers[p.full].removals = 0

\* One album is shown, and its keys are listened to.
AlbumOK(p) ==
  /\ \A i, j \in L!Shown(p) : p.layers[i].type = "photos" /\ p.layers[j].type = "photos" => i = j
  /\ \A d : d \in p.keyups <=> d # 0 /\ \E i \in L!Shown(p) : p.layers[i].dict = d

PageOK(p) ==
  /\ p \in PageType
  /\ \A i \in DOMAIN p.layers : LayerOK(p, i)
  /\ p.end \subseteq DOMAIN p.layers
  /\ LockOK(p)
  /\ AlbumOK(p)

LEMMA RescollbarOK ==
  ASSUME NEW p, PageOK(p), NEW i
  PROVE  /\ PageOK(L!rescollbar(p, i))
         /\ L!rescollbar(p, i).layers = p.layers
         /\ L!rescollbar(p, i).full # 0 => L!rescollbar(p, i).full # i
<1> DEFINE q == L!rescollbar(p, i)
<1>1. p \in PageType /\ q \in PageType
  BY DEF PageOK, PageType, L!rescollbar
<1>2. /\ q.layers = p.layers /\ q.end = p.end /\ q.keyups = p.keyups
      /\ q.full = IF p.full = i THEN 0 ELSE p.full
  BY <1>1 DEF PageType, L!rescollbar
<1> HIDE DEF q
<1>3. L!Shown(q) = L!Shown(p)
  BY <1>2 DEF L!Shown
<1> QED
  BY <1>1, <1>2, <1>3 DEF PageOK, LayerOK, LockOK, AlbumOK, q

LEMMA GoneLayer ==
  ASSUME NEW x \in Layer, NEW e \in Nat
  PROVE  [x EXCEPT !.shown = FALSE, !.ends = e] \in Layer
BY DEF Layer

LEMMA RemoveOK ==
  ASSUME NEW p, PageOK(p), NEW i \in DOMAIN p.layers, p.full # i,
         p.layers[i].shown \/ p.layers[i].dict = 0
  PROVE  PageOK(L!remove(p, i))
<1> DEFINE q == L!remove(p, i)
<1>1. p \in PageType /\ p.layers \in Seq(Layer) /\ p.layers[i] \in Layer
  BY DEF PageOK, PageType
<1>2. /\ q.layers = [p.layers EXCEPT ![i] =
                       [p.layers[i] EXCEPT !.shown = FALSE,
                          !.ends = IF i \in p.end THEN p.layers[i].ends + 1 ELSE p.layers[i].ends]]
      /\ q.full = p.full
      /\ q.end = p.end \ {i}
      /\ q.keyups = p.keyups \ {p.layers[i].dict}
  BY <1>1 DEF PageType, L!remove
<1> HIDE DEF q
<1>3. DOMAIN q.layers = DOMAIN p.layers
  BY <1>1, <1>2
<1>4. \A j \in DOMAIN p.layers \ {i} : q.layers[j] = p.layers[j]
  BY <1>1, <1>2
<1> DEFINE r == [p.layers[i] EXCEPT !.shown = FALSE,
                      !.ends = IF i \in p.end THEN p.layers[i].ends + 1 ELSE p.layers[i].ends]
<1>15. q.layers[i] = r
  BY <1>1, <1>2
<1>5. /\ q.layers[i].type = p.layers[i].type /\ q.layers[i].dict = p.layers[i].dict
      /\ q.layers[i].removals = p.layers[i].removals
      /\ q.layers[i].shown = FALSE
      /\ q.layers[i].ends = IF i \in p.end THEN p.layers[i].ends + 1 ELSE p.layers[i].ends
      /\ q.layers[i] \in Layer
  <2>1. r.type = p.layers[i].type /\ r.dict = p.layers[i].dict /\ r.removals = p.layers[i].removals
    BY <1>1 DEF Layer
  <2>2. r.shown = FALSE
    BY <1>1 DEF Layer
  <2>3. r.ends = IF i \in p.end THEN p.layers[i].ends + 1 ELSE p.layers[i].ends
    BY <1>1 DEF Layer
  <2>4. (IF i \in p.end THEN p.layers[i].ends + 1 ELSE p.layers[i].ends) \in Nat
    BY <1>1 DEF Layer
  <2>5. r \in Layer
    BY <1>1, <2>4, GoneLayer
  <2> QED
    BY <1>15, <2>1, <2>2, <2>3, <2>5
<1>6. q \in PageType
  <2>1. q.layers \in Seq(Layer)
    BY <1>1, <1>2, <1>5
  <2> QED
    BY <1>1, <1>2, <2>1 DEF PageType, q, L!remove
<1>7. \A j \in DOMAIN q.layers : LayerOK(q, j)
  <2>1. \A j \in DOMAIN p.layers \ {i} : LayerOK(q, j)
    BY <1>2, <1>4 DEF PageOK, LayerOK
  <2>2. LayerOK(q, i)
    <3>1. LayerOK(p, i)
      BY DEF PageOK
    <3>2. i \notin q.end /\ ~q.layers[i].shown /\ q.layers[i].ends <= 1
      BY <3>1, <1>2, <1>5 DEF LayerOK
    <3> QED
      BY <3>1, <3>2, <1>5 DEF LayerOK
  <2> QED
    BY <1>3, <2>1, <2>2
<1>8. q.end \subseteq DOMAIN q.layers /\ LockOK(q)
  BY <1>2, <1>3, <1>4 DEF PageOK, LockOK
<1>9. L!Shown(q) = L!Shown(p) \ {i}
  BY <1>3, <1>4, <1>5 DEF L!Shown
<1>10. AlbumOK(q)
  <2>1. \A j \in L!Shown(q) : j \in L!Shown(p) /\ j # i /\ q.layers[j] = p.layers[j]
    BY <1>4, <1>9 DEF L!Shown
  <2>2. ASSUME NEW d, d \in q.keyups
        PROVE  d # 0 /\ \E j \in L!Shown(q) : q.layers[j].dict = d
    <3>1. d \in p.keyups /\ d # p.layers[i].dict
      BY <1>2, <2>2
    <3>2. d # 0 /\ \E j \in L!Shown(p) : p.layers[j].dict = d
      BY <3>1 DEF PageOK, AlbumOK
    <3> QED
      BY <3>1, <3>2, <1>9, <2>1
  <2>3. ASSUME NEW d, d # 0, NEW j \in L!Shown(q), q.layers[j].dict = d
        PROVE  d \in q.keyups
    <3>1. j \in L!Shown(p) /\ j # i /\ p.layers[j].dict = d
      BY <2>1, <2>3
    <3>2. d \in p.keyups
      BY <3>1, <2>3 DEF PageOK, AlbumOK
    <3>3. ASSUME d = p.layers[i].dict PROVE FALSE
      <4>1. i \in L!Shown(p) /\ p.layers[i].type = "photos" /\ p.layers[j].type = "photos"
        BY <3>1, <3>3, <2>3 DEF L!Shown, PageOK, LayerOK
      <4> QED
        BY <4>1, <3>1 DEF PageOK, AlbumOK
    <3> QED
      BY <3>2, <3>3, <1>2
  <2>4. \A j, k \in L!Shown(q) : q.layers[j].type = "photos" /\ q.layers[k].type = "photos" => j = k
    BY <2>1 DEF PageOK, AlbumOK
  <2> QED
    BY <2>2, <2>3, <2>4 DEF AlbumOK
<1> QED
  BY <1>6, <1>7, <1>8, <1>10 DEF PageOK, q

\* A set of layers starts to go, all of them, and with them the lock they hold.
Leaving(p, closed) ==
  LET leaving(i) == [p.layers[i] EXCEPT !.removals = @ + 1]
  IN  [p EXCEPT !.layers = [i \in DOMAIN @ |-> IF i \in closed THEN leaving(i) ELSE @[i]],
                !.full = IF @ \in closed THEN 0 ELSE @]

\* The fields of a page whose layers and lock change.
LEMMA PageUpdated ==
  ASSUME NEW p \in PageType, NEW ls, NEW f
  PROVE  /\ [p EXCEPT !.layers = ls, !.full = f]
              = [layers |-> ls, full |-> f, keyups |-> p.keyups, end |-> p.end]
         /\ [[p EXCEPT !.full = f] EXCEPT !.layers = ls]
              = [layers |-> ls, full |-> f, keyups |-> p.keyups, end |-> p.end]
         /\ [p EXCEPT !.full = f].layers = p.layers
<1>1. \E a, b, c, d : p = [layers |-> a, full |-> b, keyups |-> c, end |-> d]
  <2>1. p = [layers |-> p.layers, full |-> p.full, keyups |-> p.keyups, end |-> p.end]
    BY DEF PageType
  <2> QED
    BY <2>1, Zenon
<1>2. PICK a, b, c, d : p = [layers |-> a, full |-> b, keyups |-> c, end |-> d]
  BY <1>1
<1>3. p.layers = a /\ p.keyups = c /\ p.end = d
  BY <1>2
<1> DEFINE moved  == [p EXCEPT !.layers = ls]
           locked == [p EXCEPT !.full = f]
<1>4. moved = [layers |-> ls, full |-> b, keyups |-> c, end |-> d]
  BY <1>2
<1>5. locked = [layers |-> a, full |-> f, keyups |-> c, end |-> d]
  BY <1>2
<1>6. [p EXCEPT !.layers = ls, !.full = f] = [moved EXCEPT !.full = f]
  OBVIOUS
<1> HIDE DEF moved, locked
<1>7. [moved EXCEPT !.full = f] = [layers |-> ls, full |-> f, keyups |-> c, end |-> d]
  BY <1>4
<1>8. [locked EXCEPT !.layers = ls] = [layers |-> ls, full |-> f, keyups |-> c, end |-> d]
  BY <1>5
<1>9. locked.layers = a
  BY <1>5
<1> QED
  BY <1>3, <1>6, <1>7, <1>8, <1>9, Zenon DEF locked

LEMMA MoreRemovals ==
  ASSUME NEW x \in Layer
  PROVE  LET y == [x EXCEPT !.removals = @ + 1] IN
         y \in Layer /\ y.type = x.type /\ y.dict = x.dict /\ y.shown = x.shown /\ y.ends = x.ends
BY DEF Layer

LEMMA LeavingOK ==
  ASSUME NEW p, PageOK(p), NEW closed \in SUBSET L!Shown(p),
         \A i \in closed : p.layers[i].type # "photos"
  PROVE  PageOK(Leaving(p, closed))
<1> DEFINE q == Leaving(p, closed)
           y(i) == [p.layers[i] EXCEPT !.removals = @ + 1]
<1>1. p \in PageType /\ p.layers \in Seq(Layer) /\ p.full \in Nat
      /\ \A i \in DOMAIN p.layers : p.layers[i] \in Layer
  BY DEF PageOK, PageType
<1>2. /\ q.layers = [i \in DOMAIN p.layers |-> IF i \in closed THEN y(i) ELSE p.layers[i]]
      /\ q.full = IF p.full \in closed THEN 0 ELSE p.full
      /\ q.end = p.end /\ q.keyups = p.keyups
  BY <1>1 DEF PageType, Leaving
<1>3. \A i \in DOMAIN p.layers : y(i) \in Layer /\ y(i).type = p.layers[i].type
        /\ y(i).dict = p.layers[i].dict /\ y(i).shown = p.layers[i].shown /\ y(i).ends = p.layers[i].ends
  BY <1>1, MoreRemovals
<1> HIDE DEF y
<1>4. q.layers \in Seq(Layer)
  BY <1>1, <1>2, <1>3
<1>5. q \in PageType
  BY <1>1, <1>2, <1>4 DEF PageType, Leaving
<1> HIDE DEF q
<1>6. DOMAIN q.layers = DOMAIN p.layers
  BY <1>2
<1>7. \A i \in DOMAIN p.layers : /\ q.layers[i].type = p.layers[i].type /\ q.layers[i].dict = p.layers[i].dict
                                 /\ q.layers[i].shown = p.layers[i].shown /\ q.layers[i].ends = p.layers[i].ends
                                 /\ i \notin closed => q.layers[i] = p.layers[i]
  BY <1>2, <1>3
<1>8. L!Shown(q) = L!Shown(p)
  BY <1>6, <1>7 DEF L!Shown
<1>9. \A i \in DOMAIN q.layers : LayerOK(q, i)
  BY <1>2, <1>6, <1>7 DEF PageOK, LayerOK
<1>10. LockOK(q)
  BY <1>2, <1>6, <1>7 DEF PageOK, LockOK
<1>11. AlbumOK(q)
  <2>1. \A i \in L!Shown(q) : q.layers[i].type = p.layers[i].type /\ q.layers[i].dict = p.layers[i].dict
    BY <1>7, <1>8 DEF L!Shown
  <2>2. AlbumOK(p) /\ q.keyups = p.keyups
    BY <1>2 DEF PageOK
  <2>3. \A i, j \in L!Shown(q) : q.layers[i].type = "photos" /\ q.layers[j].type = "photos" => i = j
    BY <2>1, <2>2, <1>8 DEF AlbumOK
  <2>4. \A d : d \in q.keyups <=> d # 0 /\ \E i \in L!Shown(q) : q.layers[i].dict = d
    BY <2>1, <2>2, <1>8 DEF AlbumOK
  <2> QED
    BY <2>3, <2>4 DEF AlbumOK
<1> QED
  BY <1>2, <1>5, <1>6, <1>9, <1>10, <1>11 DEF PageOK, q

LEMMA CloseOK ==
  ASSUME NEW p, PageOK(p), NEW i
  PROVE  PageOK(L!close(p, i))
<1>1. CASE i \notin L!Shown(p)
  BY <1>1 DEF L!close
<1>2. CASE i \in L!Shown(p) /\ p.layers[i].type = "photos"
  <2>1. L!close(p, i) = L!remove(L!rescollbar(p, i), i)
    BY <1>2 DEF L!close
  <2>2. i \in DOMAIN p.layers /\ p.layers[i].shown /\ i # 0
    BY <1>2 DEF L!Shown, PageOK, PageType
  <2> DEFINE q == L!rescollbar(p, i)
  <2>3. PageOK(q) /\ q.layers = p.layers /\ (q.full # 0 => q.full # i)
    BY RescollbarOK
  <2> HIDE DEF q
  <2> QED
    BY <2>1, <2>2, <2>3, RemoveOK DEF q
<1>3. CASE i \in L!Shown(p) /\ p.layers[i].type # "photos"
  <2>1. PageOK(Leaving(p, {i}))
    BY <1>3, LeavingOK
  <2>2. L!close(p, i) = Leaving(p, {i})
    <3> DEFINE q == [p EXCEPT !.full = IF @ = i THEN 0 ELSE @]
               r == [q EXCEPT !.layers[i].removals = @ + 1]
               y == [p.layers[i] EXCEPT !.removals = @ + 1]
    <3>1. p \in PageType /\ p.layers \in Seq(Layer) /\ i \in DOMAIN p.layers /\ q \in PageType
      BY <1>3 DEF PageOK, PageType, L!Shown
    <3>2. L!close(p, i) = r
      BY <1>3 DEF L!close, L!rescollbar
    <3> DEFINE moved == [p.layers EXCEPT ![i] = y]
               lock == IF p.full = i THEN 0 ELSE p.full
    <3>3. r = [layers |-> moved, full |-> lock, keyups |-> p.keyups, end |-> p.end]
      <4>1. q = [p EXCEPT !.full = lock]
        OBVIOUS
      <4>2. q.layers = p.layers
        BY <3>1, <4>1, PageUpdated
      <4> HIDE DEF q
      <4>3. r = [q EXCEPT !.layers = [q.layers EXCEPT ![i] = [q.layers[i] EXCEPT !.removals = @ + 1]]]
        OBVIOUS
      <4>4. r = [q EXCEPT !.layers = moved]
        BY <4>2, <4>3
      <4> HIDE DEF r, moved, lock
      <4> QED
        BY <3>1, <4>1, <4>4, PageUpdated, ZenonT(40)
    <3>4. moved = [j \in DOMAIN p.layers |-> IF j \in {i} THEN y ELSE p.layers[j]]
      BY <3>1
    <3>5. lock = IF p.full \in {i} THEN 0 ELSE p.full
      OBVIOUS
    <3>6. Leaving(p, {i}) =
            [layers |-> [j \in DOMAIN p.layers |->
                           IF j \in {i} THEN [p.layers[j] EXCEPT !.removals = @ + 1] ELSE p.layers[j]],
             full |-> IF p.full \in {i} THEN 0 ELSE p.full, keyups |-> p.keyups, end |-> p.end]
      <4> DEFINE ls == [j \in DOMAIN p.layers |->
                          IF j \in {i} THEN [p.layers[j] EXCEPT !.removals = @ + 1] ELSE p.layers[j]]
                 f == IF p.full \in {i} THEN 0 ELSE p.full
      <4>1. Leaving(p, {i}) = [p EXCEPT !.layers = ls, !.full = f]
        BY DEF Leaving
      <4> DEFINE x == Leaving(p, {i})
      <4>2. p \in PageType
        BY <3>1
      <4> HIDE DEF ls, f, x
      <4>3. x = [p EXCEPT !.layers = ls, !.full = f]
        BY <4>1 DEF x
      <4>4. x = [layers |-> ls, full |-> f, keyups |-> p.keyups, end |-> p.end]
        BY ONLY <4>2, <4>3, PageUpdated, ZenonT(40)
      <4> QED
        BY <4>4 DEF ls, f, x
    <3>7. [j \in DOMAIN p.layers |->
             IF j \in {i} THEN [p.layers[j] EXCEPT !.removals = @ + 1] ELSE p.layers[j]]
          = [j \in DOMAIN p.layers |-> IF j \in {i} THEN y ELSE p.layers[j]]
      OBVIOUS
    <3> HIDE DEF y, r, moved, lock
    <3> QED
      BY <3>2, <3>3, <3>4, <3>5, <3>6, <3>7
  <2> QED
    BY <2>1, <2>2
<1> QED
  BY <1>1, <1>2, <1>3

LEMMA CloseAllOK ==
  ASSUME NEW p, PageOK(p), NEW type \in {"dialog", "loading"}
  PROVE  PageOK(L!closeAll(p, type))
<1> DEFINE closed == {i \in L!Shown(p) : p.layers[i].type = type}
<1>1. L!closeAll(p, type) = Leaving(p, closed)
  BY DEF L!closeAll, Leaving
<1> QED
  BY <1>1, LeavingOK

LEMMA AppendLayer ==
  ASSUME NEW layers \in Seq(Layer), NEW x \in Layer
  PROVE  LET q == Append(layers, x) IN
         /\ q \in Seq(Layer) /\ DOMAIN q = DOMAIN layers \union {Len(layers) + 1}
         /\ Len(layers) + 1 \notin DOMAIN layers
         /\ q[Len(layers) + 1] = x
         /\ \A i \in DOMAIN layers : q[i] = layers[i]
OBVIOUS

LEMMA VesselOK ==
  ASSUME NEW p, PageOK(p), NEW type \in Types, NEW dict \in Nat, NEW scrollbar \in BOOLEAN,
         dict # 0 => type = "photos",
         type = "photos" => \A i \in L!Shown(p) : p.layers[i].type # "photos"
  PROVE  PageOK(L!vessel(p, type, dict, scrollbar))
<1> DEFINE q == L!vessel(p, type, dict, scrollbar)
           times == Len(p.layers) + 1
           x == [type |-> type, dict |-> dict, removals |-> 0, shown |-> TRUE, mode |-> "plain", ends |-> 0]
<1>1. p \in PageType /\ p.layers \in Seq(Layer) /\ p.full \in Nat /\ times \in Nat
  BY DEF PageOK, PageType
<1>2. x \in Layer
  BY DEF Layer, Modes
<1>3. /\ q.layers = Append(p.layers, x)
      /\ q.full = IF scrollbar THEN p.full ELSE times
      /\ q.keyups = IF dict = 0 THEN p.keyups ELSE p.keyups \union {dict}
      /\ q.end = p.end \union {times}
  BY <1>1 DEF PageType, L!vessel
<1>4. q.layers \in Seq(Layer)
  BY <1>1, <1>2, <1>3
<1>5. q \in PageType
  <2>1. q.full \in Nat /\ q.keyups \in SUBSET Nat /\ q.end \in SUBSET Nat
    BY <1>1, <1>3 DEF PageType
  <2> QED
    BY <1>1, <1>4, <2>1 DEF PageType, L!vessel
<1> HIDE DEF q
<1>6. /\ DOMAIN q.layers = DOMAIN p.layers \union {times} /\ times \notin DOMAIN p.layers
      /\ q.layers[times] = x /\ times # 0
      /\ \A i \in DOMAIN p.layers : q.layers[i] = p.layers[i]
  BY <1>1, <1>2, <1>3, AppendLayer
<1> HIDE DEF times
<1>7. L!Shown(q) = L!Shown(p) \union {times} /\ L!Shown(p) \subseteq DOMAIN p.layers
  BY <1>6 DEF L!Shown
<1>8. \A i \in DOMAIN q.layers : LayerOK(q, i)
  <2>1. LayerOK(q, times)
    BY <1>3, <1>6 DEF LayerOK
  <2>2. ASSUME NEW i \in DOMAIN p.layers PROVE LayerOK(q, i)
    BY <1>3, <1>6 DEF LayerOK, PageOK
  <2> QED
    BY <2>1, <2>2, <1>6
<1>9. LockOK(q) /\ q.end \subseteq DOMAIN q.layers
  BY <1>3, <1>6 DEF PageOK, LockOK
<1>10. AlbumOK(q)
  <2>1. \A i, j \in L!Shown(q) : q.layers[i].type = "photos" /\ q.layers[j].type = "photos" => i = j
    BY <1>6, <1>7 DEF PageOK, AlbumOK
  <2>2. \A d : d \in q.keyups <=> d # 0 /\ \E i \in L!Shown(q) : q.layers[i].dict = d
    BY <1>3, <1>6, <1>7 DEF PageOK, AlbumOK
  <2> QED
    BY <2>1, <2>2 DEF AlbumOK
<1> QED
  BY <1>5, <1>8, <1>9, <1>10 DEF PageOK, q

LEMMA CreatOK ==
  ASSUME NEW p, PageOK(p), NEW type \in Types, NEW dict \in Nat, NEW scrollbar \in BOOLEAN,
         dict # 0 => type = "photos"
  PROVE  PageOK(L!creat(p, type, dict, scrollbar))
<1>1. CASE type = "photos" /\ \E i \in L!Shown(p) : p.layers[i].type = "photos"
  <2> DEFINE x == [type |-> type, dict |-> 0, removals |-> 0, shown |-> FALSE, mode |-> "plain",
                   ends |-> 0]
             q == [p EXCEPT !.layers = Append(@, x)]
  <2>1. L!creat(p, type, dict, scrollbar) = q
    BY <1>1 DEF L!creat
  <2>2. p \in PageType /\ p.layers \in Seq(Layer)
    BY DEF PageOK, PageType
  <2>3. x \in Layer
    BY DEF Layer, Modes
  <2>4. q.layers = Append(p.layers, x) /\ q.full = p.full /\ q.keyups = p.keyups /\ q.end = p.end
    BY <2>2 DEF PageType
  <2>5. q.layers \in Seq(Layer)
    BY <2>2, <2>3, <2>4
  <2>6. q \in PageType
    BY <2>2, <2>5 DEF PageType
  <2> HIDE DEF q
  <2> DEFINE n == Len(p.layers) + 1
  <2>7. /\ DOMAIN q.layers = DOMAIN p.layers \union {n} /\ n \notin DOMAIN p.layers
        /\ q.layers[n] = x
        /\ \A i \in DOMAIN p.layers : q.layers[i] = p.layers[i]
    BY <2>2, <2>3, <2>4, AppendLayer
  <2> HIDE DEF n
  <2>8. L!Shown(q) = L!Shown(p) /\ L!Shown(p) \subseteq DOMAIN p.layers
    BY <2>7 DEF L!Shown
  <2>9. \A i \in DOMAIN q.layers : LayerOK(q, i)
    <3>1. LayerOK(q, n)
      BY <2>4, <2>7 DEF LayerOK, PageOK
    <3>2. ASSUME NEW i \in DOMAIN p.layers PROVE LayerOK(q, i)
      BY <2>4, <2>7 DEF LayerOK, PageOK
    <3> QED
      BY <3>1, <3>2, <2>7
  <2>10. LockOK(q) /\ q.end \subseteq DOMAIN q.layers
    BY <2>4, <2>7 DEF PageOK, LockOK
  <2>11. AlbumOK(q)
    BY <2>4, <2>7, <2>8 DEF PageOK, AlbumOK
  <2> QED
    BY <2>1, <2>6, <2>9, <2>10, <2>11 DEF PageOK, q
<1>2. CASE ~(type = "photos" /\ \E i \in L!Shown(p) : p.layers[i].type = "photos")
  <2> DEFINE q == IF type \in {"dialog", "loading"} THEN L!closeAll(p, type) ELSE p
  <2>1. L!creat(p, type, dict, scrollbar) = L!vessel(q, type, dict, scrollbar)
    BY <1>2 DEF L!creat
  <2>2. PageOK(q)
    BY CloseAllOK
  <2>3. type = "photos" => q = p
    OBVIOUS
  <2> HIDE DEF q
  <2> QED
    BY <1>2, <2>1, <2>2, <2>3, VesselOK
<1> QED
  BY <1>1, <1>2

-----------------------------------------------------------------------------
Dict == [imgIndex : Nat \ {0}, loadi : Nat, index : Nat, state : {"loading", "loaded", "failed"}]

LInv == PageOK(L!page) /\ v3 \in Seq(Dict)

LEMMA SetOK ==
  ASSUME NEW p, PageOK(p), L!Set(p)
  PROVE  PageOK(L!page)'
<1>1. p = [layers |-> p.layers, full |-> p.full, keyups |-> p.keyups, end |-> p.end]
  BY DEF PageOK, PageType
<1>2. L!page' = [layers |-> p.layers, full |-> p.full, keyups |-> p.keyups, end |-> p.end]
  BY DEF L!Set, L!page
<1> QED
  BY <1>1, <1>2 DEF LInv

LEMMA ModeOK ==
  ASSUME NEW p, PageOK(p), NEW i \in DOMAIN p.layers, NEW new \in Modes
  PROVE  PageOK([p EXCEPT !.layers[i].mode = new])
<1> DEFINE q == [p EXCEPT !.layers[i].mode = new]
           y == [p.layers[i] EXCEPT !.mode = new]
<1>1. p \in PageType /\ p.layers \in Seq(Layer) /\ p.layers[i] \in Layer
  BY DEF PageOK, PageType
<1>2. y \in Layer /\ \A f \in {"type", "dict", "removals", "shown", "ends"} : y[f] = p.layers[i][f]
  BY <1>1 DEF Layer
<1>3. /\ q.layers = [p.layers EXCEPT ![i] = y] /\ q.full = p.full /\ q.keyups = p.keyups
      /\ q.end = p.end /\ q.layers \in Seq(Layer)
  BY <1>1, <1>2 DEF PageType
<1>4. q \in PageType
  BY <1>1, <1>3 DEF PageType
<1> HIDE DEF q
<1>5. /\ DOMAIN q.layers = DOMAIN p.layers /\ q.layers[i] = y
      /\ \A j \in DOMAIN p.layers \ {i} : q.layers[j] = p.layers[j]
  BY <1>1, <1>3
<1>6. \A j \in DOMAIN p.layers :
        /\ q.layers[j].type = p.layers[j].type /\ q.layers[j].dict = p.layers[j].dict
        /\ q.layers[j].removals = p.layers[j].removals /\ q.layers[j].shown = p.layers[j].shown
        /\ q.layers[j].ends = p.layers[j].ends
  BY <1>2, <1>5
<1>7. L!Shown(q) = L!Shown(p) /\ L!Shown(p) \subseteq DOMAIN p.layers
  BY <1>5, <1>6 DEF L!Shown
<1>8. \A j \in DOMAIN q.layers : LayerOK(q, j)
  BY <1>3, <1>5, <1>6 DEF PageOK, LayerOK
<1>9. LockOK(q) /\ q.end \subseteq DOMAIN q.layers
  BY <1>3, <1>5, <1>6 DEF PageOK, LockOK
<1>10. AlbumOK(q)
  <2>1. \A j, k \in L!Shown(q) : q.layers[j].type = "photos" /\ q.layers[k].type = "photos" => j = k
    BY <1>6, <1>7 DEF PageOK, AlbumOK
  <2>2. \A d : d \in q.keyups <=> d # 0 /\ \E j \in L!Shown(q) : q.layers[j].dict = d
    BY <1>3, <1>6, <1>7 DEF PageOK, AlbumOK
  <2> QED
    BY <2>1, <2>2 DEF AlbumOK
<1> QED
  BY <1>4, <1>8, <1>9, <1>10 DEF PageOK, q

LEMMA FullOK ==
  ASSUME NEW p, PageOK(p), NEW i \in DOMAIN p.layers, p.layers[i].shown, p.layers[i].removals = 0
  PROVE  PageOK([p EXCEPT !.full = IF @ = 0 THEN i ELSE @])
<1> DEFINE q == [p EXCEPT !.full = IF @ = 0 THEN i ELSE @]
<1>1. p \in PageType /\ p.full \in Nat /\ i \in Nat
  BY DEF PageOK, PageType
<1>2. /\ q.layers = p.layers /\ q.keyups = p.keyups /\ q.end = p.end
      /\ q.full = IF p.full = 0 THEN i ELSE p.full
  BY <1>1 DEF PageType
<1>3. q \in PageType
  BY <1>1 DEF PageType
<1> HIDE DEF q
<1>4. L!Shown(q) = L!Shown(p)
  BY <1>2 DEF L!Shown
<1> QED
  BY <1>2, <1>3, <1>4 DEF PageOK, LayerOK, LockOK, AlbumOK, q

LEMMA LInit == L!Init => LInv
<1> SUFFICES ASSUME L!Init PROVE LInv
  OBVIOUS
<1>1. L!page = [layers |-> <<>>, full |-> 0, keyups |-> {}, end |-> {}]
  BY DEF L!Init, L!page
<1>2. L!page \in PageType
  BY <1>1 DEF PageType
<1> QED
  BY <1>1, <1>2 DEF L!Init, LInv, PageOK, LayerOK, LockOK, AlbumOK, L!Shown

LEMMA LNext == ASSUME LInv, L!Next PROVE LInv'
<1> DEFINE p == L!page
<1>1. PageOK(p) /\ p.layers = v1 /\ p.full = v2 /\ p.keyups = v4 /\ p.end = v5
  BY DEF LInv, L!page
<1>2. v1 \in Seq(Layer)
  BY <1>1 DEF PageOK, PageType
<1>3. ASSUME NEW type \in {"dialog", "page"}, NEW scrollbar \in BOOLEAN, L!open(type, scrollbar)
      PROVE  PageOK(L!page)'
  BY <1>1, <1>3, CreatOK, SetOK DEF L!open, Types
<1>4. ASSUME NEW i, L!Close(i)
      PROVE  PageOK(L!page)'
  BY <1>1, <1>4, CloseOK, SetOK DEF L!Close
<1>5. ASSUME NEW i \in DOMAIN v1, L!Removal(i)
      PROVE  PageOK(L!page)'
  <2> DEFINE y == [v1[i] EXCEPT !.removals = @ - 1]
             q == [p EXCEPT !.layers[i].removals = @ - 1]
  <2>1. v1[i] \in Layer /\ v1[i].removals > 0 /\ LayerOK(p, i)
    BY <1>1, <1>2, <1>5 DEF L!Removal, PageOK
  <2>2. v2 # i
    <3>1. i # 0 /\ (v2 # 0 => v1[v2].removals = 0)
      BY <1>1, <1>2 DEF PageOK, LockOK
    <3> QED
      BY <2>1, <3>1 DEF Layer
  <2>3. v1[i].type # "photos" /\ v1[i].dict = 0
    BY <1>1, <2>1 DEF LayerOK, Layer
  <2>4. y \in Layer /\ y.type = v1[i].type /\ y.dict = v1[i].dict /\ y.shown = v1[i].shown
        /\ y.ends = v1[i].ends
    BY <2>1 DEF Layer
  <2>5. /\ q.layers = [v1 EXCEPT ![i] = y] /\ q.full = v2 /\ q.keyups = v4 /\ q.end = v5
        /\ q.layers \in Seq(Layer)
    BY <1>1, <1>2, <2>4 DEF PageOK, PageType
  <2>6. q \in PageType
    BY <1>1, <2>5 DEF PageOK, PageType
  <2> HIDE DEF q
  <2>7. /\ DOMAIN q.layers = DOMAIN v1 /\ q.layers[i] = y
        /\ \A j \in DOMAIN v1 \ {i} : q.layers[j] = v1[j]
    BY <1>2, <2>5
  <2> HIDE DEF y
  <2>8. L!Shown(q) = L!Shown(p)
    BY <1>1, <2>4, <2>7 DEF L!Shown
  <2>9. \A j \in DOMAIN q.layers : LayerOK(q, j)
    BY <1>1, <2>1, <2>3, <2>4, <2>5, <2>7 DEF PageOK, LayerOK
  <2>10. LockOK(q) /\ q.end \subseteq DOMAIN q.layers
    BY <1>1, <2>2, <2>5, <2>7 DEF PageOK, LockOK
  <2>11. \A j \in DOMAIN v1 : q.layers[j].type = v1[j].type /\ q.layers[j].dict = v1[j].dict
    BY <2>4, <2>7
  <2>12. AlbumOK(q)
    <3>1. L!Shown(p) \subseteq DOMAIN v1
      BY <1>1 DEF L!Shown
    <3>2. \A j, k \in L!Shown(q) : q.layers[j].type = "photos" /\ q.layers[k].type = "photos" => j = k
      BY <1>1, <2>8, <2>11, <3>1 DEF PageOK, AlbumOK
    <3>3. \A d : d \in q.keyups <=> d # 0 /\ \E j \in L!Shown(q) : q.layers[j].dict = d
      BY <1>1, <2>5, <2>8, <2>11, <3>1 DEF PageOK, AlbumOK
    <3> QED
      BY <3>2, <3>3 DEF AlbumOK
  <2>13. PageOK(q)
    BY <2>6, <2>9, <2>10, <2>12 DEF PageOK
  <2>14. PageOK(L!remove(q, i))
    BY <2>2, <2>3, <2>4, <2>5, <2>7, <2>13, RemoveOK
  <2> QED
    BY <2>14, <1>5, SetOK DEF L!Removal, q
<1>6. ASSUME NEW i \in DOMAIN v1, L!min(i) \/ L!restore(i)
      PROVE  PageOK(L!page)'
  <2> DEFINE q == L!rescollbar(p, i)
  <2>1. PageOK(q) /\ q.layers = v1
    BY <1>1, RescollbarOK
  <2>2. PICK new \in Modes : L!Set([q EXCEPT !.layers[i].mode = new])
    BY <1>6 DEF L!min, L!restore, L!Mode, Modes
  <2> HIDE DEF q
  <2> QED
    BY <2>1, <2>2, ModeOK, SetOK
<1>7. ASSUME NEW i \in DOMAIN v1, L!fullPage(i)
      PROVE  PageOK(L!page)'
  <2> DEFINE q == [p EXCEPT !.full = IF @ = 0 THEN i ELSE @]
  <2>1. PageOK(q)
    BY <1>1, <1>7, FullOK DEF L!fullPage, L!Mode
  <2>2. q.layers = v1
    BY <1>1 DEF PageOK, PageType
  <2>3. L!Set([q EXCEPT !.layers[i].mode = "full"])
    BY <1>7 DEF L!fullPage, L!Mode
  <2> HIDE DEF q
  <2> QED
    BY <2>1, <2>2, <2>3, ModeOK, SetOK DEF Modes
<1>8. ASSUME NEW q, PageOK(q), NEW imgIndex \in Nat \ {0}, L!Photo(q, imgIndex), v3 \in Seq(Dict)
      PROVE  PageOK(L!page)' /\ v3' \in Seq(Dict)
  <2>1. PageOK(L!page)'
    BY <1>8, CreatOK, SetOK DEF L!Photo, Types
  <2>2. Len(q.layers) + 1 \in Nat
    BY <1>8 DEF PageOK, PageType
  <2>3. [imgIndex |-> imgIndex, loadi |-> Len(q.layers) + 1, index |-> 0, state |-> "loading"] \in Dict
    BY <2>2 DEF Dict
  <2> QED
    BY <1>8, <2>1, <2>3 DEF L!Photo
<1>9. ASSUME NEW d \in DOMAIN v3, L!loadImage(d) \/ L!loadError(d)
      PROVE  PageOK(L!page)' /\ v3' \in Seq(Dict)
  <2>1. v3 \in Seq(Dict) /\ d \in Nat /\ d # 0 /\ v3[d] \in Dict
    BY DEF LInv
  <2>2. PageOK(L!close(p, v3[d].loadi))
    BY <1>1, CloseOK
  <2>3. PageOK(L!page)'
    BY <1>9, <2>1, <2>2, CreatOK, SetOK DEF L!loadImage, L!loadError, Types
  <2>4. Len(v1) + 1 \in Nat
    BY <1>2
  <2>5. PICK st \in {"loaded", "failed"} : v3' = [v3 EXCEPT ![d].state = st, ![d].index = Len(v1) + 1]
    BY <1>9 DEF L!loadImage, L!loadError
  <2>6. [v3[d] EXCEPT !.state = st, !.index = Len(v1) + 1] \in Dict
    BY <2>1, <2>4 DEF Dict
  <2>7. v3' = [v3 EXCEPT ![d] = [v3[d] EXCEPT !.state = st, !.index = Len(v1) + 1]]
    BY <2>1, <2>5
  <2>8. v3' \in Seq(Dict)
    BY <2>1, <2>6, <2>7
  <2> QED
    BY <2>3, <2>8
<1>10. ASSUME NEW d \in DOMAIN v3, L!imgprev(d) \/ L!imgnext(d)
       PROVE  PageOK(L!page)' /\ v3' \in Seq(Dict)
  <2>1. v3 \in Seq(Dict) /\ v3[d].imgIndex \in Nat \ {0}
    <3>1. v3 \in Seq(Dict)
      BY DEF LInv
    <3>2. v3[d] \in Dict
      BY <3>1
    <3> QED
      BY <3>1, <3>2 DEF Dict
  <2>2. PageOK(L!close(p, v3[d].index))
    BY <1>1, CloseOK
  <2>3. Photos > 1
    BY <1>10 DEF L!imgprev, L!imgnext, L!tabimg
  <2>4. CASE L!imgprev(d)
    <3> DEFINE n == IF v3[d].imgIndex = 1 THEN Photos ELSE v3[d].imgIndex - 1
    <3>1. n \in Nat \ {0}
      BY <2>1, <2>3, ScriptsAssumption
    <3>2. L!Photo(L!close(p, v3[d].index), n)
      BY <2>4 DEF L!imgprev, L!tabimg
    <3> QED
      BY <1>8, <2>1, <2>2, <3>1, <3>2
  <2>5. CASE L!imgnext(d)
    <3> DEFINE n == (v3[d].imgIndex % Photos) + 1
    <3>1. n \in Nat \ {0}
      BY <2>1, <2>3, ScriptsAssumption
    <3>2. L!Photo(L!close(p, v3[d].index), n)
      BY <2>5 DEF L!imgnext, L!tabimg
    <3> QED
      BY <1>8, <2>1, <2>2, <3>1, <3>2
  <2> QED
    BY <1>10, <2>4, <2>5
<1>11. ASSUME NEW d \in DOMAIN v3, L!imgnextAfterError(d)
       PROVE  PageOK(L!page)' /\ v3' \in Seq(Dict)
  <2>1. v3 \in Seq(Dict)
    BY DEF LInv
  <2>2. v3[d].imgIndex + 1 \in Nat \ {0}
    <3>1. v3[d] \in Dict
      BY <2>1
    <3> QED
      BY <3>1 DEF Dict
  <2> QED
    BY <1>1, <1>8, <1>11, <2>1, <2>2 DEF L!imgnextAfterError
<1>12. ASSUME L!photos(1)
       PROVE  PageOK(L!page)' /\ v3' \in Seq(Dict)
  BY <1>1, <1>8, <1>12 DEF L!photos, LInv
<1>13. UNCHANGED v3 => v3' \in Seq(Dict)
  BY DEF LInv
<1>14. ASSUME \/ L!open("dialog", TRUE) \/ L!open("page", FALSE)
              \/ \E i \in DOMAIN v1 : L!Close(i) \/ L!Removal(i) \/ L!min(i) \/ L!restore(i) \/ L!fullPage(i)
       PROVE  LInv'
  <2>1. UNCHANGED v3
    BY <1>14 DEF L!open, L!Close, L!Removal, L!min, L!restore, L!fullPage, L!Mode
  <2>2. PageOK(L!page)'
    BY <1>14, <1>3, <1>4, <1>5, <1>6, <1>7
  <2> QED
    BY ONLY <2>1, <2>2, <1>13, ZenonT(40) DEF LInv
<1>15. ASSUME NEW d \in DOMAIN v3, L!escape(d)
       PROVE  LInv'
  <2>1. L!Close(v3[d].index)
    BY <1>15 DEF L!escape
  <2>2. PageOK(L!page)'
    BY <2>1, <1>4
  <2>3. UNCHANGED v3
    BY <2>1 DEF L!Close
  <2> QED
    BY <2>2, <2>3, <1>13 DEF LInv
<1>16. ASSUME L!photos(1) \/ \E d \in DOMAIN v3 : \/ L!loadImage(d) \/ L!loadError(d) \/ L!imgprev(d)
                                               \/ L!imgnext(d) \/ L!imgnextAfterError(d)
       PROVE  LInv'
  BY <1>16, <1>9, <1>10, <1>11, <1>12 DEF LInv
<1> QED
  BY <1>14, <1>15, <1>16 DEF L!Next

LEMMA LStutter ==
  ASSUME LInv, UNCHANGED <<v1, v2, v3, v4, v5>>
  PROVE  LInv'
<1>1. UNCHANGED L!page
  BY DEF L!page
<1>2. PageOK(L!page)'
  BY <1>1 DEF LInv, PageOK, PageType, LayerOK, LockOK, AlbumOK, L!Shown
<1> QED
  BY <1>2 DEF LInv

LEMMA LTidy == LInv => L!LayersTidy
<1> SUFFICES ASSUME LInv PROVE L!LayersTidy
  OBVIOUS
<1> DEFINE p == L!page
<1>1. PageOK(p) /\ p.layers = v1 /\ p.full = v2 /\ p.keyups = v4 /\ p.end = v5
  BY DEF LInv, L!page
<1>2. v2 # 0 => v1[v2].shown /\ v1[v2].removals = 0
  BY <1>1 DEF PageOK, LockOK
<1>3. v4 = {v1[i].dict : i \in L!Shown(p)} \ {0}
  BY <1>1 DEF PageOK, AlbumOK
<1>4. Cardinality(v4) <= 1
  <2>1. \A d, e \in v4 : d = e
    <3> TAKE d, e \in v4
    <3>1. PICK i \in L!Shown(p), j \in L!Shown(p) : d = v1[i].dict /\ e = v1[j].dict /\ d # 0 /\ e # 0
      BY <1>3
    <3>2. v1[i].type = "photos" /\ v1[j].type = "photos"
      BY <1>1, <3>1 DEF PageOK, LayerOK, L!Shown
    <3>3. i = j
      BY <1>1, <3>2 DEF PageOK, AlbumOK
    <3> QED
      BY <3>1, <3>3
  <2>2. CASE v4 = {}
    BY <2>2, FS_EmptySet
  <2>3. ASSUME NEW d \in v4 PROVE Cardinality(v4) <= 1
    <3>1. v4 = {d}
      BY <2>1
    <3> QED
      BY <3>1, FS_Singleton
  <2> QED
    BY <2>2, <2>3
<1>5. \A i \in DOMAIN v1 : v1[i].ends <= 1 /\ (i \in v5 => v1[i].shown)
  BY <1>1 DEF PageOK, LayerOK
<1> QED
  BY <1>2, <1>3, <1>4, <1>5 DEF L!LayersTidy, L!Cardinality, Cardinality

-----------------------------------------------------------------------------
(* Dates *)

Before == <<0, 31, 59, 90, 120, 151, 181, 212, 243, 273, 304, 334>>

\* The days before a year.
YearDays(y) == 365 * y + ((y - 1) \div 4) - ((y - 1) \div 100) + ((y - 1) \div 400)

Leap(y) == IF D!isLeapYear(y) THEN 1 ELSE 0

LEMMA YearType == ASSUME NEW y \in Int PROVE YearDays(y) \in Int /\ Leap(y) \in {0, 1}
BY DEF YearDays, Leap

LEMMA NextYear == ASSUME NEW y \in Int PROVE YearDays(y + 1) = YearDays(y) + 365 + Leap(y)
<1>1. (y + 1) - 1 = y
  OBVIOUS
<1>2. (y \div 4) - ((y - 1) \div 4) = IF y % 4 = 0 THEN 1 ELSE 0
  OBVIOUS
<1>3. (y \div 100) - ((y - 1) \div 100) = IF y % 100 = 0 THEN 1 ELSE 0
  OBVIOUS
<1>4. (y \div 400) - ((y - 1) \div 400) = IF y % 400 = 0 THEN 1 ELSE 0
  OBVIOUS
<1>5. (y % 400 = 0 => y % 100 = 0) /\ (y % 100 = 0 => y % 4 = 0)
  OBVIOUS
<1> QED
  BY <1>1, <1>2, <1>3, <1>4, <1>5 DEF YearDays, Leap, D!isLeapYear

LEMMA DaysInYear ==
  ASSUME NEW y \in Int, NEW m \in 0 .. 11, NEW d \in Int
  PROVE  D!Days(y, m, d) = YearDays(y) + Before[m + 1] + (IF m > 1 THEN Leap(y) ELSE 0) + d
<1>1. m % 12 = m /\ m \div 12 = 0 /\ y + 0 = y
  OBVIOUS
<1>2. Before[m + 1] \in Int
  BY DEF Before
<1>3. D!Days(y, m, d) = 365 * y + ((y - 1) \div 4) - ((y - 1) \div 100) + ((y - 1) \div 400)
        + Before[m + 1] + (IF m > 1 /\ D!isLeapYear(y) THEN 1 ELSE 0) + d
  BY <1>1 DEF D!Days, Before
<1> QED
  BY <1>2, <1>3 DEF YearDays, Leap

LEMMA DaysType ==
  ASSUME NEW y \in Int, NEW m \in 0 .. 11, NEW d \in Int
  PROVE  D!Days(y, m, d) \in Int
<1> DEFINE b == Before[m + 1]
           a == YearDays(y)
           l == IF m > 1 THEN Leap(y) ELSE 0
<1>1. b \in Int
  BY DEF Before
<1>2. a \in Int
  BY YearType
<1>3. l \in Int
  BY YearType
<1>4. D!Days(y, m, d) = a + b + l + d
  BY DaysInYear
<1> HIDE DEF a, b, l
<1> QED
  BY <1>1, <1>2, <1>3, <1>4

\* Month 12 is the next January.
LEMMA DaysOfNextYear ==
  ASSUME NEW y \in Int, NEW d \in Int
  PROVE  D!Days(y, 12, d) = YearDays(y + 1) + d
<1>1. 12 % 12 = 0 /\ 12 \div 12 = 1
  OBVIOUS
<1>2. Before[0 + 1] = 0
  BY DEF Before
<1> QED
  BY <1>1, <1>2, YearType DEF D!Days, YearDays, Before

LEMMA MonthLength ==
  ASSUME NEW y \in Int, NEW m \in 0 .. 11
  PROVE  /\ D!getEndDate(m + 1, y) \in 28 .. 31
         /\ D!getEndDate(12, y) = 31
<1>1. D!getEndDate(m + 1, y) = D!Days(y, m + 1, 1) - D!Days(y, m, 1)
  BY DEF D!getEndDate
<1>2. D!Days(y, 12, 1) = YearDays(y) + 365 + Leap(y) + 1
  BY DaysOfNextYear, NextYear
<1>3. \A n \in 0 .. 11 : Before[n + 1] \in Int
  BY DEF Before
<1>4. D!Days(y, 11, 1) = YearDays(y) + 334 + Leap(y) + 1
  BY DaysInYear DEF Before
<1>5. D!getEndDate(12, y) = 31
  <2>1. D!getEndDate(12, y) = D!Days(y, 12, 1) - D!Days(y, 11, 1)
    BY DEF D!getEndDate
  <2> QED
    BY <2>1, <1>2, <1>4, YearType
<1>6. CASE m = 11
  BY <1>5, <1>6
<1>7. CASE m # 11
  <2>1. m + 1 \in 0 .. 11 /\ m \in 0 .. 11
    BY <1>7
  <2>2. /\ D!Days(y, m + 1, 1) = YearDays(y) + Before[(m + 1) + 1] + (IF m + 1 > 1 THEN Leap(y) ELSE 0) + 1
        /\ D!Days(y, m, 1) = YearDays(y) + Before[m + 1] + (IF m > 1 THEN Leap(y) ELSE 0) + 1
    BY <2>1, DaysInYear
  <2>3. /\ m # 1 => Before[(m + 1) + 1] - Before[m + 1] \in 30 .. 31
        /\ m = 1 => Before[(m + 1) + 1] - Before[m + 1] = 28
    BY <1>7 DEF Before
  <2> QED
    BY <1>1, <1>3, <1>5, <2>1, <2>2, <2>3, YearType
<1> QED
  BY <1>6, <1>7

\* The months around one: their first days, counted from this one's.
LEMMA Neighbours ==
  ASSUME NEW y \in Int, NEW m \in 0 .. 11
  PROVE  LET prev == D!getAsYM(y, m, -1)
             next == D!getAsYM(y, m, 1)
             prevMaxDate == D!getEndDate(IF m = 0 THEN 12 ELSE m, y)
         IN  /\ prev[1] \in Int /\ prev[2] \in 0 .. 11
             /\ next[1] \in Int /\ next[2] \in 0 .. 11
             /\ prevMaxDate = D!getEndDate(prev[2] + 1, prev[1])
             /\ D!Days(prev[1], prev[2], 1) + prevMaxDate = D!Days(y, m, 1)
             /\ D!Days(next[1], next[2], 1) = D!Days(y, m, 1) + D!getEndDate(m + 1, y)
<1> DEFINE prev == D!getAsYM(y, m, -1)
           next == D!getAsYM(y, m, 1)
<1>1. prev = IF m = 0 THEN <<y - 1, 11>> ELSE <<y, m - 1>>
  BY DEF D!getAsYM
<1>2. next = IF m = 11 THEN <<y + 1, 0>> ELSE <<y, m + 1>>
  BY DEF D!getAsYM
<1>3. D!Days(y, 12, 1) = YearDays(y + 1) + 1
  BY DaysOfNextYear
<1>4. \A z \in Int : D!Days(z, 0, 1) = YearDays(z) + 1
  BY DaysInYear, YearType DEF Before
<1>5. CASE m = 0
  <2>1. D!Days(y - 1, 11, 1) + 31 = YearDays(y) + 1
    <3>1. D!Days(y - 1, 11, 1) = YearDays(y - 1) + 334 + Leap(y - 1) + 1
      BY DaysInYear DEF Before
    <3>2. YearDays((y - 1) + 1) = YearDays(y - 1) + 365 + Leap(y - 1)
      BY NextYear
    <3> QED
      BY <3>1, <3>2, YearType
  <2>2. D!getEndDate(12, y) = 31 /\ D!getEndDate(11 + 1, y - 1) = 31
    BY MonthLength
  <2>3. D!Days(y, 1, 1) = D!Days(y, 0, 1) + D!getEndDate(0 + 1, y)
    <3>1. D!Days(y, 1, 1) \in Int /\ D!Days(y, 0, 1) \in Int
      BY DaysType
    <3> QED
      BY <3>1 DEF D!getEndDate
  <2> QED
    BY <1>1, <1>2, <1>4, <1>5, <2>1, <2>2, <2>3
<1>6. CASE m # 0
  <2>1. /\ D!Days(y, m - 1, 1) + D!getEndDate(m, y) = D!Days(y, m, 1)
        /\ D!Days(y, m + 1, 1) = D!Days(y, m, 1) + D!getEndDate(m + 1, y)
    <3>1. ASSUME NEW n \in 0 .. 11 PROVE D!Days(y, n, 1) \in Int
      <4>1. 1 \in Int
        OBVIOUS
      <4> QED
        BY <4>1, DaysType
    <3>2. D!Days(y, 12, 1) \in Int
      BY <1>3, YearType
    <3> QED
      BY <1>6, <3>1, <3>2 DEF D!getEndDate
  <2>2. D!Days(y + 1, 0, 1) = D!Days(y, 12, 1)
    BY <1>3, <1>4
  <2> QED
    BY <1>1, <1>2, <1>6, <2>1, <2>2
<1> QED
  BY <1>5, <1>6

\* Within a month the days follow the dates.
LEMMA DaysShift ==
  ASSUME NEW y \in Int, NEW m \in 0 .. 11, NEW d \in Int
  PROVE  D!Days(y, m, d) = D!Days(y, m, 1) + d - 1
<1> DEFINE b == Before[m + 1]
           a == YearDays(y)
           l == IF m > 1 THEN Leap(y) ELSE 0
<1>1. a + b + l \in Int
  <2>1. b \in Int
    BY DEF Before
  <2>2. a \in Int /\ l \in Int
    BY YearType
  <2> HIDE DEF a, b, l
  <2> QED
    BY <2>1, <2>2
<1>2. D!Days(y, m, d) = a + b + l + d /\ D!Days(y, m, 1) = a + b + l + 1
  BY DaysInYear
<1> HIDE DEF a, b, l
<1> QED
  BY <1>1, <1>2

\* Any calendar.
LEMMA CalendarConsecutive ==
  ASSUME NEW d, d.year \in Int, d.month \in 0 .. 11
  PROVE  LET cells == D!calendar(d) IN
         /\ \A i \in 0 .. 41 : D!newDate(cells[i]) = D!newDate(cells[0]) + i
         /\ \A i \in 0 .. 41 : cells[i].date \in 1 .. D!getEndDate(cells[i].month + 1, cells[i].year)
         /\ D!getDay(D!newDate(cells[0])) = 0
         /\ \A n \in 1 .. D!getEndDate(d.month + 1, d.year) :
              \E i \in 0 .. 41 : cells[i] = D!Date(d.year, d.month, n)
<1> DEFINE y == d.year
           m == d.month
           prev == D!getAsYM(y, m, -1)
           next == D!getAsYM(y, m, 1)
           first == D!Days(y, m, 1)
           start == D!getDay(first)
           prevMax == D!getEndDate(IF m = 0 THEN 12 ELSE m, y)
           thisMax == D!getEndDate(m + 1, y)
           cells == D!calendar(d)
<1>1. /\ prev[1] \in Int /\ prev[2] \in 0 .. 11 /\ next[1] \in Int /\ next[2] \in 0 .. 11
      /\ prevMax = D!getEndDate(prev[2] + 1, prev[1])
      /\ D!Days(prev[1], prev[2], 1) + prevMax = first
      /\ D!Days(next[1], next[2], 1) = first + thisMax
  BY Neighbours
<1>2. prevMax \in 28 .. 31 /\ thisMax \in 28 .. 31 /\ D!getEndDate(next[2] + 1, next[1]) \in 28 .. 31
  BY <1>1, MonthLength
<1>3. first \in Int /\ D!Days(prev[1], prev[2], 1) \in Int
  <2>1. 1 \in Int
    OBVIOUS
  <2>2. \A z \in Int, n \in 0 .. 11 : D!Days(z, n, 1) \in Int
    BY <2>1, DaysType
  <2> QED
    BY <1>1, <2>2 DEF first
<1>4. start \in 0 .. 6 /\ (first - start + 6) % 7 = 0
  BY <1>3 DEF D!getDay
<1>5. cells = [i \in 0 .. 41 |->
        IF i < start THEN D!Date(prev[1], prev[2], prevMax - start + i + 1)
        ELSE IF i < thisMax + start THEN D!Date(y, m, i - start + 1)
        ELSE D!Date(next[1], next[2], i - thisMax - start + 1)]
  BY DEF D!calendar
<1> HIDE DEF cells, prevMax, thisMax, start, first, prev, next
<1>6. ASSUME NEW i \in 0 .. 41
      PROVE  /\ D!newDate(cells[i]) = first - start + i
             /\ cells[i].date \in 1 .. D!getEndDate(cells[i].month + 1, cells[i].year)
  <2>1. CASE i < start
    <3>1. cells[i] = D!Date(prev[1], prev[2], prevMax - start + i + 1)
      BY <1>5, <2>1
    <3>2. cells[i].year = prev[1] /\ cells[i].month = prev[2] /\ cells[i].date = prevMax - start + i + 1
      BY <3>1 DEF D!Date
    <3>3. D!Days(prev[1], prev[2], prevMax - start + i + 1)
            = D!Days(prev[1], prev[2], 1) + (prevMax - start + i + 1) - 1
      <4>1. prevMax - start + i + 1 \in Int
        BY <1>2, <1>4
      <4> QED
        BY <1>1, <4>1, DaysShift
    <3> QED
      BY <1>1, <1>2, <1>3, <1>4, <2>1, <3>2, <3>3 DEF D!newDate
  <2>2. CASE i >= start /\ i < thisMax + start
    <3>1. cells[i] = D!Date(y, m, i - start + 1)
      BY <1>2, <1>4, <1>5, <2>2
    <3>2. cells[i].year = y /\ cells[i].month = m /\ cells[i].date = i - start + 1
      BY <3>1 DEF D!Date
    <3>3. D!Days(y, m, i - start + 1) = first + (i - start + 1) - 1
      BY <1>4, DaysShift DEF first
    <3>4. D!newDate(cells[i]) = first - start + i
      BY <1>3, <1>4, <3>2, <3>3 DEF D!newDate
    <3> QED
      BY <1>2, <1>4, <2>2, <3>2, <3>4 DEF thisMax
  <2>3. CASE i >= thisMax + start
    <3>1. cells[i] = D!Date(next[1], next[2], i - thisMax - start + 1)
      BY <1>2, <1>4, <1>5, <2>3
    <3>2. cells[i].year = next[1] /\ cells[i].month = next[2] /\ cells[i].date = i - thisMax - start + 1
      BY <3>1 DEF D!Date
    <3>3. D!Days(next[1], next[2], i - thisMax - start + 1)
            = D!Days(next[1], next[2], 1) + (i - thisMax - start + 1) - 1
      BY <1>1, <1>2, <1>4, DaysShift
    <3>4. i - thisMax - start + 1 \in 1 .. 14
      BY <1>2, <1>4, <2>3
    <3> QED
      BY <1>1, <1>2, <1>3, <1>4, <2>3, <3>2, <3>3, <3>4 DEF D!newDate
  <2> QED
    BY <1>2, <1>4, <2>1, <2>2, <2>3
<1>7. D!newDate(cells[0]) = first - start
  BY <1>3, <1>4, <1>6
<1>8. \A i \in 0 .. 41 : D!newDate(cells[i]) = D!newDate(cells[0]) + i
  BY <1>6, <1>7
<1>9. D!getDay(D!newDate(cells[0])) = 0
  BY <1>4, <1>7 DEF D!getDay
<1>10. ASSUME NEW n \in 1 .. thisMax
       PROVE  \E i \in 0 .. 41 : cells[i] = D!Date(y, m, n)
  <2>1. n + start - 1 \in 0 .. 41 /\ ~(n + start - 1 < start) /\ n + start - 1 < thisMax + start
        /\ (n + start - 1) - start + 1 = n
    BY <1>2, <1>4
  <2> QED
    BY <1>5, <2>1
<1> QED
  BY <1>6, <1>8, <1>9, <1>10 DEF cells, thisMax

-----------------------------------------------------------------------------
Cal == [year : Int, month : 0 .. 11, date : Int]

IsMoment(m) == m = D!At(m.date, m.hours) /\ m.date \in Cal

\* Two moments, of a range of dates in their order.
IsValue(v) ==
  \E a, b : /\ v = <<a, b>> /\ IsMoment(a) /\ IsMoment(b)
            /\ v2 = "date" => D!newDate(a.date) <= D!newDate(b.date)

\* What is shown, kept and picked of a range.
RangeInv ==
  /\ v10 \in BOOLEAN /\ v11 \in BOOLEAN
  /\ v14 = v13
  /\ v13 # <<>> => IsValue(v13) /\ (v10 \/ v11)
  /\ v7 # none => IsValue(<<v6, v7>>) /\ v11
  /\ v10 /\ ~v11 => IsMoment(v6)

SingleInv == v13 # <<>> => v13[1].date \in Cal

DInv == v1 \in BOOLEAN /\ v5 \in Cal /\ (IF v1 THEN RangeInv ELSE SingleInv)

LEMMA DatesCal == Today \in Cal /\ RangeDates \subseteq Cal
<1>1. ASSUME NEW d \in Dates PROVE d \in Cal
  BY DEF Dates, Cal
<1> QED
  BY <1>1, ScriptsAssumption

LEMMA DInit == D!Init => DInv
<1> SUFFICES ASSUME D!Init PROVE DInv
  OBVIOUS
<1>1. v5 \in Cal
  BY DatesCal DEF D!Init
<1> QED
  BY <1>1 DEF D!Init, DInv, RangeInv, SingleInv

LEMMA PairValue ==
  ASSUME NEW v, IsValue(v)
  PROVE  /\ v # <<>> /\ v = <<v[1], v[2]>> /\ IsMoment(v[1]) /\ IsMoment(v[2])
         /\ IsValue(<<v[1], v[2]>>)
         /\ D!At(v[1].date, v[1].hours) = v[1] /\ D!At(v[2].date, v[2].hours) = v[2]
<1>1. PICK a, b : v = <<a, b>> /\ IsMoment(a) /\ IsMoment(b)
                  /\ (v2 = "date" => D!newDate(a.date) <= D!newDate(b.date))
  BY DEF IsValue
<1>2. v[1] = a /\ v[2] = b /\ v # <<>>
  BY <1>1
<1> QED
  BY <1>1, <1>2 DEF IsMoment

\* A value that is written to a range is shown as it is.
LEMMA checkDateRange ==
  ASSUME v1 = TRUE, v10 \in BOOLEAN, v11 \in BOOLEAN, NEW value,
         value # <<>> => IsValue(value) /\ (v10 \/ v11),
         D!checkDate(value), v14' = value, UNCHANGED <<v1, v2>>, v5 \in Cal
  PROVE  DInv'
<1>1. CASE value = <<>>
  <2>1. D!Forget
    BY <1>1 DEF D!checkDate
  <2>2. v10' = FALSE /\ v11' = FALSE /\ v7' = none /\ v13' = <<>> /\ v5' = Today
    BY <2>1 DEF D!Forget
  <2>3. RangeInv'
    BY <1>1, <2>2 DEF RangeInv
  <2> QED
    BY <2>2, <2>3, DatesCal DEF DInv
<1>2. CASE value # <<>>
  <2>1. /\ D!Abandon /\ v6' = value[1] /\ v7' = value[2]
        /\ v8' = value[1].hours /\ v9' = value[2].hours /\ v5' = v5
        /\ v13' = (IF \E i \in 1 .. 2 : value[i].hours < 1
                   THEN <<D!At(v6'.date, v8'), D!At(v7'.date, v9')>> ELSE value)
    BY <1>2 DEF D!checkDate
  <2>2. IsValue(value)
    BY <1>2
  <2>3. v13' = value
    BY <2>1, <2>2, PairValue
  <2>4. v10' \in BOOLEAN /\ v11' = TRUE
    BY <1>2, <2>1 DEF D!Abandon
  <2>5. IsValue(<<v6', v7'>>)
    BY <2>1, <2>2, PairValue
  <2>6. (IsValue(v13))'  /\ (IsValue(<<v6, v7>>))'
    BY <2>2, <2>3, <2>5 DEF IsValue
  <2> QED
    BY <2>1, <2>3, <2>4, <2>6 DEF DInv, RangeInv
<1> QED
  BY <1>1, <1>2

LEMMA checkDateSingle ==
  ASSUME v1 = FALSE, NEW value, value # <<>> => value[1].date \in Cal,
         D!checkDate(value), UNCHANGED v1
  PROVE  DInv'
<1>1. CASE value = <<>>
  <2>1. D!Forget
    BY <1>1 DEF D!checkDate
  <2> QED
    BY <2>1, DatesCal DEF D!Forget, DInv, SingleInv
<1>2. CASE value # <<>>
  <2>1. D!Single(value)
    BY <1>2 DEF D!checkDate
  <2> QED
    BY <1>2, <2>1 DEF D!Single, DInv, SingleInv
<1> QED
  BY <1>1, <1>2

LEMMA ZeroHours == ASSUME NEW a, NEW b PROVE D!At(a, b).date = a /\ D!At(a, b).hours = b
BY DEF D!At

LEMMA MergedMoment ==
  ASSUME NEW m, IsMoment(m), NEW t
  PROVE  IsMoment(D!Merged(m, t)) /\ D!Merged(m, t).date = m.date
BY DEF IsMoment, D!Merged, D!At

LEMMA ValueMerged ==
  ASSUME NEW a, NEW b, IsValue(<<a, b>>), NEW s, NEW t
  PROVE  IsValue(<<D!Merged(a, s), D!Merged(b, t)>>)
<1>1. IsMoment(a) /\ IsMoment(b) /\ (v2 = "date" => D!newDate(a.date) <= D!newDate(b.date))
  BY DEF IsValue
<1>2. /\ IsMoment(D!Merged(a, s)) /\ D!Merged(a, s).date = a.date
      /\ IsMoment(D!Merged(b, t)) /\ D!Merged(b, t).date = b.date
  BY <1>1, MergedMoment
<1> QED
  BY <1>1, <1>2 DEF IsValue

LEMMA DateNumber == ASSUME NEW d \in Cal PROVE D!newDate(d) \in Int
<1>1. d.year \in Int /\ d.month \in 0 .. 11 /\ d.date \in Int
  BY DEF Cal
<1> QED
  BY <1>1, DaysType DEF D!newDate

\* The second date of a range may come before the first.
LEMMA chooseStep ==
  ASSUME DInv, NEW YMD \in RangeDates, D!choose(YMD)
  PROVE  DInv'
<1>1. RangeInv /\ v1 = TRUE /\ UNCHANGED <<v1, v2, v5, v13, v14>> /\ YMD \in Cal
  BY DatesCal DEF D!choose, DInv, D!options
<1>2. CASE v10 /\ ~v11
  <2> DEFINE end == D!extend(v7, YMD, v9')
             reversed == D!newDate(YMD) < D!newDate(v6.date)
             first == IF reversed THEN D!At(end.date, v6.hours) ELSE v6
             last == IF reversed THEN D!At(v6.date, end.hours) ELSE end
  <2>1. v6' = D!Merged(first, v8') /\ v7' = D!Merged(last, v9') /\ v11' = TRUE /\ v10' = v10
    BY <1>2 DEF D!choose
  <2>2. IsMoment(v6)
    BY <1>1, <1>2 DEF RangeInv
  <2>3. end.date = YMD /\ IsMoment(end)
    BY <1>1 DEF D!extend, D!At, IsMoment
  <2>4. D!newDate(YMD) \in Int /\ D!newDate(v6.date) \in Int
    BY <1>1, <2>2, DateNumber DEF IsMoment
  <2>5. IsMoment(first) /\ IsMoment(last) /\ D!newDate(first.date) <= D!newDate(last.date)
    <3> HIDE DEF end
    <3>1. CASE reversed
      <4>1. first.date = YMD /\ last.date = v6.date /\ IsMoment(first) /\ IsMoment(last)
        BY <3>1, <2>2, <2>3, <1>1 DEF D!At, IsMoment
      <4> QED
        BY <3>1, <4>1, <2>4
    <3>2. CASE ~reversed
      BY <3>2, <2>2, <2>3, <2>4
    <3> QED
      BY <3>1, <3>2
  <2>6. IsValue(<<first, last>>)
    BY <2>5 DEF IsValue
  <2> HIDE DEF first, last
  <2>7. IsValue(<<v6', v7'>>)
    BY <2>1, <2>6, ValueMerged
  <2>8. (IsValue(<<v6, v7>>))' /\ (v13 # <<>> => IsValue(v13)')
    BY <1>1, <2>7 DEF IsValue, RangeInv
  <2> QED
    BY <1>1, <1>2, <2>1, <2>8 DEF DInv, RangeInv
<1>3. CASE ~(v10 /\ ~v11)
  <2>1. /\ v6' = D!extend(v6, YMD, v8') /\ v7' = (IF v11 THEN none ELSE v7)
        /\ v10' = TRUE /\ v11' = FALSE
    BY <1>3 DEF D!choose
  <2>2. v7' = none
    BY <1>1, <2>1 DEF RangeInv
  <2>3. IsMoment(v6')
    BY <1>1, <2>1 DEF D!extend, D!At, IsMoment
  <2>4. v13 # <<>> => IsValue(v13)'
    BY <1>1 DEF IsValue, RangeInv
  <2> QED
    BY <1>1, <2>1, <2>2, <2>3, <2>4 DEF DInv, RangeInv, IsMoment
<1> QED
  BY <1>2, <1>3

LEMMA chooseTimeStep ==
  ASSUME DInv, NEW index \in {0, 1}, NEW h, D!chooseTime(index, h)
  PROVE  DInv'
<1>1. RangeInv /\ v1 = TRUE /\ v2 = "datetime" /\ UNCHANGED <<v1, v2, v5, v10, v11, v13, v14>>
  BY DEF D!chooseTime, DInv, D!options
<1>2. v13 # <<>> => IsValue(v13)'
  BY <1>1 DEF IsValue, RangeInv
<1>3. CASE v7 = none
  <2>1. UNCHANGED <<v6, v7>>
    BY <1>3 DEF D!chooseTime
  <2> QED
    BY <1>1, <1>2, <1>3, <2>1 DEF DInv, RangeInv, IsMoment
<1>4. CASE v7 # none
  <2>1. v6' = D!Merged(v6, v8') /\ v7' = D!Merged(v7, v9')
    BY <1>4 DEF D!chooseTime
  <2>2. IsValue(<<v6', v7'>>)
    BY <1>1, <1>4, <2>1, ValueMerged DEF RangeInv
  <2>3. (IsValue(<<v6, v7>>))'
    BY <1>1, <2>2 DEF IsValue
  <2>4. v11' = TRUE
    BY <1>1, <1>4 DEF RangeInv
  <2> QED
    BY <1>1, <1>2, <2>3, <2>4 DEF DInv, RangeInv
<1> QED
  BY <1>3, <1>4

\* Opening and leaving write the text again.
LEMMA TextStep ==
  ASSUME DInv, D!checkDate(v13), UNCHANGED <<v1, v2, v14>>
  PROVE  DInv'
<1>1. CASE v1 = TRUE
  <2>1. RangeInv /\ v5 \in Cal
    BY <1>1 DEF DInv
  <2>2. v14' = v13
    BY <2>1 DEF RangeInv
  <2> QED
    BY <1>1, <2>1, <2>2, checkDateRange DEF RangeInv
<1>2. CASE v1 = FALSE
  BY <1>2, checkDateSingle DEF DInv, SingleInv
<1> QED
  BY <1>1, <1>2 DEF DInv

LEMMA confirmStep ==
  ASSUME DInv, D!confirm
  PROVE  DInv'
<1>1. UNCHANGED <<v1, v2>>
  BY DEF D!confirm, D!options
<1>2. CASE v1 = TRUE
  <2> DEFINE value == <<D!Merged(v6, v8), D!Merged(v7, v9)>>
  <2>1. RangeInv /\ v5 \in Cal /\ v7 # none
    BY <1>2 DEF DInv, D!confirm
  <2>2. IsValue(value) /\ v11
    BY <2>1, ValueMerged DEF RangeInv
  <2>3. D!checkDate(value) /\ v14' = value
    BY <1>2 DEF D!confirm
  <2> HIDE DEF value
  <2> QED
    BY <1>1, <1>2, <2>1, <2>2, <2>3, checkDateRange DEF RangeInv
<1>3. CASE v1 = FALSE
  <2>1. D!checkDate(<<D!At(v5, 0)>>)
    BY <1>3 DEF D!confirm
  <2>2. <<D!At(v5, 0)>>[1].date = v5 /\ v5 \in Cal
    BY DEF D!At, DInv
  <2> QED
    BY <1>1, <1>3, <2>1, <2>2, checkDateSingle
<1> QED
  BY <1>2, <1>3 DEF DInv

LEMMA clearStep ==
  ASSUME DInv, D!clear \/ D!now
  PROVE  DInv'
<1>1. UNCHANGED <<v1, v2>>
  BY DEF D!clear, D!now, D!options
<1>2. CASE v1 = TRUE
  <2>1. D!checkDate(<<>>) /\ v14' = <<>>
    BY <1>2 DEF D!clear, D!now
  <2>2. RangeInv /\ v5 \in Cal
    BY <1>2 DEF DInv
  <2> QED
    BY <1>1, <1>2, <2>1, <2>2, checkDateRange DEF RangeInv
<1>3. CASE v1 = FALSE
  <2>1. D!checkDate(<<>>) \/ D!checkDate(<<D!At(Today, 0)>>)
    BY DEF D!clear, D!now
  <2>2. <<D!At(Today, 0)>>[1].date = Today /\ Today \in Cal
    BY DatesCal DEF D!At
  <2> QED
    BY <1>1, <1>3, <2>1, <2>2, checkDateSingle
<1> QED
  BY <1>2, <1>3 DEF DInv

LEMMA ShowStep ==
  ASSUME DInv, NEW d, d \in [year : Int, month : 0 .. 11, date : Int], D!Show(d)
  PROVE  DInv'
<1>1. v1 = FALSE /\ v5' = D!checkValid(d) /\ UNCHANGED <<v1, v13>>
  BY DEF D!Show, D!options, DInv
<1>2. D!checkValid(d) \in Cal
  <2>1. d.year \in Int /\ d.month \in 0 .. 11
    OBVIOUS
  <2>2. D!getEndDate(d.month + 1, d.year) \in Int
    BY <2>1, MonthLength
  <2> QED
    BY <2>2 DEF D!checkValid, Cal
<1> QED
  BY <1>1, <1>2 DEF DInv, SingleInv

LEMMA NavigationStep ==
  ASSUME DInv,
         \/ D!prevYear \/ D!nextYear \/ D!prevMonth \/ D!nextMonth
         \/ \E y \in Years : D!list("year", y)
         \/ \E m \in 0 .. 11 : D!list("month", m)
  PROVE  DInv'
<1> DEFINE Dates2 == [year : Int, month : 0 .. 11, date : Int]
<1>1. v5 \in Dates2 /\ v5.year \in Int /\ v5.month \in 0 .. 11
  BY DEF DInv, Cal
<1>2. \A y \in Int : [v5 EXCEPT !.year = y] \in Dates2
  BY <1>1
<1>3. \A m \in 0 .. 11 : [v5 EXCEPT !.month = m] \in Dates2
  BY <1>1
<1>4. \A y \in Int, m \in 0 .. 11 : [v5 EXCEPT !.year = y, !.month = m] \in Dates2
  BY <1>1
<1>5. ASSUME NEW step \in {-1, 1}, D!Month(step) PROVE DInv'
  <2> DEFINE YM == D!getAsYM(v5.year, v5.month, step)
  <2>1. YM[1] \in Int /\ YM[2] \in 0 .. 11
    BY <1>1, Neighbours
  <2>2. D!Show([v5 EXCEPT !.year = YM[1], !.month = YM[2]])
    BY <1>5 DEF D!Month
  <2> HIDE DEF YM
  <2> QED
    BY <1>4, <2>1, <2>2, ShowStep
<1>6. CASE D!prevYear
  BY <1>1, <1>2, <1>6, ShowStep DEF D!prevYear
<1>7. CASE D!nextYear
  BY <1>1, <1>2, <1>7, ShowStep DEF D!nextYear
<1>8. ASSUME NEW y \in Years, D!list("year", y) PROVE DInv'
  <2>1. y \in Int
    BY ScriptsAssumption
  <2>2. D!Show([v5 EXCEPT !.year = y])
    BY <1>8 DEF D!list
  <2> QED
    BY <1>2, <2>1, <2>2, ShowStep
<1>9. ASSUME NEW m \in 0 .. 11, D!list("month", m) PROVE DInv'
  BY <1>3, <1>9, ShowStep DEF D!list
<1> QED
  BY <1>5, <1>6, <1>7, <1>8, <1>9 DEF D!prevMonth, D!nextMonth

LEMMA chooseOneStep ==
  ASSUME DInv, NEW cell \in 0 .. 41, D!chooseOne(cell)
  PROVE  DInv'
<1>1. /\ v1 = FALSE /\ v1' = FALSE /\ v5' = D!calendar(v5)[cell]
      /\ v13' = <<D!At(v5', 0)>> \/ v13' = v13
  BY DEF D!chooseOne, D!options, DInv
<1>2. D!calendar(v5)[cell] \in Cal
  <2>1. v5.year \in Int /\ v5.month \in 0 .. 11
    BY DEF DInv, Cal
  <2> DEFINE c == D!calendar(v5)[cell]
             prev == D!getAsYM(v5.year, v5.month, -1)
             next == D!getAsYM(v5.year, v5.month, 1)
  <2>2. /\ prev[1] \in Int /\ prev[2] \in 0 .. 11
        /\ next[1] \in Int /\ next[2] \in 0 .. 11
    BY <2>1, Neighbours
  <2>3. \E y \in Int, m \in 0 .. 11 : \E n : c = D!Date(y, m, n)
    BY <2>1, <2>2 DEF D!calendar
  <2>4. c.date \in 1 .. D!getEndDate(c.month + 1, c.year)
    BY <2>1, CalendarConsecutive
  <2> HIDE DEF c
  <2>5. c.date \in Int
    BY <2>4
  <2>6. c \in Cal
    BY <2>3, <2>5 DEF D!Date, Cal
  <2> QED
    BY <2>6 DEF c
<1>3. v5' \in Cal
  BY <1>1, <1>2
<1>4. v13' # <<>> => v13'[1].date \in Cal
  <2>1. CASE v13' = <<D!At(v5', 0)>>
    BY <1>3, <2>1 DEF D!At
  <2>2. CASE v13' = v13
    BY <1>1, <2>2 DEF DInv, SingleInv
  <2> QED
    BY <1>1, <2>1, <2>2
<1> QED
  BY <1>1, <1>3, <1>4 DEF DInv, SingleInv

LEMMA DNext == DInv /\ D!Next => DInv'
<1> SUFFICES ASSUME DInv, D!Next PROVE DInv'
  OBVIOUS
<1>1. CASE D!render \/ D!remove
  BY <1>1, TextStep DEF D!render, D!remove, D!options
<1> QED
  BY <1>1, chooseStep, chooseTimeStep, confirmStep, clearStep, NavigationStep, chooseOneStep DEF D!Next

LEMMA DStutter == DInv /\ UNCHANGED <<v1, v2, v5, v6, v7, v10, v11, v13, v14>> => DInv'
BY DEF DInv, RangeInv, SingleInv, IsValue, IsMoment

LEMMA DRange == DInv => D!RangeAgrees
<1> SUFFICES ASSUME DInv, v1 = TRUE PROVE D!RangeAgrees
  BY DEF DInv, D!RangeAgrees
<1>1. v14 = v13 /\ (v13 # <<>> => IsValue(v13))
  BY DEF DInv, RangeInv
<1>2. ASSUME v13 # <<>>, v2 = "date" PROVE D!newDate(v13[1].date) <= D!newDate(v13[2].date)
  <2>1. IsValue(<<v13[1], v13[2]>>)
    BY <1>1, <1>2, PairValue
  <2> QED
    BY <2>1, <1>2 DEF IsValue
<1> QED
  BY <1>1, <1>2 DEF D!RangeAgrees

LEMMA DGrid == DInv => D!GridConsecutive
<1> SUFFICES ASSUME DInv PROVE D!GridConsecutive
  OBVIOUS
<1> DEFINE cells == D!calendar(v5)
<1>1. v5.year \in Int /\ v5.month \in 0 .. 11
  BY DEF DInv, Cal
<1>2. /\ \A i \in 0 .. 41 : D!newDate(cells[i]) = D!newDate(cells[0]) + i
      /\ \A i \in 0 .. 41 : cells[i].date \in 1 .. D!getEndDate(cells[i].month + 1, cells[i].year)
      /\ D!getDay(D!newDate(cells[0])) = 0
      /\ \A n \in 1 .. D!getEndDate(v5.month + 1, v5.year) :
           \E i \in 0 .. 41 : cells[i] = D!Date(v5.year, v5.month, n)
  BY <1>1, CalendarConsecutive
<1>3. DOMAIN cells = 0 .. 41
  BY DEF D!calendar
<1>4. \A n \in 1 .. D!getEndDate(v5.month + 1, v5.year) :
        D!Date(v5.year, v5.month, n) \in D!Range(cells)
  BY <1>2, <1>3 DEF D!Range
<1> QED
  BY <1>2, <1>4 DEF D!GridConsecutive

-----------------------------------------------------------------------------
(* The text of the editor *)

LEMMA EditorSequences ==
  ASSUME NEW Elems, NEW s \in Seq(Elems), NEW i, NEW x
  PROVE  /\ E!InsertAt(s, i, x) = InsertAt(s, i, x) /\ B!InsertAt(s, i, x) = InsertAt(s, i, x)
         /\ E!RemoveAt(s, i) = RemoveAt(s, i) /\ B!RemoveAt(s, i) = RemoveAt(s, i)
BY DEF E!InsertAt, B!InsertAt, InsertAt, E!RemoveAt, B!RemoveAt, RemoveAt

LEMMA EditorRemoveFirst ==
  ASSUME NEW s, NEW x
  PROVE  E!RemoveFirst(s, x) = RemoveFirst(s, x)
<1>1. E!SelectInSeq(s, LAMBDA v : v = x) = SelectInSeq(s, LAMBDA v : v = x)
  BY DEF E!SelectInSeq, SelectInSeq, E!Min, Min
<1> QED
  BY <1>1 DEF E!RemoveFirst, RemoveFirst, E!RemoveAt, RemoveAt

Marks == {"a", "img", "\n"}
Items == Seq(Marks)
Tags  == {"P", "PRE", "H", "DIV"}

\* The text, and where the caret is in it: nowhere if the text is empty.
TextOK == v1 \in Seq(Blocks) /\ v2 \in 0 .. Len(v1) /\ (v1 # <<>> => v2 # 0)

\* What will be reported is the text itself, unless one of the two exceptions holds.
ReportOK ==
  /\ v7 \in Seq(Blocks) \union {none}
  /\ v8 # none => v8 = v6
  /\ v13 \in BOOLEAN /\ v14 \in BOOLEAN
  /\ ~v13 /\ ~v14 => v1 = IF v7 = none THEN v6 ELSE v7

EInv == TextOK /\ ReportOK

\* A text with one more block.
LEMMA OneMore ==
  ASSUME NEW s \in Seq(Blocks), NEW i \in 1 .. Len(s) + 1, NEW b \in Blocks
  PROVE  InsertAt(s, i, b) \in Seq(Blocks) /\ Len(InsertAt(s, i, b)) = Len(s) + 1
<1>1. s \in Seq(Blocks) /\ i \in 1 .. Len(s) + 1 /\ b \in Blocks
  OBVIOUS
<1> QED
  BY ONLY <1>1, InsertedAt

LEMMA ABlock ==
  ASSUME NEW tag \in Tags, NEW items \in Items
  PROVE  E!Block(tag, items) \in Blocks
BY DEF E!Block, Blocks, Tags, Items, Marks

LEMMA AParagraph == E!P \in Blocks
<1>1. "P" \in Tags /\ <<>> \in Items
  BY DEF Tags, Items
<1> QED
  BY <1>1, ABlock DEF E!P

LEMMA ReportKept ==
  ASSUME EInv, UNCHANGED <<v1, v6, v7, v8, v13, v14>>
  PROVE  ReportOK'
BY DEF EInv, ReportOK

LEMMA ChangeReported ==
  ASSUME EInv, TextOK', UNCHANGED <<v6, v8>>, E!change \/ E!Unreported
  PROVE  ReportOK'
<1>1. v1' # none
  BY ScriptsAssumption DEF TextOK
<1>2. CASE E!Unreported
  <2>1. v13' = TRUE /\ v7' = v7 /\ v14' = v14
    BY <1>2 DEF E!Unreported
  <2> QED
    BY <2>1 DEF EInv, ReportOK
<1>3. CASE E!change /\ v1' = v6
  <2>1. v13' = FALSE /\ v7' = v7 /\ v14' = (v14 \/ v7 # none)
    BY <1>3 DEF E!change
  <2>2. v14' \in BOOLEAN /\ (~v14' => v7 = none)
    BY <2>1
  <2> QED
    BY <1>3, <2>1, <2>2 DEF EInv, ReportOK
<1>4. CASE E!change /\ v1' # v6
  <2>1. v13' = FALSE /\ v7' = v1' /\ v14' = FALSE
    BY <1>4 DEF E!change
  <2> QED
    BY <1>1, <2>1 DEF EInv, ReportOK, TextOK
<1> QED
  BY <1>2, <1>3, <1>4

\* A block that is replaced where there is one.
LEMMA BlockReplaced ==
  ASSUME NEW s \in Seq(Blocks), NEW i, NEW b, i \in DOMAIN s => b \in Blocks
  PROVE  [s EXCEPT ![i] = b] \in Seq(Blocks) /\ Len([s EXCEPT ![i] = b]) = Len(s)
<1>1. CASE i \notin DOMAIN s
  <2>1. [s EXCEPT ![i] = b] = s
    BY <1>1
  <2> QED
    BY <2>1
<1>2. CASE i \in DOMAIN s
  BY <1>2
<1> QED
  BY <1>1, <1>2

LEMMA ItemsWritten ==
  ASSUME NEW s \in Seq(Blocks), NEW i, NEW x, i \in DOMAIN s => x \in Items
  PROVE  [s EXCEPT ![i].items = x] \in Seq(Blocks) /\ Len([s EXCEPT ![i].items = x]) = Len(s)
<1> DEFINE b == [s[i] EXCEPT !.items = x]
<1>1. i \in DOMAIN s => b \in Blocks
  <2>1. i \in DOMAIN s => s[i] \in Blocks
    OBVIOUS
  <2> QED
    BY <2>1 DEF Blocks, Items, Marks
<1>2. [s EXCEPT ![i].items = x] = [s EXCEPT ![i] = b]
  OBVIOUS
<1> HIDE DEF b
<1> QED
  BY <1>1, <1>2, BlockReplaced

LEMMA TagWritten ==
  ASSUME NEW s \in Seq(Blocks), NEW i, NEW tag \in Tags
  PROVE  [s EXCEPT ![i].tag = tag] \in Seq(Blocks) /\ Len([s EXCEPT ![i].tag = tag]) = Len(s)
<1> DEFINE b == [s[i] EXCEPT !.tag = tag]
<1>1. i \in DOMAIN s => b \in Blocks
  <2>1. i \in DOMAIN s => s[i] \in Blocks
    OBVIOUS
  <2> QED
    BY <2>1 DEF Blocks, Tags
<1>2. [s EXCEPT ![i].tag = tag] = [s EXCEPT ![i] = b]
  OBVIOUS
<1> HIDE DEF b
<1> QED
  BY <1>1, <1>2, BlockReplaced

\* A text of as many blocks, and the caret in the same one.
LEMMA Rewritten ==
  ASSUME EInv, v1' \in Seq(Blocks), Len(v1') = Len(v1), v2' = v2, UNCHANGED <<v6, v8>>,
         E!change \/ E!Unreported
  PROVE  EInv'
<1>1. TextOK'
  BY DEF EInv, TextOK
<1> QED
  BY <1>1, ChangeReported DEF EInv

\* One more block below the caret, which goes there.
LEMMA BlockInserted ==
  ASSUME EInv, NEW b \in Blocks, v1' = E!InsertAt(v1, v2 + 1, b), v2' = v2 + 1,
         UNCHANGED <<v6, v8>>, E!change \/ E!Unreported
  PROVE  EInv'
<1>1. v1 \in Seq(Blocks) /\ v2 \in 0 .. Len(v1) /\ v2 + 1 \in 1 .. Len(v1) + 1
  BY DEF EInv, TextOK
<1>2. v1' = InsertAt(v1, v2 + 1, b)
  BY <1>1, EditorSequences
<1>3. v1' \in Seq(Blocks) /\ Len(v1') = Len(v1) + 1
  BY <1>1, <1>2, OneMore
<1>4. TextOK'
  BY <1>1, <1>3 DEF TextOK
<1> QED
  BY <1>4, ChangeReported DEF EInv

LEMMA ItemsOK ==
  ASSUME EInv, NEW i \in DOMAIN v1
  PROVE  v1[i] \in Blocks /\ v1[i].tag \in Tags /\ v1[i].items \in Items
<1>1. v1[i] \in Blocks
  BY DEF EInv, TextOK
<1> QED
  BY <1>1 DEF Blocks, Tags, Items, Marks

LEMMA insertHTMLStep ==
  ASSUME EInv, NEW item \in Marks, E!insertHTML(item), UNCHANGED <<v6, v8>>
  PROVE  EInv'
<1>1. E!change /\ v2' = v2 /\ v1' = [v1 EXCEPT ![v2].items = Append(v1[v2].items, item)]
  BY DEF E!insertHTML, E!Do
<1>2. v2 \in DOMAIN v1 => Append(v1[v2].items, item) \in Items
  <2> SUFFICES ASSUME v2 \in DOMAIN v1 PROVE Append(v1[v2].items, item) \in Items
    OBVIOUS
  <2>1. v1[v2].items \in Items
    BY ItemsOK
  <2> QED
    BY <2>1 DEF Items
<1>3. v1' \in Seq(Blocks) /\ Len(v1') = Len(v1)
  BY <1>1, <1>2, ItemsWritten DEF EInv, TextOK
<1> QED
  BY <1>1, <1>3, Rewritten

LEMMA formatBlockStep ==
  ASSUME EInv, NEW tag \in {"P", "H"}, E!formatBlock(tag)
  PROVE  EInv'
<1>1. /\ E!change /\ v2' = v2 /\ v1' = [v1 EXCEPT ![v2].tag = tag]
      /\ UNCHANGED <<v6, v8>>
  BY DEF E!formatBlock, E!Do, E!reports
<1>2. tag \in Tags /\ v1 \in Seq(Blocks)
  BY DEF EInv, TextOK, Tags
<1>3. v1' \in Seq(Blocks) /\ Len(v1') = Len(v1)
  BY <1>1, <1>2, TagWritten
<1> QED
  BY <1>1, <1>3, Rewritten

LEMMA insertCodeStep ==
  ASSUME EInv, E!insertCode
  PROVE  EInv'
<1> DEFINE pre == E!Block("PRE", <<"a">>)
           one == InsertAt(v1, v2 + 1, pre)
<1>1. pre \in Blocks /\ E!P \in Blocks
  <2>1. "PRE" \in Tags /\ <<"a">> \in Items
    BY DEF Tags, Items, Marks
  <2> QED
    BY <2>1, ABlock, AParagraph
<1> DEFINE para == E!P
           two  == InsertAt(one, v2 + 2, para)
<1> HIDE DEF pre, para
<1>2. v1 \in Seq(Blocks) /\ v2 \in 0 .. Len(v1) /\ v2 + 1 \in 1 .. Len(v1) + 1
  BY DEF EInv, TextOK
<1>3. one \in Seq(Blocks) /\ Len(one) = Len(v1) + 1
  BY <1>1, <1>2, OneMore
<1> HIDE DEF one
<1>4. two \in Seq(Blocks) /\ Len(two) = Len(v1) + 2
  <2>1. v2 + 2 \in 1 .. Len(one) + 1
    BY <1>2, <1>3
  <2>2. para \in Blocks
    BY <1>1 DEF para
  <2> QED
    BY <1>3, <2>1, <2>2, OneMore
<1>5. /\ v1' = E!InsertAt(E!InsertAt(v1, v2 + 1, pre), v2 + 2, E!P)
      /\ v2' = v2 + 2 /\ E!change /\ UNCHANGED <<v6, v8>>
  BY DEF E!insertCode, E!Do, E!reports, pre
<1>6. v1' = two
  <2>1. E!InsertAt(v1, v2 + 1, pre) = one
    BY <1>2, EditorSequences DEF one
  <2> QED
    BY <1>3, <1>5, <2>1, EditorSequences DEF two, para
<1> HIDE DEF two
<1>7. TextOK'
  BY <1>2, <1>4, <1>5, <1>6 DEF TextOK
<1> QED
  BY <1>5, <1>7, ChangeReported DEF EInv

LEMMA removeImageStep ==
  ASSUME EInv, E!removeImage
  PROVE  EInv'
<1>1. PICK i \in DOMAIN v1 : v1' = [v1 EXCEPT ![i].items = E!RemoveFirst(v1[i].items, "img")]
  BY DEF E!removeImage
<1>2. v2' = v2 /\ UNCHANGED <<v6, v8>> /\ E!Unreported
  BY DEF E!removeImage, E!Behind, E!reports
<1>3. v1[i].items \in Items
  BY ItemsOK
<1>4. E!RemoveFirst(v1[i].items, "img") \in Items
  BY <1>3, EditorRemoveFirst, FirstRemoved DEF Items
<1>5. v1' \in Seq(Blocks) /\ Len(v1') = Len(v1)
  BY <1>1, <1>4, ItemsWritten DEF EInv, TextOK
<1> QED
  BY <1>2, <1>5, Rewritten

LEMMA updateCodeStep ==
  ASSUME EInv, E!_updateCode
  PROVE  EInv'
<1>1. /\ v1' = [v1 EXCEPT ![v2].items = <<"a">>]
      /\ v2' = v2 /\ UNCHANGED <<v6, v8>> /\ E!Unreported
  BY DEF E!_updateCode, E!Behind, E!reports
<1>2. <<"a">> \in Items
  BY DEF Items, Marks
<1>3. v1' \in Seq(Blocks) /\ Len(v1') = Len(v1)
  BY <1>1, <1>2, ItemsWritten DEF EInv, TextOK
<1> QED
  BY <1>1, <1>3, Rewritten

LEMMA keydownStep ==
  ASSUME EInv, E!keydown
  PROVE  EInv'
<1>1. /\ v1' = [v1 EXCEPT ![v2].items = Append(v1[v2].items, "a")]
      /\ v2' = v2 /\ UNCHANGED <<v6, v8>> /\ E!Unreported
  BY DEF E!keydown, E!Down, E!reports
<1>2. v2 \in DOMAIN v1 => Append(v1[v2].items, "a") \in Items
  <2> SUFFICES ASSUME v2 \in DOMAIN v1 PROVE Append(v1[v2].items, "a") \in Items
    OBVIOUS
  <2>1. v1[v2].items \in Items
    BY ItemsOK
  <2> QED
    BY <2>1 DEF Items, Marks
<1>3. v1' \in Seq(Blocks) /\ Len(v1') = Len(v1)
  BY <1>1, <1>2, ItemsWritten DEF EInv, TextOK
<1> QED
  BY <1>1, <1>3, Rewritten

LEMMA enterStep ==
  ASSUME EInv, E!enter
  PROVE  EInv'
<1>1. PICK tag \in IF v1[v2].tag = "P" THEN {"P"} ELSE {"P", "DIV", v1[v2].tag} :
        v1' = E!InsertAt(v1, v2 + 1, E!Block(tag, <<>>))
  BY DEF E!enter
<1>2. v1 # <<>> /\ v2' = v2 + 1 /\ UNCHANGED <<v6, v8>> /\ E!Unreported
  BY DEF E!enter, E!Down, E!reports
<1>3. v2 \in DOMAIN v1
  BY <1>2 DEF EInv, TextOK
<1>4. tag \in Tags
  BY <1>1, <1>3, ItemsOK DEF Tags
<1>5. E!Block(tag, <<>>) \in Blocks
  <2>1. <<>> \in Items
    BY DEF Items
  <2> QED
    BY <1>4, <2>1, ABlock
<1> QED
  BY <1>1, <1>2, <1>5, BlockInserted

LEMMA codeHandleStep ==
  ASSUME EInv, NEW atEnd \in BOOLEAN, E!codeHandle(atEnd)
  PROVE  EInv'
<1>1. UNCHANGED <<v6, v8>>
  BY DEF E!codeHandle, E!Down, E!reports
<1>2. CASE v3
  <2>1. v1' = E!InsertAt(v1, v2 + 1, E!P) /\ v2' = v2 + 1 /\ E!Unreported
    BY <1>2 DEF E!codeHandle
  <2> QED
    BY <1>1, <2>1, AParagraph, BlockInserted
<1>3. CASE ~v3
  <2>1. E!insertHTML("\n")
    BY <1>3 DEF E!codeHandle
  <2> QED
    BY <1>1, <2>1, insertHTMLStep DEF Marks
<1> QED
  BY <1>2, <1>3

LEMMA backspaceStep ==
  ASSUME EInv, E!backspace
  PROVE  EInv'
<1>1. v1 # <<>> /\ UNCHANGED <<v6, v8>>
  BY DEF E!backspace, E!Down, E!reports
<1>2. v1 \in Seq(Blocks) /\ v2 \in 1 .. Len(v1)
  BY <1>1 DEF EInv, TextOK
<1>3. CASE UNCHANGED <<v1, v2, v7, v13, v14>>
  BY <1>1, <1>3 DEF EInv, TextOK, ReportOK
<1>4. CASE /\ v1[v2].items # <<>>
           /\ v1' = [v1 EXCEPT ![v2].items = E!Front(v1[v2].items)]
           /\ E!Unreported /\ v2' = v2
  <2>1. v1[v2].items \in Items
    BY <1>2, ItemsOK
  <2>2. E!Front(v1[v2].items) \in Items
    BY <1>4, <2>1 DEF E!Front, Items
  <2>3. v1' \in Seq(Blocks) /\ Len(v1') = Len(v1)
    BY <1>2, <1>4, <2>2, ItemsWritten
  <2> QED
    BY <1>1, <1>4, <2>3, Rewritten
<1>5. CASE /\ v2 > 1 /\ v1' = E!RemoveAt(v1, v2) /\ v2' = v2 - 1 /\ E!Unreported
  <2>1. v1' = RemoveAt(v1, v2)
    BY <1>2, <1>5, EditorSequences
  <2>2. v1' \in Seq(Blocks) /\ Len(v1') = Len(v1) - 1
    BY <1>2, <2>1, RemovedAt
  <2>3. TextOK'
    BY <1>2, <1>5, <2>2 DEF TextOK
  <2> QED
    BY <1>1, <1>5, <2>3, ChangeReported DEF EInv
<1>6. CASE v1' = <<>> /\ v2' = 0 /\ E!Unreported
  <2>1. TextOK'
    BY <1>6 DEF TextOK
  <2> QED
    BY <1>1, <1>6, <2>1, ChangeReported DEF EInv
<1>7. \/ UNCHANGED <<v1, v2, v7, v13, v14>>
      \/ /\ v1[v2].items # <<>>
         /\ v1' = [v1 EXCEPT ![v2].items = E!Front(v1[v2].items)]
         /\ E!Unreported /\ v2' = v2
      \/ /\ v2 > 1 /\ v1' = E!RemoveAt(v1, v2) /\ v2' = v2 - 1 /\ E!Unreported
      \/ v1' = <<>> /\ v2' = 0 /\ E!Unreported
  BY DEF E!backspace
<1> QED
  BY <1>3, <1>4, <1>5, <1>6, <1>7

LEMMA keyupStep ==
  ASSUME EInv, E!keyup
  PROVE  EInv'
<1>1. UNCHANGED <<v6, v8>>
  BY DEF E!keyup, E!reports
<1>2. \/ v1' = [v1 EXCEPT ![v2] = E!P] /\ UNCHANGED v2
      \/ v1' = <<E!P>> /\ v2' = 1
      \/ UNCHANGED <<v1, v2>>
  <2>1. CASE v5 = "Enter" /\ v1[v2].tag \notin {"P", "PRE"} /\ v1[v2].items = <<>>
    BY <2>1 DEF E!keyup
  <2>2. CASE v5 = "Backspace" /\ v1 = <<>>
    BY <2>2 DEF E!keyup
  <2>3. CASE /\ ~(v5 = "Enter" /\ v1[v2].tag \notin {"P", "PRE"} /\ v1[v2].items = <<>>)
             /\ ~(v5 = "Backspace" /\ v1 = <<>>)
    BY <2>3 DEF E!keyup
  <2> QED
    BY <2>1, <2>2, <2>3
<1>3. TextOK'
  <2>1. CASE v1' = [v1 EXCEPT ![v2] = E!P] /\ UNCHANGED v2
    <3>1. v1' \in Seq(Blocks) /\ Len(v1') = Len(v1)
      BY <2>1, AParagraph, BlockReplaced DEF EInv, TextOK
    <3> QED
      BY <2>1, <3>1 DEF EInv, TextOK
  <2>2. CASE v1' = <<E!P>> /\ v2' = 1
    <3>1. v1' \in Seq(Blocks) /\ Len(v1') = 1
      BY <2>2, AParagraph
    <3> QED
      BY <2>2, <3>1 DEF TextOK
  <2>3. CASE UNCHANGED <<v1, v2>>
    BY <2>3 DEF EInv, TextOK
  <2> QED
    BY <1>2, <2>1, <2>2, <2>3
<1>4. CASE v4
  <2>1. E!change
    BY <1>4 DEF E!keyup
  <2> QED
    BY <1>1, <1>3, <2>1, ChangeReported DEF EInv
<1>5. CASE ~v4
  <2>1. v13' = (v13 \/ v1' # v1) /\ UNCHANGED <<v7, v14>>
    BY <1>5 DEF E!keyup
  <2>2. v13' \in BOOLEAN /\ (~v13' => ~v13 /\ v1' = v1)
    BY <2>1 DEF EInv, ReportOK
  <2> QED
    BY <1>1, <1>3, <2>1, <2>2 DEF EInv, ReportOK
<1> QED
  BY <1>4, <1>5

LEMMA clickStep ==
  ASSUME EInv, NEW i \in DOMAIN v1, E!click(i)
  PROVE  EInv'
<1>1. v2' = i /\ v1' = v1 /\ E!change /\ UNCHANGED <<v6, v8>>
  BY DEF E!click, E!reports
<1>2. TextOK'
  BY <1>1 DEF EInv, TextOK
<1> QED
  BY <1>1, <1>2, ChangeReported DEF EInv

LEMMA QuietStep ==
  ASSUME EInv, E!Quiet, UNCHANGED <<v6, v8>>
  PROVE  EInv'
BY DEF E!Quiet, EInv, TextOK, ReportOK

LEMMA pasteStep ==
  ASSUME EInv, NEW pasteHtml, NEW files, E!paste(pasteHtml, files)
  PROVE  EInv'
<1>1. UNCHANGED <<v6, v8>>
  BY DEF E!paste, E!reports
<1>2. E!insertHTML("a") \/ E!Quiet
  BY DEF E!paste
<1> QED
  BY <1>1, <1>2, insertHTMLStep, QuietStep DEF Marks

LEMMA onchangeStep ==
  ASSUME EInv, E!onchange
  PROVE  EInv'
<1>1. /\ v7 # none /\ v8' = v7 /\ v6' = v7 /\ v7' = none
      /\ UNCHANGED <<v1, v2, v13, v14>>
  BY DEF E!onchange
<1> QED
  BY <1>1 DEF EInv, TextOK, ReportOK

LEMMA EInit ==
  ASSUME E!Init
  PROVE  EInv
<1>1. v1 \in Seq(Blocks) /\ Len(v1) >= 1
  <2>1. ASSUME NEW h \in Seq(Blocks)
        PROVE  E!initSelection(h) \in Seq(Blocks) /\ Len(E!initSelection(h)) >= 1
    BY AParagraph DEF E!initSelection
  <2>2. <<>> \in Seq(Blocks)
    OBVIOUS
  <2>3. E!Block("PRE", <<"a">>) \in Blocks /\ E!Block("H", <<"a">>) \in Blocks
    <3>1. {"PRE", "H"} \subseteq Tags /\ <<"a">> \in Items
      BY DEF Tags, Items, Marks
    <3> QED
      BY <3>1, ABlock
  <2>4. <<E!Block("PRE", <<"a">>)>> \in Seq(Blocks) /\ <<E!Block("H", <<"a">>)>> \in Seq(Blocks)
    BY <2>3
  <2> QED
    BY <2>1, <2>2, <2>4 DEF E!Init
<1>2. v2 = Len(v1) /\ v6 = v1 /\ v7 = none /\ v8 = none /\ v13 = FALSE /\ v14 = FALSE
  BY DEF E!Init
<1>3. TextOK
  BY <1>1, <1>2 DEF TextOK
<1>4. ReportOK
  BY <1>1, <1>2 DEF ReportOK
<1> QED
  BY <1>3, <1>4 DEF EInv

LEMMA ENext ==
  ASSUME EInv, E!Next
  PROVE  EInv'
<1>1. CASE E!onchange
  BY <1>1, onchangeStep
<1>2. CASE E!keydown
  BY <1>2, keydownStep
<1>3. CASE E!keydownTab
  BY <1>3, insertHTMLStep DEF E!keydownTab, E!Down, E!reports, Marks
<1>4. CASE E!enter
  BY <1>4, enterStep
<1>5. CASE E!backspace
  BY <1>5, backspaceStep
<1>6. CASE E!keyup
  BY <1>6, keyupStep
<1>7. CASE E!insertCode
  BY <1>7, insertCodeStep
<1>8. CASE E!insertLinkImg
  BY <1>8, insertHTMLStep DEF E!insertLinkImg, E!reports, Marks
<1>9. CASE E!removeImage
  BY <1>9, removeImageStep
<1>10. CASE E!_updateCode
  BY <1>10, updateCodeStep
<1>11. CASE \E atEnd \in BOOLEAN : E!codeHandle(atEnd)
  BY <1>11, codeHandleStep
<1>12. CASE \E tag \in {"P", "H"} : E!formatBlock(tag)
  BY <1>12, formatBlockStep
<1>13. CASE \E i \in DOMAIN v1 : E!click(i)
  BY <1>13, clickStep
<1>14. CASE \E pasteHtml \in BOOLEAN, files \in {{}} \union E!Files : E!paste(pasteHtml, files)
  BY <1>14, pasteStep
<1>15. CASE \E files \in E!Files : E!drop(files)
  BY <1>15, QuietStep DEF E!drop, E!reports
<1>16. CASE E!onreadystatechange
  BY <1>16, insertHTMLStep DEF E!onreadystatechange, E!reports, Marks
<1>17. CASE E!failed
  BY <1>17, QuietStep DEF E!failed, E!reports
<1> QED
  BY <1>1, <1>2, <1>3, <1>4, <1>5, <1>6, <1>7, <1>8, <1>9, <1>10, <1>11, <1>12, <1>13,
     <1>14, <1>15, <1>16, <1>17 DEF E!Next

LEMMA EStutter ==
  ASSUME EInv, UNCHANGED <<v1, v2, v6, v7, v8, v13, v14>>
  PROVE  EInv'
BY DEF EInv, TextOK, ReportOK

LEMMA EFollows ==
  ASSUME EInv
  PROVE  E!ContentFollows
BY DEF EInv, ReportOK, E!ContentFollows

-----------------------------------------------------------------------------
(* The tables of the editor *)

LEMMA ToolbarSequences ==
  ASSUME NEW s, NEW i, NEW x
  PROVE  /\ B!InsertAt(s, i, x) = InsertAt(s, i, x)
         /\ B!RemoveAt(s, i) = RemoveAt(s, i)
         /\ B!ToSet(s) = {s[j] : j \in DOMAIN s}
BY DEF B!InsertAt, InsertAt, B!RemoveAt, RemoveAt, B!ToSet

Names == {"TH", "TD"}

\* A row of n cells of one kind, which is no head but in the first row.
RowOK(row, r, n) ==
  /\ row \in Seq(Names)
  /\ Len(row) = n
  /\ \A c, d \in 1 .. n : row[c] = row[d]
  /\ r > 1 => \A c \in 1 .. n : row[c] = "TD"

TableOK(t) ==
  /\ t \in Tables
  /\ \A r \in 1 .. Len(t) : RowOK(t[r], r, Len(t[1]))

\* The caret is in a cell that is there.
CellOK(t, at) == at[1] \in 1 .. Len(t) /\ at[2] \in 1 .. Len(t[at[1]])

BInv ==
  /\ v1 # none => TableOK(v1)
  /\ v2 # none => v1 # none /\ CellOK(v1, v2)

\* What the lemma on insertion says of a row and of a table.
LEMMA CellInsertedAt ==
  ASSUME NEW s \in Seq(Names), NEW i \in 1 .. Len(s) + 1, NEW x \in Names
  PROVE  /\ InsertAt(s, i, x) \in Seq(Names)
         /\ Len(InsertAt(s, i, x)) = Len(s) + 1
         /\ \A j \in 1 .. Len(s) + 1 :
              InsertAt(s, i, x)[j] = IF j < i THEN s[j] ELSE IF j = i THEN x ELSE s[j - 1]
<1>1. s \in Seq(Names) /\ i \in 1 .. Len(s) + 1 /\ x \in Names
  OBVIOUS
<1> QED
  BY ONLY <1>1, InsertedAt

LEMMA RowInsertedAt ==
  ASSUME NEW s \in Seq(Seq(Names)), NEW i \in 1 .. Len(s) + 1, NEW x \in Seq(Names)
  PROVE  /\ InsertAt(s, i, x) \in Seq(Seq(Names))
         /\ Len(InsertAt(s, i, x)) = Len(s) + 1
         /\ \A j \in 1 .. Len(s) + 1 :
              InsertAt(s, i, x)[j] = IF j < i THEN s[j] ELSE IF j = i THEN x ELSE s[j - 1]
<1>1. s \in Seq(Seq(Names)) /\ i \in 1 .. Len(s) + 1 /\ x \in Seq(Names)
  OBVIOUS
<1> QED
  BY ONLY <1>1, InsertedAt

\* A table that has rows of one length.
LEMMA TableOf ==
  ASSUME NEW t, NEW n \in Nat, t \in Seq(Seq(Names)), \A r \in 1 .. Len(t) : RowOK(t[r], r, n)
  PROVE  TableOK(t) /\ \A r \in 1 .. Len(t) : Len(t[r]) = n
<1>1. \A r \in 1 .. Len(t) : Len(t[r]) = n
  BY DEF RowOK
<1>2. ASSUME NEW r \in 1 .. Len(t) PROVE RowOK(t[r], r, Len(t[1]))
  <2>1. 1 \in 1 .. Len(t)
    OBVIOUS
  <2>2. Len(t[1]) = n
    BY <1>1, <2>1
  <2> QED
    BY <2>2
<1> QED
  BY <1>1, <1>2 DEF TableOK, Tables, Names

LEMMA TableRows ==
  ASSUME NEW t, TableOK(t)
  PROVE  /\ t \in Seq(Seq(Names)) /\ Len(t) \in Nat
         /\ \A r \in 1 .. Len(t) : t[r] \in Seq(Names) /\ Len(t[r]) = Len(t[1])
         /\ 1 <= Len(t) => Len(t[1]) \in Nat
BY DEF TableOK, Tables, RowOK, Names

LEMMA RowMade ==
  ASSUME NEW name \in Names, NEW n \in Nat, NEW r, r > 1 => name = "TD"
  PROVE  RowOK(B!Row(name, n), r, n)
<1>1. B!Row(name, n) \in Seq(Names) /\ Len(B!Row(name, n)) = n
  BY DEF B!Row
<1>2. \A c \in 1 .. n : B!Row(name, n)[c] = name
  BY DEF B!Row
<1> QED
  BY <1>1, <1>2 DEF RowOK

LEMMA RowInserted ==
  ASSUME NEW row, NEW r, NEW n \in Nat, RowOK(row, r, n), NEW c \in 1 .. n
  PROVE  RowOK(InsertAt(row, c + 1, row[c]), r, n + 1)
<1> DEFINE new == InsertAt(row, c + 1, row[c])
<1>1. row \in Seq(Names) /\ Len(row) = n /\ row[c] \in Names /\ c + 1 \in 1 .. Len(row) + 1
  BY DEF RowOK
<1>2. /\ new \in Seq(Names) /\ Len(new) = Len(row) + 1
      /\ \A j \in 1 .. Len(row) + 1 :
           new[j] = IF j < c + 1 THEN row[j] ELSE IF j = c + 1 THEN row[c] ELSE row[j - 1]
  BY <1>1, CellInsertedAt, ZenonT(40)
<1> HIDE DEF new
<1>3. ASSUME NEW j \in 1 .. n + 1 PROVE \E k \in 1 .. n : new[j] = row[k]
  <2>1. CASE j < c + 1
    <3>1. j \in 1 .. n /\ new[j] = row[j]
      BY <1>1, <1>2, <2>1
    <3> QED
      BY <3>1
  <2>2. CASE j = c + 1
    BY <1>1, <1>2, <2>2
  <2>3. CASE j > c + 1
    <3>1. j - 1 \in 1 .. n /\ new[j] = row[j - 1]
      BY <1>1, <1>2, <2>3
    <3> QED
      BY <3>1
  <2> QED
    BY <2>1, <2>2, <2>3
<1>4. \A j, k \in 1 .. n + 1 : new[j] = new[k]
  BY <1>3 DEF RowOK
<1>5. r > 1 => \A j \in 1 .. n + 1 : new[j] = "TD"
  BY <1>3 DEF RowOK
<1> QED
  BY <1>1, <1>2, <1>4, <1>5 DEF RowOK, new

LEMMA RowRemoved ==
  ASSUME NEW row, NEW r, NEW n \in Nat, RowOK(row, r, n), NEW c \in 1 .. n
  PROVE  RowOK(RemoveAt(row, c), r, n - 1)
<1> DEFINE new == RemoveAt(row, c)
<1>1. row \in Seq(Names) /\ Len(row) = n /\ c \in 1 .. Len(row)
  BY DEF RowOK
<1>2. /\ new \in Seq(Names) /\ Len(new) = Len(row) - 1
      /\ \A j \in 1 .. Len(row) - 1 : new[j] = IF j < c THEN row[j] ELSE row[j + 1]
  BY <1>1, RemovedAt
<1> HIDE DEF new
<1>3. ASSUME NEW j \in 1 .. n - 1 PROVE \E k \in 1 .. n : new[j] = row[k]
  <2>1. j \in 1 .. n /\ j + 1 \in 1 .. n
    OBVIOUS
  <2> QED
    BY <1>1, <1>2, <2>1
<1>4. \A j, k \in 1 .. n - 1 : new[j] = new[k]
  BY <1>3 DEF RowOK
<1>5. r > 1 => \A j \in 1 .. n - 1 : new[j] = "TD"
  BY <1>3 DEF RowOK
<1> QED
  BY <1>1, <1>2, <1>4, <1>5 DEF RowOK, new

LEMMA insertStep ==
  ASSUME BInv, NEW rowNum \in Nat, NEW colNum \in Nat, B!_insert(rowNum, colNum)
  PROVE  BInv'
<1>1. /\ v1 = none /\ v2' = v2
      /\ v1' = [r \in 1 .. rowNum |-> B!Row(IF r = 1 THEN "TH" ELSE "TD", colNum)]
  BY DEF B!_insert
<1>2. v2' = none
  BY <1>1 DEF BInv
<1>3. \A r \in 1 .. rowNum : RowOK(B!Row(IF r = 1 THEN "TH" ELSE "TD", colNum), r, colNum)
  BY RowMade DEF Names
<1>4. \A r \in 1 .. rowNum : B!Row(IF r = 1 THEN "TH" ELSE "TD", colNum) \in Seq(Names)
  BY <1>3 DEF RowOK
<1>5. v1' \in Seq(Seq(Names)) /\ Len(v1') = rowNum
  BY <1>1, <1>4
<1>6. \A r \in 1 .. Len(v1') : RowOK(v1'[r], r, colNum)
  BY <1>1, <1>3, <1>5
<1>7. TableOK(v1')
  BY <1>5, <1>6, TableOf
<1> QED
  BY <1>2, <1>7 DEF BInv

\* The buttons of the table: nothing outside of a cell.
LEMMA EditStep ==
  ASSUME BInv, NEW t, NEW at, B!Edit(t, at),
         v2 # none => /\ t # none => TableOK(t)
                      /\ at # none => t # none /\ CellOK(t, at)
  PROVE  BInv'
<1>1. CASE v2 = none
  <2>1. UNCHANGED <<v1, v2>>
    BY <1>1 DEF B!Edit
  <2> QED
    BY <2>1 DEF BInv
<1>2. CASE v2 # none
  <2>1. v1' = t /\ v2' = at
    BY <1>2 DEF B!Edit
  <2> QED
    BY <1>2, <2>1 DEF BInv
<1> QED
  BY <1>1, <1>2

LEMMA InCell ==
  ASSUME BInv, v2 # none
  PROVE  /\ TableOK(v1) /\ v1 # none /\ v1 \in Seq(Seq(Names))
         /\ v2[1] \in 1 .. Len(v1) /\ Len(v1[1]) \in Nat /\ v2[2] \in 1 .. Len(v1[1])
         /\ \A r \in 1 .. Len(v1) : RowOK(v1[r], r, Len(v1[1]))
<1>1. TableOK(v1) /\ v1 # none /\ CellOK(v1, v2)
  BY DEF BInv
<1>2. v1 \in Seq(Seq(Names)) /\ v2[1] \in 1 .. Len(v1) /\ 1 <= Len(v1)
  BY <1>1, TableRows DEF CellOK
<1> QED
  BY <1>1, <1>2, TableRows DEF CellOK, TableOK

LEMMA NotNone == ASSUME NEW t \in Seq(Seq(Names)) PROVE t # none
BY ScriptsAssumption DEF Tables, Names

LEMMA addRowStep ==
  ASSUME BInv, B!_addRow
  PROVE  BInv'
<1> DEFINE new == B!Row("TD", Len(v1[v2[1]]))
           t == B!InsertAt(v1, v2[1] + 1, new)
<1>1. B!Edit(t, v2)
  BY DEF B!_addRow
<1>2. ASSUME v2 # none PROVE TableOK(t) /\ t # none /\ CellOK(t, v2)
  <2> DEFINE n == Len(v1[1])
             k == v2[1] + 1
  <2>1. /\ v1 \in Seq(Seq(Names)) /\ v2[1] \in 1 .. Len(v1) /\ n \in Nat /\ v2[2] \in 1 .. n
        /\ \A r \in 1 .. Len(v1) : RowOK(v1[r], r, n)
    BY <1>2, InCell
  <2>2. Len(v1[v2[1]]) = n
    BY <2>1 DEF RowOK
  <2>3. \A r : RowOK(new, r, n)
    BY <2>1, <2>2, RowMade DEF Names
  <2>4. new \in Seq(Names) /\ k \in 1 .. Len(v1) + 1
    BY <2>1, <2>3 DEF RowOK
  <2>5. t = InsertAt(v1, k, new)
    BY ToolbarSequences
  <2> HIDE DEF n, new, t, k
  <2>6. /\ t \in Seq(Seq(Names)) /\ Len(t) = Len(v1) + 1
        /\ \A r \in 1 .. Len(v1) + 1 :
             t[r] = IF r < k THEN v1[r] ELSE IF r = k THEN new ELSE v1[r - 1]
    <3>1. /\ InsertAt(v1, k, new) \in Seq(Seq(Names)) /\ Len(InsertAt(v1, k, new)) = Len(v1) + 1
          /\ \A r \in 1 .. Len(v1) + 1 :
               InsertAt(v1, k, new)[r] = IF r < k THEN v1[r] ELSE IF r = k THEN new ELSE v1[r - 1]
      BY <2>1, <2>4, RowInsertedAt
    <3> QED
      BY <2>5, <3>1
  <2>7. ASSUME NEW r \in 1 .. Len(t) PROVE RowOK(t[r], r, n)
    <3>1. CASE r < k
      <4>1. r \in 1 .. Len(v1) /\ t[r] = v1[r]
        BY <2>1, <2>4, <2>6, <3>1
      <4> QED
        BY <2>1, <4>1
    <3>2. CASE r = k
      BY <2>3, <2>6, <3>2
    <3>3. CASE r > k
      <4>1. r - 1 \in 1 .. Len(v1) /\ t[r] = v1[r - 1] /\ r - 1 > 1
        BY <2>1, <2>4, <2>6, <3>3 DEF k
      <4>2. RowOK(v1[r - 1], r - 1, n)
        BY <2>1, <4>1
      <4> QED
        BY <4>1, <4>2 DEF RowOK
    <3> QED
      BY <2>1, <2>4, <2>6, <3>1, <3>2, <3>3
  <2>8. TableOK(t) /\ \A r \in 1 .. Len(t) : Len(t[r]) = n
    BY <2>1, <2>6, <2>7, TableOf
  <2>9. CellOK(t, v2)
    <3>1. Len(v1) \in Nat
      BY <2>1
    <3>2. v2[1] \in 1 .. Len(t)
      BY <2>1, <2>6, <3>1
    <3>3. Len(t[v2[1]]) = n
      BY <2>8, <3>2
    <3> QED
      BY <2>1, <3>2, <3>3 DEF CellOK
  <2> QED
    BY <2>6, <2>8, <2>9, NotNone
<1> HIDE DEF t
<1> QED
  BY <1>1, <1>2, EditStep

LEMMA addColStep ==
  ASSUME BInv, B!_addCol
  PROVE  BInv'
<1> DEFINE t == [i \in DOMAIN v1 |-> B!InsertAt(v1[i], v2[2] + 1, v1[i][v2[2]])]
<1>1. B!Edit(t, v2)
  BY DEF B!_addCol
<1>2. ASSUME v2 # none PROVE TableOK(t) /\ t # none /\ CellOK(t, v2)
  <2> DEFINE n == Len(v1[1])
  <2>1. /\ v1 \in Seq(Seq(Names)) /\ v2[1] \in 1 .. Len(v1) /\ n \in Nat /\ v2[2] \in 1 .. n
        /\ \A r \in 1 .. Len(v1) : RowOK(v1[r], r, n)
    BY <1>2, InCell
  <2>2. DOMAIN v1 = 1 .. Len(v1) /\ Len(v1) \in Nat
    BY <2>1
  <2>3. \A r \in 1 .. Len(v1) : t[r] = InsertAt(v1[r], v2[2] + 1, v1[r][v2[2]])
    BY <2>2, ToolbarSequences
  <2> HIDE DEF n
  <2>4. ASSUME NEW r \in 1 .. Len(v1) PROVE RowOK(t[r], r, n + 1) /\ t[r] \in Seq(Names)
    <3>1. RowOK(t[r], r, n + 1)
      BY <2>1, <2>3, RowInserted
    <3> QED
      BY <3>1 DEF RowOK
  <2>5. t \in Seq(Seq(Names)) /\ Len(t) = Len(v1)
    <3>1. t = [i \in 1 .. Len(v1) |-> t[i]]
      BY <2>2
    <3> HIDE DEF t
    <3> QED
      BY <2>2, <2>4, <3>1
  <2> HIDE DEF t
  <2>6. TableOK(t) /\ \A r \in 1 .. Len(t) : Len(t[r]) = n + 1
    BY <2>1, <2>4, <2>5, TableOf
  <2>7. CellOK(t, v2)
    BY <2>1, <2>5, <2>6 DEF CellOK
  <2> QED
    BY <2>5, <2>6, <2>7, NotNone
<1> HIDE DEF t
<1> QED
  BY <1>1, <1>2, EditStep

LEMMA delRowStep ==
  ASSUME BInv, B!_delRow
  PROVE  BInv'
<1> DEFINE t == B!RemoveAt(v1, v2[1])
<1>1. B!Edit(t, none)
  BY DEF B!_delRow
<1>2. ASSUME v2 # none PROVE TableOK(t)
  <2> DEFINE n == Len(v1[1])
             k == v2[1]
  <2>1. /\ v1 \in Seq(Seq(Names)) /\ k \in 1 .. Len(v1) /\ n \in Nat
        /\ \A r \in 1 .. Len(v1) : RowOK(v1[r], r, n)
    BY <1>2, InCell
  <2>2. t = RemoveAt(v1, k)
    BY ToolbarSequences
  <2> HIDE DEF n, t, k
  <2>3. /\ t \in Seq(Seq(Names)) /\ Len(t) = Len(v1) - 1
        /\ \A r \in 1 .. Len(v1) - 1 : t[r] = IF r < k THEN v1[r] ELSE v1[r + 1]
    BY <2>1, <2>2, RemovedAt
  <2>4. ASSUME NEW r \in 1 .. Len(t) PROVE RowOK(t[r], r, n)
    <3>1. r \in 1 .. Len(v1) /\ r + 1 \in 1 .. Len(v1) /\ r \in 1 .. Len(v1) - 1
      BY <2>1, <2>3
    <3>2. RowOK(v1[r], r, n) /\ RowOK(v1[r + 1], r + 1, n)
      BY <2>1, <3>1
    <3>3. RowOK(v1[r + 1], r, n)
      BY <3>1, <3>2 DEF RowOK
    <3> QED
      BY <2>3, <3>1, <3>2, <3>3
  <2> QED
    BY <2>1, <2>3, <2>4, TableOf
<1> HIDE DEF t
<1> QED
  BY <1>1, <1>2, EditStep

LEMMA delColStep ==
  ASSUME BInv, B!_delCol
  PROVE  BInv'
<1> DEFINE t == [i \in DOMAIN v1 |-> B!RemoveAt(v1[i], v2[2])]
<1>1. B!Edit(t, none)
  BY DEF B!_delCol
<1>2. ASSUME v2 # none PROVE TableOK(t)
  <2> DEFINE n == Len(v1[1])
  <2>1. /\ v1 \in Seq(Seq(Names)) /\ n \in Nat /\ v2[2] \in 1 .. n
        /\ \A r \in 1 .. Len(v1) : RowOK(v1[r], r, n)
    BY <1>2, InCell
  <2>2. DOMAIN v1 = 1 .. Len(v1) /\ Len(v1) \in Nat
    BY <2>1
  <2>3. \A r \in 1 .. Len(v1) : t[r] = RemoveAt(v1[r], v2[2])
    BY <2>2, ToolbarSequences
  <2> HIDE DEF n
  <2>4. ASSUME NEW r \in 1 .. Len(v1) PROVE RowOK(t[r], r, n - 1) /\ t[r] \in Seq(Names)
    <3>1. RowOK(t[r], r, n - 1)
      BY <2>1, <2>3, RowRemoved
    <3> QED
      BY <3>1 DEF RowOK
  <2>5. t \in Seq(Seq(Names)) /\ Len(t) = Len(v1)
    <3>1. t = [i \in 1 .. Len(v1) |-> t[i]]
      BY <2>2
    <3> HIDE DEF t
    <3> QED
      BY <2>2, <2>4, <3>1
  <2> HIDE DEF t
  <2>6. n - 1 \in Nat
    BY <2>1
  <2> QED
    BY <2>4, <2>5, <2>6, TableOf
<1> HIDE DEF t
<1> QED
  BY <1>1, <1>2, EditStep

\* The caret is set in a cell that is there, or outside of the table.
LEMMA clickTextStep ==
  ASSUME BInv, NEW at \in B!Cells \union {none}, B!clickText(at)
  PROVE  BInv'
<1>1. v1' = v1 /\ v2' = at
  BY DEF B!clickText
<1>2. CASE at = none
  BY <1>1, <1>2 DEF BInv
<1>3. CASE at \in B!Cells
  <2>1. v1 # none /\ at[1] \in DOMAIN v1 /\ at[2] \in DOMAIN v1[at[1]]
    BY <1>3 DEF B!Cells
  <2>2. TableOK(v1)
    BY <2>1 DEF BInv
  <2>3. v1 \in Seq(Seq(Names)) /\ at[1] \in 1 .. Len(v1)
    BY <2>1, <2>2, TableRows
  <2>4. v1[at[1]] \in Seq(Names)
    BY <2>3
  <2>5. CellOK(v1, at)
    BY <2>1, <2>3, <2>4 DEF CellOK
  <2> QED
    BY <1>1, <2>1, <2>2, <2>5 DEF BInv
<1> QED
  BY <1>2, <1>3

LEMMA BInit ==
  ASSUME B!Init
  PROVE  BInv
BY DEF B!Init, BInv

LEMMA BStutter ==
  ASSUME BInv, UNCHANGED <<v1, v2>>
  PROVE  BInv'
BY DEF BInv

LEMMA BNext ==
  ASSUME BInv, B!Next
  PROVE  BInv'
<1>1. CASE \/ \E menu \in B!Menus : B!onClick(menu)
           \/ \E p \in v5 : B!close(p)
           \/ B!tryChangeActive
           \/ B!command
  BY <1>1, BStutter DEF B!onClick, B!close, B!tryChangeActive, B!command
<1>2. CASE \E at \in B!Cells \union {none} : B!clickText(at)
  BY <1>2, clickTextStep
<1>3. CASE \E rowNum, colNum \in Sizes : B!_insert(rowNum, colNum)
  BY <1>3, insertStep, ScriptsAssumption
<1>4. CASE B!_delTable
  <2>1. B!Edit(none, none)
    BY <1>4 DEF B!_delTable
  <2> QED
    BY <2>1, EditStep
<1> QED
  BY <1>1, <1>2, <1>3, <1>4, addRowStep, addColStep, delRowStep, delColStep DEF B!Next

\* Among cells that are all the same there is at most one kind.
LEMMA BRegular ==
  ASSUME BInv
  PROVE  B!TableRegular
<1> SUFFICES ASSUME v1 # none, NEW r \in DOMAIN v1
             PROVE  /\ Len(v1[r]) = Len(v1[1])
                    /\ B!Cardinality(B!ToSet(v1[r])) <= 1
                    /\ r > 1 => "TH" \notin B!ToSet(v1[r])
  BY DEF B!TableRegular
<1>1. TableOK(v1)
  BY DEF BInv
<1>2. r \in 1 .. Len(v1)
  BY <1>1, TableRows
<1> DEFINE n == Len(v1[1])
<1>3. RowOK(v1[r], r, n) /\ n \in Nat
  BY <1>1, <1>2, TableRows DEF TableOK
<1> DEFINE kinds == {v1[r][c] : c \in 1 .. n}
<1>4. B!ToSet(v1[r]) = kinds
  <2>1. DOMAIN v1[r] = 1 .. n
    BY <1>3 DEF RowOK
  <2> QED
    BY <2>1, ToolbarSequences, Zenon
<1> HIDE DEF n
<1>5. Cardinality(kinds) <= 1
  <2>1. \A x, y \in kinds : x = y
    BY <1>3 DEF RowOK
  <2> HIDE DEF kinds
  <2>2. CASE kinds = {}
    BY <2>2, FS_EmptySet
  <2>3. ASSUME NEW x \in kinds PROVE Cardinality(kinds) <= 1
    <3>1. kinds = {x}
      BY <2>1
    <3>2. Cardinality({x}) = 1
      BY FS_Singleton
    <3> QED
      BY <3>1, <3>2
  <2> QED
    BY <2>2, <2>3
<1>6. r > 1 => "TH" \notin kinds
  BY <1>3 DEF RowOK
<1>7. B!Cardinality(kinds) = Cardinality(kinds)
  BY DEF B!Cardinality, Cardinality
<1> QED
  BY <1>3, <1>4, <1>5, <1>6, <1>7 DEF RowOK, n

-----------------------------------------------------------------------------
(* The menus of a role *)

\* The dialog: its nodes hang together, its boxes are those of leaves, and what the form will
\* send follows from them or is what the role had.
DialogOK ==
  /\ v3 \subseteq RoleMenus /\ R!Upward(v3)
  /\ v4 \subseteq R!leaves(v3)
  /\ \/ v5 = R!checkNode(v3, v4)
     \/ v5 = v6 /\ v4 = {} /\ v7 = {}
  /\ \A leaf \in R!leaves(v3) \ v7 : leaf \in v4 <=> leaf \in v6

\* What the role has, or the form will give it, has with a menu what leads to it.
RInv ==
  /\ v1 \subseteq RoleMenus /\ R!Upward(v2)
  /\ v3 # none => DialogOK /\ R!Upward(v5)

\* The rows of a tree hang together: one whose parent is not there could be left out.
LEMMA TreeUpward ==
  ASSUME NEW data
  PROVE  R!dataFilter(data) \subseteq data /\ R!Upward(R!dataFilter(data))
<1> DEFINE nodes == R!dataFilter(data)
           Closed(ids) == \A x \in data : pid[x] \in ids \union {rootValue} => x \in ids
<1>1. nodes = {id \in data : \A ids \in SUBSET data : Closed(ids) => id \in ids}
  BY DEF R!dataFilter
<1> HIDE DEF nodes
<1>2. nodes \subseteq data
  BY <1>1
<1>3. ASSUME NEW x \in nodes, pid[x] \notin nodes \union {rootValue} PROVE FALSE
  <2> DEFINE rest == nodes \ {x}
  <2>1. ASSUME NEW y \in data, pid[y] \in rest \union {rootValue} PROVE y \in rest
    <3>1. ASSUME NEW ids \in SUBSET data, Closed(ids) PROVE y \in ids
      <4>1. pid[y] \in ids \union {rootValue}
        BY <1>1, <2>1, <3>1
      <4> QED
        BY <3>1, <4>1
    <3>2. y \in nodes
      BY <1>1, <3>1
    <3>3. y # x
      BY <1>3, <2>1
    <3> QED
      BY <3>2, <3>3
  <2>2. rest \in SUBSET data /\ Closed(rest)
    BY <1>2, <2>1
  <2> HIDE DEF rest
  <2>3. x \in rest
    BY <1>1, <1>3, <2>2
  <2> QED
    BY <2>3 DEF rest
<1>4. R!Upward(nodes)
  BY <1>3 DEF R!Upward
<1> QED
  BY <1>2, <1>4 DEF nodes

\* The path to a node of a tree stays in it, and leads up to the root.
LEMMA PathUpward ==
  ASSUME NEW nodes, nodes \subseteq RoleMenus, R!Upward(nodes), NEW l \in nodes
  PROVE  l \in R!path[l] /\ R!path[l] \subseteq nodes /\ R!Upward(R!path[l])
<1> DEFINE p == R!path[l]
<1>1. p = {x \in RoleMenus : \A ids \in SUBSET RoleMenus : l \in ids /\ R!Upward(ids) => x \in ids}
  BY DEF R!path
<1> HIDE DEF p
<1>2. l \in p /\ p \subseteq nodes
  BY <1>1
<1>3. ASSUME NEW x \in p, pid[x] # rootValue PROVE pid[x] \in p
  <2>1. x \in nodes /\ pid[x] \in RoleMenus
    BY <1>2, <1>3 DEF R!Upward
  <2>2. ASSUME NEW ids \in SUBSET RoleMenus, l \in ids, R!Upward(ids) PROVE pid[x] \in ids
    <3>1. x \in ids
      BY <1>1, <2>2
    <3> QED
      BY <1>3, <2>2, <3>1 DEF R!Upward
  <2> QED
    BY <1>1, <2>1, <2>2
<1>4. R!Upward(p)
  BY <1>3 DEF R!Upward
<1> QED
  BY <1>2, <1>4 DEF p

\* No leaf leads to another one.
LEMMA LeafEndsPath ==
  ASSUME NEW nodes, nodes \subseteq RoleMenus, R!Upward(nodes),
         NEW l \in R!leaves(nodes), NEW leaf \in R!leaves(nodes), leaf \in R!path[l]
  PROVE  leaf = l
<1> DEFINE p == R!path[l]
           up == {y \in p : y = l \/ y \notin R!leaves(nodes)}
<1>1. l \in nodes
  BY DEF R!leaves
<1>2. p = {x \in RoleMenus : \A ids \in SUBSET RoleMenus : l \in ids /\ R!Upward(ids) => x \in ids}
  BY <1>1 DEF R!path
<1>3. l \in p /\ p \subseteq nodes /\ R!Upward(p)
  BY <1>1, PathUpward
<1> HIDE DEF p
<1>4. ASSUME NEW y \in up PROVE pid[y] \in up \union {rootValue}
  <2>1. pid[y] \in p \union {rootValue} /\ y \in nodes
    BY <1>3 DEF R!Upward
  <2>2. pid[y] \notin R!leaves(nodes)
    BY <2>1 DEF R!leaves, R!isLeaf
  <2> QED
    BY <2>1, <2>2
<1>5. l \in up /\ R!Upward(up) /\ up \in SUBSET RoleMenus
  BY <1>3, <1>4 DEF R!Upward
<1> HIDE DEF up
<1>6. leaf \in up
  BY <1>2, <1>5 DEF p
<1> QED
  BY <1>6 DEF up

\* What is checked above the boxes hangs together, and of the leaves it has the boxes.
LEMMA CheckedUpward ==
  ASSUME NEW nodes, nodes \subseteq RoleMenus, R!Upward(nodes),
         NEW boxes, boxes \subseteq R!leaves(nodes)
  PROVE  /\ R!Upward(R!checkNode(nodes, boxes))
         /\ \A leaf \in R!leaves(nodes) : leaf \in R!checkNode(nodes, boxes) <=> leaf \in boxes
<1> DEFINE marked == R!checkNode(nodes, boxes)
<1>1. \A id : id \in marked <=> id \in nodes /\ \E l \in boxes : id \in R!path[l]
  BY DEF R!checkNode, R!below
<1> HIDE DEF marked
<1>2. ASSUME NEW id \in marked PROVE pid[id] \in marked \union {rootValue}
  <2>1. PICK l \in boxes : id \in R!path[l]
    BY <1>1
  <2>2. l \in nodes
    BY DEF R!leaves
  <2>3. R!path[l] \subseteq nodes /\ R!Upward(R!path[l])
    BY <2>2, PathUpward
  <2>4. pid[id] \in R!path[l] \union {rootValue}
    BY <2>1, <2>3 DEF R!Upward
  <2> QED
    BY <1>1, <2>3, <2>4
<1>3. ASSUME NEW leaf \in R!leaves(nodes) PROVE leaf \in marked <=> leaf \in boxes
  <2>1. leaf \in nodes
    BY DEF R!leaves
  <2>2. leaf \in R!path[leaf]
    BY <2>1, PathUpward
  <2>3. ASSUME NEW l \in boxes, leaf \in R!path[l] PROVE leaf = l
    BY <2>3, LeafEndsPath
  <2> QED
    BY <1>1, <2>1, <2>2, <2>3
<1>4. R!Upward(marked)
  BY <1>2 DEF R!Upward
<1> QED
  BY <1>3, <1>4 DEF marked

LEMMA RInit == R!Init => RInv
<1> SUFFICES ASSUME R!Init PROVE RInv
  OBVIOUS
<1>1. v1 \subseteq RoleMenus /\ v3 = none
  BY DEF R!Init
<1>2. PICK boxes \in SUBSET R!leaves(R!dataFilter(v1)) : v2 = R!checkNode(R!dataFilter(v1), boxes)
  BY DEF R!Init
<1>3. R!dataFilter(v1) \subseteq RoleMenus /\ R!Upward(R!dataFilter(v1))
  BY <1>1, TreeUpward
<1>4. R!Upward(v2)
  BY <1>2, <1>3, CheckedUpward
<1> QED
  BY <1>1, <1>4 DEF RInv

LEMMA RStutter == RInv /\ UNCHANGED <<v1, v2, v3, v4, v5, v6, v7>> => RInv'
BY DEF RInv, DialogOK, R!Upward, R!leaves, R!isLeaf, R!checkNode, R!below

LEMMA ROpen == RInv /\ R!open => RInv'
<1> SUFFICES ASSUME RInv, R!open PROVE RInv'
  OBVIOUS
<1> DEFINE nodes == R!dataFilter(v1)
           boxes == v2 \intersect R!leaves(nodes)
<1>1. /\ v3' = nodes /\ v4' = boxes /\ v6' = v2 /\ v7' = {} /\ v1' = v1 /\ v2' = v2
      /\ v5' = IF boxes = {} THEN v2 ELSE R!checkNode(nodes, boxes)
  BY DEF R!open, R!checkbox
<1>2. v1 \subseteq RoleMenus /\ R!Upward(v2)
  BY DEF RInv
<1>3. nodes \subseteq RoleMenus /\ R!Upward(nodes)
  BY <1>2, TreeUpward
<1> HIDE DEF nodes
<1>4. boxes \subseteq R!leaves(nodes) /\ \A leaf \in R!leaves(nodes) : leaf \in boxes <=> leaf \in v2
  OBVIOUS
<1> HIDE DEF boxes
<1>5. R!Upward(R!checkNode(nodes, boxes))
  BY <1>3, <1>4, CheckedUpward
<1>6. v5' = R!checkNode(nodes, boxes) \/ (v5' = v2 /\ boxes = {})
  BY <1>1
<1>7. R!Upward(v5)'
  BY <1>2, <1>5, <1>6 DEF R!Upward
<1>8. DialogOK'
  BY <1>1, <1>3, <1>4, <1>6 DEF DialogOK, R!Upward, R!leaves, R!isLeaf, R!checkNode, R!below
<1> QED
  BY <1>1, <1>2, <1>7, <1>8 DEF RInv, R!Upward

LEMMA RCheck ==
  ASSUME RInv, v3 # none, NEW id \in v3, R!onCheck(id)
  PROVE  RInv'
<1> DEFINE boxes == R!below(v3, id)
           new == IF boxes \subseteq v4 THEN v4 \ boxes ELSE v4 \union boxes
<1>1. /\ v4' = new /\ v7' = v7 \union boxes /\ v5' = R!checkNode(v3, new)
      /\ v1' = v1 /\ v2' = v2 /\ v3' = v3 /\ v6' = v6
  BY DEF R!onCheck
<1>2. DialogOK /\ v1 \subseteq RoleMenus /\ R!Upward(v2)
  BY DEF RInv
<1>3. boxes \subseteq R!leaves(v3)
  BY DEF R!below
<1>4. new \subseteq R!leaves(v3)
      /\ \A leaf \in R!leaves(v3) \ (v7 \union boxes) : leaf \in new <=> leaf \in v6
  BY <1>2, <1>3 DEF DialogOK
<1> HIDE DEF boxes, new
<1>5. R!Upward(R!checkNode(v3, new))
  BY <1>2, <1>4, CheckedUpward DEF DialogOK
<1>6. DialogOK'
  BY <1>1, <1>2, <1>4 DEF DialogOK, R!Upward, R!leaves, R!isLeaf, R!checkNode, R!below
<1>7. R!Upward(v5)'
  BY <1>1, <1>5 DEF R!Upward
<1> QED
  BY <1>1, <1>2, <1>6, <1>7 DEF RInv, R!Upward

LEMMA RNext == RInv /\ R!Next => RInv'
<1> SUFFICES ASSUME RInv, R!Next PROVE RInv'
  OBVIOUS
<1>1. CASE R!submit \/ R!cancel
  <2>1. v1' = v1 /\ v3' = none /\ (v2' = v2 \/ (v3 # none /\ v2' = v5))
    BY <1>1 DEF R!submit, R!cancel, R!Leave
  <2> QED
    BY <2>1 DEF RInv, R!Upward
<1>2. ASSUME NEW id \in RoleMenus, R!edit(id) PROVE RInv'
  <2>1. v1' \subseteq RoleMenus
    BY <1>2 DEF R!edit, RInv
  <2>2. UNCHANGED <<v2, v3, v4, v5, v6, v7>>
    BY <1>2 DEF R!edit
  <2> QED
    BY <2>1, <2>2
    DEF RInv, DialogOK, R!Upward, R!leaves, R!isLeaf, R!checkNode, R!below
<1> QED
  BY <1>1, <1>2, ROpen, RCheck DEF R!Next

LEMMA RKept == RInv => R!RoleKept
<1> SUFFICES ASSUME RInv, v3 # none
             PROVE  /\ \A leaf \in R!leaves(v3) \ v7 : leaf \in v5 <=> leaf \in v6
                    /\ \A id \in v5 \intersect v3 : pid[id] \in v5 \union {rootValue}
  BY DEF R!RoleKept
<1>1. DialogOK /\ R!Upward(v5)
  BY DEF RInv
<1>2. \A leaf \in R!leaves(v3) : leaf \in R!checkNode(v3, v4) <=> leaf \in v4
  BY <1>1, CheckedUpward DEF DialogOK
<1> QED
  BY <1>1, <1>2 DEF DialogOK, R!Upward

-----------------------------------------------------------------------------
(* The roles of an operator *)

Ids == M!hides \union {Unknown}

RoleNames == {RoleData[i].show : i \in DOMAIN RoleData}

\* The roles of one name.
Called(n) == {id \in M!hides : M!name(id) = n}

\* What is shown has a name as often as the target has roles of that name.
NamesAgree == \A n \in RoleNames : Many(v2, {n}) = Many(v1, Called(n))

MInv ==
  /\ v1 \in Seq(Ids) /\ Distinct(v1)
  /\ IF v4 THEN v3 = M!hides \intersect Range(v1) /\ v2 \in Seq(RoleNames \union {""}) /\ NamesAgree
     ELSE v2 = <<>>

LEMMA RolesOK ==
  /\ RoleData \in Seq([hide : STRING, show : STRING \ {""}])
  /\ \A i, j \in DOMAIN RoleData : RoleData[i].hide = RoleData[j].hide => i = j
  /\ Unknown \notin M!hides /\ "" \notin RoleNames
  /\ DOMAIN RoleData = 1 .. Len(RoleData) /\ Len(RoleData) \in Nat
<1>1. M!SelectAssumption
  BY ScriptsAssumption
<1>2. /\ RoleData \in Seq([hide : STRING, show : STRING \ {""}]) /\ Unknown \notin M!hides
      /\ \A i, j \in DOMAIN RoleData : RoleData[i].hide = RoleData[j].hide => i = j
  BY <1>1 DEF M!SelectAssumption
<1>3. DOMAIN RoleData = 1 .. Len(RoleData) /\ Len(RoleData) \in Nat
  BY <1>2, SeqDomain
<1>4. \A i \in DOMAIN RoleData : RoleData[i] \in [hide : STRING, show : STRING \ {""}]
  BY <1>2, <1>3, ElementOf
<1>5. \A i \in DOMAIN RoleData : RoleData[i].show # ""
  BY <1>4
<1> QED
  BY <1>2, <1>3, <1>5 DEF RoleNames

LEMMA NameOf ==
  ASSUME NEW i \in DOMAIN RoleData
  PROVE  M!name(RoleData[i].hide) = RoleData[i].show /\ M!name(RoleData[i].hide) \in RoleNames
<1>1. \A j \in DOMAIN RoleData : RoleData[j].hide = RoleData[i].hide => j = i
  BY RolesOK
<1> QED
  BY <1>1 DEF M!name, RoleNames

LEMMA IdsFinite == IsFiniteSet(Ids)
<1> DEFINE f == [i \in 1 .. Len(RoleData) |-> RoleData[i].hide]
<1>1. IsFiniteSet(1 .. Len(RoleData))
  <2>1. Len(RoleData) \in Nat
    BY RolesOK
  <2> QED
    BY <2>1, FS_Interval
<1>2. f \in Surjection(1 .. Len(RoleData), M!hides)
  BY RolesOK DEF Surjection, M!hides
<1>3. IsFiniteSet(M!hides)
  BY <1>1, <1>2, FS_Surjection
<1> QED
  BY <1>3, FS_AddElement DEF Ids

LEMMA MCardinality ==
  ASSUME NEW I
  PROVE  M!Cardinality(I) = Cardinality(I)
BY DEF M!Cardinality, Cardinality

LEMMA MInit == M!Init => MInv
<1> SUFFICES ASSUME M!Init PROVE MInv
  OBVIOUS
<1>1. PICK s \in SUBSET Ids : v1 \in M!SetToSeqs(s)
  BY DEF M!Init, Ids
<1>2. IsFiniteSet(s) /\ Cardinality(s) \in Nat
  BY IdsFinite, FS_Subset, FS_CardinalityType
<1>3. v1 \in [1 .. Cardinality(s) -> s] /\ \A i, j \in 1 .. Cardinality(s) : v1[i] = v1[j] => i = j
  BY <1>1, MCardinality DEF M!SetToSeqs
<1>4. v1 \in Seq(Ids) /\ Len(v1) = Cardinality(s)
  <2>1. v1 \in [1 .. Cardinality(s) -> Ids]
    BY <1>3
  <2> QED
    BY <1>2, <2>1, FunctionIsSeq
<1> QED
  BY <1>3, <1>4 DEF MInv, Distinct, M!Init

LEMMA MStutter == MInv /\ UNCHANGED <<v1, v2, v3, v4>> => MInv'
<1> SUFFICES ASSUME MInv, UNCHANGED <<v1, v2, v3, v4>> PROVE MInv'
  OBVIOUS
<1>1. \A n : (v4 => Many(v2', {n}) = Many(v2, {n})) /\ Many(v1', Called(n)) = Many(v1, Called(n))
  OBVIOUS
<1> QED
  BY <1>1 DEF MInv, NamesAgree, Called, M!name, M!hides, Distinct, RoleNames, Ids

\* The names of the roles that are selected, in the order of the data.
LEMMA NamesRendered ==
  ASSUME MInv, NEW shown,
         shown = LET checked == M!inOrder({i \in DOMAIN RoleData : RoleData[i].hide \in Range(v1)})
                 IN  [k \in DOMAIN checked |-> RoleData[checked[k]].show]
  PROVE  shown \in Seq(RoleNames) /\ \A n \in RoleNames : Many(shown, {n}) = Many(v1, Called(n))
<1> DEFINE I == {i \in 1 .. Len(RoleData) : RoleData[i].hide \in Range(v1)}
           c == Cardinality(I)
           order == M!inOrder(I)
<1>1. v1 \in Seq(Ids) /\ Distinct(v1)
  BY DEF MInv
<1>2. I \in SUBSET (1 .. Len(RoleData)) /\ Len(RoleData) \in Nat /\ DOMAIN RoleData = 1 .. Len(RoleData)
  <2>1. I \in SUBSET (1 .. Len(RoleData))
    OBVIOUS
  <2> HIDE DEF I
  <2> QED
    BY <2>1, RolesOK
<1>3. shown = [k \in DOMAIN order |-> RoleData[order[k]].show]
  BY <1>2
<1>4. \A i : i \in I <=> i \in DOMAIN RoleData /\ \E j \in 1 .. Len(v1) : v1[j] = RoleData[i].hide
  <2>1. \A x : x \in Range(v1) <=> \E j \in 1 .. Len(v1) : v1[j] = x
    BY <1>1, InRange
  <2> QED
    BY <1>2, <2>1
<1> HIDE DEF I
<1>5. order \in [1 .. c -> I] /\ Increasing(order)
  <2>1. \E s \in [1 .. c -> I] : Increasing(s)
    BY <1>2, OrderExists
  <2> QED
    BY <2>1, MCardinality DEF Increasing, M!inOrder, c, order
<1> HIDE DEF order
<1>6. order \in Bijection(1 .. c, I) /\ c \in Nat
  BY <1>2, <1>5, OrderComplete
<1> HIDE DEF c
<1>7. /\ \A k, l \in 1 .. c : order[k] = order[l] => k = l
      /\ \A i \in I : \E k \in 1 .. c : order[k] = i
      /\ \A k \in 1 .. c : order[k] \in I
      /\ DOMAIN order = 1 .. c
  BY <1>6 DEF Bijection, Injection, Surjection, IsInjective
<1>8. \A k \in 1 .. c : shown[k] = RoleData[order[k]].show /\ shown[k] \in RoleNames
  BY <1>3, <1>4, <1>7, ZenonT(40) DEF RoleNames
<1>9. shown \in Seq(RoleNames) /\ Len(shown) = c
  <2>1. shown \in [1 .. c -> RoleNames]
    BY <1>3, <1>7, <1>8
  <2> QED
    BY <1>6, <2>1, FunctionIsSeq
<1>10. ASSUME NEW n \in RoleNames PROVE Many(shown, {n}) = Many(v1, Called(n))
  <2> DEFINE is == Places(shown, {n})
             are == Places(v1, Called(n))
             at == [k \in is |-> CHOOSE j \in 1 .. Len(v1) : v1[j] = RoleData[order[k]].hide]
  <2>1. \A k : k \in is <=> k \in 1 .. c /\ RoleData[order[k]].show = n
    BY <1>8, <1>9 DEF Places
  <2>2. \A j : j \in are <=> j \in 1 .. Len(v1) /\ v1[j] \in Called(n)
    BY DEF Places
  <2>3. IsFiniteSet(is) /\ IsFiniteSet(are)
    BY <1>1, <1>9, PlacesFinite
  <2> HIDE DEF is, are
  <2>4. ASSUME NEW k \in is
        PROVE  at[k] \in are /\ v1[at[k]] = RoleData[order[k]].hide /\ order[k] \in DOMAIN RoleData
    <3>1. order[k] \in I /\ order[k] \in DOMAIN RoleData
      BY <1>4, <1>7, <2>1
    <3>2. at[k] \in 1 .. Len(v1) /\ v1[at[k]] = RoleData[order[k]].hide
      BY <1>4, <3>1
    <3>3. RoleData[order[k]].hide \in Called(n)
      BY <2>1, <3>1, NameOf DEF Called, M!hides
    <3> QED
      BY <2>2, <3>1, <3>2, <3>3
  <2>5. at \in Injection(is, are)
    <3>1. at \in [is -> are]
      BY <2>4
    <3>2. ASSUME NEW k \in is, NEW l \in is, at[k] = at[l] PROVE k = l
      <4>1. RoleData[order[k]].hide = RoleData[order[l]].hide
        BY <2>4, <3>2
      <4>2. order[k] = order[l]
        BY <2>4, <4>1, RolesOK
      <4> QED
        BY <1>7, <2>1, <4>2
    <3> HIDE DEF at
    <3> QED
      BY <3>1, <3>2 DEF Injection, IsInjective
  <2>6. ASSUME NEW j \in are PROVE \E k \in is : at[k] = j
    <3>1. j \in 1 .. Len(v1) /\ v1[j] \in M!hides /\ M!name(v1[j]) = n
      BY <2>2 DEF Called
    <3>2. PICK i \in DOMAIN RoleData : RoleData[i].hide = v1[j]
      BY <3>1 DEF M!hides
    <3>3. i \in I
      BY <1>4, <3>1, <3>2
    <3>4. PICK k \in 1 .. c : order[k] = i
      BY <1>7, <3>3
    <3>5. k \in is
      BY <2>1, <3>1, <3>2, <3>4, NameOf
    <3>6. at[k] \in 1 .. Len(v1) /\ v1[at[k]] = v1[j]
      BY <2>2, <2>4, <3>2, <3>4, <3>5
    <3>7. at[k] = j
      BY <1>1, <3>1, <3>6 DEF Distinct
    <3> QED
      BY <3>5, <3>7
  <2> HIDE DEF at
  <2>7. at \in Bijection(is, are)
    BY <2>5, <2>6 DEF Bijection, Injection, Surjection
  <2>8. ExistsBijection(is, are)
    BY <2>7 DEF ExistsBijection
  <2> QED
    BY <2>3, <2>8, FS_Bijection DEF Many, is, are
<1> QED
  BY <1>9, <1>10

LEMMA MRender == MInv /\ M!render => MInv'
<1> SUFFICES ASSUME MInv, M!render PROVE MInv'
  OBVIOUS
<1>1. v1' = v1 /\ v4' = TRUE
  BY DEF M!render
<1>2. v1 \in Seq(Ids) /\ Distinct(v1)
  BY DEF MInv
<1>3. M!Range(v1) = Range(v1)
  BY DEF M!Range, Range
<1>4. /\ v2' = LET checked == M!inOrder({i \in DOMAIN RoleData : RoleData[i].hide \in Range(v1)})
               IN  [k \in DOMAIN checked |-> RoleData[checked[k]].show]
      /\ v3' = M!hides \intersect Range(v1)
  BY <1>3 DEF M!render
<1>5. v2' \in Seq(RoleNames) /\ \A n \in RoleNames : Many(v2', {n}) = Many(v1, Called(n))
  BY <1>4, NamesRendered
<1>6. v2' \in Seq(RoleNames \union {""})
  BY <1>5, WiderSeq
<1> QED
  BY <1>1, <1>2, <1>4, <1>5, <1>6, ZenonT(40)
  DEF MInv, NamesAgree, Many, Places, Called, M!name, M!hides, Distinct, RoleNames, Ids

LEMMA MAdd ==
  ASSUME MInv, NEW hide \in M!hides, M!add(hide)
  PROVE  MInv'
<1> DEFINE name == M!name(hide)
           base == IF v1 = <<>> \/ v2 = <<>> THEN (IF v1 = <<>> THEN <<>> ELSE <<"">>) ELSE v2
<1>1. /\ v4 = TRUE /\ v4' = TRUE /\ hide \notin v3 /\ v3' = v3 \union {hide} /\ v1' = Append(v1, hide)
      /\ v2' = IF v1 = <<>> THEN <<name>> ELSE Append(IF v2 = <<>> THEN <<"">> ELSE v2, name)
  BY DEF M!add
<1>2. /\ v1 \in Seq(Ids) /\ Distinct(v1) /\ v3 = M!hides \intersect Range(v1)
      /\ v2 \in Seq(RoleNames \union {""}) /\ NamesAgree
  BY <1>1 DEF MInv
<1>3. hide \in Ids /\ hide \notin Range(v1) /\ name \in RoleNames
  <2>1. PICK i \in DOMAIN RoleData : RoleData[i].hide = hide
    BY DEF M!hides
  <2>2. name \in RoleNames
    BY <2>1, NameOf
  <2> QED
    BY <1>1, <1>2, <2>2 DEF Ids
<1>4. /\ v1' \in Seq(Ids) /\ Len(v1') = Len(v1) + 1 /\ v1'[Len(v1) + 1] = hide
      /\ \A i \in 1 .. Len(v1) : v1'[i] = v1[i]
  <2>1. /\ Append(v1, hide) \in Seq(Ids) /\ Len(Append(v1, hide)) = Len(v1) + 1
        /\ Append(v1, hide)[Len(v1) + 1] = hide
        /\ \A i \in 1 .. Len(v1) : Append(v1, hide)[i] = v1[i]
    <3>1. v1 \in Seq(Ids) /\ hide \in Ids
      BY <1>2, <1>3
    <3> QED
      BY ONLY <3>1, Appended
  <2>2. v1' = Append(v1, hide)
    BY <1>1
  <2> QED
    BY <2>1, <2>2, Zenon
<1>5. \A i \in 1 .. Len(v1) : v1[i] # hide
  BY <1>2, <1>3, InRange
<1>6. Distinct(v1)'
  <2>1. Len(v1) \in Nat
    BY <1>2, SeqDomain
  <2>2. \A i \in 1 .. Len(v1) + 1 : i = Len(v1) + 1 \/ i \in 1 .. Len(v1)
    BY <2>1
  <2> QED
    BY <1>2, <1>4, <1>5, <2>2 DEF Distinct
<1>7. Range(v1') = Range(v1) \union {hide}
  <2>1. \A x : x \in Range(v1') <=> \E i \in 1 .. Len(v1') : v1'[i] = x
    BY <1>4, InRange
  <2>2. \A x : x \in Range(v1) <=> \E i \in 1 .. Len(v1) : v1[i] = x
    BY <1>2, InRange, ZenonT(40)
  <2>3. Len(v1) \in Nat
    BY <1>2, SeqDomain
  <2>4. ASSUME NEW x PROVE x \in Range(v1') <=> x \in Range(v1) \/ x = hide
    <3>1. x \in Range(v1') => x \in Range(v1) \/ x = hide
      <4>1. \A i \in 1 .. Len(v1) + 1 : i = Len(v1) + 1 \/ i \in 1 .. Len(v1)
        BY <2>3
      <4> QED
        BY <1>4, <2>1, <2>2, <4>1
    <3>2. x \in Range(v1) => x \in Range(v1')
      <4>1. \A i \in 1 .. Len(v1) : i \in 1 .. Len(v1) + 1
        BY <2>3
      <4> QED
        BY <1>4, <2>1, <2>2, <4>1
    <3>3. Len(v1) + 1 \in 1 .. Len(v1) + 1
      BY <2>3
    <3> QED
      BY <1>4, <2>1, <3>1, <3>2, <3>3
  <2> QED
    BY <2>4
<1>8. base \in Seq(RoleNames \union {""}) /\ v2' = Append(base, name)
  <2> HIDE DEF name
  <2>1. <<>> \in Seq(RoleNames \union {""}) /\ <<"">> \in Seq(RoleNames \union {""})
    OBVIOUS
  <2>2. Append(<<>>, name) = <<name>>
    OBVIOUS
  <2>3. CASE v1 = <<>>
    BY <1>1, <2>1, <2>2, <2>3
  <2>4. CASE v1 # <<>>
    BY <1>1, <1>2, <2>1, <2>4
  <2> QED
    BY <2>3, <2>4
<1>9. ASSUME NEW n \in RoleNames PROVE Many(base, {n}) = Many(v1, Called(n)) /\ Many(v1, Called(n)) \in Nat
  <2>1. Many(v1, Called(n)) \in Nat /\ Many(v2, {n}) = Many(v1, Called(n))
    BY <1>2, PlacesFinite DEF NamesAgree
  <2>2. n # ""
    BY RolesOK
  <2>3. CASE v1 = <<>>
    <3>1. base = <<>> /\ Unknown \notin Called(n)
      BY <2>3, RolesOK DEF Called
    <3>2. Many(v1, Called(n)) = 0 /\ Many(base, {n}) = 0
      BY <2>2, <2>3, <3>1, ManyOfNone
    <3> QED
      BY <2>1, <3>2
  <2>4. CASE v1 # <<>> /\ v2 = <<>>
    <3>1. base = <<"">> /\ "" \notin {n}
      BY <2>2, <2>4
    <3>2. Many(v2, {n}) = 0 /\ Many(base, {n}) = 0
      BY <2>4, <3>1, ManyOfNone
    <3> QED
      BY <2>1, <3>2
  <2>5. CASE v1 # <<>> /\ v2 # <<>>
    BY <2>1, <2>5
  <2> QED
    BY <2>3, <2>4, <2>5
<1> HIDE DEF base, name
<1>10. ASSUME NEW n \in RoleNames PROVE Many(v2', {n}) = Many(v1', Called(n))
  <2>1. Many(v2', {n}) = Many(base, {n}) + IF name \in {n} THEN 1 ELSE 0
    <3>1. name \in RoleNames \union {""}
      BY <1>3
    <3> QED
      BY <1>8, <3>1, ManyAppended, ZenonT(40)
  <2>2. Many(v1', Called(n)) = Many(v1, Called(n)) + IF hide \in Called(n) THEN 1 ELSE 0
    BY <1>1, <1>2, <1>3, ManyAppended
  <2>3. hide \in Called(n) <=> name \in {n}
    BY DEF Called, name
  <2> QED
    BY <1>9, <2>1, <2>2, <2>3
<1>11. v2' \in Seq(RoleNames \union {""})
  <2>1. name \in RoleNames \union {""}
    BY <1>3
  <2> QED
    BY <1>8, <2>1, Appended
<1>12. v3' = M!hides \intersect Range(v1')
  BY <1>1, <1>2, <1>7
<1> QED
  BY <1>1, <1>4, <1>6, <1>10, <1>11, <1>12
  DEF MInv, NamesAgree, Called, M!name, M!hides, RoleNames, Ids

LEMMA MRemoveFirst ==
  ASSUME NEW s, NEW x
  PROVE  M!RemoveFirst(s, x) = RemoveFirst(s, x)
<1>1. M!SelectInSeq(s, LAMBDA v : v = x) = SelectInSeq(s, LAMBDA v : v = x)
  BY DEF M!SelectInSeq, SelectInSeq, M!Min, Min
<1> QED
  BY <1>1 DEF M!RemoveFirst, RemoveFirst, M!RemoveAt, RemoveAt

\* removeValue takes away the first.
LEMMA ValueRemoved ==
  ASSUME NEW Elems, NEW s \in Seq(Elems), NEW x, x \in Range(s)
  PROVE  \E k : FirstAt(s, k, x) /\ M!removeValue(s, x) = RemoveAt(s, k)
<1>1. PICK k : FirstAt(s, k, x)
  BY InRange, FirstPlace
<1>2. RemoveFirst(s, x) = RemoveAt(s, k)
  BY <1>1, FirstSelected
<1>3. M!Range(s) = Range(s)
  BY DEF M!Range, Range
<1> QED
  BY <1>1, <1>2, <1>3, MRemoveFirst DEF M!removeValue

LEMMA MRemove ==
  ASSUME MInv, NEW hide \in M!hides, M!remove(hide)
  PROVE  MInv'
<1> DEFINE name == M!name(hide)
           names == M!removeValue(v2, name)
<1>1. v4 = TRUE /\ v4' = TRUE /\ hide \in v3 /\ v3' = v3 \ {hide}
  BY DEF M!remove
<1>2. /\ v1 \in Seq(Ids) /\ Distinct(v1) /\ v3 = M!hides \intersect Range(v1)
      /\ v2 \in Seq(RoleNames \union {""}) /\ NamesAgree
  BY <1>1 DEF MInv
<1>3. hide \in Range(v1) /\ hide \in M!Range(v1)
  BY <1>1, <1>2 DEF M!Range, Range
<1>4. v1' = M!removeValue(v1, hide) /\ v2' = IF names = <<"">> THEN <<>> ELSE names
  BY <1>3 DEF M!remove
<1>5. PICK k : FirstAt(v1, k, hide) /\ v1' = RemoveAt(v1, k)
  BY <1>2, <1>3, <1>4, ValueRemoved
<1>6. k \in 1 .. Len(v1) /\ v1[k] = hide
  BY <1>5 DEF FirstAt
<1>7. /\ v1' \in Seq(Ids) /\ Len(v1') = Len(v1) - 1
      /\ \A j \in 1 .. Len(v1) - 1 : v1'[j] = IF j < k THEN v1[j] ELSE v1[j + 1]
  BY <1>2, <1>5, <1>6, RemovedAt
<1>8. name \in RoleNames
  <2>1. PICK i \in DOMAIN RoleData : RoleData[i].hide = hide
    BY DEF M!hides
  <2> QED
    BY <2>1, NameOf
<1>9. name \in Range(v2)
  <2>1. k \in Places(v1, Called(name))
    BY <1>6 DEF Places, Called
  <2>2. IsFiniteSet(Places(v1, Called(name))) /\ IsFiniteSet(Places(v2, {name}))
    BY <1>2, PlacesFinite
  <2>3. Many(v1, Called(name)) # 0
    BY <2>1, <2>2, FS_EmptySet DEF Many
  <2>4. Places(v2, {name}) # {}
    <3>1. Many(v2, {name}) # 0
      BY <1>2, <1>8, <2>3 DEF NamesAgree
    <3> QED
      BY <2>2, <3>1, FS_EmptySet DEF Many
  <2>5. \E i \in 1 .. Len(v2) : v2[i] = name
    BY <2>4 DEF Places
  <2> QED
    BY <1>2, <2>5, InRange
<1>10. PICK l : FirstAt(v2, l, name) /\ names = RemoveAt(v2, l)
  BY <1>2, <1>9, ValueRemoved
<1>11. l \in 1 .. Len(v2) /\ v2[l] = name
  BY <1>10 DEF FirstAt
<1>12. names \in Seq(RoleNames \union {""})
  BY <1>2, <1>10, <1>11, RemovedAt
<1> HIDE DEF names
<1>13. ASSUME NEW n \in RoleNames PROVE Many(v2', {n}) = Many(v1', Called(n))
  <2>1. Many(names, {n}) = Many(v2, {n}) - IF name \in {n} THEN 1 ELSE 0
    <3> HIDE DEF name
    <3>1. v2 \in Seq(RoleNames \union {""})
      BY <1>2
    <3>2. Many(RemoveAt(v2, l), {n}) = Many(v2, {n}) - IF v2[l] \in {n} THEN 1 ELSE 0
      BY <1>11, <3>1, ManyRemoved
    <3> QED
      BY <1>10, <1>11, <3>2
  <2>2. Many(v1', Called(n)) = Many(v1, Called(n)) - IF hide \in Called(n) THEN 1 ELSE 0
    BY <1>2, <1>5, <1>6, ManyRemoved
  <2>3. hide \in Called(n) <=> name \in {n}
    BY DEF Called
  <2>4. Many(names, {n}) = Many(v1', Called(n))
    BY <1>2, <2>1, <2>2, <2>3 DEF NamesAgree
  <2>5. CASE names = <<"">>
    <3>1. v2' = <<>> /\ "" \notin {n}
      BY <1>4, <2>5, RolesOK
    <3>2. Many(v2', {n}) = 0 /\ Many(names, {n}) = 0
      BY <2>5, <3>1, ManyOfNone
    <3> QED
      BY <2>4, <3>2
  <2>6. CASE names # <<"">>
    BY <1>4, <2>4, <2>6
  <2> QED
    BY <2>5, <2>6
<1>14. v2' \in Seq(RoleNames \union {""})
  <2>1. <<>> \in Seq(RoleNames \union {""})
    OBVIOUS
  <2> QED
    BY <1>4, <1>12, <2>1
<1>15. Distinct(v1)'
  <2>1. ASSUME NEW i \in 1 .. Len(v1) - 1, NEW j \in 1 .. Len(v1) - 1, v1'[i] = v1'[j] PROVE i = j
    <3>1. \A x \in 1 .. Len(v1) - 1 : x \in 1 .. Len(v1) /\ x + 1 \in 1 .. Len(v1)
      BY <1>6
    <3> QED
      <4>1. \A x \in 1 .. Len(v1), y \in 1 .. Len(v1) : v1[x] = v1[y] => x = y
        BY <1>2 DEF Distinct
      <4>2. CASE i < k /\ j < k
        BY <1>7, <2>1, <3>1, <4>1, <4>2
      <4>3. CASE i < k /\ ~(j < k)
        <5>1. i = j + 1
          BY <1>7, <2>1, <3>1, <4>1, <4>3
        <5> QED
          BY <1>6, <4>3, <5>1
      <4>4. CASE ~(i < k) /\ j < k
        <5>1. i + 1 = j
          BY <1>7, <2>1, <3>1, <4>1, <4>4
        <5> QED
          BY <1>6, <4>4, <5>1
      <4>5. CASE ~(i < k) /\ ~(j < k)
        <5>1. i + 1 = j + 1
          BY <1>7, <2>1, <3>1, <4>1, <4>5
        <5> QED
          BY <5>1
      <4> QED
        BY <4>2, <4>3, <4>4, <4>5
  <2> QED
    BY <1>7, <2>1 DEF Distinct
<1>16. ASSUME NEW x PROVE x \in Range(v1') <=> x \in Range(v1) /\ x # hide
  <2>1. x \in Range(v1') <=> \E i \in 1 .. Len(v1) - 1 : v1'[i] = x
    BY <1>7, InRange
  <2>2. x \in Range(v1) <=> \E i \in 1 .. Len(v1) : v1[i] = x
    BY <1>2, InRange
  <2>3. ASSUME NEW i \in 1 .. Len(v1) - 1 PROVE \E j \in 1 .. Len(v1) : v1[j] = v1'[i] /\ j # k
    <3>1. CASE i < k
      BY <1>6, <1>7, <3>1
    <3>2. CASE ~(i < k)
      BY <1>6, <1>7, <3>2
    <3> QED
      BY <3>1, <3>2
  <2>4. ASSUME NEW j \in 1 .. Len(v1), j # k PROVE \E i \in 1 .. Len(v1) - 1 : v1'[i] = v1[j]
    <3>1. CASE j < k
      BY <1>6, <1>7, <3>1
    <3>2. CASE j > k
      <4>1. j - 1 \in 1 .. Len(v1) - 1 /\ ~(j - 1 < k) /\ (j - 1) + 1 = j
        BY <1>6, <3>2
      <4>2. v1'[j - 1] = v1[(j - 1) + 1]
        BY <1>7, <4>1
      <4> QED
        BY <4>1, <4>2
    <3> QED
      BY <1>6, <2>4, <3>1, <3>2
  <2>5. \A j \in 1 .. Len(v1) : v1[j] = hide => j = k
    BY <1>2, <1>6 DEF Distinct
  <2> QED
    BY <1>6, <2>1, <2>2, <2>3, <2>4, <2>5
<1>17. v3' = M!hides \intersect Range(v1')
  BY <1>1, <1>2, <1>16
<1> QED
  BY <1>1, <1>7, <1>13, <1>14, <1>15, <1>17
  DEF MInv, NamesAgree, Called, M!name, M!hides, RoleNames, Ids

LEMMA MNext == MInv /\ M!Next => MInv'
BY MRender, MAdd, MRemove DEF M!Next

LEMMA MAgrees == MInv => M!SelectionAgrees
<1> SUFFICES ASSUME MInv, v4 PROVE M!SelectionAgrees
  BY DEF M!SelectionAgrees
<1>1. /\ v1 \in Seq(Ids) /\ v3 = M!hides \intersect Range(v1)
      /\ v2 \in Seq(RoleNames \union {""}) /\ NamesAgree
  BY DEF MInv
<1>2. M!Range(v1) = Range(v1) /\ DOMAIN v1 = 1 .. Len(v1) /\ DOMAIN v2 = 1 .. Len(v2)
  BY <1>1, SeqDomain DEF M!Range, Range
<1>3. ASSUME NEW n \in RoleNames
      PROVE  M!Cardinality({i \in DOMAIN v2 : v2[i] = n})
               = M!Cardinality({i \in DOMAIN v1 : v1[i] # Unknown /\ M!name(v1[i]) = n})
  <2>1. {i \in DOMAIN v2 : v2[i] = n} = Places(v2, {n})
    BY <1>2 DEF Places
  <2>2. \A i \in 1 .. Len(v1) : v1[i] \in M!hides <=> v1[i] # Unknown
    <3>1. \A i \in 1 .. Len(v1) : v1[i] \in Ids
      BY <1>1, ElementOf
    <3> QED
      BY <3>1, RolesOK DEF Ids
  <2>3. {i \in DOMAIN v1 : v1[i] # Unknown /\ M!name(v1[i]) = n} = Places(v1, Called(n))
    BY <1>2, <2>2 DEF Places, Called
  <2> QED
    BY <1>1, <2>1, <2>3, MCardinality DEF NamesAgree, Many
<1> QED
  BY <1>1, <1>2, <1>3 DEF M!SelectionAgrees, RoleNames

-----------------------------------------------------------------------------
(* The panels of the first page *)

Cols == DOMAIN State

Placed == Panels \union {P!spacer}

\* Something is in one of the columns.
In(x, cs) == \E i \in Cols : Contains(cs[i], x)

\* Columns in which everything is once.
Board(cs) ==
  /\ cs \in [Cols -> Seq(Placed)]
  /\ \A i \in Cols : Distinct(cs[i])
  /\ \A i, k \in Cols : \A x : Contains(cs[i], x) /\ Contains(cs[k], x) => i = k

\* Where it is before a drag, the board is that of the last one but for one panel; during
\* one it is that of its beginning but for the spacer.
PInv ==
  /\ Board(v1) /\ Board(v4) /\ ~In(P!spacer, v4)
  /\ v2 \in Panels \union {P!nothing}
  /\ IF v2 = P!nothing
     THEN /\ \A x : In(x, v1) <=> In(x, v4)
          /\ \E p \in Panels : P!Without(p, v1) = P!Without(p, v4)
     ELSE P!Without(P!spacer, v1) = v4 /\ In(P!spacer, v1) /\ In(v2, v4)

LEMMA PanelsOK == Panels # {} /\ P!spacer \notin Panels /\ P!nothing \notin Panels
<1>1. P!PortalAssumption
  BY ScriptsAssumption
<1> QED
  BY <1>1 DEF P!PortalAssumption

LEMMA StateOK ==
  /\ \A i \in Cols : State[i] \in Seq(STRING)
  /\ \A i, k \in Cols : \A j \in DOMAIN State[i], l \in DOMAIN State[k] :
       State[i][j] = State[k][l] => i = k /\ j = l
<1>1. P!PortalAssumption
  BY ScriptsAssumption
<1>2. State \in Seq(Seq(STRING))
  BY <1>1 DEF P!PortalAssumption
<1>3. \A i \in Cols : State[i] \in Seq(STRING)
  BY <1>2, SeqDomain, ElementOf DEF Cols
<1> QED
  BY <1>1, <1>3 DEF P!PortalAssumption, Cols

LEMMA PSame ==
  ASSUME NEW s, NEW x, NEW i
  PROVE  /\ P!RemoveFirst(s, x) = RemoveFirst(s, x) /\ P!InsertAt(s, i, x) = InsertAt(s, i, x)
         /\ P!Contains(s, x) = Contains(s, x)
<1>1. P!SelectInSeq(s, LAMBDA v : v = x) = SelectInSeq(s, LAMBDA v : v = x)
  BY DEF P!SelectInSeq, SelectInSeq, P!Min, Min
<1> QED
  BY <1>1 DEF P!RemoveFirst, RemoveFirst, P!RemoveAt, RemoveAt, P!InsertAt, InsertAt, P!Contains, Contains

LEMMA PCardinality ==
  ASSUME NEW I
  PROVE  P!Cardinality(I) = Cardinality(I)
BY DEF P!Cardinality, Cardinality

LEMMA WithoutIt ==
  ASSUME NEW cs, Board(cs), NEW x
  PROVE  P!Without(x, cs) = [i \in Cols |-> RemoveFirst(cs[i], x)]
BY PSame DEF P!Without, Board

LEMMA WithoutBoard ==
  ASSUME NEW cs, Board(cs), NEW x
  PROVE  /\ Board(P!Without(x, cs))
         /\ \A y : In(y, P!Without(x, cs)) <=> In(y, cs) /\ y # x
<1> DEFINE ds == P!Without(x, cs)
<1>1. ds = [i \in Cols |-> RemoveFirst(cs[i], x)]
  BY WithoutIt
<1>2. /\ cs \in [Cols -> Seq(Placed)] /\ \A i \in Cols : Distinct(cs[i])
      /\ \A i, k \in Cols : \A y : Contains(cs[i], y) /\ Contains(cs[k], y) => i = k
  BY DEF Board
<1> HIDE DEF ds
<1>3. ASSUME NEW i \in Cols
      PROVE  /\ ds[i] \in Seq(Placed) /\ Distinct(ds[i])
             /\ \A y : Contains(ds[i], y) <=> Contains(cs[i], y) /\ y # x
  <2>1. cs[i] \in Seq(Placed) /\ ds[i] = RemoveFirst(cs[i], x)
    BY <1>1, <1>2
  <2> QED
    BY <1>2, <2>1, FirstRemoved, RemovedContains
<1>4. ds \in [Cols -> Seq(Placed)]
  BY <1>1, <1>3
<1>5. Board(ds)
  BY <1>2, <1>3, <1>4 DEF Board
<1>6. \A y : In(y, ds) <=> In(y, cs) /\ y # x
  BY <1>3 DEF In
<1> QED
  BY <1>5, <1>6 DEF ds

LEMMA WithoutNone ==
  ASSUME NEW cs, Board(cs), NEW x, ~In(x, cs)
  PROVE  P!Without(x, cs) = cs
<1>1. \A i \in Cols : RemoveFirst(cs[i], x) = cs[i]
  BY NotRemoved DEF In
<1>2. cs = [i \in Cols |-> cs[i]]
  BY DEF Board
<1> QED
  BY <1>1, <1>2, WithoutIt

LEMMA WithoutBoth ==
  ASSUME NEW cs, Board(cs), NEW x, NEW y
  PROVE  P!Without(x, P!Without(y, cs)) = P!Without(y, P!Without(x, cs))
<1>1. /\ P!Without(x, cs) = [i \in Cols |-> RemoveFirst(cs[i], x)]
      /\ P!Without(y, cs) = [i \in Cols |-> RemoveFirst(cs[i], y)]
  BY WithoutIt
<1>2. Board(P!Without(x, cs)) /\ Board(P!Without(y, cs))
  BY WithoutBoard
<1>3. /\ P!Without(x, P!Without(y, cs)) = [i \in Cols |-> RemoveFirst(RemoveFirst(cs[i], y), x)]
      /\ P!Without(y, P!Without(x, cs)) = [i \in Cols |-> RemoveFirst(RemoveFirst(cs[i], x), y)]
  BY <1>1, <1>2, WithoutIt
<1>4. \A i \in Cols : RemoveFirst(RemoveFirst(cs[i], y), x) = RemoveFirst(RemoveFirst(cs[i], x), y)
  <2>1. ASSUME NEW i \in Cols PROVE cs[i] \in Seq(Placed) /\ Distinct(cs[i])
    BY DEF Board
  <2> QED
    BY <2>1, RemovesCommute
<1> QED
  BY <1>3, <1>4

\* Something that was not there is put in a column.
Put(cs, c, n, x) == [cs EXCEPT ![c] = InsertAt(cs[c], n, x)]

LEMMA PutIn ==
  ASSUME NEW cs, Board(cs), NEW x \in Placed, ~In(x, cs), NEW c \in Cols, NEW n \in 1 .. Len(cs[c]) + 1
  PROVE  /\ Board(Put(cs, c, n, x)) /\ P!Without(x, Put(cs, c, n, x)) = cs
         /\ \A y : In(y, Put(cs, c, n, x)) <=> In(y, cs) \/ y = x
<1> DEFINE ds == Put(cs, c, n, x)
<1>1. /\ cs \in [Cols -> Seq(Placed)] /\ \A i \in Cols : Distinct(cs[i])
      /\ \A i, k \in Cols : \A y : Contains(cs[i], y) /\ Contains(cs[k], y) => i = k
  BY DEF Board
<1>2. \A i \in Cols : cs[i] \in Seq(Placed) /\ ~Contains(cs[i], x)
  BY <1>1 DEF In
<1>3. /\ InsertAt(cs[c], n, x) \in Seq(Placed) /\ Distinct(InsertAt(cs[c], n, x))
      /\ RemoveFirst(InsertAt(cs[c], n, x), x) = cs[c]
  <2>1. cs[c] \in Seq(Placed) /\ Distinct(cs[c]) /\ ~Contains(cs[c], x)
    BY <1>1, <1>2
  <2>2. InsertAt(cs[c], n, x) \in Seq(Placed)
    BY <2>1, InsertedAt
  <2>3. Distinct(InsertAt(cs[c], n, x))
    BY <2>1, InsertedDistinct
  <2>4. RemoveFirst(InsertAt(cs[c], n, x), x) = cs[c]
    BY <2>1, InsertedRemoved
  <2> QED
    BY <2>2, <2>3, <2>4
<1>4. \A y : Contains(InsertAt(cs[c], n, x), y) <=> Contains(cs[c], y) \/ y = x
  <2>1. cs[c] \in Seq(Placed)
    BY <1>2
  <2> QED
    BY <2>1, InsertedContains
<1>5. ds = [i \in Cols |-> IF i = c THEN InsertAt(cs[c], n, x) ELSE cs[i]]
  BY <1>1 DEF Put
<1> HIDE DEF ds
<1>6. ds \in [Cols -> Seq(Placed)]
  BY <1>2, <1>3, <1>5
<1>7. \A i \in Cols : Distinct(ds[i])
  BY <1>1, <1>3, <1>5
<1>8. \A i \in Cols : \A y : Contains(ds[i], y) <=> Contains(cs[i], y) \/ (i = c /\ y = x)
  BY <1>4, <1>5
<1>9. Board(ds)
  <2>1. ASSUME NEW i \in Cols, NEW k \in Cols, NEW y, Contains(ds[i], y), Contains(ds[k], y) PROVE i = k
    BY <1>1, <1>2, <1>8, <2>1, ZenonT(40)
  <2> QED
    BY <1>6, <1>7, <2>1 DEF Board
<1>10. \A y : In(y, ds) <=> In(y, cs) \/ y = x
  BY <1>8 DEF In
<1>11. P!Without(x, ds) = cs
  <2>1. \A i \in Cols : RemoveFirst(ds[i], x) = cs[i]
    BY <1>2, <1>3, <1>5, NotRemoved
  <2>2. P!Without(x, ds) = [i \in Cols |-> RemoveFirst(ds[i], x)]
    <3>1. Board(ds)
      BY <1>9
    <3>2. P!Without(x, ds) = [i \in Cols |-> RemoveFirst(ds[i], x)]
      BY ONLY <3>1, WithoutIt
    <3> QED BY <3>2
  <2>3. P!Without(x, ds) = [i \in Cols |-> cs[i]]
    BY <2>1, <2>2
  <2> QED
    BY <1>1, <2>3
<1> QED
  BY <1>9, <1>10, <1>11 DEF ds

LEMMA Inserted ==
  ASSUME NEW cs, Board(cs), NEW x \in Placed, ~In(x, cs), NEW target, In(target, cs),
         NEW shift \in {0, 1}
  PROVE  /\ Board(P!insert(x, cs, target, shift)) /\ P!Without(x, P!insert(x, cs, target, shift)) = cs
         /\ \A y : In(y, P!insert(x, cs, target, shift)) <=> In(y, cs) \/ y = x
<1> DEFINE c == P!Column(target, cs)
           ds == P!insert(x, cs, target, shift)
<1>1. cs \in [Cols -> Seq(Placed)]
  BY DEF Board
<1>2. c \in Cols /\ Contains(cs[c], target)
  <2>1. \E i \in Cols : P!Contains(cs[i], target)
    BY PSame DEF In
  <2>2. c \in Cols /\ P!Contains(cs[c], target)
    BY <1>1, <2>1 DEF P!Column
  <2> QED
    BY <2>2, PSame
<1>3. cs[c] \in Seq(Placed)
  BY <1>1, <1>2
<1>4. PICK k : FirstAt(cs[c], k, target)
  BY <1>2, <1>3, FirstPlace
<1>5. P!SelectInSeq(cs[c], LAMBDA p : p = target) = k
  <2> HIDE DEF c
  <2>1. SelectInSeq(cs[c], LAMBDA v : v = target) = k
    BY <1>3, <1>4, FirstSelected
  <2>2. P!SelectInSeq(cs[c], LAMBDA v : v = target) = SelectInSeq(cs[c], LAMBDA v : v = target)
    BY DEF P!SelectInSeq, SelectInSeq, P!Min, Min
  <2> QED
    BY <2>1, <2>2
<1>6. ds = [cs EXCEPT ![c] = InsertAt(cs[c], k + shift, x)]
  BY <1>5, PSame DEF P!insert
<1>7. k + shift \in 1 .. Len(cs[c]) + 1
  <2>1. Len(cs[c]) \in Nat
    BY <1>3, SeqDomain
  <2> QED
    BY <1>4, <2>1 DEF FirstAt
<1> HIDE DEF c, ds
<1>8. Board(ds) /\ P!Without(x, ds) = cs /\ \A y : In(y, ds) <=> In(y, cs) \/ y = x
  <2>1. ds = Put(cs, c, k + shift, x)
    BY <1>6 DEF Put
  <2> QED
    BY <1>2, <1>7, <2>1, PutIn
<1> QED
  BY <1>8 DEF ds

LEMMA AppendedTo ==
  ASSUME NEW cs, Board(cs), NEW x \in Placed, ~In(x, cs), NEW c \in Cols
  PROVE  /\ Board([cs EXCEPT ![c] = Append(cs[c], x)])
         /\ P!Without(x, [cs EXCEPT ![c] = Append(cs[c], x)]) = cs
         /\ \A y : In(y, [cs EXCEPT ![c] = Append(cs[c], x)]) <=> In(y, cs) \/ y = x
<1>1. cs[c] \in Seq(Placed)
  BY DEF Board
<1>2. Append(cs[c], x) = InsertAt(cs[c], Len(cs[c]) + 1, x) /\ Len(cs[c]) \in Nat
  BY <1>1, AppendedInserted, SeqDomain
<1> DEFINE n == Len(cs[c]) + 1
           ds == [cs EXCEPT ![c] = Append(cs[c], x)]
<1>3. ds = Put(cs, c, n, x)
  BY <1>2 DEF Put
<1>4. n \in 1 .. Len(cs[c]) + 1
  BY <1>2
<1> HIDE DEF n, ds
<1>5. Board(ds) /\ P!Without(x, ds) = cs /\ \A y : In(y, ds) <=> In(y, cs) \/ y = x
  BY <1>3, <1>4, PutIn
<1> QED
  BY <1>5 DEF ds

LEMMA InPresent ==
  ASSUME Board(v1), NEW p
  PROVE  p \in P!Present <=> p \in Panels /\ In(p, v1)
<1>1. DOMAIN v1 = Cols
  BY DEF Board
<1> QED
  BY <1>1, PSame DEF P!Present, In

\* The panels of a column of the state.
LEMMA Filled ==
  ASSUME NEW i \in Cols
  PROVE  /\ P!withOptions(State[i]) \in Seq(Panels) /\ Distinct(P!withOptions(State[i]))
         /\ \A x : Contains(P!withOptions(State[i]), x) => Contains(State[i], x)
<1> DEFINE ids == State[i]
           I == {k \in 1 .. Len(ids) : ids[k] \in Panels}
           c == Cardinality(I)
           inOrder(J) == CHOOSE o \in [1 .. P!Cardinality(J) -> J] : \A k, l \in DOMAIN o : k < l => o[k] < o[l]
           order == inOrder(I)
           s == [k \in 1 .. c |-> ids[order[k]]]
<1>1. ids \in Seq(STRING) /\ DOMAIN ids = 1 .. Len(ids) /\ Len(ids) \in Nat
  BY StateOK, SeqDomain
<1>2. \A k, l \in 1 .. Len(ids) : ids[k] = ids[l] => k = l
  BY <1>1, StateOK
<1>3. I \in SUBSET (1 .. Len(ids))
  OBVIOUS
<1>4. P!withOptions(State[i]) = [k \in DOMAIN order |-> ids[order[k]]]
  <2> DEFINE K == {k \in DOMAIN ids : ids[k] \in Panels}
  <2>1. K = I
    BY <1>1
  <2>2. P!withOptions(State[i]) = [k \in DOMAIN inOrder(K) |-> ids[inOrder(K)[k]]]
    BY DEF P!withOptions
  <2> HIDE DEF K, I, inOrder
  <2> QED
    BY <2>1, <2>2
<1> HIDE DEF ids, I
<1>5. \E o \in [1 .. c -> I] : Increasing(o)
  BY <1>1, <1>3, OrderExists
<1>6. order \in [1 .. c -> I] /\ Increasing(order)
  BY <1>5, PCardinality DEF Increasing
<1> HIDE DEF order, inOrder
<1>7. c \in Nat /\ \A k, l \in 1 .. c : order[k] = order[l] => k = l
  <2>1. order \in Bijection(1 .. c, I) /\ c \in Nat
    BY <1>1, <1>3, <1>6, OrderComplete
  <2> QED
    BY <2>1 DEF Bijection, Injection, Surjection, IsInjective
<1> HIDE DEF c
<1>8. \A k \in 1 .. c : order[k] \in 1 .. Len(ids) /\ ids[order[k]] \in Panels
  <2>1. \A k \in 1 .. c : order[k] \in I
    BY <1>6
  <2> QED
    BY <2>1 DEF I
<1>9. s \in Seq(Panels) /\ Len(s) = c
  <2>1. s \in [1 .. c -> Panels]
    BY <1>8
  <2> QED
    BY <1>7, <2>1, FunctionIsSeq
<1>10. \A k \in 1 .. c : s[k] = ids[order[k]]
  OBVIOUS
<1>11. P!withOptions(State[i]) = s
  <2>1. DOMAIN order = 1 .. c
    BY <1>6
  <2> QED
    BY <1>4, <2>1
<1> HIDE DEF s
<1>12. Distinct(s)
  <2>1. ASSUME NEW k \in 1 .. c, NEW l \in 1 .. c, s[k] = s[l] PROVE k = l
    <3>1. order[k] = order[l]
      BY <1>2, <1>8, <1>10, <2>1
    <3> QED
      BY <1>7, <3>1
  <2> QED
    BY <1>9, <2>1 DEF Distinct
<1>13. \A x : Contains(s, x) => Contains(ids, x)
  BY <1>8, <1>9, <1>10 DEF Contains
<1> QED
  BY <1>9, <1>11, <1>12, <1>13 DEF ids

LEMMA PInit == P!Init => PInv
<1> SUFFICES ASSUME P!Init PROVE PInv
  OBVIOUS
<1>1. v1 = [i \in Cols |-> P!withOptions(State[i])] /\ v4 = v1 /\ v2 = P!nothing
  BY DEF P!Init, Cols
<1>2. \A i \in Cols : v1[i] \in Seq(Panels) /\ Distinct(v1[i])
  BY <1>1, Filled
<1>3. \A i \in Cols : v1[i] \in Seq(Placed)
  BY <1>2, WiderSeq DEF Placed
<1>4. v1 \in [Cols -> Seq(Placed)]
  BY <1>1, <1>3
<1>5. ASSUME NEW i \in Cols, NEW k \in Cols, NEW x, Contains(v1[i], x), Contains(v1[k], x)
      PROVE  i = k
  <2>1. Contains(State[i], x) /\ Contains(State[k], x)
    BY <1>1, <1>5, Filled
  <2>2. DOMAIN State[i] = 1 .. Len(State[i]) /\ DOMAIN State[k] = 1 .. Len(State[k])
    BY StateOK, SeqDomain
  <2> QED
    BY <2>1, <2>2, StateOK DEF Contains
<1>6. Board(v1)
  BY <1>2, <1>4, <1>5 DEF Board
<1>7. ~In(P!spacer, v1)
  <2>1. ASSUME NEW i \in Cols PROVE ~Contains(v1[i], P!spacer)
    <3>1. \A j \in 1 .. Len(v1[i]) : v1[i][j] \in Panels
      BY <1>2, ElementOf
    <3> QED
      BY <3>1, PanelsOK DEF Contains
  <2> QED
    BY <2>1 DEF In
<1> QED
  BY <1>1, <1>6, <1>7, PanelsOK DEF PInv

LEMMA PStutter == PInv /\ UNCHANGED <<v1, v2, v3, v4>> => PInv'
<1> SUFFICES ASSUME PInv, UNCHANGED <<v1, v2, v3, v4>> PROVE PInv'
  OBVIOUS
<1>1. v1' = v1 /\ v4' = v4 /\ v2' = v2
  OBVIOUS
<1>2. Board(v1)' /\ Board(v4)' /\ (~In(P!spacer, v4))'
  BY <1>1 DEF PInv, Board, In, Cols, Placed
<1>3. CASE v2 = P!nothing
  <2>1. (\A x : In(x, v1) <=> In(x, v4))'
    BY <1>1, <1>3 DEF PInv, In, Cols
  <2>2. (\E p \in Panels : P!Without(p, v1) = P!Without(p, v4))'
    BY <1>1, <1>3 DEF PInv, P!Without
  <2> QED
    BY <1>1, <1>2, <1>3, <2>1, <2>2 DEF PInv, P!nothing
<1>4. CASE v2 # P!nothing
  <2>1. (P!Without(P!spacer, v1) = v4 /\ In(P!spacer, v1) /\ In(v2, v4))'
    BY <1>1, <1>4 DEF PInv, In, Cols, P!Without
  <2> QED
    BY <1>1, <1>2, <1>4, <2>1 DEF PInv
<1> QED
  BY <1>3, <1>4

\* The columns during a drag: the beginning's and the spacer in it.
LEMMA Spaced ==
  ASSUME NEW cs, Board(cs), ~In(P!spacer, cs), NEW p \in Panels, In(p, cs),
         NEW ds, Board(ds), P!Without(P!spacer, ds) = cs, In(P!spacer, ds),
         v1' = ds, v4' = cs, v2' = p
  PROVE  PInv'
<1>1. Board(v1)' /\ Board(v4)' /\ ~In(P!spacer, v4)' /\ In(P!spacer, v1)' /\ In(v2, v4)'
      /\ (P!Without(P!spacer, v1) = v4)'
  BY DEF Board, In, Cols, Placed, P!Without
<1>2. v2' \in Panels /\ v2' # P!nothing
  BY PanelsOK
<1> QED
  BY <1>1, <1>2 DEF PInv

LEMMA PStart ==
  ASSUME PInv, NEW p \in P!Present, P!onStartDrag(p)
  PROVE  PInv'
<1>1. Board(v1) /\ p \in Panels /\ In(p, v1)
  BY InPresent DEF PInv
<1>2. ~In(P!spacer, v1)
  BY DEF PInv, P!onStartDrag
<1> DEFINE ds == P!insert(P!spacer, v1, p, 1)
<1>3. v1' = ds /\ v4' = v1 /\ v2' = p
  BY DEF P!onStartDrag
<1>4. Board(ds) /\ P!Without(P!spacer, ds) = v1 /\ In(P!spacer, ds)
  BY <1>1, <1>2, Inserted DEF Placed
<1> HIDE DEF ds
<1> QED
  BY <1>1, <1>2, <1>3, <1>4, Spaced

LEMMA InDrag ==
  ASSUME PInv, v2 # P!nothing
  PROVE  /\ Board(v1) /\ Board(v4) /\ ~In(P!spacer, v4) /\ v2 \in Panels /\ In(v2, v4)
         /\ P!Without(P!spacer, v1) = v4 /\ In(P!spacer, v1)
         /\ \A y : In(y, v4) <=> In(y, v1) /\ y # P!spacer
<1>1. /\ Board(v1) /\ Board(v4) /\ ~In(P!spacer, v4) /\ v2 \in Panels /\ In(v2, v4)
      /\ P!Without(P!spacer, v1) = v4 /\ In(P!spacer, v1)
  BY DEF PInv
<1>2. \A y : In(y, P!Without(P!spacer, v1)) <=> In(y, v1) /\ y # P!spacer
  BY <1>1, WithoutBoard
<1> QED
  BY <1>1, <1>2

LEMMA POverPanel ==
  ASSUME PInv, NEW p \in P!Present, NEW shift \in {0, 1}, P!overPanel(p, shift)
  PROVE  PInv'
<1>1. v2 # P!nothing
  BY DEF P!overPanel
<1>2. Board(v1) /\ Board(v4) /\ ~In(P!spacer, v4) /\ v2 \in Panels /\ In(v2, v4)
      /\ P!Without(P!spacer, v1) = v4
  BY <1>1, InDrag
<1>3. In(p, v4)
  <2>1. p \in Panels /\ In(p, v1)
    BY <1>2, InPresent
  <2> QED
    BY <1>1, <2>1, InDrag, PanelsOK
<1> DEFINE ds == P!insert(P!spacer, v4, p, shift)
<1>4. v1' = ds /\ v4' = v4 /\ v2' = v2
  BY <1>2 DEF P!overPanel
<1>5. Board(ds) /\ P!Without(P!spacer, ds) = v4 /\ In(P!spacer, ds)
  BY <1>2, <1>3, Inserted DEF Placed
<1> HIDE DEF ds
<1> QED
  BY <1>2, <1>4, <1>5, Spaced

LEMMA POverColumn ==
  ASSUME PInv, NEW c \in DOMAIN v1, P!overColumn(c)
  PROVE  PInv'
<1>1. v2 # P!nothing
  BY DEF P!overColumn
<1>2. Board(v1) /\ Board(v4) /\ ~In(P!spacer, v4) /\ v2 \in Panels /\ In(v2, v4)
      /\ P!Without(P!spacer, v1) = v4 /\ In(P!spacer, v1) /\ c \in Cols
  BY <1>1, InDrag DEF Board
<1>3. CASE P!Contains(v1[c], P!spacer)
  <2>1. v1' = v1 /\ v4' = v4 /\ v2' = v2
    BY <1>3 DEF P!overColumn
  <2> QED
    BY <1>2, <2>1, Spaced
<1>4. CASE ~P!Contains(v1[c], P!spacer)
  <2> DEFINE ds == [v4 EXCEPT ![c] = Append(v4[c], P!spacer)]
  <2>1. v1' = ds /\ v4' = v4 /\ v2' = v2
    BY <1>2, <1>4 DEF P!overColumn
  <2>2. Board(ds) /\ P!Without(P!spacer, ds) = v4 /\ In(P!spacer, ds)
    BY <1>2, AppendedTo DEF Placed
  <2> HIDE DEF ds
  <2> QED
    BY <1>2, <2>1, <2>2, Spaced
<1> QED
  BY <1>3, <1>4

\* The columns after a drag, an addition or a removal.
LEMMA Settled ==
  ASSUME NEW cs, Board(cs), ~In(P!spacer, cs), NEW ds, Board(ds),
         \A x : In(x, ds) <=> In(x, cs),
         NEW p \in Panels, P!Without(p, ds) = P!Without(p, cs),
         v1' = ds, v4' = cs, v2' = P!nothing
  PROVE  PInv'
<1>1. Board(v1)' /\ Board(v4)' /\ ~In(P!spacer, v4)' /\ (\A x : In(x, v1) <=> In(x, v4))'
      /\ (\E q \in Panels : P!Without(q, v1) = P!Without(q, v4))'
  BY DEF Board, In, Cols, Placed, P!Without
<1> QED
  BY <1>1 DEF PInv, P!nothing

LEMMA PStop ==
  ASSUME PInv, P!onStopDrag
  PROVE  PInv'
<1>1. v2 # P!nothing
  BY DEF P!onStopDrag
<1>2. /\ Board(v1) /\ Board(v4) /\ ~In(P!spacer, v4) /\ v2 \in Panels /\ In(v2, v4)
      /\ P!Without(P!spacer, v1) = v4 /\ In(P!spacer, v1) /\ v2 # P!spacer
      /\ \A y : In(y, v4) <=> In(y, v1) /\ y # P!spacer
  BY <1>1, InDrag, PanelsOK
<1> DEFINE cs == P!Without(v2, v1)
           ds == P!insert(v2, cs, P!spacer, 1)
           es == P!Without(P!spacer, ds)
<1>3. v1' = es /\ v4' = v4 /\ v2' = P!nothing
  BY DEF P!onStopDrag
<1>4. Board(cs) /\ \A y : In(y, cs) <=> In(y, v1) /\ y # v2
  BY <1>2, WithoutBoard
<1>5. P!Without(P!spacer, cs) = P!Without(v2, v4)
  BY <1>2, WithoutBoth
<1> HIDE DEF cs
<1>6. Board(ds) /\ P!Without(v2, ds) = cs /\ \A y : In(y, ds) <=> In(y, cs) \/ y = v2
  BY <1>2, <1>4, Inserted DEF Placed
<1> HIDE DEF ds
<1>7. Board(es) /\ \A y : In(y, es) <=> In(y, ds) /\ y # P!spacer
  BY <1>6, WithoutBoard
<1>8. P!Without(v2, es) = P!Without(v2, v4)
  BY <1>5, <1>6, WithoutBoth
<1> HIDE DEF es
<1>9. \A y : In(y, es) <=> In(y, v4)
  BY <1>2, <1>4, <1>6, <1>7
<1> QED
  BY <1>2, <1>3, <1>7, <1>8, <1>9, Settled

LEMMA PAdd ==
  ASSUME PInv, NEW c \in DOMAIN v1, NEW p \in Panels, P!add(p, c)
  PROVE  PInv'
<1>1. v2 = P!nothing /\ Board(v1) /\ ~In(P!spacer, v1) /\ c \in Cols
  BY DEF PInv, P!add, Board
<1>2. ~In(p, v1)
  BY <1>1, PSame DEF P!add, In, Board
<1> DEFINE ds == [v1 EXCEPT ![c] = Append(v1[c], p)]
<1>3. v1' = ds /\ v4' = ds /\ v2' = P!nothing
  BY <1>1 DEF P!add
<1>4. Board(ds) /\ \A y : In(y, ds) <=> In(y, v1) \/ y = p
  BY <1>1, <1>2, AppendedTo DEF Placed
<1> HIDE DEF ds
<1>5. ~In(P!spacer, ds)
  BY <1>1, <1>4, PanelsOK
<1> QED
  BY <1>3, <1>4, <1>5, Settled

LEMMA PRemove ==
  ASSUME PInv, NEW p \in P!Present, P!remove(p)
  PROVE  PInv'
<1>1. v2 = P!nothing /\ Board(v1) /\ ~In(P!spacer, v1)
  BY DEF PInv, P!remove
<1>2. p \in Panels
  BY DEF P!Present
<1> DEFINE ds == P!Without(p, v1)
<1>3. v1' = ds /\ v4' = ds /\ v2' = P!nothing
  BY <1>1 DEF P!remove
<1>4. Board(ds) /\ \A y : In(y, ds) <=> In(y, v1) /\ y # p
  BY <1>1, WithoutBoard
<1> HIDE DEF ds
<1>5. ~In(P!spacer, ds)
  BY <1>1, <1>4
<1> QED
  BY <1>2, <1>3, <1>4, <1>5, Settled

LEMMA PNext == PInv /\ P!Next => PInv'
BY PStart, POverPanel, POverColumn, PStop, PAdd, PRemove DEF P!Next

\* How often something is in the columns.
Seen(x, cs) == P!Cardinality(UNION {{i} \X {j \in DOMAIN cs[i] : cs[i][j] = x} : i \in DOMAIN cs})

\* What is in the columns is at one place.
LEMMA OncePlaced ==
  ASSUME NEW cs, Board(cs), NEW x
  PROVE  /\ Seen(x, cs) = IF In(x, cs) THEN 1 ELSE 0
         /\ P!Cardinality({i \in DOMAIN cs : P!Contains(cs[i], x)}) = IF In(x, cs) THEN 1 ELSE 0
<1> DEFINE at == UNION {{i} \X {j \in DOMAIN cs[i] : cs[i][j] = x} : i \in DOMAIN cs}
           of == {i \in DOMAIN cs : P!Contains(cs[i], x)}
<1>1. /\ DOMAIN cs = Cols /\ \A i \in Cols : DOMAIN cs[i] = 1 .. Len(cs[i]) /\ Distinct(cs[i])
      /\ \A i, k \in Cols : Contains(cs[i], x) /\ Contains(cs[k], x) => i = k
  BY SeqDomain DEF Board
<1>2. \A z : z \in at <=> \E i \in Cols, j \in Nat : j \in 1 .. Len(cs[i]) /\ cs[i][j] = x /\ z = <<i, j>>
  BY <1>1
<1>3. of = {i \in Cols : Contains(cs[i], x)}
  BY <1>1, PSame
<1> HIDE DEF at, of
<1>4. CASE In(x, cs)
  <2>1. PICK i \in Cols : Contains(cs[i], x)
    BY <1>4 DEF In
  <2>2. PICK j \in 1 .. Len(cs[i]) : cs[i][j] = x
    BY <2>1 DEF Contains
  <2>3. of = {i}
    BY <1>1, <1>3, <2>1
  <2>4. ASSUME NEW z \in at PROVE z = <<i, j>>
    <3>1. PICK k \in Cols, l \in Nat : l \in 1 .. Len(cs[k]) /\ cs[k][l] = x /\ z = <<k, l>>
      BY <1>2, <2>4
    <3>2. k = i
      BY <1>1, <2>1, <3>1 DEF Contains
    <3>3. l = j
      BY <1>1, <2>2, <3>1, <3>2 DEF Distinct
    <3> QED
      BY <3>1, <3>2, <3>3
  <2>5. <<i, j>> \in at
    BY <1>2, <2>2
  <2>6. at = {<<i, j>>}
    BY <2>4, <2>5
  <2>7. \A z : Cardinality({z}) = 1
    BY FS_Singleton
  <2> QED
    BY <1>4, <2>3, <2>6, <2>7, PCardinality DEF Seen, at, of
<1>5. CASE ~In(x, cs)
  <2>1. of = {}
    BY <1>3, <1>5 DEF In
  <2>2. at = {}
    BY <1>2, <1>5 DEF In, Contains
  <2>3. Cardinality({}) = 0
    BY FS_EmptySet
  <2> QED
    BY <1>5, <2>1, <2>2, <2>3, PCardinality DEF Seen, at, of
<1> QED
  BY <1>4, <1>5

LEMMA PMoves == PInv => P!DragMovesOne
<1> SUFFICES ASSUME PInv PROVE P!DragMovesOne
  OBVIOUS
<1>1. Board(v1) /\ Board(v4) /\ ~In(P!spacer, v4)
  BY DEF PInv
<1>2. ASSUME NEW p \in Panels \union {P!spacer}
      PROVE  P!Cardinality(UNION {{i} \X {j \in DOMAIN v1[i] : v1[i][j] = p} : i \in DOMAIN v1})
               = P!Cardinality({i \in DOMAIN v4 : P!Contains(v4[i], p)})
                 + (IF p = P!spacer /\ v2 # P!nothing THEN 1 ELSE 0)
  <2> DEFINE here == Seen(p, v1)
             there == P!Cardinality({i \in DOMAIN v4 : P!Contains(v4[i], p)})
  <2>1. here = IF In(p, v1) THEN 1 ELSE 0
    BY <1>1, OncePlaced, Zenon
  <2>2. there = IF In(p, v4) THEN 1 ELSE 0
    BY <1>1, OncePlaced, Zenon
  <2> HIDE DEF here, there
  <2>3. CASE v2 = P!nothing
    <3>1. In(p, v1) <=> In(p, v4)
      BY <2>3 DEF PInv
    <3> QED
      <4>1. here = there + (IF p = P!spacer /\ v2 # P!nothing THEN 1 ELSE 0)
        BY <2>1, <2>2, <2>3, <3>1
      <4> QED
        BY <4>1 DEF Seen, here, there
  <2>4. CASE v2 # P!nothing
    <3>1. In(p, v4) <=> In(p, v1) /\ p # P!spacer
      BY <2>4, InDrag
    <3>2. In(P!spacer, v1)
      BY <2>4, InDrag
    <3>3. here = there + (IF p = P!spacer /\ v2 # P!nothing THEN 1 ELSE 0)
      BY <2>1, <2>2, <2>4, <3>1, <3>2
    <3> QED
      BY <3>3 DEF Seen, here, there
  <2> QED
    BY <2>3, <2>4
<1>3. v2 # P!nothing => P!Without(P!spacer, v1) = v4
  BY InDrag
<1>4. \E p \in Panels : P!Without(p, P!Without(P!spacer, v1)) = P!Without(p, v4)
  <2>1. CASE v2 = P!nothing
    <3>1. P!Without(P!spacer, v1) = v1
      BY <1>1, <2>1, WithoutNone DEF PInv
    <3> QED
      BY <2>1, <3>1 DEF PInv
  <2>2. CASE v2 # P!nothing
    BY <1>3, <2>2, PanelsOK
  <2> QED
    BY <2>1, <2>2
<1> QED
  BY <1>2, <1>3, <1>4 DEF P!DragMovesOne

-----------------------------------------------------------------------------
(* All scripts *)

\* A behaviour keeps the invariant of its own script.
SInv ==
  /\ IInv
  /\ part = "layer" => LInv
  /\ part = "laydate" => DInv
  /\ part = "editor" => EInv
  /\ part = "toolbar" => BInv
  /\ part = "role" => RInv
  /\ part = "select" => MInv
  /\ part = "portal" => PInv

LEMMA InitSInv == InitScripts => SInv
<1> SUFFICES ASSUME InitScripts PROVE SInv
  OBVIOUS
<1>1. IInv
  BY InitIInv DEF InitScripts
<1>2. /\ part = "layer" => L!Init
      /\ part = "laydate" => D!Init
      /\ part = "editor" => E!Init
      /\ part = "toolbar" => B!Init
      /\ part = "role" => R!Init
      /\ part = "select" => M!Init
      /\ part = "portal" => P!Init
  BY DEF InitScripts
<1> QED
  BY <1>1, <1>2, LInit, DInit, EInit, BInit, RInit, MInit, PInit DEF SInv

\* A step of a script is a step of its module; the others leave its variables alone.
LEMMA OwnSteps ==
  ASSUME [NextScripts]_scripts
  PROVE  /\ part' = part
         /\ [Next]_vars
         /\ part = "layer" => L!Next \/ UNCHANGED <<v1, v2, v3, v4, v5>>
         /\ part = "laydate" => D!Next \/ UNCHANGED <<v1, v2, v5, v6, v7, v10, v11, v13, v14>>
         /\ part = "editor" => E!Next \/ UNCHANGED <<v1, v2, v6, v7, v8, v13, v14>>
         /\ part = "toolbar" => B!Next \/ UNCHANGED <<v1, v2>>
         /\ part = "role" => R!Next \/ UNCHANGED <<v1, v2, v3, v4, v5, v6, v7>>
         /\ part = "select" => M!Next \/ UNCHANGED <<v1, v2, v3, v4>>
         /\ part = "portal" => P!Next \/ UNCHANGED <<v1, v2, v3, v4>>
<1>1. CASE UNCHANGED scripts
  BY <1>1 DEF scripts
<1>2. CASE part = "console" /\ Next /\ keep0
  BY <1>2 DEF keep0
<1>3. CASE part = "layer" /\ L!Next /\ keep5
  BY <1>3 DEF keep5
<1>4. CASE part = "laydate" /\ D!Next /\ keep14
  BY <1>4 DEF keep14
<1>5. CASE part = "editor" /\ E!Next /\ keep14
  BY <1>5 DEF keep14
<1>6. CASE part = "toolbar" /\ B!Next /\ keep8
  BY <1>6 DEF keep8
<1>7. CASE part = "role" /\ R!Next /\ keep7
  BY <1>7 DEF keep7
<1>8. CASE \/ part = "select" /\ M!Next /\ keep4
           \/ part = "portal" /\ P!Next /\ keep4
  BY <1>8 DEF keep4
<1>9. CASE \/ part = "stomp" /\ keep13
           \/ part = "poshytip" /\ keep6
  BY <1>9 DEF keep13, keep6
<1> QED
  BY <1>1, <1>2, <1>3, <1>4, <1>5, <1>6, <1>7, <1>8, <1>9 DEF NextScripts

LEMMA NextSInv == SInv /\ [NextScripts]_scripts => SInv'
<1> SUFFICES ASSUME SInv, [NextScripts]_scripts PROVE SInv'
  OBVIOUS
<1>1. part' = part
  BY OwnSteps
<1>2. IInv'
  BY OwnSteps, NextIInv DEF SInv
<1>3. part = "layer" => LInv'
  BY OwnSteps, LNext, LStutter DEF SInv
<1>4. part = "laydate" => DInv'
  BY OwnSteps, DNext, DStutter DEF SInv
<1>5. part = "editor" => EInv'
  BY OwnSteps, ENext, EStutter DEF SInv
<1>6. part = "toolbar" => BInv'
  BY OwnSteps, BNext, BStutter DEF SInv
<1>7. part = "role" => RInv'
  BY OwnSteps, RNext, RStutter DEF SInv
<1>8. part = "select" => MInv'
  BY OwnSteps, MNext, MStutter DEF SInv
<1>9. part = "portal" => PInv'
  BY OwnSteps, PNext, PStutter DEF SInv
<1> QED
  BY <1>1, <1>2, <1>3, <1>4, <1>5, <1>6, <1>7, <1>8, <1>9 DEF SInv

LEMMA Scripted == SpecScripts => []SInv
BY InitSInv, NextSInv, PTL DEF SpecScripts

\* Whatever layers are opened, closed in whatever order, minimised, restored or put to full
\* size, and whenever their pictures load: the page is locked only by a layer that stays,
\* the keys of no album but the shown one are listened to, no end callback is called twice.
THEOREM LayersStayTidy == SpecScripts => []LayersTidy
<1>1. SInv => LayersTidy
  BY LTidy DEF SInv, LayersTidy
<1> QED
  BY <1>1, Scripted, PTL

\* However the years and months are turned, from whatever day: the cells of the calendar
\* are consecutive days from a Sunday on, and every day of the month is among them.
THEOREM GridsConsecutive == SpecScripts => []GridConsecutive
<1>1. SInv => GridConsecutive
  BY DGrid DEF SInv, GridConsecutive
<1> QED
  BY <1>1, Scripted, PTL

\* However days and times are chosen, cleared and confirmed: the hidden field has the range
\* that is shown, and its first day is not after the second.
THEOREM RangesAgree == SpecScripts => []RangeAgrees
<1>1. SInv => RangeAgrees
  BY DRange DEF SInv, RangeAgrees
<1> QED
  BY <1>1, Scripted, PTL

\* However keys, commands, pasted text, uploads and the timer interleave: a text that no
\* report is due for is the one that the form has.
THEOREM ContentsFollow == SpecScripts => []ContentFollows
<1>1. SInv => ContentFollows
  BY EFollows DEF SInv, ContentFollows
<1> QED
  BY <1>1, Scripted, PTL

\* However panels, clicks and buttons interleave: a table of any size keeps rows of one
\* length, each of one kind of cell, with no head below the first.
THEOREM TablesRegular == SpecScripts => []TableRegular
<1>1. SInv => TableRegular
  BY BRegular DEF SInv, TableRegular
<1> QED
  BY <1>1, Scripted, PTL

\* Whatever menus the system and the role have when the dialog opens, and whatever boxes are
\* clicked then: what will be sent has the leaves nobody clicked as the role had them, and
\* with every menu the one above it.
THEOREM RolesKept == SpecScripts => []RoleKept
<1>1. SInv => RoleKept
  BY RKept DEF SInv, RoleKept
<1> QED
  BY <1>1, Scripted, PTL

\* Whatever roles there are and whichever of them the operator has, and however they are
\* chosen and given up: the boxes checked are those of the roles sent, and a name is shown
\* as often as roles of that name are sent.
THEOREM SelectionsAgree == SpecScripts => []SelectionAgrees
<1>1. SInv => SelectionAgrees
  BY MAgrees DEF SInv, SelectionAgrees
<1> QED
  BY <1>1, Scripted, PTL

\* Whatever panels are in whatever columns, and however the mouse passes over them: a drag
\* moves one panel, all others stay where they were, and its spacer goes with it.
THEOREM DragsMoveOne == SpecScripts => []DragMovesOne
<1>1. SInv => DragMovesOne
  BY PMoves DEF SInv, DragMovesOne
<1> QED
  BY <1>1, Scripted, PTL

\* The console's forms beside the other scripts.
THEOREM ScriptsFormsReturn == SpecScripts => []FormReturns
<1>1. SInv => FormReturns
  BY DEF SInv, IInv
<1> QED
  BY <1>1, Scripted, PTL
=============================================================================
