------------------------------ MODULE ManageConsole ------------------------------
(***************************************************************************)
(* The window of the console: the tabs of js/common/home.js with a page in *)
(* each, and the one dialog, mask and alert of js/common/general.js which  *)
(* these pages share through `parent`.  A page has a grid of rows or one   *)
(* of a tree, whose buttons open dialogs with forms and send requests.     *)
(***************************************************************************)
EXTENDS Integers, FiniteSets, Sequences, SequencesExt

CONSTANTS
  Grids, Trees,     \* the pages, by what they show
  homePage,
  MaxRequests,      \* a bound of the requests on their way
  none

Pages == Grids \union Trees

VARIABLES
  tabs,             \* the titles, in their order
  handler,          \* the dialog, or none: [page, form], its page "" for the password
  opennerDataGrid,
  opennerTreeGrid,  \* the page whose grid it is, or none
  progress,         \* the mask that takes all clicks
  alert,            \* a message that waits for its button
  requests,         \* [kind, page, bare]
  answer            \* history: what the form answered last has closed and reloaded

vars == <<tabs, handler, opennerDataGrid, opennerTreeGrid, progress, alert, requests, answer>>
opener == <<opennerDataGrid, opennerTreeGrid>>

Init ==
  /\ tabs = <<homePage>> /\ handler = none
  /\ opennerDataGrid = none /\ opennerTreeGrid = none
  /\ progress = FALSE /\ alert = FALSE /\ requests = {} /\ answer = none

\* What the user may click: a mask and a message cover everything, a dialog the pages.
Console == ~progress /\ ~alert
Desk    == Console /\ handler = none

-----------------------------------------------------------------------------
(* Requests.  `bare` says that the mask has gone before the answer came. *)

Request(kind, page) == [kind |-> kind, page |-> page, bare |-> FALSE]

Ask(request) == /\ Cardinality(requests) < MaxRequests
                /\ request \notin requests
                /\ requests' = requests \union {request}

\* The mask is taken away, whoever had put it there.
Masked == {"form", "submit", "get"}
Unmask(rest) ==
  /\ progress' = FALSE
  /\ requests' = {[r EXCEPT !.bare = r.kind \in Masked] : r \in rest}

-----------------------------------------------------------------------------
(* Tabs *)

\* A page that is open already is loaded again: what it had asked for is forgotten.
Forget(pages) == requests' = {r \in requests : r.kind \in {"form", "submit", "fields"} \/ r.page \notin pages}

addTabs(page) ==
  /\ Desk
  /\ IF page \in ToSet(tabs) THEN Forget({page}) /\ UNCHANGED tabs
     ELSE tabs' = Append(tabs, page) /\ UNCHANGED requests
  /\ UNCHANGED <<handler, opener, progress, alert, answer>>

\* The menu of a tab: the home page is not closed.
closeTabs(type, index) ==
  /\ Desk
  /\ LET closed == {i \in DOMAIN tabs : /\ tabs[i] # homePage
                                         /\ CASE type = "close"      -> i = index
                                              [] type = "closeright" -> i > index
                                              [] type = "closeother" -> i # index
                                              [] type = "closeall"   -> TRUE}
     IN  /\ tabs' = SelectSeq(tabs, LAMBDA t : t \notin {tabs[i] : i \in closed})
         /\ Forget({tabs[i] : i \in closed})
  /\ UNCHANGED <<handler, opener, progress, alert, answer>>

-----------------------------------------------------------------------------
(* Dialogs *)

\* Nothing happens where one is open.
windowDialog(dialog) == handler' = IF handler = none THEN dialog ELSE handler

\* The fields of a form may ask for their choices.
editFun(page) ==
  /\ Desk /\ page \in ToSet(tabs)
  /\ windowDialog([page |-> page, form |-> TRUE])
  /\ \/ UNCHANGED requests
     \/ Ask(Request("fields", page))
  /\ UNCHANGED <<tabs, opener, progress, alert, answer>>

show(page) ==
  /\ Desk /\ page \in ToSet(tabs) \union {homePage}
  /\ windowDialog([page |-> page, form |-> FALSE])
  /\ UNCHANGED <<tabs, opener, progress, alert, requests, answer>>

changePwd ==
  /\ Desk
  /\ windowDialog([page |-> "", form |-> TRUE])
  /\ UNCHANGED <<tabs, opener, progress, alert, requests, answer>>

onClose ==
  /\ Console /\ handler # none
  /\ handler' = none
  /\ UNCHANGED <<tabs, opener, progress, alert, requests, answer>>

Opener(page) ==
  /\ opennerDataGrid' = IF page \in Grids THEN page ELSE opennerDataGrid
  /\ opennerTreeGrid' = IF page \in Trees THEN page ELSE opennerTreeGrid

\* Fault: the form is sent without a mask.
onSubmitUnmasked(isValid) ==
  /\ Console /\ handler # none /\ handler.form
  /\ Opener(handler.page)
  /\ IF isValid
     THEN /\ Ask(Request(IF handler.page = "" THEN "submit" ELSE "form", handler.page))
          /\ UNCHANGED progress
     ELSE UNCHANGED <<progress, requests>>
  /\ UNCHANGED <<tabs, handler, alert, answer>>

\* The button of a dialog: the grid it belongs to is noted, the mask is put on, and taken
\* away again from a form that is not valid.  The one of a password has no grid.
onSubmit(isValid) ==
  /\ Console /\ handler # none /\ handler.form
  /\ Opener(handler.page)
  /\ IF isValid
     THEN /\ Ask(Request(IF handler.page = "" THEN "submit" ELSE "form", handler.page))
          /\ progress' = TRUE
     ELSE UNCHANGED <<progress, requests>>
  /\ UNCHANGED <<tabs, handler, alert, answer>>

\* Success closes the dialog that there is and reloads the grid noted last; without a
\* dialog it stops before.
formSubmit(r, code) ==
  /\ r.kind = "form"
  /\ Unmask(requests \ {r})
  /\ IF code = 200
     THEN /\ handler' = none
          /\ answer' = [of |-> r.page, bare |-> r.bare,
                        closed |-> IF handler = none THEN none ELSE handler.page,
                        reloaded |-> IF handler = none THEN none
                                     ELSE IF r.page \in Grids THEN opennerDataGrid ELSE opennerTreeGrid]
          /\ UNCHANGED alert
     ELSE alert' = TRUE /\ UNCHANGED <<handler, answer>>
  /\ UNCHANGED <<tabs, opener>>

\* The password form looks for a result that no answer has: always a message.
submit(r) ==
  /\ r.kind = "submit"
  /\ Unmask(requests \ {r})
  /\ alert' = TRUE
  /\ UNCHANGED <<tabs, handler, opener, answer>>

-----------------------------------------------------------------------------
(* Requests of the pages *)

\* A question, then a request without a mask.
confirm(page) ==
  /\ Desk /\ page \in ToSet(tabs)
  /\ Ask(Request("confirm", page))
  /\ UNCHANGED <<tabs, handler, opener, progress, alert, answer>>

\* get and select: with one.
get(page) ==
  /\ Desk /\ page \in ToSet(tabs) \intersect Grids
  /\ Ask(Request("get", page))
  /\ progress' = TRUE
  /\ UNCHANGED <<tabs, handler, opener, alert, answer>>

done(r, code) ==
  /\ r.kind \in {"confirm", "get"}
  /\ IF r.kind = "get" THEN Unmask(requests \ {r})
     ELSE requests' = requests \ {r} /\ UNCHANGED progress
  /\ alert' = (alert \/ code # 200)
  /\ UNCHANGED <<tabs, handler, opener, answer>>

\* The choices of a field: a failure is told to everybody, and the mask taken away.
fields(r, code) ==
  /\ r.kind = "fields"
  /\ IF code = 200 THEN requests' = requests \ {r} /\ UNCHANGED <<progress, alert>>
     ELSE Unmask(requests \ {r}) /\ alert' = TRUE
  /\ UNCHANGED <<tabs, handler, opener, answer>>

confirmAlert ==
  /\ alert /\ ~progress
  /\ alert' = FALSE
  /\ UNCHANGED <<tabs, handler, opener, progress, requests, answer>>

Next ==
  \/ \E page \in Pages : addTabs(page) \/ editFun(page) \/ confirm(page) \/ get(page)
  \/ \E page \in Pages \union {homePage} : show(page)
  \/ \E type \in {"close", "closeright", "closeother", "closeall"}, i \in DOMAIN tabs : closeTabs(type, i)
  \/ changePwd \/ onClose \/ confirmAlert
  \/ \E isValid \in BOOLEAN : onSubmit(isValid)
  \/ \E r \in requests : \/ submit(r)
                         \/ \E code \in {200, 500} : formSubmit(r, code) \/ done(r, code) \/ fields(r, code)

Spec == Init /\ [][Next]_vars

-----------------------------------------------------------------------------
(* Properties *)

\* A form that succeeds closes the dialog it was in and reloads the grid from which that
\* was opened, though all pages share one dialog and one note of the opener; the
\* exception is a form whose mask a failing request has taken away, for then another
\* dialog may be there by the time of the answer (formSubmit, onSubmit).
FormReturns ==
  answer # none => answer.bare \/ (answer.closed = answer.of /\ answer.reloaded = answer.of)
=============================================================================
