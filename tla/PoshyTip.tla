-------------------------------- MODULE PoshyTip --------------------------------
(***************************************************************************)
(* One tip of js/tips/jquery.poshytip.js with the options it has by        *)
(* default: it is shown some time after the mouse has entered its element, *)
(* hidden some time after it has left, and may be hovered itself.  The     *)
(* element's title attribute is emptied meanwhile, so that the browser     *)
(* shows no second tip.                                                    *)
(***************************************************************************)

CONSTANT animated   \* whether `slide` or `fade` is set

VARIABLES
  mouse,        \* over "elm", "tip" or "away"
  title,        \* of the element: "own" or ""
  active,
  tip,          \* "detached", "visible", "showing" or "hiding"
  showTimeout, hideTimeout

vars == <<mouse, title, active, tip, showTimeout, hideTimeout>>
timeouts == <<showTimeout, hideTimeout>>

Init == /\ mouse = "away" /\ title = "own" /\ active = FALSE /\ tip = "detached"
        /\ showTimeout = FALSE /\ hideTimeout = FALSE

clearTimeouts == showTimeout' = FALSE /\ hideTimeout' = FALSE
showDelayed   == showTimeout' = TRUE  /\ hideTimeout' = FALSE
hideDelayed   == showTimeout' = FALSE /\ hideTimeout' = TRUE

-----------------------------------------------------------------------------
(* The mouse *)

mouseenter ==
  /\ mouse # "elm" /\ mouse' = "elm"
  /\ title' = ""
  /\ showDelayed
  /\ UNCHANGED <<active, tip>>

\* Fault: a tip that is not active yet is not told.
mouseleaveActive ==
  /\ title' = (IF active THEN title ELSE "own")
  /\ IF active THEN hideDelayed ELSE UNCHANGED timeouts
  /\ UNCHANGED <<active, tip>>

\* An active tip keeps the title empty until it is hidden.
mouseleave ==
  /\ title' = (IF active THEN title ELSE "own")
  /\ hideDelayed
  /\ UNCHANGED <<active, tip>>

leaveElement == mouse = "elm" /\ mouse' = "away" /\ mouseleave
leaveTip     == mouse = "tip" /\ mouse' = "away" /\ mouseleave

enterTip ==
  /\ mouse = "away" /\ tip # "detached" /\ mouse' = "tip"
  /\ clearTimeouts
  /\ UNCHANGED <<title, active, tip>>

-----------------------------------------------------------------------------
(* The timers *)

\* reset, update and display: a hiding animation is cut off.
show ==
  /\ showTimeout /\ showTimeout' = FALSE
  /\ IF active THEN UNCHANGED <<active, tip>>
     ELSE /\ active' = TRUE
          /\ tip' = IF animated THEN "showing" ELSE "visible"
  /\ UNCHANGED <<mouse, title, hideTimeout>>

\* display(true): the title returns at once, the tip when its animation is over.
hide ==
  /\ hideTimeout /\ hideTimeout' = FALSE
  /\ IF active THEN active' = FALSE /\ tip' = "hiding" /\ title' = "own"
     ELSE UNCHANGED <<active, tip, title>>
  /\ UNCHANGED <<mouse, showTimeout>>

\* The end of an animation; the one of display(true) is followed by reset, and the tip
\* is taken from under the mouse.
animationEnd ==
  /\ \/ tip = "showing" /\ tip' = "visible" /\ UNCHANGED mouse
     \/ tip = "hiding" /\ tip' = "detached" /\ mouse' = IF mouse = "tip" THEN "away" ELSE mouse
  /\ UNCHANGED <<title, active, timeouts>>

Next == mouseenter \/ leaveElement \/ leaveTip \/ enterTip \/ show \/ hide \/ animationEnd

Fairness == WF_vars(show) /\ WF_vars(hide) /\ WF_vars(animationEnd)

Spec == Init /\ [][Next]_vars /\ Fairness

-----------------------------------------------------------------------------
(* Properties *)

\* Once the mouse stays away the tip goes and the element has its title back, whatever was
\* hovered before and whichever timers and animations were under way.
TipSettles ==
  <>[](mouse = "away") => <>[](tip = "detached" /\ title = "own" /\ ~active)
=============================================================================
