--------------------------------- MODULE Layer ---------------------------------
(***************************************************************************)
(* The layers of js/layer/layer.js and the album `photos`, by which        *)
(* home.js previews images.  Closing a layer plays an animation of 200 ms  *)
(* before it is removed; an image is loaded behind a loading layer.        *)
(***************************************************************************)
EXTENDS Integers, Sequences, FiniteSets

CONSTANTS
  Photos,      \* number of images of an album
  MaxLayers,   \* bound on layer.index
  MaxCloses    \* bound on the removals one layer waits for

VARIABLES
  layers,      \* by index: [type, dict, removals, shown, mode, ends]
  full,        \* the layer-full attribute of html, which cannot scroll then, or 0
  dicts,       \* albums by number: [imgIndex, loadi, index], index is 0 before it is shown
  keyups,      \* albums whose keyup handler is on the document
  end          \* ready.end: the layers whose end callback was not called

vars == <<layers, full, dicts, keyups, end>>

\* What the functions below work on.
page == [layers |-> layers, full |-> full, keyups |-> keyups, end |-> end]
Set(p) == layers' = p.layers /\ full' = p.full /\ keyups' = p.keyups /\ end' = p.end

Init == layers = <<>> /\ full = 0 /\ dicts = <<>> /\ keyups = {} /\ end = {}

Shown(p) == {i \in DOMAIN p.layers : p.layers[i].shown}

-----------------------------------------------------------------------------
(* Closing *)

rescollbar(p, i) == [p EXCEPT !.full = IF @ = i THEN 0 ELSE @]

\* Fault: the end callback stays registered.
removeKeepsEnd(p, i) ==
  [p EXCEPT !.layers[i].shown = FALSE,
            !.layers[i].ends = IF i \in p.end THEN @ + 1 ELSE @,
            !.keyups = @ \ {p.layers[i].dict}]

remove(p, i) ==
  [p EXCEPT !.layers[i].shown = FALSE,
            !.layers[i].ends = IF i \in p.end THEN @ + 1 ELSE @,
            !.end = @ \ {i},
            !.keyups = @ \ {p.layers[i].dict}]

\* A photo has no closing animation.
close(p, i) ==
  IF i \notin Shown(p) THEN p
  ELSE IF p.layers[i].type = "photos" THEN remove(rescollbar(p, i), i)
  ELSE [rescollbar(p, i) EXCEPT !.layers[i].removals = @ + 1]

\* Of dialogs or loading layers, which all wait for their animation.
closeAll(p, type) ==
  LET closed     == {i \in Shown(p) : p.layers[i].type = type}
      leaving(i) == [p.layers[i] EXCEPT !.removals = @ + 1]
  IN  [p EXCEPT !.layers = [i \in DOMAIN @ |-> IF i \in closed THEN leaving(i) ELSE @[i]],
                !.full = IF @ \in closed THEN 0 ELSE @]

-----------------------------------------------------------------------------
(* Opening *)

\* vessel and callback: the markup, the scroll lock and the callbacks of the new layer.
vessel(p, type, dict, scrollbar) ==
  LET times == Len(p.layers) + 1
      layer == [type |-> type, dict |-> dict, removals |-> 0, shown |-> TRUE, mode |-> "plain", ends |-> 0]
  IN  [p EXCEPT !.layers = Append(@, layer),
                !.full = IF scrollbar THEN @ ELSE times,
                !.keyups = IF dict = 0 THEN @ ELSE @ \union {dict},
                !.end = @ \union {times}]

\* A dialog, a loading layer, and tips likewise, replace those there are; a second album is not
\* shown, though its index is used.
creat(p, type, dict, scrollbar) ==
  IF type = "photos" /\ \E i \in Shown(p) : p.layers[i].type = "photos"
  THEN [p EXCEPT !.layers = Append(@, [type |-> type, dict |-> 0, removals |-> 0, shown |-> FALSE,
                                       mode |-> "plain", ends |-> 0])]
  ELSE vessel(IF type \in {"dialog", "loading"} THEN closeAll(p, type) ELSE p,
              type, dict, scrollbar)

open(type, scrollbar) ==
  /\ Len(layers) < MaxLayers
  /\ Set(creat(page, type, 0, scrollbar))
  /\ UNCHANGED dicts

\* A button, the shade, the closing cross, the time of a message; a loading layer has none.
Close(i) ==
  /\ layers[i].shown /\ layers[i].type # "loading" /\ layers[i].removals < MaxCloses
  /\ Set(close(page, i))
  /\ UNCHANGED dicts

\* The animation of one close is over.
Removal(i) ==
  /\ layers[i].removals > 0
  /\ Set(remove([page EXCEPT !.layers[i].removals = @ - 1], i))
  /\ UNCHANGED dicts

\* The buttons of a page.  They are not used while it is being closed: `full` would lock
\* the html for a layer that goes, and for good.
Mode(i, old, new, p) ==
  /\ layers[i].shown /\ layers[i].removals = 0 /\ layers[i].type = "page" /\ layers[i].mode \in old
  /\ Set([p EXCEPT !.layers[i].mode = new])
  /\ UNCHANGED dicts

min(i)      == Mode(i, {"plain"}, "min", rescollbar(page, i))
restore(i)  == Mode(i, {"min", "full"}, "plain", rescollbar(page, i))
fullPage(i) == Mode(i, {"plain"}, "full", [page EXCEPT !.full = IF @ = 0 THEN i ELSE @])

-----------------------------------------------------------------------------
(* Albums *)

\* photos: a loading layer is shown while the image imgIndex is fetched.
Photo(p, imgIndex) ==
  /\ Len(layers) < MaxLayers
  /\ Set(creat(p, "loading", 0, FALSE))
  /\ dicts' = Append(dicts, [imgIndex |-> imgIndex, loadi |-> Len(p.layers) + 1, index |-> 0,
                             state |-> "loading"])

photos(start) == Photo(page, start)

loadImage(d) ==
  /\ dicts[d].state = "loading" /\ Len(layers) < MaxLayers
  /\ Set(creat(close(page, dicts[d].loadi), "photos", d, FALSE))
  /\ dicts' = [dicts EXCEPT ![d].state = "loaded", ![d].index = Len(layers) + 1]

\* A message asks whether to go on with the next image.
loadError(d) ==
  /\ dicts[d].state = "loading" /\ Len(layers) < MaxLayers
  /\ Set(creat(close(page, dicts[d].loadi), "dialog", 0, TRUE))
  /\ dicts' = [dicts EXCEPT ![d].state = "failed", ![d].index = Len(layers) + 1]

\* tabimg, by a key or an arrow of the album shown.
tabimg(d, imgIndex) ==
  /\ Photos > 1
  /\ Photo(close(page, dicts[d].index), imgIndex)

Active(d) == dicts[d].state = "loaded" /\ d \in keyups
imgprev(d) == Active(d) /\ tabimg(d, IF dicts[d].imgIndex = 1 THEN Photos ELSE dicts[d].imgIndex - 1)
imgnext(d) == Active(d) /\ tabimg(d, (dicts[d].imgIndex % Photos) + 1)
escape(d)  == Active(d) /\ Close(dicts[d].index)

\* The button of the message; after the last image it does nothing.  The message stays.
imgnextAfterError(d) ==
  /\ dicts[d].state = "failed" /\ layers[dicts[d].index].shown
  /\ dicts[d].imgIndex < Photos
  /\ Photo(page, dicts[d].imgIndex + 1)

Next ==
  \/ open("dialog", TRUE) \/ open("page", FALSE)
  \/ \E i \in DOMAIN layers : Close(i) \/ Removal(i) \/ min(i) \/ restore(i) \/ fullPage(i)
  \/ photos(1)
  \/ \E d \in DOMAIN dicts : \/ loadImage(d) \/ loadError(d)
                             \/ imgprev(d) \/ imgnext(d) \/ escape(d) \/ imgnextAfterError(d)

-----------------------------------------------------------------------------
(* Properties *)

\* A layer that was closed leaves nothing behind: the page is locked only by a layer that
\* is shown and not about to go, the arrow keys turn only the one album shown, and every
\* end callback is called once however often its layer is closed.
LayersTidy ==
  /\ full # 0 => layers[full].shown /\ layers[full].removals = 0
  /\ keyups = {layers[i].dict : i \in Shown(page)} \ {0}
  /\ Cardinality(keyups) <= 1
  /\ \A i \in DOMAIN layers : layers[i].ends <= 1 /\ (i \in end => layers[i].shown)
=============================================================================
