------------------------------- MODULE WangEditor -------------------------------
(***************************************************************************)
(* The text of js/editor/wangEditor.js as general.js uses it: keys, pasted *)
(* text and uploaded images change the html, a delayed onchange copies it  *)
(* to the hidden fields of the form.  The html is a sequence of top level  *)
(* blocks; the caret is behind the last item of one of them.  Time is left *)
(* to chance: a timer that is set fires some time later.                   *)
(***************************************************************************)
EXTENDS Integers, Sequences, SequencesExt

CONSTANTS
  MaxBlocks, MaxEdits,   \* bounds of the text and of what is done to it
  none

VARIABLES
  html, caret,
  _willBreakCode,
  compositionEnd,
  held,                  \* the key that is down, or none
  beforeChangeHtml,
  onChange,              \* what the timer will report, or none
  content,               \* the hidden field, none while it is as the page was served
  originalContent,       \* the other one, which has the text only
  xhrs,                  \* uploads on their way
  _selectedImg,          \* an image was clicked last
  edits,
  unseen,                \* history: the html differs from what change() last saw
  undone                 \* history: change() saw the reported html again too early

vars == <<html, caret, _willBreakCode, compositionEnd, held, beforeChangeHtml, onChange,
          content, originalContent, xhrs, _selectedImg, edits, unseen, undone>>
reports == <<beforeChangeHtml, content, originalContent>>

Block(tag, items) == [tag |-> tag, items |-> items]
P == Block("P", <<>>)
text(h) == FlattenSeq([i \in DOMAIN h |-> SelectSeq(h[i].items, LAMBDA x : x # "img")])

\* What a page starts with; initSelection(TRUE) ends it with an empty line.
initSelection(h) == IF h # <<>> /\ Last(h) = P THEN h ELSE Append(h, P)

Init ==
  /\ html \in {initSelection(<<>>), initSelection(<<Block("PRE", <<"a">>)>>),
               initSelection(<<Block("H", <<"a">>)>>)}
  /\ caret = Len(html)
  /\ _willBreakCode = FALSE /\ compositionEnd = TRUE /\ held = none
  /\ beforeChangeHtml = html /\ onChange = none
  /\ content = none /\ originalContent = none
  /\ xhrs = 0 /\ _selectedImg = FALSE /\ edits = 0 /\ unseen = FALSE /\ undone = FALSE

-----------------------------------------------------------------------------
(* Reporting *)

\* Fault: throttled where it should be debounced.
changeThrottled ==
  /\ unseen' = FALSE
  /\ IF html' = beforeChangeHtml \/ onChange # none
     THEN /\ undone' = (undone \/ (html' = beforeChangeHtml /\ onChange # none))
          /\ UNCHANGED onChange
     ELSE onChange' = html' /\ undone' = FALSE

\* The html that was last reported sets no timer, and stops none.
change ==
  /\ unseen' = FALSE
  /\ IF html' = beforeChangeHtml
     THEN undone' = (undone \/ onChange # none) /\ UNCHANGED onChange
     ELSE onChange' = html' /\ undone' = FALSE

Unreported == unseen' = TRUE /\ UNCHANGED <<onChange, undone>>

\* The timer: the html as it was when the timer was set, the text as it is now.
onchange ==
  /\ onChange # none
  /\ content' = onChange
  /\ originalContent' = text(html)
  /\ beforeChangeHtml' = onChange
  /\ onChange' = none
  /\ UNCHANGED <<html, caret, _willBreakCode, compositionEnd, held, xhrs,
                 _selectedImg, edits, unseen, undone>>

Edit == edits < MaxEdits /\ edits' = edits + 1

-----------------------------------------------------------------------------
(* Commands *)

\* do: the saved range is never missing once the editor is created.
Do(h, at) == html' = h /\ caret' = at /\ change

insertHTML(item) == Do([html EXCEPT ![caret].items = Append(@, item)], caret)

\* The list of head lines.
formatBlock(tag) ==
  /\ Edit /\ held = none /\ html[caret].tag # "PRE"
  /\ Do([html EXCEPT ![caret].tag = tag], caret)
  /\ UNCHANGED <<reports, _willBreakCode, compositionEnd, held, xhrs, _selectedImg>>

\* The menu of code blocks, with nothing selected.
insertCode ==
  /\ Edit /\ held = none /\ Len(html) + 2 <= MaxBlocks /\ html[caret].tag # "PRE"
  /\ Do(InsertAt(InsertAt(html, caret + 1, Block("PRE", <<"a">>)), caret + 2, P), caret + 2)
  /\ UNCHANGED <<reports, _willBreakCode, compositionEnd, held, xhrs, _selectedImg>>

\* The panel of images, with an address.
insertLinkImg ==
  /\ Edit /\ held = none
  /\ insertHTML("img")
  /\ UNCHANGED <<reports, _willBreakCode, compositionEnd, held, xhrs, _selectedImg>>

\* Two panels write to the text themselves: nothing sees it before the next click or key.
Behind == held = none /\ Unreported
          /\ UNCHANGED <<reports, caret, _willBreakCode, compositionEnd, held, xhrs>>

removeImage ==
  /\ Edit /\ _selectedImg /\ _selectedImg' = FALSE
  /\ \E i \in DOMAIN html : /\ "img" \in ToSet(html[i].items)
                           /\ html' = [html EXCEPT ![i].items = RemoveFirst(@, "img")]
  /\ Behind

_updateCode ==
  /\ Edit /\ Behind
  /\ html[caret].tag = "PRE"
  /\ html' = [html EXCEPT ![caret].items = <<"a">>]
  /\ UNCHANGED _selectedImg

-----------------------------------------------------------------------------
(* Keys.  What the browser itself does to the text is external. *)

Down(key) == Edit /\ held = none /\ html # <<>> /\ held' = key
             /\ UNCHANGED <<reports, xhrs, _selectedImg>>

keydown ==
  /\ Down("letter")
  /\ _willBreakCode' = FALSE
  /\ html' = [html EXCEPT ![caret].items = Append(@, "a")]
  /\ compositionEnd' \in BOOLEAN   \* compositionstart and compositionend
  /\ Unreported /\ UNCHANGED caret

\* Tab writes four blanks.
keydownTab ==
  /\ Down("letter")
  /\ _willBreakCode' = FALSE
  /\ insertHTML("a")
  /\ UNCHANGED compositionEnd

\* The browser continues a head line with a block of its own choice.
enter ==
  /\ Down("Enter") /\ html[caret].tag # "PRE" /\ Len(html) < MaxBlocks
  /\ \E tag \in IF html[caret].tag = "P" THEN {"P"} ELSE {"P", "DIV", html[caret].tag} :
       html' = InsertAt(html, caret + 1, Block(tag, <<>>))
  /\ caret' = caret + 1
  /\ Unreported /\ UNCHANGED <<_willBreakCode, compositionEnd>>

\* In a code block, at its end or not: the second time it is left.
codeHandle(atEnd) ==
  /\ Down("Enter") /\ html[caret].tag = "PRE"
  /\ IF _willBreakCode
     THEN /\ Len(html) < MaxBlocks
          /\ html' = InsertAt(html, caret + 1, P) /\ caret' = caret + 1
          /\ _willBreakCode' = FALSE
          /\ Unreported
     ELSE /\ insertHTML("\n")
          /\ _willBreakCode' = atEnd
  /\ UNCHANGED compositionEnd

\* An empty text is kept; another loses an item, a block or, selected, all of itself.
backspace ==
  /\ Down("Backspace")
  /\ _willBreakCode' = FALSE
  /\ \/ html = <<P>> /\ UNCHANGED <<html, caret, onChange, unseen, undone>>
     \/ /\ html # <<P>> /\ html[caret].items # <<>>
        /\ html' = [html EXCEPT ![caret].items = Front(@)]
        /\ Unreported /\ UNCHANGED caret
     \/ /\ html[caret].items = <<>> /\ caret > 1
        /\ html' = RemoveAt(html, caret) /\ caret' = caret - 1
        /\ Unreported
     \/ /\ html # <<P>>
        /\ html' = <<>> /\ caret' = 0
        /\ Unreported
  /\ UNCHANGED compositionEnd

\* pHandle and _clearHandle, then the listener of the container.
keyup ==
  /\ held # none /\ held' = none
  /\ CASE held = "Enter" /\ html[caret].tag \notin {"P", "PRE"} /\ html[caret].items = <<>> ->
            html' = [html EXCEPT ![caret] = P] /\ UNCHANGED caret
       [] held = "Backspace" /\ html = <<>> -> html' = <<P>> /\ caret' = 1
       [] OTHER -> UNCHANGED <<html, caret>>
  /\ IF compositionEnd THEN change
     ELSE /\ unseen' = (unseen \/ html' # html)
          /\ UNCHANGED <<onChange, undone>>
  /\ _selectedImg' = FALSE
  /\ UNCHANGED <<reports, _willBreakCode, compositionEnd, xhrs, edits>>

\* A click sets the range, on a text or on an image, and ends an input method.
click(i) ==
  /\ held = none
  /\ caret' = i /\ compositionEnd' = TRUE
  /\ _selectedImg' \in {FALSE, "img" \in ToSet(html[i].items)}
  /\ UNCHANGED html /\ change
  /\ UNCHANGED <<reports, _willBreakCode, held, xhrs, edits>>

-----------------------------------------------------------------------------
(* Paste, drop and upload *)

\* One file that is no image, or too large, refuses them all; one without a name or a
\* size is left out.
uploadImg(files) == IF "bad" \in files THEN UNCHANGED xhrs ELSE xhrs' = xhrs + 1

Quiet == UNCHANGED <<html, caret, onChange, unseen, undone>>

\* Of the two listeners one acts: the text, if there is any, or else the images, which a
\* code block does not take.  One within 100 ms of the last paste does nothing.
paste(pasteHtml, files) ==
  /\ Edit /\ held = none
  /\ IF pasteHtml \/ html[caret].tag = "PRE"
     THEN insertHTML("a") /\ UNCHANGED xhrs
     ELSE /\ IF files = {} THEN UNCHANGED xhrs ELSE uploadImg(files)
          /\ Quiet
  /\ UNCHANGED <<reports, _willBreakCode, compositionEnd, held, _selectedImg>>

\* Of files, or with the panel of images.
drop(files) ==
  /\ Edit /\ uploadImg(files) /\ Quiet
  /\ UNCHANGED <<reports, _willBreakCode, compositionEnd, held, _selectedImg>>

\* The answer, to where the caret is by now: customInsert writes the image.
onreadystatechange ==
  /\ xhrs > 0 /\ html # <<>>
  /\ xhrs' = xhrs - 1
  /\ insertHTML("img")
  /\ UNCHANGED <<reports, _willBreakCode, compositionEnd, held, _selectedImg, edits>>

\* A time out, a status or a code that is no success: only a message.
failed ==
  /\ xhrs > 0
  /\ xhrs' = xhrs - 1
  /\ Quiet
  /\ UNCHANGED <<reports, _willBreakCode, compositionEnd, held, _selectedImg, edits>>

Files == (SUBSET {"good", "bad", "nameless"}) \ {{}}

Next ==
  \/ onchange \/ keydown \/ keydownTab \/ enter \/ backspace \/ keyup
  \/ insertCode \/ insertLinkImg \/ removeImage \/ _updateCode
  \/ \E atEnd \in BOOLEAN : codeHandle(atEnd)
  \/ \E tag \in {"P", "H"} : formatBlock(tag)
  \/ \E i \in DOMAIN html : click(i)
  \/ \E pasteHtml \in BOOLEAN, files \in {{}} \union Files : paste(pasteHtml, files)
  \/ \E files \in Files : drop(files)
  \/ onreadystatechange \/ failed

-----------------------------------------------------------------------------
(* Properties *)

\* When no report is due, the form has the html that is shown, whoever changed it: keys,
\* a command or a late image.  Two things are the exceptions: a change that no listener
\* has seen yet, and one that is undone while its report is due, which is reported
\* nevertheless (change, onchange).
ContentFollows ==
  onChange = none /\ ~unseen /\ ~undone =>
    IF content = none THEN html = beforeChangeHtml ELSE html = content
=============================================================================
