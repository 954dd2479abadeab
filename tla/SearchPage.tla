----------------------------- MODULE SearchPage -----------------------------
(***************************************************************************)
(* A documentation page as a whole: SearchBox with SearchResults in its    *)
(* frame (docs/html/search/search.js, the page of results it loads, and    *)
(* the markup of docs/html/index.html that ties them together).  The box   *)
(* loads the frame and hides it; the frame takes the focus from the field  *)
(* and gives it back, which opens and closes the box.                      *)
(***************************************************************************)
EXTENDS SearchBox

CONSTANTS Rows, Children      \* as in SearchResults

VARIABLES shown, open, focus, lastKey, repeatOn

Results == INSTANCE SearchResults WITH loaded <- resultsWindow

ASSUME PageAssumption == Results!RowAssumption

resultVars == <<shown, open, focus, lastKey, repeatOn>>
pageVars == <<vars, resultVars>>

PageInit == Init /\ Results!Init

----------------------------------------------------------------------------
(* The box acts.                                                           *)

\* Search without an exception sets the location of the frame.
Reload(searches) ==
    IF searches /\ ~Throws
    THEN \E matches \in Results!Matching : Results!Search(matches)
    ELSE UNCHANGED resultVars

\* A row has lost the focus when the field has it or the frame is hidden.
Keep ==
    /\ UNCHANGED <<shown, open, lastKey, repeatOn>>
    /\ focus' = IF focused' \/ ~resultsWindow' THEN <<>> ELSE focus

InField ==
    /\ \/ \E isActive \in BOOLEAN : OnSearchFieldFocus(isActive)
       \/ \E value \in Values : edit(value)
       \/ \E key \in {"ShiftEnter", "Escape", "Other"} : OnSearchFieldChange(key)
    /\ Keep

Mouse == (ClickClose \/ MouseOver \/ OnSearchSelectHide \/ CloseSelectionWindow) /\ Keep

\* A click or a key on a section needs the focus, which no row has then.
InSections ==
    /\ focus = <<>>
    /\ \/ (\E id \in 0..(Sections - 1) : ClickItem(id)) /\ Reload(SearchAgain)
       \/ \E key \in {"Down", "Up", "Enter", "Escape"} :
             OnSearchSelectKey(key) /\ Reload(SearchAgain)

Timers == (KeyTimer \/ StaleTimer) /\ Reload(TRUE)

----------------------------------------------------------------------------
(* The frame acts.                                                         *)

\* A row that gets the focus, by a click or by the message that Enter or Down
\* in the field sent some time ago, takes it from the field.
Blur_mut == UNCHANGED vars
Blur == IF focused /\ focus' # <<>> THEN OnSearchFieldFocus(FALSE) ELSE UNCHANGED vars

Enter == (Results!take_focus \/ \E e \in Results!AllRows : Results!Toggle(e)) /\ Blur

\* Escape hides the frame and goes to the field, Up on the first row only
\* goes there.
OnRow ==
    /\ \/ \E key \in Results!Keys : Results!keydown(key)
       \/ Results!keypress
       \/ Results!keyup
    /\ IF ~resultsWindow' THEN LeaveResults
       ELSE IF focus' = <<>> THEN OnSearchFieldFocus(TRUE)
       ELSE UNCHANGED vars

\* The user clicks on something that is not part of the search.
ClickElsewhere ==
    /\ focus # <<>> /\ focus' = <<>>
    /\ UNCHANGED <<vars, shown, open, lastKey, repeatOn>>

PageNext == InField \/ Mouse \/ InSections \/ Timers \/ Enter \/ OnRow \/ ClickElsewhere

PageSpec == PageInit /\ [][PageNext]_pageVars

----------------------------------------------------------------------------
\* The focus is on a row the user can see, or on none, and never there and in
\* the field at once: although mouse and keys show and hide children, searches
\* show and hide rows, and field, sections and timers show and hide the frame.
FocusIsVisible == Results!FocusIsVisible /\ (focused => focus = <<>>)

\* Down goes to the next visible element and stays on the last: it neither
\* skips nor repeats one, whatever rows are hidden and whatever is open.
DownGoesToNext == Results!DownGoesToNext

\* Up goes to the visible element above, and from the first one to the search
\* field.  The row above is looked for by visibility, its last child by
\* number; they are the same row because the rows that match are neighbours.
UpGoesToPrevious == Results!UpGoesToPrevious
=============================================================================
