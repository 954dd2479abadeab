----------------------------- MODULE SearchBox -----------------------------
(***************************************************************************)
(* The search box on the pages of the generated documentation              *)
(* (docs/html/search/search.js, written by Doxygen): the text field, the   *)
(* window of results, the window that selects a section, and the timers    *)
(* that search after a pause in typing and hide the selection window.      *)
(* Handlers run one at a time; users and timers interleave.                *)
(*                                                                         *)
(* A text is a sequence of characters, 32 the blank.  Positions, sizes and *)
(* lastResultsPage, which nothing reads, are left out.  A click on a link  *)
(* takes the focus away from the field first.                              *)
(***************************************************************************)
EXTENDS Integers, Sequences

CONSTANTS
    Values,    \* what a user may leave in the field while typing
    Label,     \* the text of a field nobody uses
    Sections,  \* number of sections the search index has
    MaxStale   \* bound of the model: forgotten timers at a time

Blank == 32
Empty == <<>>

ASSUME BoxAssumption ==
    /\ \A v \in Values \cup {Label} : v \in Seq(Nat)
    /\ Label # Empty /\ Label[1] # Blank
    /\ Sections \in Nat \ {0}
    /\ MaxStale \in Nat

VARIABLES
    field,         \* DOMSearchField().value
    focused,       \* the field has the focus
    active,        \* className of the box is MSearchBoxActive
    searchActive,
    lastSearchValue,
    resultsWindow, \* the window of results is displayed
    closeButton,   \* so is the button that closes it
    selectWindow,  \* the window of sections is displayed
    over,          \* the mouse is over that window or its icon
    searchIndex,
    keyTimeout,    \* it holds the id of a running search timer
    stale,         \* search timers that run with no id to clear them by
    hideTimeout    \* the timer of CloseSelectionWindow runs

boxVars    == <<field, active, searchActive>>
windowVars == <<resultsWindow, closeButton>>
selectVars == <<selectWindow, over, hideTimeout>>
timerVars  == <<keyTimeout, stale>>
vars == <<boxVars, focused, lastSearchValue, windowVars, selectVars, searchIndex, timerVars>>

NoSpaces(text) == SelectSeq(text, LAMBDA c : c # Blank)
NoLeading(text) ==
    LET blanks == {k \in 0..Len(text) : \A i \in 1..k : text[i] = Blank}
        leading == CHOOSE k \in blanks : \A j \in blanks : j <= k
    IN  SubSeq(text, leading + 1, Len(text))

Init ==
    /\ field = Label /\ lastSearchValue = Empty
    /\ searchIndex = 0 /\ stale = 0
    /\ focused = FALSE /\ active = FALSE /\ searchActive = FALSE
    /\ resultsWindow = FALSE /\ closeButton = FALSE
    /\ selectWindow = FALSE /\ over = FALSE
    /\ keyTimeout = FALSE /\ hideTimeout = FALSE

----------------------------------------------------------------------------
\* Activate.
Open ==
    /\ active' = TRUE
    /\ IF field = Label
       THEN field' = Empty /\ searchActive' = TRUE
       ELSE UNCHANGED <<field, searchActive>>

Close_mut ==
    /\ active' = FALSE
    /\ field' = Label
    /\ UNCHANGED <<searchActive, lastSearchValue>>
Close ==
    /\ active' = FALSE
    /\ field' = Label
    /\ searchActive' = FALSE
    /\ lastSearchValue' = Empty

\* Leaving the field closes the box unless results are shown.
Activate(isActive) ==
    IF isActive \/ resultsWindow THEN Open /\ UNCHANGED lastSearchValue ELSE Close

HideResults == resultsWindow' = FALSE /\ closeButton' = FALSE

\* Search, without the id of the timer: there is no index for a section
\* beyond the last, and looking it up throws before anything is displayed.
Throws == searchIndex' >= Sections
ShowResults ==
    IF Throws
    THEN UNCHANGED <<windowVars, lastSearchValue>>
    ELSE /\ resultsWindow' = TRUE
         /\ closeButton' = TRUE
         /\ lastSearchValue' = NoLeading(field)

\* Search sets keyTimeout to 0, whoever calls it: a running timer it does not
\* come from goes on without an id.
ForgetTimer(running) ==
    /\ keyTimeout' = FALSE
    /\ stale' = running + (IF keyTimeout THEN 1 ELSE 0)
    /\ stale' <= MaxStale

----------------------------------------------------------------------------
(* The field.                                                              *)

OnSearchFieldFocus(isActive) ==
    /\ focused # isActive
    /\ focused' = isActive
    /\ Activate(isActive)
    /\ UNCHANGED <<windowVars, selectVars, searchIndex, timerVars>>

\* The browser changes the text; the handler hears of it when the key is up.
edit(value) ==
    /\ focused
    /\ field' = value
    /\ UNCHANGED <<active, searchActive, focused, lastSearchValue, windowVars, selectVars,
                   searchIndex, timerVars>>

OnSearchSelectShow == selectWindow' = TRUE /\ hideTimeout' = FALSE

\* Shift with Enter or Down goes to the sections, Escape leaves the box, any
\* other key starts the timer if the text differs from what was searched.
OnSearchFieldChange(key) ==
    /\ focused
    /\ UNCHANGED <<over, searchIndex, stale>>
    /\ \/ /\ key = "ShiftEnter"
          /\ OnSearchSelectShow
          /\ focused' = FALSE
          /\ keyTimeout' = FALSE
          /\ Activate(FALSE)
          /\ UNCHANGED windowVars
       \/ /\ key = "Escape"
          /\ focused' = FALSE
          /\ keyTimeout' = FALSE
          /\ HideResults
          /\ Close
          /\ UNCHANGED <<selectWindow, hideTimeout>>
       \/ /\ key = "Other"
          /\ keyTimeout' = (NoSpaces(field) \notin {lastSearchValue, Empty})
          /\ IF NoSpaces(field) # lastSearchValue /\ NoSpaces(field) = Empty
             THEN HideResults /\ lastSearchValue' = Empty
             ELSE UNCHANGED <<windowVars, lastSearchValue>>
          /\ UNCHANGED <<boxVars, focused, selectWindow, hideTimeout>>

CloseResultsWindow ==
    /\ ~focused
    /\ HideResults
    /\ UNCHANGED <<selectVars, searchIndex, timerVars>>

\* By its button, or from the page of results, which then focuses the field.
ClickClose == closeButton /\ CloseResultsWindow /\ Close /\ UNCHANGED focused

LeaveResults ==
    /\ resultsWindow
    /\ CloseResultsWindow
    /\ focused' = TRUE
    /\ active' = TRUE /\ field' = Empty /\ searchActive' = TRUE
    /\ lastSearchValue' = Empty

----------------------------------------------------------------------------
(* The window of sections.                                                 *)

MouseOver ==
    /\ ~over /\ over' = TRUE
    /\ OnSearchSelectShow
    /\ UNCHANGED <<boxVars, focused, lastSearchValue, windowVars, searchIndex, timerVars>>

OnSearchSelectHide ==
    /\ over /\ over' = FALSE
    /\ hideTimeout' = TRUE
    /\ UNCHANGED <<boxVars, focused, lastSearchValue, windowVars, selectWindow, searchIndex,
                   timerVars>>

CloseSelectionWindow ==
    /\ hideTimeout /\ hideTimeout' = FALSE
    /\ selectWindow' = FALSE
    /\ UNCHANGED <<boxVars, focused, lastSearchValue, windowVars, over, searchIndex, timerVars>>

\* A new section searches again, if something was typed.
SearchAgain == NoSpaces(field) # Empty /\ searchActive

OnSelectItem(id) ==
    /\ searchIndex' = id
    /\ IF SearchAgain
       THEN ForgetTimer(stale) /\ ShowResults
       ELSE UNCHANGED <<timerVars, windowVars, lastSearchValue>>

ClickItem(id) ==
    /\ selectWindow /\ ~focused
    /\ OnSelectItem(id)
    /\ UNCHANGED <<boxVars, focused, selectVars>>

OnSearchSelectKey(key) ==
    /\ selectWindow /\ ~focused
    /\ \/ /\ key = "Down" /\ searchIndex < Sections
          /\ OnSelectItem(searchIndex + 1)
          /\ UNCHANGED <<boxVars, focused, selectVars>>
       \/ /\ key = "Up" /\ searchIndex > 0
          /\ OnSelectItem(searchIndex - 1)
          /\ UNCHANGED <<boxVars, focused, selectVars>>
       \/ /\ key \in {"Enter", "Escape"}
          /\ OnSelectItem(searchIndex)
          /\ UNCHANGED <<over, hideTimeout>>
          /\ IF SearchAgain /\ Throws
             THEN UNCHANGED <<boxVars, focused, selectWindow>>
             ELSE selectWindow' = FALSE /\ focused' = TRUE /\ Open

----------------------------------------------------------------------------
(* The search timers.                                                      *)

Search ==
    /\ UNCHANGED <<boxVars, focused, selectVars, searchIndex>>
    /\ ShowResults

KeyTimer ==
    /\ keyTimeout /\ keyTimeout' = FALSE
    /\ UNCHANGED stale
    /\ Search

StaleTimer ==
    /\ stale > 0
    /\ ForgetTimer(stale - 1)
    /\ Search

Next ==
    \/ \E isActive \in BOOLEAN : OnSearchFieldFocus(isActive)
    \/ \E value \in Values : edit(value)
    \/ \E key \in {"ShiftEnter", "Escape", "Other"} : OnSearchFieldChange(key)
    \/ ClickClose
    \/ LeaveResults
    \/ MouseOver
    \/ OnSearchSelectHide
    \/ CloseSelectionWindow
    \/ \E id \in 0..(Sections - 1) : ClickItem(id)
    \/ \E key \in {"Down", "Up", "Enter", "Escape"} : OnSearchSelectKey(key)
    \/ KeyTimer
    \/ StaleTimer

Spec == Init /\ [][Next]_vars

----------------------------------------------------------------------------
\* A text is remembered as searched only while its results are displayed, so
\* typing it again after the window was closed, in any of the ways to close
\* it, searches again.
SearchedIsShown == lastSearchValue # Empty => resultsWindow /\ closeButton

\* The class of the box and searchActive, which eight handlers and two timers
\* set by hand, go together, and a box nobody uses shows its label, without the
\* focus.  A choice of section does not search in it; a search timer that still
\* runs does, as Close stops none, but it only ever searches for the label:
\* nothing that was typed and left is displayed in an unused box.
UnusedShowsLabel ==
    /\ active <=> searchActive
    /\ ~active => /\ field = Label /\ ~focused
                  /\ resultsWindow => lastSearchValue = Label
=============================================================================
