--------------------------- MODULE SearchResults ---------------------------
(***************************************************************************)
(* The page of search results of the generated documentation               *)
(* (docs/html/search/search.js, written by Doxygen): the rows that match,  *)
(* the children of rows with several results, and the keyboard moving the  *)
(* focus over them.  It runs in a frame of the page with the SearchBox:    *)
(* SearchPage is the specification of both.                                *)
(*                                                                         *)
(* A focus is <<>> for anything outside the rows, <<e>> for the link of    *)
(* row e and <<e, c>> for child c of row e.                                *)
(***************************************************************************)
EXTENDS Integers, Sequences

CONSTANTS
    Rows,     \* number of rows createResults made from searchData
    Children  \* children of each row; none for a single result

RowAssumption ==
    /\ Rows \in Nat
    /\ Children \in [0..(Rows - 1) -> Nat]

VARIABLES
    loaded,    \* the page is shown in the window of the search box
    shown,     \* rows with style.display == 'block'
    open,      \* rows whose SRChildren element is displayed
    focus,
    lastKey,   \* key that is held, 0 for none
    repeatOn

vars == <<loaded, shown, open, focus, lastKey, repeatOn>>

Field == <<>>
Item(e) == <<e>>
Child(e, c) == <<e, c>>
AllRows == 0..(Rows - 1)

Left == 37
Up == 38
Right == 39
Down == 40
Escape == 27
Other == 65
Keys == {Left, Up, Right, Down, Escape, Other}

\* The rows are sorted by name, so those whose name has a given prefix are
\* neighbours.
Matching == {first..last : first \in AllRows, last \in AllRows} \cup {{}}

Init ==
    /\ loaded = FALSE
    /\ shown = {}
    /\ open = {}
    /\ focus = Field
    /\ lastKey = 0
    /\ repeatOn = FALSE

----------------------------------------------------------------------------
\* The search box loads the page anew, whatever had the focus in the old one:
\* createResults hides all children, Search shows the rows that match.
Search(matches) ==
    /\ loaded' = TRUE
    /\ shown' = matches
    /\ open' = {}
    /\ lastKey' = 0
    /\ repeatOn' = FALSE
    /\ focus' = Field

HasChildren(e) == Children[e] > 0

\* A click on the link of a row with several results.
Toggle(e) ==
    /\ loaded /\ e \in shown /\ HasChildren(e)
    /\ open' = IF e \in open THEN open \ {e} ELSE open \cup {e}
    /\ focus' = Item(e)
    /\ UNCHANGED <<loaded, shown, lastKey, repeatOn>>

\* The first visible row from index on, up or down; Field stands for none.
NavNext_mut(index) == IF index \in AllRows THEN Item(index) ELSE Field
NavNext(index) ==
    IF \E e \in shown : e >= index
    THEN Item(CHOOSE e \in shown : e >= index /\ \A f \in shown : f >= index => e <= f)
    ELSE Field
NavPrev(index) ==
    IF \E e \in shown : e <= index
    THEN Item(CHOOSE e \in shown : e <= index /\ \A f \in shown : f <= index => e >= f)
    ELSE Field

\* The message "take_focus" of the search box.
take_focus ==
    /\ loaded /\ focus = Field
    /\ focus' = NavNext(0)
    /\ UNCHANGED <<loaded, shown, open, lastKey, repeatOn>>

\* Escape closes the window and returns to the field.
CloseResultsWindow ==
    /\ loaded' = FALSE
    /\ focus' = Field
    /\ UNCHANGED open

\* The link the search for the last child of row e ends with.
LastChild_mut(e) == Child(e, 0)
LastChild(e) == Child(e, Children[e] - 1)

\* The effect of a key on row e.  Up goes to the last open child of the row
\* above, looked for under the number e - 1.
Nav(key, e) ==
    \/ /\ key = Up
       /\ LET above == NavPrev(e - 1) IN
          focus' = IF above # Field /\ above[1] \in open /\ HasChildren(e - 1)
                   THEN LastChild(e - 1) ELSE above
       /\ UNCHANGED <<loaded, open>>
    \/ /\ key = Down
       /\ LET next == IF e \in open THEN Child(e, 0) ELSE NavNext(e + 1) IN
          focus' = IF next = Field THEN focus ELSE next
       /\ UNCHANGED <<loaded, open>>
    \/ /\ key = Right
       /\ open' = IF HasChildren(e) THEN open \cup {e} ELSE open
       /\ UNCHANGED <<loaded, focus>>
    \/ /\ key = Left
       /\ open' = open \ {e}
       /\ UNCHANGED <<loaded, focus>>
    \/ /\ key = Escape
       /\ CloseResultsWindow
    \/ /\ key = Other
       /\ UNCHANGED <<loaded, open, focus>>

\* The effect of a key on child c of row e.
NavChild(key, e, c) ==
    \/ /\ key = Up
       /\ focus' = IF c > 0 THEN Child(e, c - 1) ELSE Item(e)
       /\ UNCHANGED <<loaded, open>>
    \/ /\ key = Down
       /\ LET next == IF c + 1 < Children[e] THEN Child(e, c + 1) ELSE NavNext(e + 1) IN
          focus' = IF next = Field THEN focus ELSE next
       /\ UNCHANGED <<loaded, open>>
    \/ /\ key = Escape
       /\ CloseResultsWindow
    \/ /\ key \in {Left, Right, Other}
       /\ UNCHANGED <<loaded, open, focus>>

\* What the held key does to the element that has the focus.
Act(key) ==
    /\ \/ Len(focus) = 1 /\ Nav(key, focus[1])
       \/ Len(focus) = 2 /\ NavChild(key, focus[1], focus[2])
    /\ UNCHANGED shown

\* ProcessKeys: a key acts when it goes down and, held, with every keypress
\* but the first.
keydown(key) ==
    /\ focus # Field
    /\ lastKey' = key /\ repeatOn' = FALSE
    /\ Act(key)

keypress ==
    /\ focus # Field
    /\ \/ /\ ~repeatOn
          /\ repeatOn' = (lastKey # 0)
          /\ UNCHANGED <<loaded, shown, open, focus, lastKey>>
       \/ /\ repeatOn
          /\ lastKey # 0
          /\ Act(lastKey)
          /\ UNCHANGED <<lastKey, repeatOn>>

keyup ==
    /\ focus # Field
    /\ lastKey' = 0 /\ repeatOn' = FALSE
    /\ UNCHANGED <<loaded, shown, open, focus>>

----------------------------------------------------------------------------
\* What the page shows, from top to bottom.
Visible == {Item(e) : e \in shown}
             \cup UNION {{Child(e, c) : c \in 0..(Children[e] - 1)} : e \in shown \cap open}

Above(p, q) ==
    \/ p[1] < q[1]
    \/ p[1] = q[1] /\ Len(p) < Len(q)
    \/ p[1] = q[1] /\ Len(p) = 2 /\ Len(q) = 2 /\ p[2] < q[2]

\* q is the next visible element under p.
Under(p, q) ==
    /\ p \in Visible /\ q \in Visible /\ Above(p, q)
    /\ \A r \in Visible : ~(Above(p, r) /\ Above(r, q))

\* The focus is on something the user can see, although children are shown
\* and hidden by mouse and keys and the rows by the search.
FocusIsVisible == focus = Field \/ (loaded /\ focus \in Visible)

\* Down goes to the next visible element and stays on the last: it neither
\* skips nor repeats one, whatever rows are hidden and whatever is open.
DownGoesToNext ==
    [][keydown(Down) => \/ Under(focus, focus')
                        \/ focus' = focus /\ \A p \in Visible : ~Above(focus, p)]_vars

\* Up goes to the visible element above, and from the first one to the search
\* field.  The row above is looked for by visibility, its last child by
\* number; they are the same row because the rows that match are neighbours.
UpGoesToPrevious ==
    [][keydown(Up) => \/ Under(focus', focus)
                      \/ focus' = Field /\ \A p \in Visible : ~Above(p, focus)]_vars
=============================================================================
