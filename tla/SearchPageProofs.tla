-------------------------- MODULE SearchPageProofs --------------------------
(***************************************************************************)
(* The page for every number of rows, children, sections and forgotten     *)
(* timers: what is proved of the box, by itself, holds on the page; the    *)
(* focus stays on what is shown, and Down and Up move it by one.           *)
(***************************************************************************)
EXTENDS SearchPage, TLAPS

----------------------------------------------------------------------------
(* The box.                                                                *)

Types ==
    /\ focused \in BOOLEAN /\ active \in BOOLEAN /\ searchActive \in BOOLEAN
    /\ resultsWindow \in BOOLEAN /\ closeButton \in BOOLEAN

\* The flags of the box and the window of results stay flags.
LEMMA NextTypes == Types /\ [Next]_vars => Types'
<1> SUFFICES ASSUME Types, [Next]_vars PROVE Types'
  OBVIOUS
<1> USE DEF Types, boxVars, windowVars, Activate, Open, Close, HideResults, ShowResults
<1>1. ASSUME NEW isActive \in BOOLEAN, OnSearchFieldFocus(isActive) PROVE Types'
  BY <1>1 DEF OnSearchFieldFocus
<1>2. ASSUME NEW value \in Values, edit(value) PROVE Types'
  BY <1>2 DEF edit
<1>3. ASSUME NEW key, OnSearchFieldChange(key) PROVE Types'
  BY <1>3 DEF OnSearchFieldChange
<1>4. ASSUME ClickClose \/ LeaveResults PROVE Types'
  BY <1>4 DEF ClickClose, LeaveResults, CloseResultsWindow
<1>5. ASSUME MouseOver \/ OnSearchSelectHide \/ CloseSelectionWindow PROVE Types'
  BY <1>5 DEF MouseOver, OnSearchSelectHide, CloseSelectionWindow
<1>6. ASSUME NEW id, ClickItem(id) PROVE Types'
  BY <1>6 DEF ClickItem, OnSelectItem
<1>7. ASSUME NEW key, OnSearchSelectKey(key) PROVE Types'
  BY <1>7 DEF OnSearchSelectKey, OnSelectItem
<1>8. ASSUME KeyTimer \/ StaleTimer PROVE Types'
  BY <1>8 DEF KeyTimer, StaleTimer, Search
<1>9. CASE UNCHANGED vars
  BY <1>9 DEF vars
<1> QED BY <1>1, <1>2, <1>3, <1>4, <1>5, <1>6, <1>7, <1>8, <1>9 DEF Next

\* The label begins with a letter, so a search finds it as it is.
LEMMA LabelIsSearched == NoLeading(Label) = Label
<1> DEFINE blanks == {k \in 0..Len(Label) : \A i \in 1..k : Label[i] = Blank}
<1>1. Label \in Seq(Nat) /\ Label # <<>> /\ Label[1] # Blank
  BY BoxAssumption DEF Empty
<1>2. Len(Label) \in Nat /\ Len(Label) >= 1
  BY <1>1
<1>3. blanks = {0}
  <2>1. 0 \in blanks
    BY <1>2
  <2>2. ASSUME NEW k \in 0..Len(Label), \A i \in 1..k : Label[i] = Blank PROVE k = 0
    <3>1. k >= 1 => 1 \in 1..k
      BY <1>2
    <3> QED BY <1>1, <1>2, <2>2, <3>1
  <2> QED BY <2>1, <2>2
<1>4. (CHOOSE k \in blanks : \A j \in blanks : j <= k) = 0
  <2> HIDE DEF blanks
  <2> QED BY <1>3
<1>5. SubSeq(Label, 0 + 1, Len(Label)) = Label
  BY <1>1, <1>2
<1> QED BY <1>4, <1>5 DEF NoLeading

\* Every handler and timer keeps the class of the box and searchActive
\* together, and nothing but the label is ever searched in an unused box.
LEMMA NextUnused == Types /\ UnusedShowsLabel /\ [Next]_vars => UnusedShowsLabel'
<1> SUFFICES ASSUME Types, UnusedShowsLabel, [Next]_vars PROVE UnusedShowsLabel'
  OBVIOUS
<1> USE DEF Types, UnusedShowsLabel, boxVars, windowVars, Activate, Open, Close, HideResults
<1>1. ASSUME NEW isActive \in BOOLEAN, OnSearchFieldFocus(isActive) PROVE UnusedShowsLabel'
  BY <1>1 DEF OnSearchFieldFocus
<1>2. ASSUME NEW value \in Values, edit(value) PROVE UnusedShowsLabel'
  BY <1>2 DEF edit
<1>3. ASSUME NEW key, OnSearchFieldChange(key) PROVE UnusedShowsLabel'
  <2>1. CASE Activate(FALSE) /\ focused' = FALSE /\ UNCHANGED windowVars
    BY <1>3, <2>1 DEF OnSearchFieldChange
  <2>2. CASE Close /\ focused' = FALSE /\ HideResults
    BY <2>2
  <2>3. CASE UNCHANGED <<boxVars, focused>>
    BY <1>3, <2>3 DEF OnSearchFieldChange
  <2> HIDE DEF Activate, Close, Open, HideResults, UnusedShowsLabel, boxVars, windowVars, Types
  <2> QED BY <1>3, <2>1, <2>2, <2>3, Zenon DEF OnSearchFieldChange
<1>4. ASSUME ClickClose \/ LeaveResults PROVE UnusedShowsLabel'
  BY <1>4 DEF ClickClose, LeaveResults, CloseResultsWindow
<1>5. ASSUME MouseOver \/ OnSearchSelectHide \/ CloseSelectionWindow PROVE UnusedShowsLabel'
  BY <1>5 DEF MouseOver, OnSearchSelectHide, CloseSelectionWindow
<1>6. ASSUME NEW id, OnSelectItem(id), ~active
      PROVE  UNCHANGED <<windowVars, lastSearchValue>>
  BY <1>6 DEF OnSelectItem, SearchAgain
<1>7. ASSUME NEW id, ClickItem(id) PROVE UnusedShowsLabel'
  BY <1>6, <1>7 DEF ClickItem
<1>8. ASSUME NEW key, OnSearchSelectKey(key) PROVE UnusedShowsLabel'
  BY <1>6, <1>8 DEF OnSearchSelectKey
<1>9. ASSUME KeyTimer \/ StaleTimer PROVE UnusedShowsLabel'
  BY <1>9, LabelIsSearched DEF KeyTimer, StaleTimer, Search, ShowResults
<1>10. CASE UNCHANGED vars
  BY <1>10 DEF vars
<1> QED BY <1>1, <1>2, <1>3, <1>4, <1>5, <1>7, <1>8, <1>9, <1>10 DEF Next

\* Every handler and timer that hides the results forgets what was searched.
LEMMA NextSearched == Types /\ SearchedIsShown /\ [Next]_vars => SearchedIsShown'
<1> SUFFICES ASSUME Types, SearchedIsShown, [Next]_vars PROVE SearchedIsShown'
  OBVIOUS
<1> USE DEF SearchedIsShown, windowVars, Activate, Close, HideResults
<1>1. ASSUME NEW isActive \in BOOLEAN, OnSearchFieldFocus(isActive) PROVE SearchedIsShown'
  BY <1>1 DEF OnSearchFieldFocus
<1>2. ASSUME NEW value \in Values, edit(value) PROVE SearchedIsShown'
  BY <1>2 DEF edit
<1>3. ASSUME NEW key, OnSearchFieldChange(key) PROVE SearchedIsShown'
  BY <1>3 DEF OnSearchFieldChange
<1>4. ASSUME ClickClose \/ LeaveResults PROVE SearchedIsShown'
  BY <1>4 DEF ClickClose, LeaveResults, CloseResultsWindow
<1>5. ASSUME MouseOver \/ OnSearchSelectHide \/ CloseSelectionWindow PROVE SearchedIsShown'
  BY <1>5 DEF MouseOver, OnSearchSelectHide, CloseSelectionWindow
<1>6. ASSUME NEW id, OnSelectItem(id) PROVE SearchedIsShown'
  BY <1>6 DEF OnSelectItem, ShowResults
<1>7. ASSUME NEW id, ClickItem(id) PROVE SearchedIsShown'
  BY <1>6, <1>7 DEF ClickItem
<1>8. ASSUME NEW key, OnSearchSelectKey(key) PROVE SearchedIsShown'
  BY <1>6, <1>8 DEF OnSearchSelectKey
<1>9. ASSUME KeyTimer \/ StaleTimer PROVE SearchedIsShown'
  BY <1>9 DEF KeyTimer, StaleTimer, Search, ShowResults
<1>10. CASE UNCHANGED vars
  BY <1>10 DEF vars
<1> QED BY <1>1, <1>2, <1>3, <1>4, <1>5, <1>7, <1>8, <1>9, <1>10 DEF Next

\* A box that is not active shows its label and has no focus, and if a timer
\* that Close left running displays results in it, they are those of the label.
THEOREM UnusedBox == Spec => []UnusedShowsLabel
<1>1. Init => Types /\ UnusedShowsLabel
  BY DEF Init, Types, UnusedShowsLabel
<1> QED BY <1>1, NextTypes, NextUnused, PTL DEF Spec

\* What was searched last is on display, or forgotten.
THEOREM SearchedShown == Spec => []SearchedIsShown
<1>1. Init => Types /\ SearchedIsShown
  BY DEF Init, Types, SearchedIsShown
<1> QED BY <1>1, NextTypes, NextSearched, PTL DEF Spec

----------------------------------------------------------------------------
(* The box on the page, and the focus.                                     *)

\* Whatever the frame does to the box is something the box does by itself.
LEMMA PageStepIsBoxStep == [PageNext]_pageVars => [Next]_vars
<1> SUFFICES ASSUME [PageNext]_pageVars PROVE [Next]_vars
  OBVIOUS
<1>1. ASSUME InField PROVE Next
  BY <1>1 DEF InField, Next
<1>2. ASSUME Mouse PROVE Next
  BY <1>2 DEF Mouse, Next
<1>3. ASSUME InSections PROVE Next
  BY <1>3 DEF InSections, Next
<1>4. ASSUME Timers PROVE Next
  BY <1>4 DEF Timers, Next
<1>5. ASSUME Enter PROVE [Next]_vars
  BY <1>5 DEF Enter, Blur, Next
<1>6. ASSUME OnRow PROVE [Next]_vars
  BY <1>6 DEF OnRow, Next
<1>7. ASSUME ClickElsewhere PROVE UNCHANGED vars
  BY <1>7 DEF ClickElsewhere
<1>8. CASE UNCHANGED pageVars
  BY <1>8 DEF pageVars
<1> QED BY <1>1, <1>2, <1>3, <1>4, <1>5, <1>6, <1>7, <1>8 DEF PageNext

\* The page implements the box: composing it with the page of results, which
\* focuses and leaves the field and closes the window, adds nothing to what the
\* box can do.
THEOREM PageIsBox == PageSpec => Spec
<1>1. PageInit => Init
  BY DEF PageInit
<1> QED BY <1>1, PageStepIsBoxStep, PTL DEF PageSpec, Spec

\* So a box nobody uses shows its label on the page, too.
THEOREM PageUnused == PageSpec => []UnusedShowsLabel
BY PageIsBox, UnusedBox, PTL

\* And what is remembered as searched is on display.
THEOREM PageSearched == PageSpec => []SearchedIsShown
BY PageIsBox, SearchedShown, PTL

----------------------------------------------------------------------------
(* The focus.                                                              *)

\* A row that is shown, or a child of an open one.
Placed(p) ==
    \/ \E e \in shown : p = <<e>>
    \/ \E e \in shown \cap open : \E c \in 0..(Children[e] - 1) : p = <<e, c>>

\* Besides the focus itself: the rows shown are neighbours, so that the row
\* above is the one with the number before; and only rows with children are
\* open, so that an open row has a first child to go to.
FocusInv ==
    /\ shown \in Results!Matching
    /\ \A e \in open : e \in Results!AllRows /\ Children[e] > 0
    /\ focus # <<>> => resultsWindow /\ Placed(focus) /\ ~focused

\* The two ways to say where the focus may be.
LEMMA PlacedIsVisible == ASSUME NEW p PROVE p \in Results!Visible <=> Placed(p)
BY DEF Results!Visible, Results!Item, Results!Child, Placed

\* Rows are numbered from 0, and have a number of children.
LEMMA RowsAreNumbers ==
    /\ Rows \in Nat /\ Children \in [0..(Rows - 1) -> Nat]
    /\ Results!AllRows = 0..(Rows - 1)
    /\ Results!AllRows \subseteq Int
BY PageAssumption DEF Results!RowAssumption, Results!AllRows

\* Rows that match are a range of numbers.
LEMMA MatchingIsRange ==
    ASSUME NEW S \in Results!Matching, NEW e \in S
    PROVE  \E first, last \in 0..(Rows - 1) : S = first..last
BY RowsAreNumbers DEF Results!Matching

\* Only rows match.
LEMMA MatchingIsRows == ASSUME NEW S \in Results!Matching PROVE S \subseteq 0..(Rows - 1)
BY RowsAreNumbers DEF Results!Matching

\* The row NavNext finds is shown.
LEMMA NextIsShown ==
    ASSUME shown \in Results!Matching, NEW i \in Int
    PROVE  Results!NavNext(i) = <<>> \/ \E e \in shown : Results!NavNext(i) = <<e>>
<1>1. CASE \E e \in shown : e >= i
  <2>1. PICK e \in shown : e >= i
    BY <1>1
  <2>2. PICK first, last \in 0..(Rows - 1) : shown = first..last
    BY MatchingIsRange
  <2> DEFINE least == IF i <= first THEN first ELSE i
  <2>3. least \in shown /\ least >= i /\ \A f \in shown : f >= i => least <= f
    BY <2>1, <2>2, RowsAreNumbers
  <2>4. \E d \in shown : d >= i /\ \A f \in shown : f >= i => d <= f
    BY <2>3
  <2> QED BY <1>1, <2>4 DEF Results!NavNext, Results!Item
<1>2. CASE ~ \E e \in shown : e >= i
  BY <1>2 DEF Results!NavNext, Results!Field
<1> QED BY <1>1, <1>2

\* The row above a row that is shown is the one with the number before it.
LEMMA PreviousIsNeighbour ==
    ASSUME shown \in Results!Matching, NEW e \in shown
    PROVE  \/ Results!NavPrev(e - 1) = <<>>
           \/ Results!NavPrev(e - 1) = <<e - 1>> /\ e - 1 \in shown
<1>1. PICK first, last \in 0..(Rows - 1) : shown = first..last
  BY MatchingIsRange
<1>2. CASE \E d \in shown : d <= e - 1
  <2>1. e - 1 \in shown /\ e - 1 <= e - 1 /\ \A f \in shown : f <= e - 1 => e - 1 >= f
    BY <1>1, <1>2, RowsAreNumbers
  <2>2. \A d \in shown : d <= e - 1 /\ (\A f \in shown : f <= e - 1 => d >= f) => d = e - 1
    BY <1>1, <2>1, RowsAreNumbers
  <2>3. Results!NavPrev(e - 1) = <<CHOOSE d \in shown :
                                      d <= e - 1 /\ \A f \in shown : f <= e - 1 => d >= f>>
    BY <1>2 DEF Results!NavPrev, Results!Item
  <2>4. \E d \in shown : d <= e - 1 /\ \A f \in shown : f <= e - 1 => d >= f
    BY <2>1, Zenon
  <2> QED BY <2>1, <2>2, <2>3, <2>4
<1>3. CASE ~ \E d \in shown : d <= e - 1
  BY <1>3 DEF Results!NavPrev, Results!Field
<1> QED BY <1>2, <1>3

\* What a key does to the element with the focus leaves the focus on an
\* element that is shown, or on none.
LEMMA ActKeepsPlace ==
    ASSUME FocusInv, focus # <<>>, NEW key, Results!Act(key)
    PROVE  /\ shown' = shown
           /\ \A e \in open' : e \in Results!AllRows /\ Children[e] > 0
           /\ focus' # <<>> => Placed(focus)' /\ resultsWindow' = resultsWindow
<1>1. ASSUME NEW e \in shown, focus = <<e>>, Results!Nav(key, e)
      PROVE  /\ \A d \in open' : d \in Results!AllRows /\ Children[d] > 0
             /\ focus' # <<>> => Placed(focus)' /\ resultsWindow' = resultsWindow
  <2>0. shown' = shown
    BY DEF Results!Act
  <2>1. e \in Int /\ e \in Results!AllRows /\ Children[e] \in Nat
    BY MatchingIsRows, RowsAreNumbers DEF FocusInv
  <2>2. CASE key = Results!Up
    <3>1. /\ open' = open /\ resultsWindow' = resultsWindow
          /\ focus' = IF /\ Results!NavPrev(e - 1) # <<>>
                         /\ Results!NavPrev(e - 1)[1] \in open
                         /\ Children[e - 1] > 0
                      THEN <<e - 1, Children[e - 1] - 1>> ELSE Results!NavPrev(e - 1)
      BY <1>1, <2>2 DEF Results!Nav, Results!Up, Results!Down, Results!Left, Results!Right,
         Results!Escape, Results!Other, Results!Field, Results!HasChildren, Results!LastChild,
         Results!Child
    <3>2. CASE Results!NavPrev(e - 1) = <<>>
      BY <3>1, <3>2 DEF FocusInv
    <3>3. CASE Results!NavPrev(e - 1) = <<e - 1>> /\ e - 1 \in shown
      <4>1. Results!NavPrev(e - 1)[1] = e - 1 /\ <<e - 1>> # <<>> /\ Children[e - 1] \in Nat
        BY <3>3, MatchingIsRows, RowsAreNumbers DEF FocusInv
      <4>2. CASE e - 1 \in open /\ Children[e - 1] > 0
        <5>1. focus' = <<e - 1, Children[e - 1] - 1>>
          BY <3>1, <3>3, <4>1, <4>2
        <5>2. Children[e - 1] - 1 \in 0..(Children[e - 1] - 1)
          BY <4>1, <4>2
        <5> QED BY <2>0, <3>1, <3>3, <4>2, <5>1, <5>2 DEF Placed, FocusInv
      <4>3. CASE ~(e - 1 \in open /\ Children[e - 1] > 0)
        BY <2>0, <3>1, <3>3, <4>1, <4>3 DEF Placed, FocusInv
      <4> QED BY <4>2, <4>3
    <3> QED BY <3>2, <3>3, PreviousIsNeighbour DEF FocusInv
  <2>3. CASE key = Results!Down
    <3> DEFINE next == IF e \in open THEN <<e, 0>> ELSE Results!NavNext(e + 1)
    <3>1. /\ open' = open /\ resultsWindow' = resultsWindow
          /\ focus' = IF next = <<>> THEN focus ELSE next
      BY <1>1, <2>3 DEF Results!Nav, Results!Up, Results!Down, Results!Left, Results!Right,
         Results!Escape, Results!Other, Results!Field, Results!Child
    <3>2. CASE e \in open
      <4>1. 0 \in 0..(Children[e] - 1) /\ <<e, 0>> # <<>>
        BY <2>1, <3>2 DEF FocusInv
      <4> QED BY <2>0, <3>1, <3>2, <4>1 DEF Placed, FocusInv
    <3>3. CASE e \notin open
      <4>1. next = <<>> \/ \E d \in shown : next = <<d>>
        BY <2>1, <3>3, NextIsShown DEF FocusInv
      <4> HIDE DEF next
      <4> QED BY <1>1, <2>0, <3>1, <4>1 DEF Placed, FocusInv
    <3> QED BY <3>2, <3>3
  <2>4. CASE key = Results!Right
    <3>1. /\ open' = IF Children[e] > 0 THEN open \cup {e} ELSE open
          /\ resultsWindow' = resultsWindow /\ focus' = focus
      BY <1>1, <2>4 DEF Results!Nav, Results!Up, Results!Down, Results!Left, Results!Right,
         Results!Escape, Results!Other, Results!HasChildren
    <3> QED BY <1>1, <2>0, <2>1, <3>1 DEF Placed, FocusInv
  <2>5. CASE key = Results!Left
    <3>1. /\ open' = open \ {e}
          /\ resultsWindow' = resultsWindow /\ focus' = focus
      BY <1>1, <2>5 DEF Results!Nav, Results!Up, Results!Down, Results!Left, Results!Right,
         Results!Escape, Results!Other
    <3> QED BY <1>1, <2>0, <3>1 DEF Placed, FocusInv
  <2>6. CASE key = Results!Escape
    <3>1. open' = open /\ focus' = <<>>
      BY <1>1, <2>6 DEF Results!Nav, Results!Up, Results!Down, Results!Left, Results!Right,
         Results!Escape, Results!Other, Results!CloseResultsWindow, Results!Field
    <3> QED BY <3>1 DEF FocusInv
  <2>7. CASE key = Results!Other
    <3>1. open' = open /\ focus' = focus /\ resultsWindow' = resultsWindow
      BY <1>1, <2>7 DEF Results!Nav, Results!Up, Results!Down, Results!Left, Results!Right,
         Results!Escape, Results!Other
    <3> QED BY <1>1, <2>0, <3>1 DEF Placed, FocusInv
  <2> QED BY <1>1, <2>2, <2>3, <2>4, <2>5, <2>6, <2>7 DEF Results!Nav
<1>2. ASSUME NEW e \in shown \cap open, NEW c \in 0..(Children[e] - 1), focus = <<e, c>>,
             Results!NavChild(key, e, c)
      PROVE  /\ open' = open
             /\ focus' # <<>> => Placed(focus)' /\ resultsWindow' = resultsWindow
  <2>0. shown' = shown
    BY DEF Results!Act
  <2>1. e \in Int /\ Children[e] \in Nat /\ c \in Int
    BY MatchingIsRows, RowsAreNumbers DEF FocusInv
  <2>2. CASE key = Results!Up
    <3>1. /\ open' = open /\ resultsWindow' = resultsWindow
          /\ focus' = IF c > 0 THEN <<e, c - 1>> ELSE <<e>>
      BY <1>2, <2>2 DEF Results!NavChild, Results!Up, Results!Down, Results!Left, Results!Right,
         Results!Escape, Results!Other, Results!Child, Results!Item
    <3>2. c > 0 => c - 1 \in 0..(Children[e] - 1)
      BY <2>1
    <3> QED BY <2>0, <3>1, <3>2 DEF Placed
  <2>3. CASE key = Results!Down
    <3> DEFINE next == IF c + 1 < Children[e] THEN <<e, c + 1>> ELSE Results!NavNext(e + 1)
    <3>1. /\ open' = open /\ resultsWindow' = resultsWindow
          /\ focus' = IF next = <<>> THEN focus ELSE next
      BY <1>2, <2>3 DEF Results!NavChild, Results!Up, Results!Down, Results!Left, Results!Right,
         Results!Escape, Results!Other, Results!Child, Results!Field
    <3>2. CASE c + 1 < Children[e]
      <4>1. c + 1 \in 0..(Children[e] - 1) /\ <<e, c + 1>> # <<>>
        BY <2>1, <3>2
      <4> QED BY <2>0, <3>1, <3>2, <4>1 DEF Placed
    <3>3. CASE ~(c + 1 < Children[e])
      <4>1. next = <<>> \/ \E d \in shown : next = <<d>>
        BY <2>1, <3>3, NextIsShown DEF FocusInv
      <4> HIDE DEF next
      <4> QED BY <1>2, <2>0, <3>1, <4>1 DEF Placed
    <3> QED BY <3>2, <3>3
  <2>4. CASE key = Results!Escape
    <3>1. open' = open /\ focus' = <<>>
      BY <1>2, <2>4 DEF Results!NavChild, Results!Up, Results!Down, Results!Left, Results!Right,
         Results!Escape, Results!Other, Results!CloseResultsWindow, Results!Field
    <3> QED BY <3>1
  <2>5. CASE key \in {Results!Left, Results!Right, Results!Other}
    <3>1. open' = open /\ focus' = focus /\ resultsWindow' = resultsWindow
      BY <1>2, <2>5 DEF Results!NavChild, Results!Up, Results!Down, Results!Left, Results!Right,
         Results!Escape, Results!Other
    <3> QED BY <1>2, <2>0, <3>1 DEF Placed
  <2> QED BY <1>2, <2>2, <2>3, <2>4, <2>5 DEF Results!NavChild
<1>3. CASE \E e \in shown : focus = <<e>>
  <2>1. PICK e \in shown : focus = <<e>>
    BY <1>3
  <2>2. Len(focus) = 1 /\ focus[1] = e
    BY <2>1
  <2> QED BY <1>1, <2>1, <2>2 DEF Results!Act
<1>4. CASE \E e \in shown \cap open : \E c \in 0..(Children[e] - 1) : focus = <<e, c>>
  <2>0. PICK e \in shown \cap open : \E c \in 0..(Children[e] - 1) : focus = <<e, c>>
    BY <1>4
  <2>1. PICK c \in 0..(Children[e] - 1) : focus = <<e, c>>
    BY <2>0
  <2>2. Len(focus) = 2 /\ focus[1] = e /\ focus[2] = c
    BY <2>1
  <2>3. Results!NavChild(key, e, c) /\ shown' = shown
    BY <2>2 DEF Results!Act
  <2>4. open' = open /\ (focus' # <<>> => Placed(focus)' /\ resultsWindow' = resultsWindow)
    BY <1>2, <2>1, <2>3
  <2> QED BY <2>3, <2>4 DEF FocusInv
<1> QED BY <1>3, <1>4 DEF FocusInv, Placed

\* Everything that happens on the page keeps the focus there.
LEMMA PageKeepsFocus == FocusInv /\ [PageNext]_pageVars => FocusInv'
<1> SUFFICES ASSUME FocusInv, [PageNext]_pageVars PROVE FocusInv'
  OBVIOUS
<1>1. ASSUME Keep PROVE FocusInv'
  <2>1. shown' = shown /\ open' = open
        /\ focus' = IF focused' \/ ~resultsWindow' THEN <<>> ELSE focus
    BY <1>1 DEF Keep
  <2> QED BY <2>1 DEF FocusInv, Placed
<1>2. ASSUME NEW searches, Reload(searches),
             \/ searches /\ ~Throws
             \/ focus = <<>>
             \/ resultsWindow' = resultsWindow /\ focused' = focused
      PROVE  FocusInv'
  <2>1. CASE searches /\ ~Throws
    <3>1. PICK matches \in Results!Matching : Results!Search(matches)
      BY <1>2, <2>1 DEF Reload
    <3> QED BY <3>1 DEF Results!Search, Results!Field, FocusInv
  <2>2. CASE ~(searches /\ ~Throws)
    <3>1. UNCHANGED resultVars
      BY <1>2, <2>2 DEF Reload
    <3> QED BY <1>2, <2>2, <3>1 DEF resultVars, FocusInv, Placed
  <2> QED BY <2>1, <2>2
<1>3. ASSUME InField \/ Mouse PROVE FocusInv'
  BY <1>1, <1>3 DEF InField, Mouse
<1>4. ASSUME InSections PROVE FocusInv'
  BY <1>2, <1>4 DEF InSections
<1>5. ASSUME Timers PROVE FocusInv'
  <2>1. ~Throws \/ (resultsWindow' = resultsWindow /\ focused' = focused)
    BY <1>5 DEF Timers, KeyTimer, StaleTimer, Search, ShowResults, windowVars
  <2> QED BY <1>2, <1>5, <2>1 DEF Timers
<1>6. ASSUME Enter PROVE FocusInv'
  <2>1. /\ shown' = shown /\ resultsWindow
        /\ \A e \in open' : e \in Results!AllRows /\ Children[e] > 0
        /\ focus' = <<>> \/ \E e \in shown : focus' = <<e>>
    <3>1. CASE Results!take_focus
      BY <3>1, NextIsShown DEF Results!take_focus, FocusInv
    <3>2. ASSUME NEW e \in Results!AllRows, Results!Toggle(e)
          PROVE  /\ shown' = shown /\ resultsWindow
                 /\ \A d \in open' : d \in Results!AllRows /\ Children[d] > 0
                 /\ \E d \in shown : focus' = <<d>>
      BY <3>2 DEF Results!Toggle, Results!Item, Results!HasChildren, FocusInv
    <3> QED BY <1>6, <3>1, <3>2 DEF Enter
  <2>2. resultsWindow' = resultsWindow /\ (focus' # <<>> => ~focused')
    <3>1. CASE focused /\ focus' # <<>>
      BY <1>6, <3>1 DEF Enter, Blur, OnSearchFieldFocus, windowVars
    <3>2. CASE ~(focused /\ focus' # <<>>)
      BY <1>6, <3>2 DEF Enter, Blur, vars, windowVars
    <3> QED BY <3>1, <3>2
  <2> QED BY <2>1, <2>2 DEF FocusInv, Placed
<1>7. ASSUME OnRow PROVE FocusInv'
  <2>1. focus # <<>>
    BY <1>7 DEF OnRow, Results!keydown, Results!keypress, Results!keyup, Results!Field
  <2>2. /\ shown' = shown
        /\ \A e \in open' : e \in Results!AllRows /\ Children[e] > 0
        /\ focus' # <<>> => Placed(focus)' /\ resultsWindow' = resultsWindow
    <3>1. CASE \E key : Results!Act(key)
      BY <2>1, <3>1, ActKeepsPlace
    <3>2. CASE UNCHANGED <<resultsWindow, shown, open, focus>>
      BY <3>2 DEF FocusInv, Placed
    <3> QED BY <1>7, <3>1, <3>2 DEF OnRow, Results!keydown, Results!keypress, Results!keyup
  <2>3. focus' # <<>> => focused' = focused
    BY <1>7, <2>1, <2>2 DEF OnRow, vars, FocusInv
  <2>4. focus' # <<>> => resultsWindow' /\ ~focused'
    BY <2>1, <2>2, <2>3 DEF FocusInv
  <2>5. shown' \in Results!Matching
    BY <2>2 DEF FocusInv
  <2> QED BY <2>2, <2>4, <2>5 DEF FocusInv
<1>8. ASSUME ClickElsewhere PROVE FocusInv'
  BY <1>8 DEF ClickElsewhere, FocusInv
<1>9. CASE UNCHANGED pageVars
  BY <1>9 DEF pageVars, resultVars, vars, windowVars, FocusInv, Placed
<1> QED BY <1>3, <1>4, <1>5, <1>6, <1>7, <1>8, <1>9 DEF PageNext

\* The focus stays where the invariant has it.
LEMMA FocusHolds == PageSpec => []FocusInv
<1>1. PageInit => FocusInv
  BY DEF PageInit, Results!Init, Results!Field, Results!Matching, FocusInv
<1> QED BY <1>1, PageKeepsFocus, PTL DEF PageSpec

\* Whatever the rows and their children, the search and the user: the focus is
\* on a row that is shown, or on none, and then alone.
THEOREM FocusVisible == PageSpec => []FocusIsVisible
<1>1. FocusInv => FocusIsVisible
  BY PlacedIsVisible DEF FocusInv, FocusIsVisible, Results!FocusIsVisible, Results!Field
<1> QED BY <1>1, FocusHolds, PTL

----------------------------------------------------------------------------
(* Down and Up.  An element has a row and a place under it: the row itself *)
(* comes before its children.                                              *)

Row(r) == r[1]
Sub(r) == IF Len(r) = 2 THEN r[2] ELSE -1

\* Where the elements are that the user can see.
LEMMA PlaceOf ==
    ASSUME FocusInv, NEW r \in Results!Visible
    PROVE  /\ Row(r) \in shown /\ Row(r) \in Int /\ Sub(r) \in Int /\ Sub(r) >= -1
           /\ Children[Row(r)] \in Nat
           /\ Sub(r) >= 0 => Row(r) \in open /\ Sub(r) <= Children[Row(r)] - 1
           /\ r = IF Sub(r) = -1 THEN <<Row(r)>> ELSE <<Row(r), Sub(r)>>
           /\ Len(r) = IF Sub(r) = -1 THEN 1 ELSE 2
<1>1. Placed(r)
  BY PlacedIsVisible
<1>2. \A e \in shown : e \in Int /\ Children[e] \in Nat
  BY MatchingIsRows, RowsAreNumbers DEF FocusInv
<1>3. CASE \E e \in shown : r = <<e>>
  BY <1>2, <1>3 DEF Row, Sub
<1>4. CASE \E e \in shown \cap open : \E c \in 0..(Children[e] - 1) : r = <<e, c>>
  <2>1. PICK e \in shown \cap open : \E c \in 0..(Children[e] - 1) : r = <<e, c>>
    BY <1>4
  <2>2. PICK c \in 0..(Children[e] - 1) : r = <<e, c>>
    BY <2>1
  <2>3. e \in Int /\ Children[e] \in Nat /\ c \in Int /\ c >= 0
    BY <1>2
  <2>4. Len(r) = 2 /\ r[1] = e /\ r[2] = c
    BY <2>2
  <2> QED BY <2>2, <2>3, <2>4 DEF Row, Sub
<1> QED BY <1>1, <1>3, <1>4 DEF Placed

\* The order on the page is that of the rows, then of the places under them.
LEMMA AboveByPlace ==
    ASSUME FocusInv, NEW p \in Results!Visible, NEW q \in Results!Visible
    PROVE  Results!Above(p, q) <=>
             \/ Row(p) < Row(q)
             \/ Row(p) = Row(q) /\ Sub(p) < Sub(q)
<1>1. /\ Sub(p) \in Int /\ Sub(p) >= -1 /\ Len(p) = IF Sub(p) = -1 THEN 1 ELSE 2
      /\ Sub(q) \in Int /\ Sub(q) >= -1 /\ Len(q) = IF Sub(q) = -1 THEN 1 ELSE 2
      /\ Row(p) \in Int /\ Row(q) \in Int
  BY PlaceOf
<1>2. (Len(p) = 2 => p[2] = Sub(p)) /\ (Len(q) = 2 => q[2] = Sub(q))
  BY DEF Sub
<1>3. p[1] = Row(p) /\ q[1] = Row(q)
  BY DEF Row
<1> QED BY <1>1, <1>2, <1>3 DEF Results!Above

\* Nothing can be seen of row e under place s.
LastUnder(e, s) == e \in open => s >= Children[e] - 1

\* The next element is the next place under the same row or, after the last,
\* the next row that is shown.
LEMMA UnderByPlace ==
    ASSUME FocusInv, NEW p \in Results!Visible, NEW q \in Results!Visible,
           \/ Row(q) = Row(p) /\ Sub(q) = Sub(p) + 1
           \/ /\ Row(p) < Row(q) /\ Sub(q) = -1 /\ LastUnder(Row(p), Sub(p))
              /\ \A e \in shown : ~(Row(p) < e /\ e < Row(q))
    PROVE  Results!Under(p, q)
<1>1. Row(p) \in Int /\ Row(q) \in Int /\ Sub(p) \in Int /\ Sub(q) \in Int
  BY PlaceOf
<1>2. Results!Above(p, q)
  BY <1>1, AboveByPlace
<1>3. ASSUME NEW r \in Results!Visible, Results!Above(p, r), Results!Above(r, q) PROVE FALSE
  <2>1. /\ Row(r) \in shown /\ Row(r) \in Int /\ Sub(r) \in Int /\ Sub(r) >= -1
        /\ Children[Row(r)] \in Nat
        /\ Sub(r) >= 0 => Row(r) \in open /\ Sub(r) <= Children[Row(r)] - 1
        /\ Sub(p) >= -1
    BY PlaceOf
  <2>2. Row(p) < Row(r) \/ (Row(p) = Row(r) /\ Sub(p) < Sub(r))
    BY <1>3, AboveByPlace
  <2>3. Row(r) < Row(q) \/ (Row(r) = Row(q) /\ Sub(r) < Sub(q))
    BY <1>3, AboveByPlace
  <2> QED BY <1>1, <2>1, <2>2, <2>3 DEF LastUnder
<1> QED BY <1>2, <1>3 DEF Results!Under

\* Nothing is under the last place of the last row,
LEMMA NothingUnder ==
    ASSUME FocusInv, NEW p \in Results!Visible, LastUnder(Row(p), Sub(p)),
           \A e \in shown : ~(Row(p) < e), NEW r \in Results!Visible
    PROVE  ~Results!Above(p, r)
<1>1. /\ Row(r) \in shown /\ Row(r) \in Int /\ Sub(r) \in Int
      /\ Children[Row(r)] \in Nat
      /\ Sub(r) >= 0 => Row(r) \in open /\ Sub(r) <= Children[Row(r)] - 1
      /\ Row(p) \in Int /\ Sub(p) \in Int /\ Sub(p) >= -1
  BY PlaceOf
<1> QED BY <1>1, AboveByPlace DEF LastUnder

\* nor above the first row.
LEMMA NothingAbove ==
    ASSUME FocusInv, NEW q \in Results!Visible, Sub(q) = -1,
           \A e \in shown : ~(e < Row(q)), NEW r \in Results!Visible
    PROVE  ~Results!Above(r, q)
<1>1. Row(r) \in shown /\ Row(r) \in Int /\ Sub(r) \in Int /\ Sub(r) >= -1 /\ Row(q) \in Int
  BY PlaceOf
<1> QED BY <1>1, AboveByPlace

\* The row NavNext finds is the first shown from there on.
LEMMA NextIsFirst ==
    ASSUME FocusInv, NEW i \in Int
    PROVE  \/ Results!NavNext(i) = <<>> /\ \A e \in shown : ~(i <= e)
           \/ \E e \in shown : /\ Results!NavNext(i) = <<e>> /\ i <= e
                             /\ \A f \in shown : i <= f => e <= f
<1>0. shown \in Results!Matching
  BY DEF FocusInv
<1>1. CASE \E e \in shown : e >= i
  <2>1. PICK e \in shown : e >= i
    BY <1>1
  <2>2. PICK first, last \in 0..(Rows - 1) : shown = first..last
    BY <1>0, MatchingIsRange
  <2> DEFINE least == IF i <= first THEN first ELSE i
  <2>3. least \in shown /\ least >= i /\ \A f \in shown : f >= i => least <= f
    BY <2>1, <2>2, RowsAreNumbers
  <2>4. \E d \in shown : d >= i /\ \A f \in shown : f >= i => d <= f
    BY <2>3
  <2>5. \A f \in shown : f \in Int
    BY <2>2, RowsAreNumbers
  <2> DEFINE d == CHOOSE d \in shown : d >= i /\ \A f \in shown : f >= i => d <= f
  <2>6. d \in shown /\ d >= i /\ \A f \in shown : f >= i => d <= f
    BY <2>4
  <2>7. Results!NavNext(i) = <<d>>
    BY <1>1 DEF Results!NavNext, Results!Item
  <2> HIDE DEF d
  <2>8. i <= d /\ \A f \in shown : i <= f => d <= f
    BY <2>5, <2>6
  <2> QED BY <2>6, <2>7, <2>8
<1>2. CASE ~ \E e \in shown : e >= i
  <2>1. \A e \in shown : e \in Int
    BY <1>0, MatchingIsRows, RowsAreNumbers
  <2>2. \A e \in shown : ~(i <= e)
    BY <1>2, <2>1
  <2> QED BY <1>2, <2>2 DEF Results!NavNext, Results!Field
<1> QED BY <1>1, <1>2

\* NavPrev finds none only where no row above is shown.
LEMMA NoPrevious ==
    ASSUME FocusInv, NEW e \in shown, Results!NavPrev(e - 1) = <<>>
    PROVE  \A f \in shown : ~(f < e)
<1>1. \A f \in shown : f \in Int
  BY MatchingIsRows, RowsAreNumbers DEF FocusInv
<1>2. ~ \E f \in shown : f <= e - 1
  <2>1. \A f : <<f>> # <<>>
    OBVIOUS
  <2> QED BY <2>1 DEF Results!NavPrev, Results!Item
<1> QED BY <1>1, <1>2

\* The rows are placed by themselves, the children under them.
LEMMA PlacesOfRows ==
    /\ \A e : Row(<<e>>) = e /\ Sub(<<e>>) = -1
    /\ \A e, c : Row(<<e, c>>) = e /\ Sub(<<e, c>>) = c
BY DEF Row, Sub

\* What Down does to the focus.
LEMMA DownMoves ==
    ASSUME FocusInv, Results!keydown(Results!Down)
    PROVE  \/ Results!Under(focus, focus')
           \/ focus' = focus /\ \A p \in Results!Visible : ~Results!Above(focus, p)
<1>1. focus # <<>> /\ focus \in Results!Visible /\ shown \in Results!Matching
  BY PlacedIsVisible DEF FocusInv, Results!keydown, Results!Field
<1>2. \/ Len(focus) = 1 /\ Results!Nav(Results!Down, focus[1])
      \/ Len(focus) = 2 /\ Results!NavChild(Results!Down, focus[1], focus[2])
  BY DEF Results!keydown, Results!Act
<1> DEFINE e == Row(focus)
           s == Sub(focus)
           deeper == IF s = -1 THEN e \in open ELSE s + 1 < Children[e]
           next == IF deeper THEN <<e, s + 1>> ELSE Results!NavNext(e + 1)
<1>3. /\ e \in shown /\ e \in Int /\ s \in Int /\ s >= -1 /\ Children[e] \in Nat
      /\ s >= 0 => e \in open /\ s <= Children[e] - 1
      /\ Len(focus) = IF s = -1 THEN 1 ELSE 2
  BY <1>1, PlaceOf
<1>4. focus[1] = e /\ (s # -1 => focus[2] = s)
  BY <1>3 DEF Row, Sub
<1>5. focus' = IF next = <<>> THEN focus ELSE next
  <2>1. CASE s = -1
    <3>1. Results!Nav(Results!Down, e)
      BY <1>2, <1>3, <1>4, <2>1
    <3>2. s + 1 = 0
      BY <2>1
    <3> QED BY <2>1, <3>1, <3>2 DEF Results!Nav, Results!Up, Results!Down, Results!Left,
        Results!Right, Results!Escape, Results!Other, Results!Field, Results!Child
  <2>2. CASE s # -1
    <3>1. Results!NavChild(Results!Down, e, s)
      BY <1>2, <1>3, <1>4, <2>2
    <3> QED BY <2>2, <3>1 DEF Results!NavChild, Results!Up, Results!Down, Results!Left,
        Results!Right, Results!Escape, Results!Other, Results!Field, Results!Child
  <2> QED BY <2>1, <2>2
<1> HIDE DEF e, s
<1>6. CASE deeper
  <2>1. e \in open /\ s + 1 \in 0..(Children[e] - 1)
    BY <1>3, <1>6, RowsAreNumbers DEF FocusInv
  <2>2. focus' = <<e, s + 1>>
    BY <1>5, <1>6
  <2>3. Placed(focus')
    BY <1>3, <2>1, <2>2 DEF Placed
  <2>4. focus' \in Results!Visible
    BY <2>3, PlacedIsVisible
  <2>5. Row(focus') = e /\ Sub(focus') = s + 1
    BY <2>2, PlacesOfRows
  <2>6. Results!Under(focus, focus')
    BY <1>1, <2>4, <2>5, UnderByPlace DEF e, s
  <2> QED BY <2>6
<1>7. CASE ~deeper
  <2>1. LastUnder(e, s)
    BY <1>3, <1>7 DEF LastUnder
  <2>2. next = Results!NavNext(e + 1)
    BY <1>7
  <2>3. CASE Results!NavNext(e + 1) = <<>> /\ \A f \in shown : ~(e + 1 <= f)
    <3>1. \A f \in shown : f \in Int
      BY MatchingIsRows, RowsAreNumbers DEF FocusInv
    <3>2. \A f \in shown : ~(e < f)
      BY <1>3, <2>3, <3>1
    <3>3. \A p \in Results!Visible : ~Results!Above(focus, p)
      BY <1>1, <2>1, <3>2, NothingUnder DEF e, s
    <3> QED BY <1>5, <2>2, <2>3, <3>3
  <2>4. ASSUME NEW d \in shown, Results!NavNext(e + 1) = <<d>>, e + 1 <= d,
               \A f \in shown : e + 1 <= f => d <= f
        PROVE  Results!Under(focus, focus')
    <3>1. focus' = <<d>>
      <4>1. <<d>> # <<>>
        OBVIOUS
      <4> QED BY <1>5, <2>2, <2>4, <4>1
    <3>2. Placed(focus')
      BY <3>1 DEF Placed
    <3>3. focus' \in Results!Visible
      BY <3>2, PlacedIsVisible
    <3>4. Row(focus') = d /\ Sub(focus') = -1
      BY <3>1, PlacesOfRows
    <3>5. \A f \in shown : f \in Int
      BY MatchingIsRows, RowsAreNumbers DEF FocusInv
    <3>6. e < d /\ \A f \in shown : ~(e < f /\ f < d)
      BY <1>3, <2>4, <3>5
    <3> QED BY <1>1, <2>1, <3>3, <3>4, <3>6, UnderByPlace DEF e, s
  <2>5. e + 1 \in Int
    BY <1>3
  <2> QED BY <2>3, <2>4, <2>5, NextIsFirst
<1> QED BY <1>6, <1>7

\* What Up does to it.
LEMMA UpMoves ==
    ASSUME FocusInv, Results!keydown(Results!Up)
    PROVE  \/ Results!Under(focus', focus)
           \/ focus' = <<>> /\ \A p \in Results!Visible : ~Results!Above(p, focus)
<1>1. focus # <<>> /\ focus \in Results!Visible /\ shown \in Results!Matching
  BY PlacedIsVisible DEF FocusInv, Results!keydown, Results!Field
<1>2. \/ Len(focus) = 1 /\ Results!Nav(Results!Up, focus[1])
      \/ Len(focus) = 2 /\ Results!NavChild(Results!Up, focus[1], focus[2])
  BY DEF Results!keydown, Results!Act
<1> DEFINE e == Row(focus)
           s == Sub(focus)
<1>3. /\ e \in shown /\ e \in Int /\ s \in Int /\ s >= -1 /\ Children[e] \in Nat
      /\ s >= 0 => e \in open /\ s <= Children[e] - 1
      /\ Len(focus) = IF s = -1 THEN 1 ELSE 2
  BY <1>1, PlaceOf
<1>4. focus[1] = e /\ (s # -1 => focus[2] = s)
  BY <1>3 DEF Row, Sub
<1>5. CASE s # -1
  <2>1. Results!NavChild(Results!Up, e, s)
    BY <1>2, <1>3, <1>4, <1>5
  <2>2. focus' = IF s > 0 THEN <<e, s - 1>> ELSE <<e>>
    BY <2>1 DEF Results!NavChild, Results!Up, Results!Down, Results!Left,
       Results!Right, Results!Escape, Results!Other, Results!Item, Results!Child
  <2> HIDE DEF e, s
  <2>3. s \in Nat /\ (s > 0 => s - 1 \in 0..(Children[e] - 1)) /\ (~(s > 0) => s = 0)
    BY <1>3, <1>5
  <2>4. Placed(focus')
    BY <1>3, <1>5, <2>2, <2>3 DEF Placed
  <2>5. focus' \in Results!Visible
    BY <2>4, PlacedIsVisible
  <2>6. Row(focus') = e /\ Sub(focus') = s - 1
    BY <2>2, <2>3, PlacesOfRows
  <2>7. Row(focus) = Row(focus') /\ Sub(focus) = Sub(focus') + 1
    BY <1>3, <2>6 DEF e, s
  <2> QED BY <1>1, <2>5, <2>7, UnderByPlace
<1>6. CASE s = -1
  <2>1. Results!Nav(Results!Up, e)
    BY <1>2, <1>3, <1>4, <1>6
  <2>2. focus' = IF /\ Results!NavPrev(e - 1) # <<>>
                    /\ Results!NavPrev(e - 1)[1] \in open
                    /\ Children[e - 1] > 0
                 THEN <<e - 1, Children[e - 1] - 1>> ELSE Results!NavPrev(e - 1)
    BY <2>1 DEF Results!Nav, Results!Up, Results!Down, Results!Left, Results!Right,
       Results!Escape, Results!Other, Results!Field, Results!HasChildren, Results!LastChild,
       Results!Child
  <2> HIDE DEF e, s
  <2>3. CASE Results!NavPrev(e - 1) = <<>>
    <3>1. \A f \in shown : ~(f < e)
      BY <1>3, <2>3, NoPrevious
    <3>2. \A p \in Results!Visible : ~Results!Above(p, focus)
      BY <1>1, <1>6, <3>1, NothingAbove DEF e, s
    <3> QED BY <2>2, <2>3, <3>2
  <2>4. CASE Results!NavPrev(e - 1) = <<e - 1>> /\ e - 1 \in shown
    <3>1. /\ Results!NavPrev(e - 1)[1] = e - 1 /\ Results!NavPrev(e - 1) # <<>>
          /\ Children[e - 1] \in Nat
          /\ e - 1 \in open => Children[e - 1] > 0
      BY <2>4, MatchingIsRows, RowsAreNumbers DEF FocusInv
    <3>2. focus' = IF e - 1 \in open THEN <<e - 1, Children[e - 1] - 1>> ELSE <<e - 1>>
      BY <2>2, <2>4, <3>1
    <3>3. Children[e - 1] - 1 \in Int
          /\ (e - 1 \in open => Children[e - 1] - 1 \in 0..(Children[e - 1] - 1))
      BY <3>1
    <3>4. Placed(focus')
      BY <2>4, <3>2, <3>3 DEF Placed
    <3>5. focus' \in Results!Visible
      BY <3>4, PlacedIsVisible
    <3>6. /\ Row(focus') = e - 1
          /\ Sub(focus') = IF e - 1 \in open THEN Children[e - 1] - 1 ELSE -1
      BY <3>2, PlacesOfRows
    <3>7. LastUnder(Row(focus'), Sub(focus'))
      BY <3>3, <3>6 DEF LastUnder
    <3>8. \A f \in shown : f \in Int
      BY MatchingIsRows, RowsAreNumbers DEF FocusInv
    <3>9. Row(focus') < Row(focus) /\ \A f \in shown : ~(Row(focus') < f /\ f < Row(focus))
      BY <1>3, <3>6, <3>8 DEF e
    <3> QED BY <1>1, <1>6, <3>5, <3>7, <3>9, UnderByPlace DEF s
  <2> QED BY <1>1, <1>3, <2>3, <2>4, PreviousIsNeighbour
<1> QED BY <1>5, <1>6

\* Down moves the focus to the next element that can be seen, or leaves it on
\* the last, for any number of rows and children, any search and whatever is
\* open.
THEOREM DownIsNext == PageSpec => DownGoesToNext
<1>1. FocusInv /\ [PageNext]_pageVars
        => [Results!keydown(Results!Down)
              => \/ Results!Under(focus, focus')
                 \/ focus' = focus
                      /\ \A p \in Results!Visible : ~Results!Above(focus, p)]_(Results!vars)
  BY DownMoves
<1> QED BY <1>1, FocusHolds, PTL DEF PageSpec, DownGoesToNext, Results!DownGoesToNext

\* Up moves it to the element above, or from the first one back to the field:
\* the script looks for the row above by what is shown and for its last child
\* by number, and these are always the same row.
THEOREM UpIsPrevious == PageSpec => UpGoesToPrevious
<1>1. FocusInv /\ [PageNext]_pageVars
        => [Results!keydown(Results!Up)
              => \/ Results!Under(focus', focus)
                 \/ focus' = Results!Field
                      /\ \A p \in Results!Visible : ~Results!Above(p, focus)]_(Results!vars)
  BY UpMoves DEF Results!Field
<1> QED BY <1>1, FocusHolds, PTL DEF PageSpec, UpGoesToPrevious, Results!UpGoesToPrevious
=============================================================================
