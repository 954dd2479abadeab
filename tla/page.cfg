CONSTANTS
    Values <- SomeValues
    Label <- SomeLabel
    Sections = 2
    MaxStale = 1
    Rows = 3
    Children <- SomeRows
SPECIFICATION PageSpec
INVARIANTS
    SearchedIsShown
    UnusedShowsLabel
    FocusIsVisible
PROPERTIES
    DownGoesToNext
    UpGoesToPrevious
