\* A session within a day: a source, its chart, its board, the refresh period.
CONSTANTS
    MaxDots = 2
    Window = 2
    Day = 10
    MaxTime = 5
SPECIFICATION FairScope
INVARIANTS
    ScopeTypeOK
    WithinMaxDots
    NewestFirst
    DiagramIsLive
    ScreenTellsSource
PROPERTIES
    RemovesExactlyOld
    DiagramRedraws
