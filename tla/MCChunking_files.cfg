CONSTANTS
    Files <- MCFiles
    MaxLines = 4
    Weights = {0, 2, 5}
    MaxDecls = 3
    Target = 2
    Cap = 4
    Window = 3
    Overlap = 1
    MarkdownMax = 2
    RecursionLimit = 5
SPECIFICATION Spec
CHECK_DEADLOCK FALSE
INVARIANT TypeOK
INVARIANT EveryLineIndexed
INVARIANT TextOnce
INVARIANT LinesNameText
INVARIANT HalvingEnds
