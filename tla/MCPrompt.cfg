\* Console: a ring that takes two keys, and lines that the typed characters
\* overrun.  Shell: three words and two aliases, a history of two lines of two
\* words, and a stack that holds the longest chain of aliases after a "!!".
CONSTANTS
    KeyBufSize = 3
    LineMax = 2
    InputMax = 1
    HasChat = TRUE
    MaxTyped = 3
    MaxEnters = 3
    None = None
    HistorySize = 2
    EntryWords = 2
    MaxAliases = 2
    Names = {"x", "y", "ls"}
    Targets <- MCTargets
    StackDepth = 4
    MaxLines = 4
SPECIFICATION PromptSpec
INVARIANTS
    NothingRunsTwiceFromALine
    HistoryIsTheLatest
    RunawayNeedsALoop
PROPERTIES
    KeyBufferIsAQueue
    InputIsEventuallyRead
