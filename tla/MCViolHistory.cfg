\* history after the ring has wrapped.
CONSTANTS
    HistorySize = 2
    EntryWords = 2
    MaxAliases = 2
    Names = {"x", "y", "ls"}
    Targets <- MCTargets
    StackDepth = 4
    MaxLines = 4
SPECIFICATION ShellSpec
INVARIANTS
    HistoryNeverPanics
