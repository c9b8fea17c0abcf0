\* Three slots, every datum a decision reads: expiry, rights and resource.
CONSTANTS
    Agents = {a1}
    Resources = {serial, file}
    Rights = {read, write}
    MaxCapabilities = 3
    Timeouts = {0, 1}
    MaxTick = 2
    None = None
SYMMETRY MCSymmetry
SPECIFICATION Spec
INVARIANTS
    TypeOK
    ActiveCountExact
    NoOrphanAuthority
    ParentBelowChild
    ChildNeverExceedsParent
PROPERTIES
    RefusalIsFinal
    HandlesAreStable
