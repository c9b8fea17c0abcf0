\* Four slots and two agents: forks and chains of three delegations under one
\* root, capabilities that expire and capabilities that do not yet.
CONSTANTS
    Agents = {a1, a2}
    FirstOwner = a1
    Resources = {serial}
    Rights = {}
    MaxCapabilities = 4
    Timeouts = {1}
    MaxTick = 1
    None = None
SPECIFICATION WalkSpec
CONSTRAINT FirstSlotIsFirstOwners
INVARIANTS
    CascadeInvariant
PROPERTIES
    RefinesAtomicRevoke
    EveryCallReturns
