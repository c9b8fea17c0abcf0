\* Three commands after the boot script; an image is rejected, has no
\* _start, ends, or never ends.  The capability table, the agent table and the
\* channels run out in some behaviours.
CONSTANTS
    MaxCapabilities = 20
    MaxAgents = 6
    MaxChannels = 2
    ChannelCapacity = 1
    IoOps = 2
    AgentLifetime = 1
    ComputeTimeout = 1
    Images = {"rejected", "no_start", "returns", "loops"}
    MaxCommands = 3
    MaxTick = 1
    None = None
SPECIFICATION SysSpec
INVARIANTS
    SysTypeOK
    DeadHoldNothing
    HandlesOutliveTheRun
    TrafficIsAuthorised
    AuditIsTruthful
PROPERTIES
    DeadStayDead
