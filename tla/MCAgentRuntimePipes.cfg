\* Images that load and end, so that the prompt must come back; a pipe after
\* a pipe.
CONSTANTS
    MaxCapabilities = 32
    MaxAgents = 7
    MaxChannels = 3
    ChannelCapacity = 2
    IoOps = 2
    AgentLifetime = 1
    ComputeTimeout = 1
    Images = {"returns", "traps"}
    MaxCommands = 2
    MaxTick = 0
    None = None
SPECIFICATION SysSpec
INVARIANTS
    OnlyRunnerHoldsAuthority
    PipesDoNotMix
PROPERTIES
    PromptReturns
