\* An agent that never returns, well past its lifetime.
CONSTANTS
    MaxCapabilities = 20
    MaxAgents = 6
    MaxChannels = 2
    ChannelCapacity = 2
    IoOps = 2
    AgentLifetime = 1
    ComputeTimeout = 1
    Images = {"loops"}
    MaxCommands = 1
    MaxTick = 1
    None = None
SPECIFICATION SysSpec
PROPERTIES
    ExpiredAgentsAreKilled
