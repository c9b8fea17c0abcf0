\* Rings of three slots, driven past the point where they wrap; stores of two
\* entries; six frames in bytes of two, the first two of them reserved; every
\* word of up to four letters against names of two, three and five; three
\* queries, so that one reply can come two queries late, and replies shorter and
\* longer than the kernel's buffer.
\* The callers may stop for good, and the logs end at MaxLogged.
CONSTANTS
    Senders = {1, 2}
    Payloads = {0, 1, 2}
    ChannelCapacity = 3
    MaxMsgSize = 1
    LogSize = 3
    AuditRingSize = 3
    Notes = {n1, n2}
    Events = {CapGranted, AgentKilled}
    Details = {d1, d2}
    MaxLogged = 7
    NoEntry = NoEntry
    FileNames = {f1, f2, f3}
    MaxFiles = 2
    MaxFileSize = 2
    HostBuffer = 1
    EnvKeys = {k1, k2, k3, long}
    LongKeys = {long}
    MaxEntries = 2
    MaxVal = 1
    MaxFrames = 6
    LowFrames = 2
    ByteWidth = 2
    Letters = {"x", "y"}
    Words <- MCWords
    Topics <- MCTopics
    Commands <- MCCommands
    RowSize = 32
    MaxCapabilities = 3
    MaxAgents = 2
    MaxChannels = 1
    IoOps = 1
    AgentLifetime = 1
    ComputeTimeout = 1
    MaxTick = 1
    None = None
    MaxCodes = 3
    WindowWidths = {39, 41, 800}
    WindowHeights = {160, 181, 182, 240, 250, 317, 318, 480}
    TextLengths = {1, 255}
    MaxMessages = 7
    MaxResponse = 2
    Texts <- MCTexts
    LineMax = 3
    MaxQueries = 3
    MaxTyped = 6
SPECIFICATION StructSpec
CHECK_DEADLOCK FALSE
INVARIANTS
    RingIsConsistent
    DmesgShowsTheLatest
    TamperingShows
    FramesAreExclusive
    UsedCountIsExact
    SuggestionIsTheNearest
    OnlyHandlersHang
    BootOnlyTrapsWithoutX2apic
    ShiftFollowsTheKeys
    LatestMessagesAreShown
    AnswersAreWhole
    AnswersInOrder
    StrayRepliesAreLate
PROPERTIES
    ChannelIsAQueue
    StoresAreMaps
    AuthorityEndsWithItsHolder
