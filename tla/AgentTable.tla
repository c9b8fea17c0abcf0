----------------------------- MODULE AgentTable -----------------------------
(***************************************************************************)
(* The agent table (agent.rs) over the capability table (CapTable), and    *)
(* the syscalls (syscall.rs) that check a capability and note the outcome  *)
(* in the audit log.  AgentRuntime builds the boot script, execute_agent   *)
(* and the shell on these operators; the specification at the end calls    *)
(* them in any order, and with them enforce_timeouts and cap_revoke, which *)
(* no code in the kernel calls yet.                                        *)
(*                                                                         *)
(* Each operator stands for a call made by the kernel's one thread.  The   *)
(* calls take and drop AGENT_TABLE, CAP_TABLE and AUDIT_LOG in turn, but   *)
(* no interrupt handler touches what these guard.                          *)
(***************************************************************************)
EXTENDS Naturals, FiniteSets

CONSTANTS
    MaxCapabilities,  \* MAX_CAPABILITIES
    MaxAgents,        \* MAX_AGENTS
    MaxChannels,      \* MAX_CHANNELS
    IoOps,            \* io_ops of the default budget
    AgentLifetime,    \* the 60_000 ticks of execute_agent
    ComputeTimeout,   \* the 6000 ticks of the guardian's compute capability
    MaxTick,          \* bound on the timer (checking only)
    None

ASSUME TableLimitsAssumption ==
    /\ {MaxCapabilities, MaxAgents, MaxChannels} \subseteq Nat \ {0}
    /\ {IoOps, AgentLifetime, ComputeTimeout, MaxTick} \subseteq Nat

VARIABLES
    entries, active_count, tick,  \* the capability table and the timer
    agents,    \* AGENT_TABLE: the agents still in the table, by id
    next_id,   \* NEXT_AGENT_ID
    audit      \* AUDIT_LOG: what it has recorded, as <<event, agent>>

capVars == <<entries, active_count>>
tableVars == <<capVars, tick, agents, next_id, audit>>

-----------------------------------------------------------------------------
\* ResourceRef: what a capability is for.
ChannelRef(c) == <<"Channel", c>>
Serial == <<"Serial">>
Filesystem == <<"Filesystem">>
Memory == <<"Memory">>
AuditLog == <<"AuditLog">>
Compute == <<"Compute">>
Resources == {Serial, Filesystem, Memory, AuditLog, Compute}
                \cup {ChannelRef(c) : c \in 0 .. MaxChannels - 1}

Caps == INSTANCE CapTable WITH
    Agents <- Nat, Rights <- {"READ", "WRITE", "EXECUTE", "GRANT"},
    Timeouts <- {0, ComputeTimeout}

\* What stands for an absent capability or resource is none of the others.
ASSUME AbsentAssumption ==
    None \notin Caps!CapEntry /\ None \notin Nat /\ None \notin Resources

Kernel == 0             \* the sender id of the shell's own messages
Guardian == 1           \* the first agent to be spawned
SubAgent == 99          \* the id to which the boot script delegates

Alive == {a \in DOMAIN agents : agents[a].state # "Terminated"}

Logged(event, a) == audit' = audit \cup {<<event, a>>}

-----------------------------------------------------------------------------
(* The agent table. *)

NewAgent(lifetime) ==
    [state |-> "Initializing", spawn_tick |-> tick, max_lifetime |-> lifetime,
     capabilities |-> {}, used_io |-> 0]

\* Mutant: off by one.
TableHasRoom_OffByOne == Cardinality(DOMAIN agents) <= MaxAgents

TableHasRoom == Cardinality(DOMAIN agents) < MaxAgents

\* The table with agent a added or replaced.
WithAgent(a, record) ==
    [b \in DOMAIN agents \cup {a} |-> IF b = a THEN record ELSE agents[b]]

\* Mutant: the capabilities of the killed agent stay.
Kill_KeepsCapabilities(a) ==
    /\ a \in DOMAIN agents
    /\ agents' = [agents EXCEPT ![a].state = "Terminated"]
    /\ UNCHANGED capVars

\* kill: mark the agent and revoke all it owns, in one hold of AGENT_TABLE.
Kill(a) ==
    /\ a \in DOMAIN agents
    /\ agents' = [agents EXCEPT ![a].state = "Terminated"]
    /\ Caps!RevokeAllForAgent(a)

\* gc: the terminated agents leave the table.
CollectTerminated == agents' = [a \in Alive |-> agents[a]]

IsExpired(a) ==
    agents[a].max_lifetime > 0
      /\ tick >= agents[a].spawn_tick + agents[a].max_lifetime

\* Mutant: the agents are marked by hand, not killed.
EnforceTimeouts_OnlyMarks ==
    LET expired == {a \in Alive : IsExpired(a)} IN
    /\ agents' = [a \in DOMAIN agents |->
          IF a \in expired THEN [agents[a] EXCEPT !.state = "Terminated"]
                           ELSE agents[a]]
    /\ UNCHANGED capVars

\* enforce_timeouts: kill those whose time is up, one after the other, in one
\* hold of AGENT_TABLE.
EnforceTimeouts ==
    LET expired == {a \in Alive : IsExpired(a)} IN
    /\ agents' = [a \in DOMAIN agents |->
          IF a \in expired THEN [agents[a] EXCEPT !.state = "Terminated"]
                           ELSE agents[a]]
    /\ Caps!RevokeEach({h \in Caps!Live : entries[h].owner \in expired})

\* The I/O part of ResourceBudget, the only part that anything asks for.
CanIo(a) == agents[a].used_io < IoOps
RecordIo(a) == agents' = [agents EXCEPT ![a].used_io = @ + 1]

-----------------------------------------------------------------------------
(* The syscalls. *)

\* cap_grant: the handle also goes into the list of the agent, if there is one.
CapGrant(a, resource, rights, timeout) ==
    \/ \E s \in Caps!Slots :
         /\ Caps!Grant(s, a, resource, rights, Caps!ExpiryOf(timeout))
         /\ agents' = [b \in DOMAIN agents |-> IF b # a THEN agents[b] ELSE
                         [agents[b] EXCEPT !.capabilities = @ \cup {s}]]
         /\ Logged("CapGranted", a)
    \/ /\ Caps!Used = Caps!Slots
       /\ Logged("CapCheckFail", a)
       /\ UNCHANGED <<capVars, agents>>

\* resource_read: check, audit.
ResourceRead(a, h) ==
    /\ IF Caps!Check(h, {"READ"}) = "Ok" THEN Logged("CapGranted", a)
                                         ELSE Logged("CapCheckFail", a)
    /\ UNCHANGED <<capVars, agents>>

\* resource_write: check, the budget of an agent in the table, audit.
ResourceWrite(a, h) ==
    /\ IF Caps!Check(h, {"WRITE"}) # "Ok"
         THEN Logged("CapCheckFail", a) /\ UNCHANGED agents
       ELSE IF a \in DOMAIN agents /\ ~CanIo(a)
         THEN Logged("AgentOverBudget", a) /\ UNCHANGED agents
       ELSE /\ IF a \in DOMAIN agents THEN RecordIo(a) ELSE UNCHANGED agents
            /\ Logged("CapGranted", a)
    /\ UNCHANGED capVars

\* cap_revoke: the handle must be good and the caller's own; otherwise it
\* returns an error and leaves no trace.
CapRevoke(a, h) ==
    /\ Caps!Check(h, {}) = "Ok" /\ entries[h].owner = a
    /\ Caps!Revoke(h) /\ Logged("CapRevoked", a)
    /\ UNCHANGED agents

-----------------------------------------------------------------------------
(* The calls in any order, by and on agents 1 to MaxAgents and the id 99. *)

Names == 1 .. MaxAgents \cup {SubAgent}

TableInit ==
    /\ Caps!Init
    /\ agents = <<>> /\ next_id = 1 /\ audit = {}

SpawnAny ==
    /\ TableHasRoom /\ next_id <= MaxAgents  \* bound of the model
    /\ \E lifetime \in {0, AgentLifetime} :
         agents' = WithAgent(next_id, NewAgent(lifetime))
    /\ next_id' = next_id + 1
    /\ UNCHANGED <<capVars, tick, audit>>

KillAny == (\E a \in DOMAIN agents : Kill(a)) /\ UNCHANGED <<tick, next_id, audit>>

CollectAny == CollectTerminated /\ UNCHANGED <<capVars, tick, next_id, audit>>

EnforceAny == EnforceTimeouts /\ UNCHANGED <<tick, next_id, audit>>

\* Only while there is a slot: the refusal changes nothing but the log.
GrantAny ==
    /\ Caps!Used # Caps!Slots
    /\ \E a \in Alive, timeout \in {0, ComputeTimeout} :
         CapGrant(a, Serial, {"READ", "WRITE"}, timeout)
    /\ UNCHANGED <<tick, next_id>>

DelegateAny ==
    /\ \E s, p \in Caps!Slots, a \in Names : Caps!Delegate(s, p, a, {"READ"})
    /\ UNCHANGED <<tick, agents, next_id, audit>>

RevokeAny ==
    /\ \E a \in Names, h \in Caps!Slots : CapRevoke(a, h)
    /\ UNCHANGED <<tick, next_id>>

TickAny == Caps!Tick /\ UNCHANGED <<agents, next_id, audit>>

TableNext ==
    SpawnAny \/ KillAny \/ CollectAny \/ EnforceAny \/ GrantAny \/ DelegateAny
      \/ RevokeAny \/ TickAny

TableSpec == TableInit /\ [][TableNext]_tableVars

-----------------------------------------------------------------------------
\* A capability and those it was delegated from, up to the granted one: what
\* every set has that has it and, with a capability, the parent of that.
ClosedUnderParents(S) ==
    \A h \in S \cap Caps!Used :
        entries[h].parent # None => entries[h].parent \in S

Ancestry(h) ==
    {x \in Caps!Slots : \A S \in SUBSET Caps!Slots :
        (h \in S /\ ClosedUnderParents(S)) => x \in S}

\* What is left when the authority that begins in a handle of H has ended.
Surviving(H) == {h \in Caps!Live : Ancestry(h) \cap H = {}}

OwnedBy(A) == {h \in Caps!Used : entries[h].owner \in A}

\* Authority ends with its holder, and no other does.  Enforcing the lifetimes
\* terminates the agents that are alive and past theirs, and what is then live
\* is what was live and came to its owner through none of them, at any
\* distance and whether or not the agents between are still in the table; the
\* same for a kill of one agent, and for a revocation of one handle by its
\* owner, which nobody else can do.
AuthorityEndsWithItsHolder ==
    [][ /\ EnforceAny =>
              LET expired == {a \in Alive : IsExpired(a)} IN
              Alive' = Alive \ expired /\ Caps!Live' = Surviving(OwnedBy(expired))
        /\ \A a \in DOMAIN agents : (Kill(a) /\ UNCHANGED <<tick, next_id, audit>>) =>
              Alive' = Alive \ {a} /\ Caps!Live' = Surviving(OwnedBy({a}))
        /\ \A a \in Names, h \in Caps!Slots : CapRevoke(a, h) =>
              h \in OwnedBy({a}) /\ Caps!Live' = Surviving({h}) ]_tableVars
=============================================================================
