---------------------------- MODULE AgentRuntime ----------------------------
(***************************************************************************)
(* The life of agents in the kernel: the agent table (agent.rs), the       *)
(* capability table beneath it (CapTable), the channels, the audit log     *)
(* and the run of a WASM agent (wasm_runtime.rs), as the kernel's one      *)
(* thread drives them: first the guardian's boot script, then the shell    *)
(* commands that run, kill and collect agents.                             *)
(*                                                                         *)
(* The thread works off todo, the calls it still has to make, and run, the *)
(* execute_agent call it is in.  The only concurrency is the timer.        *)
(***************************************************************************)
EXTENDS AgentTable, Sequences

CONSTANTS
    ChannelCapacity,  \* CHANNEL_CAPACITY
    Images,           \* outcomes of a WASM image that the shell may run
    MaxCommands       \* bound on shell commands (checking only)

\* What can become of an image: rejected by the parser, the linker or because
\* its start section traps, no _start export, or _start returns, traps or
\* never ends.
Outcomes == {"rejected", "no_start", "returns", "traps", "loops"}

ASSUME ImagesAssumption == Images \subseteq Outcomes
ASSUME LimitsAssumption ==
    ChannelCapacity \in Nat \ {0} /\ MaxCommands \in Nat

VARIABLES
    channels,  \* CHANNELS: for channel c, at c + 1, the senders of its messages
    writer,    \* FS: who wrote the file that agents and shell share, None if
               \* there is none
    todo,      \* calls the thread has still to make before it is at the prompt
    run,       \* the execute_agent call in progress, or None
    commands   \* shell commands issued so far

thread == <<todo, run, commands>>
shared == <<channels, writer>>
vars == <<capVars, tick, agents, next_id, shared, audit, thread>>

-----------------------------------------------------------------------------
(* The calls of the boot script and of the shell, as data. *)

Exec(image, write, read, abort) ==
    [op |-> "execute", image |-> image, chan_write |-> write,
     chan_read |-> read, abort |-> abort]

\* guardian::run before its interactive loop.
BootScript ==
    << [op |-> "spawn_guardian"],
       [op |-> "cap_grant", resource |-> Serial, rights |-> {"READ", "WRITE"},
        timeout |-> 0],
       [op |-> "cap_grant", resource |-> Memory, rights |-> {"READ"},
        timeout |-> 0],
       [op |-> "cap_grant", resource |-> AuditLog, rights |-> {"READ"},
        timeout |-> 0],
       [op |-> "cap_grant", resource |-> Compute,
        rights |-> {"READ", "EXECUTE"}, timeout |-> ComputeTimeout],
       [op |-> "read", resource |-> Serial],
       [op |-> "write", resource |-> Serial],
       [op |-> "read", resource |-> Memory],
       [op |-> "write", resource |-> Memory],
       [op |-> "delegate", resource |-> Serial],
       [op |-> "revoke", resource |-> Serial],
       Exec("returns", None, None, FALSE),
       [op |-> "create_channel"],
       Exec("returns", 0, None, FALSE),
       Exec("returns", None, 0, FALSE) >>

SysInit ==
    /\ Caps!Init
    /\ agents = <<>> /\ next_id = 1
    /\ channels = <<>> /\ writer = None
    /\ audit = {<<"KernelBoot", Kernel>>}
    /\ todo = BootScript /\ run = None /\ commands = 0

AtPrompt == todo = <<>> /\ run = None
Calling(op) == run = None /\ todo # <<>> /\ Head(todo).op = op
Done == todo' = Tail(todo) /\ UNCHANGED <<run, commands>>

-----------------------------------------------------------------------------
(* The guardian's boot script. *)

SpawnGuardian ==
    /\ Calling("spawn_guardian") /\ TableHasRoom
    /\ agents' = WithAgent(next_id, [NewAgent(0) EXCEPT !.state = "Active"])
    /\ next_id' = next_id + 1
    /\ Done /\ UNCHANGED <<capVars, tick, shared, audit>>

\* syscall::cap_grant for the guardian: the handle goes into its own list.
GrantToGuardian ==
    /\ Calling("cap_grant")
    /\ LET call == Head(todo) IN
         CapGrant(Guardian, call.resource, call.rights, call.timeout)
    /\ Done /\ UNCHANGED <<tick, next_id, shared>>

\* The handle that cap_grant returned for a resource; past the table if none.
GuardianHandles(resource) ==
    {h \in Caps!Used : entries[h].owner = Guardian /\ entries[h].resource = resource}

GuardianHandle(resource) ==
    IF GuardianHandles(resource) = {} THEN MaxCapabilities
      ELSE CHOOSE h \in GuardianHandles(resource) : TRUE

\* syscall::resource_read and resource_write, only called with a handle.
GuardianReads ==
    /\ Calling("read")
    /\ LET h == GuardianHandle(Head(todo).resource) IN
         IF h = MaxCapabilities THEN UNCHANGED <<audit, agents, capVars>>
                                ELSE ResourceRead(Guardian, h)
    /\ Done /\ UNCHANGED <<tick, next_id, shared>>

GuardianWrites ==
    /\ Calling("write")
    /\ LET h == GuardianHandle(Head(todo).resource) IN
         IF h = MaxCapabilities THEN UNCHANGED <<audit, agents, capVars>>
                                ELSE ResourceWrite(Guardian, h)
    /\ Done /\ UNCHANGED <<tick, next_id, shared>>

\* delegate and, if it worked, revoke of the parent, under one hold of the
\* CAP_TABLE lock.
Delegate ==
    /\ Calling("delegate")
    /\ LET p == GuardianHandle(Head(todo).resource) IN
         \/ /\ \E s \in Caps!Slots : Caps!Delegate(s, p, SubAgent, {"READ"})
            /\ Done
         \/ /\ Caps!Check(p, {"READ"}) # "Ok" \/ Caps!Used = Caps!Slots
            /\ todo' = Tail(Tail(todo))
            /\ UNCHANGED <<capVars, run, commands>>
    /\ UNCHANGED <<tick, agents, next_id, shared, audit>>

RevokeDelegated ==
    /\ Calling("revoke")
    /\ Caps!Revoke(GuardianHandle(Head(todo).resource))
    /\ Done /\ UNCHANGED <<tick, agents, next_id, shared, audit>>

\* ChannelRegistry::create: ids count up, and no channel is ever removed.
CanCreate == Len(channels) < MaxChannels
CreatedChannel == Append(channels, <<>>)

\* unwrap_or(0) at the caller.
CreateChannel ==
    /\ Calling("create_channel")
    /\ channels' = IF CanCreate THEN CreatedChannel ELSE channels
    /\ Done /\ UNCHANGED <<writer, capVars, tick, agents, next_id, audit>>

Boot == SpawnGuardian \/ GrantToGuardian \/ GuardianReads \/ GuardianWrites
          \/ Delegate \/ RevokeDelegated \/ CreateChannel

-----------------------------------------------------------------------------
(* execute_agent. *)

\* Mutant: both channel capabilities are for the same fixed channel.
Wanted_ChannelZero(call) ==
    <<[for |-> "serial", resource |-> Serial, right |-> "WRITE"]>>
    \o (IF call.chan_write = None THEN <<>> ELSE
          <<[for |-> "chan_write", resource |-> ChannelRef(0), right |-> "WRITE"]>>)
    \o (IF call.chan_read = None THEN <<>> ELSE
          <<[for |-> "chan_read", resource |-> ChannelRef(0), right |-> "READ"]>>)
    \o <<[for |-> "fs_write", resource |-> Filesystem, right |-> "WRITE"],
         [for |-> "fs_read", resource |-> Filesystem, right |-> "READ"]>>

\* The capabilities it asks for, in the order of the code.
Wanted(call) ==
    <<[for |-> "serial", resource |-> Serial, right |-> "WRITE"]>>
    \o (IF call.chan_write = None THEN <<>> ELSE
          <<[for |-> "chan_write", resource |-> ChannelRef(call.chan_write),
             right |-> "WRITE"]>>)
    \o (IF call.chan_read = None THEN <<>> ELSE
          <<[for |-> "chan_read", resource |-> ChannelRef(call.chan_read),
             right |-> "READ"]>>)
    \o <<[for |-> "fs_write", resource |-> Filesystem, right |-> "WRITE"],
         [for |-> "fs_read", resource |-> Filesystem, right |-> "READ"]>>

HostFields == {"serial", "chan_write", "chan_read", "fs_write", "fs_read"}

\* A run of execute_agent, with the capabilities it has still to ask for and
\* the handles it has so far.
Runs ==
    [id : Nat, pc : {"grant", "start", "killed"},
     wanted : Seq([for : HostFields, resource : Resources, right : {"READ", "WRITE"}]),
     host : [HostFields -> Caps!Slots \cup {None}]]

ASSUME NoRunAssumption == None \notin Runs

\* Mutant: a failed call is tried again.
Exit_Retries(ok) ==
    /\ run' = None
    /\ todo' = IF ok THEN Tail(todo) ELSE todo
    /\ UNCHANGED commands

\* execute_agent is over; after an error a pipe gives up its second half.
Exit(ok) ==
    /\ run' = None
    /\ todo' = IF ok \/ ~Head(todo).abort THEN Tail(todo) ELSE <<>>
    /\ UNCHANGED commands

Spawn ==
    /\ Calling("execute") /\ TableHasRoom
    /\ agents' = WithAgent(next_id, NewAgent(AgentLifetime))
    /\ next_id' = next_id + 1
    /\ Logged("AgentSpawned", next_id)
    /\ run' = [id |-> next_id, pc |-> "grant", wanted |-> Wanted(Head(todo)),
               host |-> [f \in HostFields |-> None]]
    /\ UNCHANGED <<capVars, tick, shared, todo, commands>>

SpawnFails ==
    /\ Calling("execute") /\ ~TableHasRoom
    /\ Exit(FALSE)
    /\ UNCHANGED <<capVars, tick, agents, next_id, shared, audit>>

\* One grant(..).ok(): without a free slot the agent goes on without it.
GrantNext ==
    /\ run # None /\ run.pc = "grant" /\ run.wanted # <<>>
    /\ LET w == Head(run.wanted) IN
         \/ \E s \in Caps!Slots :
              /\ Caps!Grant(s, run.id, w.resource, {w.right}, 0)
              /\ run' = [run EXCEPT !.wanted = Tail(@), !.host[w.for] = s]
         \/ /\ Caps!Used = Caps!Slots
            /\ run' = [run EXCEPT !.wanted = Tail(@)]
            /\ UNCHANGED capVars
    /\ UNCHANGED <<tick, agents, next_id, shared, audit, todo, commands>>

Loading == run # None /\ run.pc = "grant" /\ run.wanted = <<>>

\* Module::new, linking or instantiation fails, for a start section that traps
\* after it has made host calls too: the ? returns at once, and the agent
\* keeps its place in the table and its capabilities.
LoadFails ==
    /\ Loading /\ Head(todo).image = "rejected"
    /\ Exit(FALSE)
    /\ UNCHANGED <<capVars, tick, agents, next_id, shared, audit>>

Load ==
    /\ Loading /\ Head(todo).image # "rejected"
    /\ agents' = [agents EXCEPT ![run.id].state = "Active"]
    /\ run' = [run EXCEPT !.pc = "start"]
    /\ UNCHANGED <<capVars, tick, next_id, shared, audit, todo, commands>>

NoStart ==
    /\ run # None /\ run.pc = "start" /\ Head(todo).image = "no_start"
    /\ Exit(FALSE)
    /\ UNCHANGED <<capVars, tick, agents, next_id, shared, audit>>

Running == run # None /\ run.pc = "start" /\ Head(todo).image # "no_start"

\* The agent's code runs: its start section, inside instantiate, then _start.
Called == Loading \/ Running

\* A host function does its work only if the host holds the capability and
\* it passes the check; otherwise it returns -1 and changes nothing.
Permitted(field, right) ==
    Called /\ run.host[field] # None
      /\ Caps!Check(run.host[field], {right}) = "Ok"

\* Mutant: the channel is the one that the agent passes as an argument.
HostChanSend_AnyChannel ==
    /\ Permitted("chan_write", "WRITE")
    /\ \E c \in DOMAIN channels :
         /\ Len(channels[c]) < ChannelCapacity
         /\ channels' = [channels EXCEPT ![c] = Append(@, run.id)]
    /\ UNCHANGED <<writer, capVars, tick, agents, next_id, audit, thread>>

HostChanSend ==
    /\ Permitted("chan_write", "WRITE")
    /\ LET c == Head(todo).chan_write + 1 IN
         /\ c \in DOMAIN channels /\ Len(channels[c]) < ChannelCapacity
         /\ channels' = [channels EXCEPT ![c] = Append(@, run.id)]
    /\ UNCHANGED <<writer, capVars, tick, agents, next_id, audit, thread>>

\* The message leaves the channel before it is copied to the agent.
HostChanRecv ==
    /\ Permitted("chan_read", "READ")
    /\ LET c == Head(todo).chan_read + 1 IN
         /\ c \in DOMAIN channels /\ channels[c] # <<>>
         /\ channels' = [channels EXCEPT ![c] = Tail(@)]
    /\ UNCHANGED <<writer, capVars, tick, agents, next_id, audit, thread>>

\* The images of the boot script do not write files; fs.write may also refuse.
HostFsWrite ==
    /\ commands > 0
    /\ Permitted("fs_write", "WRITE")
    /\ writer' = run.id
    /\ UNCHANGED <<capVars, tick, agents, next_id, channels, audit, thread>>

\* _start came back or trapped.
Ended == Running /\ Head(todo).image \in {"returns", "traps"}

\* Mutant: a trap leaves through the error path, past the cleanup.
Finish_TrapSkipsKill ==
    /\ Ended
    /\ IF Head(todo).image = "returns" THEN Kill(run.id)
                                      ELSE UNCHANGED <<agents, capVars>>
    /\ run' = [run EXCEPT !.pc = "killed"]
    /\ UNCHANGED <<tick, next_id, shared, audit, todo, commands>>

\* Mutant: the log is written first, and the agent is killed afterwards.
Finish_LogsFirst ==
    /\ Ended
    /\ Logged("AgentKilled", run.id)
    /\ run' = [run EXCEPT !.pc = "killed"]
    /\ UNCHANGED <<capVars, tick, agents, next_id, shared, todo, commands>>

\* The cleanup, first half: kill, under the lock of the agent table.
Finish ==
    /\ Ended
    /\ Kill(run.id)
    /\ run' = [run EXCEPT !.pc = "killed"]
    /\ UNCHANGED <<tick, next_id, shared, audit, todo, commands>>

\* The second half: the audit record, under the log's own lock, and Ok to the
\* caller either way.
LogKill ==
    /\ run # None /\ run.pc = "killed"
    /\ Logged("AgentKilled", run.id)
    /\ Exit(TRUE)
    /\ UNCHANGED <<capVars, tick, agents, next_id, shared>>

\* A runaway agent: no fuel limit, no preemption.
Loop == Running /\ Head(todo).image = "loops" /\ UNCHANGED vars

HostCall == HostChanSend \/ HostChanRecv \/ HostFsWrite

Execute == Spawn \/ SpawnFails \/ GrantNext \/ LoadFails \/ Load \/ NoStart
             \/ Finish \/ LogKill

-----------------------------------------------------------------------------
(* The shell. *)

Command == AtPrompt /\ commands < MaxCommands /\ commands' = commands + 1

\* deploy: the plain agents, then sender and receiver on channel 0, which the
\* boot script has created.
Deploy ==
    /\ Command
    /\ \E image \in Images :
         \E call \in {Exec(image, None, None, FALSE), Exec(image, 0, None, FALSE),
                      Exec(image, None, 0, FALSE)} : todo' = <<call>>
    /\ UNCHANGED <<capVars, tick, agents, next_id, shared, audit, run>>

\* run: plain agents one after the other; one that fails is counted, and the
\* next is run all the same.
RunCommand ==
    /\ Command
    /\ \E first, second \in Images :
         todo' = << Exec(first, None, None, FALSE), Exec(second, None, None, FALSE) >>
    /\ UNCHANGED <<capVars, tick, agents, next_id, shared, audit, run>>

\* Mutant: a pipe takes the newest channel there is.
Pipe_ReusesChannel ==
    /\ Command
    /\ channels' = IF Len(channels) < 2 THEN Append(channels, <<>>) ELSE channels
    /\ \E first, second \in Images :
         todo' = << Exec(first, Len(channels') - 1, None, TRUE),
                    Exec(second, None, Len(channels') - 1, FALSE) >>
    /\ UNCHANGED <<writer, capVars, tick, agents, next_id, audit, run>>

\* pipe: a fresh channel first, then the two agents at its ends.  The names are
\* looked up after that: for one that is unknown the command returns with no
\* agent run, and the channel is taken for ever.
Pipe ==
    /\ Command
    /\ \/ /\ CanCreate
          /\ channels' = CreatedChannel
          /\ \/ UNCHANGED todo
             \/ \E first, second \in Images :
                  todo' = << Exec(first, Len(channels), None, TRUE),
                             Exec(second, None, Len(channels), FALSE) >>
       \/ ~CanCreate /\ UNCHANGED <<channels, todo>>
    /\ UNCHANGED <<writer, capVars, tick, agents, next_id, audit, run>>

Send ==
    /\ Command
    /\ channels' = IF Len(channels[1]) < ChannelCapacity
                     THEN [channels EXCEPT ![1] = Append(@, Kernel)]
                     ELSE channels
    /\ UNCHANGED <<writer, capVars, tick, agents, next_id, audit, todo, run>>

\* write and rm of the shell.
FileCommand ==
    /\ Command
    /\ writer' \in {Kernel, None}
    /\ UNCHANGED <<capVars, tick, agents, next_id, channels, audit, todo, run>>

KillCommand ==
    /\ Command
    /\ \E pid \in DOMAIN agents : Kill(pid)
    /\ UNCHANGED <<tick, next_id, shared, audit, todo, run>>

\* Mutant: ids start over after a collection.
GcCommand_RecountsIds ==
    /\ Command
    /\ CollectTerminated
    /\ next_id' = Cardinality(Alive) + 1
    /\ UNCHANGED <<capVars, tick, shared, audit, todo, run>>

GcCommand ==
    /\ Command
    /\ CollectTerminated
    /\ UNCHANGED <<capVars, tick, next_id, shared, audit, todo, run>>

Shell == Deploy \/ RunCommand \/ Pipe \/ Send \/ FileCommand \/ KillCommand
           \/ GcCommand

\* interactive_loop with nothing typed: hlt until the next interrupt.
Wait == AtPrompt /\ UNCHANGED vars

\* timer_handler: it interrupts the thread anywhere and touches nothing else.
Timer ==
    /\ tick < MaxTick /\ tick' = tick + 1
    /\ UNCHANGED <<capVars, agents, next_id, shared, audit, thread>>

SysNext == Boot \/ Execute \/ HostCall \/ Loop \/ Shell \/ Wait \/ Timer

\* The thread never stops by itself, and an agent whose _start ends gets to
\* its end; nobody has to type a command.
SysSpec ==
    /\ SysInit /\ [][SysNext]_vars
    /\ WF_vars(Boot \/ Execute) /\ WF_vars(Timer)

-----------------------------------------------------------------------------
Ids == 1 .. next_id - 1

SysTypeOK ==
    /\ Caps!TypeOK
    /\ DOMAIN agents \subseteq Ids /\ Cardinality(DOMAIN agents) <= MaxAgents
    /\ \A a \in DOMAIN agents :
          /\ agents[a].state \in {"Initializing", "Active", "Terminated"}
          /\ agents[a].capabilities \subseteq Caps!Slots
    /\ Len(channels) <= MaxChannels
    /\ \A c \in DOMAIN channels :
          channels[c] \in Seq({Kernel} \cup Ids) /\ Len(channels[c]) <= ChannelCapacity
    /\ writer \in {None, Kernel} \cup Ids
    /\ run \in Runs \cup {None} /\ (run # None => todo # <<>>)

\* A dead agent, collected or not, holds no authority: every live capability
\* belongs to an agent that is in the table and not terminated.  (Between the
\* boot script's delegate and revoke CAP_TABLE is locked.)
DeadHoldNothing ==
    ~Calling("revoke") => \A h \in Caps!Live : entries[h].owner \in Alive

\* As long as images load and end, authority is held by the guardian and the
\* agent that runs, by nobody else.
OnlyRunnerHoldsAuthority ==
    ~Calling("revoke") =>
      \A h \in Caps!Live : entries[h].owner = Guardian
                              \/ (run # None /\ entries[h].owner = run.id)

\* While an agent runs, each handle the host keeps for it is its own, for the
\* resource the host function acts on, and passes the check.
HandlesOutliveTheRun ==
    Running => \A f \in HostFields : run.host[f] # None =>
        /\ entries[run.host[f]].owner = run.id
        /\ Caps!Check(run.host[f],
              {IF f \in {"chan_read", "fs_read"} THEN "READ" ELSE "WRITE"}) = "Ok"
        /\ f = "chan_write" =>
              entries[run.host[f]].resource = ChannelRef(Head(todo).chan_write)
        /\ f = "chan_read" =>
              entries[run.host[f]].resource = ChannelRef(Head(todo).chan_read)

\* Agent a was granted right on resource, now or in the past.
WasGranted(a, resource, right) ==
    \E h \in Caps!Used : entries[h].owner = a
        /\ entries[h].resource = resource /\ right \in entries[h].rights

\* Whatever sits in a channel was put there by the shell (in channel 0) or by
\* an agent that was granted WRITE on that channel and no other, even one that
\* was rejected later; and a file was written by the shell or by an agent that
\* was granted WRITE on the file system.
TrafficIsAuthorised ==
    /\ \A c \in DOMAIN channels : \A i \in DOMAIN channels[c] :
          \/ channels[c][i] = Kernel /\ c = 1
          \/ WasGranted(channels[c][i], ChannelRef(c - 1), "WRITE")
    /\ writer \in {None, Kernel} \/ WasGranted(writer, Filesystem, "WRITE")

\* The channel of a pipe carries the messages of its first agent only.
PipesDoNotMix ==
    \A c \in DOMAIN channels : \A i, j \in DOMAIN channels[c] :
        c > 1 => channels[c][i] = channels[c][j]

\* The log does not lie: every agent in the table but the guardian was logged
\* when it was spawned, and one logged as killed is dead.
AuditIsTruthful ==
    /\ \A a \in DOMAIN agents \ {Guardian} : <<"AgentSpawned", a>> \in audit
    /\ \A a \in Ids : <<"AgentKilled", a>> \in audit =>
          <<"AgentSpawned", a>> \in audit /\ a \notin Alive

\* An agent that is dead or collected never comes back, under its own id or
\* as another agent's.
DeadStayDead ==
    [][\A a \in 1 .. 2 * MaxCommands + 4 :
         (<<"AgentSpawned", a>> \in audit /\ a \notin Alive) => a \notin Alive']_vars

\* Boot and every command come to an end, whatever agents they run, if the
\* images end.
PromptReturns == ~AtPrompt ~> AtPrompt

-----------------------------------------------------------------------------
(* What the documentation says of agents, and the code does not do. *)

\* agent.rs: "Time-limited (max lifetime, auto-killed on expiry)".
ExpiredAgentsAreKilled ==
    \A a \in 1 .. 2 * MaxCommands + 4 :
        (a \in Alive /\ IsExpired(a)) ~> a \notin Alive

=============================================================================
