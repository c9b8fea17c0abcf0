------------------------- MODULE AgentRuntimeProofs -------------------------
(***************************************************************************)
(* What holds of agents in every kernel, for every limit, every set of     *)
(* images and however the timer runs: the invariants and the action        *)
(* property of AgentRuntime, from one inductive invariant.  Its parts:     *)
(* what calls the thread still has to make, the agents, who holds live     *)
(* authority, the handles of the run, the audit log, the traffic.          *)
(***************************************************************************)
EXTENDS AgentRuntime, AgentTableProofs, SequenceTheorems

-----------------------------------------------------------------------------
(* The calls that the thread has still to make. *)

Channels == 0 .. MaxChannels - 1

GrantCall == [op : {"cap_grant"}, resource : Resources, rights : SUBSET AllRights,
              timeout : {0, ComputeTimeout}]
UseCall == [op : {"read", "write", "delegate", "revoke"}, resource : Resources]
PlainCall == [op : {"spawn_guardian", "create_channel"}]
ExecCall == [op : {"execute"}, image : Outcomes, chan_write : Channels \cup {None},
             chan_read : Channels \cup {None}, abort : BOOLEAN]
Calls == GrantCall \cup UseCall \cup PlainCall \cup ExecCall

\* The calls of the boot script in which the guardian acts as an agent.
GuardianCalls == {"cap_grant", "read", "write", "delegate", "revoke"}

\* What is left of the boot script or of a command: the spawn of the guardian
\* comes first; revoke comes right after the delegate of the same resource;
\* only the call at the head may write to a pipe's channel; and what may be
\* given up after an error does not include the creation of channel 0.
Script(s) ==
    /\ s \in Seq(Calls)
    /\ \A i \in 2 .. Len(s) :
          /\ s[i].op # "spawn_guardian"
          /\ s[i].op = "revoke" => s[i - 1].op = "delegate"
          /\ s[i].op = "execute" => s[i].chan_write \in {None, 0}
    /\ \A i \in 1 .. Len(s) :
          /\ s[i].op = "delegate" =>
                /\ i < Len(s)
                /\ s[i + 1] = [op |-> "revoke", resource |-> s[i].resource]
          /\ s[i].op = "execute" /\ s[i].abort =>
                \A j \in 1 .. Len(s) : s[j].op # "create_channel"

-----------------------------------------------------------------------------
(* Agents and authority. *)

AgentsInv ==
    /\ next_id \in Nat \ {0}
    /\ DOMAIN agents \subseteq Ids /\ Cardinality(DOMAIN agents) <= MaxAgents
    /\ \A a \in DOMAIN agents : agents[a] \in AgentRecord

\* The guardian is alive as long as the script needs it.
GuardianInv ==
    /\ \A i \in 1 .. Len(todo) :
          todo[i].op \in GuardianCalls =>
             Guardian \in Alive \/ todo[1].op = "spawn_guardian"
    /\ Calling("spawn_guardian") =>
          agents = <<>> /\ next_id = 1 /\ Caps!Live = {}
    /\ next_id = 1 => Calling("spawn_guardian")

\* Live authority is held by the living, but for the capability that the boot
\* script is about to revoke.
AuthorityInv ==
    \A h \in Caps!Live :
        \/ entries[h].owner \in Alive
        \/ /\ Calling("revoke")
           /\ entries[h].parent = GuardianHandle(Head(todo).resource)

-----------------------------------------------------------------------------
(* The run. *)

RightFor(f) == IF f \in {"chan_read", "fs_read"} THEN "READ" ELSE "WRITE"

ResourceFor(f, call) ==
    CASE f = "serial" -> Serial
      [] f = "chan_write" -> ChannelRef(call.chan_write)
      [] f = "chan_read" -> ChannelRef(call.chan_read)
      [] OTHER -> Filesystem

Wishes(call) ==
    {w \in [for : HostFields, resource : Resources, right : AllRights] :
        w.right = RightFor(w.for) /\ w.resource = ResourceFor(w.for, call)}

\* The agent that runs is not the guardian, and alive until it is killed; what
\* it still asks for and what it holds is what its call says, for ever.
RunInv ==
    run # None =>
        /\ run \in Runs
        /\ todo # <<>> /\ Head(todo).op = "execute"
        /\ run.id \in DOMAIN agents \ {Guardian}
        /\ run.pc = "killed" <=> run.id \notin Alive
        /\ run.wanted \in Seq(Wishes(Head(todo)))
        /\ \A f \in HostFields : run.host[f] # None /\ run.pc # "killed" =>
              LET entry == entries[run.host[f]] IN
              /\ run.host[f] \in Caps!Live
              /\ entry.owner = run.id /\ entry.expires_at = 0
              /\ entry.rights = {RightFor(f)}
              /\ entry.resource = ResourceFor(f, Head(todo))

-----------------------------------------------------------------------------
(* The audit log and the traffic. *)

\* What is logged of agents is about ids given out.
AuditInv ==
    /\ \A event \in audit :
          /\ event = <<event[1], event[2]>>
          /\ event[1] \in {"AgentSpawned", "AgentKilled"} => event[2] \in Ids
    /\ AuditIsTruthful

TrafficInv ==
    /\ channels \in Seq(Seq(Nat)) /\ Len(channels) <= MaxChannels
    /\ \A c \in 1 .. Len(channels) :
          /\ Len(channels[c]) <= ChannelCapacity
          /\ \A i \in 1 .. Len(channels[c]) : channels[c][i] \in {Kernel} \cup Ids
    /\ writer \in {None, Kernel} \cup Ids
    /\ TrafficIsAuthorised
    /\ channels # <<>> \/ \E i \in 1 .. Len(todo) : todo[i].op = "create_channel"

\* The channel of a pipe is empty until its first agent runs, and then takes
\* the messages of that agent.
PipeInv ==
    /\ PipesDoNotMix
    /\ (todo # <<>> /\ Head(todo).op = "execute" /\ Head(todo).chan_write # None) =>
          LET c == Head(todo).chan_write + 1 IN
          c \in 2 .. Len(channels) =>
             \A i \in 1 .. Len(channels[c]) : run # None /\ channels[c][i] = run.id

SysInv ==
    /\ CapInv /\ Script(todo) /\ AgentsInv /\ GuardianInv /\ AuthorityInv
    /\ RunInv /\ AuditInv /\ TrafficInv /\ PipeInv

-----------------------------------------------------------------------------
(* Scripts. *)

\* The head and the tail of a script, by index.
LEMMA ScriptParts ==
    ASSUME NEW s, Script(s), s # <<>>
    PROVE  /\ Len(s) \in Nat \ {0} /\ \A i \in 1 .. Len(s) : s[i] \in Calls
           /\ Head(s) = s[1]
           /\ Tail(s) \in Seq(Calls) /\ Len(Tail(s)) = Len(s) - 1
           /\ \A i \in 1 .. Len(s) - 1 : Tail(s)[i] = s[i + 1]
<1>1. s \in Seq(Calls)
  BY DEF Script
<1>. HIDE DEF Calls
<1>2. Len(s) \in Nat \ {0} /\ \A i \in 1 .. Len(s) : s[i] \in Calls
  BY <1>1, EmptySeq, LenProperties, ElementOfSeq
<1>3. /\ Tail(s) \in Seq(Calls) /\ Len(Tail(s)) = Len(s) - 1
      /\ \A i \in 1 .. Len(s) - 1 : Tail(s)[i] = s[i + 1]
  BY <1>1, HeadTailProperties
<1>4. Head(s) = s[1]
  OBVIOUS
<1>. QED  BY <1>2, <1>3, <1>4

\* What is left after a call is a script, unless it begins with a revoke.
LEMMA ScriptTail ==
    ASSUME NEW s, Script(s), s # <<>>
    PROVE  Script(Tail(s))
<1>. DEFINE t == Tail(s)
<1>1. /\ Len(s) \in Nat \ {0}
      /\ t \in Seq(Calls) /\ Len(t) = Len(s) - 1
      /\ \A i \in 1 .. Len(t) : t[i] = s[i + 1] /\ i + 1 \in 2 .. Len(s)
  BY ScriptParts
<1>. HIDE DEF t
<1>2. ASSUME NEW i \in 2 .. Len(t)
      PROVE  /\ t[i].op # "spawn_guardian"
             /\ t[i].op = "revoke" => t[i - 1].op = "delegate"
             /\ t[i].op = "execute" => t[i].chan_write \in {None, 0}
  <2>1. /\ t[i] = s[i + 1] /\ i + 1 \in 2 .. Len(s)
        /\ t[i - 1] = s[(i + 1) - 1]
    BY <1>1, <1>2
  <2>. QED  BY <2>1 DEF Script
<1>3. ASSUME NEW i \in 1 .. Len(t)
      PROVE  /\ t[i].op = "delegate" =>
                  /\ i < Len(t)
                  /\ t[i + 1] = [op |-> "revoke", resource |-> t[i].resource]
             /\ t[i].op = "execute" /\ t[i].abort =>
                  \A j \in 1 .. Len(t) : t[j].op # "create_channel"
  <2>1. t[i] = s[i + 1] /\ i + 1 \in 1 .. Len(s)
    BY <1>1, <1>3
  <2>2. ASSUME t[i].op = "delegate"
        PROVE  /\ i < Len(t)
               /\ t[i + 1] = [op |-> "revoke", resource |-> t[i].resource]
    <3>1. /\ i + 1 < Len(s)
          /\ s[(i + 1) + 1] = [op |-> "revoke", resource |-> s[i + 1].resource]
      BY <2>1, <2>2 DEF Script
    <3>2. i < Len(t) /\ i + 1 \in 1 .. Len(t)
      BY <1>1, <3>1
    <3>. QED  BY <1>1, <2>1, <3>1, <3>2
  <2>3. ASSUME t[i].op = "execute", t[i].abort, NEW j \in 1 .. Len(t)
        PROVE  t[j].op # "create_channel"
    <3>1. \A k \in 1 .. Len(s) : s[k].op # "create_channel"
      BY <2>1, <2>3 DEF Script
    <3>2. t[j] = s[j + 1] /\ j + 1 \in 1 .. Len(s)
      BY <1>1, <2>3
    <3>. QED  BY <3>1, <3>2
  <2>. QED  BY <2>2, <2>3
<1>. QED  BY <1>1, <1>2, <1>3 DEF Script, t

\* Two calls on it is the same, but for the order of the first two.
LEMMA ScriptTailTail ==
    ASSUME NEW s, Script(s), Len(s) > 1
    PROVE  LET t == Tail(Tail(s)) IN
           /\ Script(t) /\ Len(s) \in Nat /\ Len(t) = Len(s) - 2
           /\ \A i \in 1 .. Len(t) : t[i] = s[i + 2]
           /\ t # <<>> => Head(t) = s[3] /\ 3 \in 2 .. Len(s)
<1>. DEFINE u == Tail(s)
            t == Tail(u)
<1>1. s # <<>>
  BY EmptySeq
<1>2. /\ Script(u) /\ Len(u) = Len(s) - 1 /\ Len(s) \in Nat
      /\ \A i \in 1 .. Len(s) - 1 : u[i] = s[i + 1]
  BY <1>1, ScriptTail, ScriptParts
<1>. HIDE DEF u
<1>3. Len(u) # 0
  BY <1>2
<1>4. u # <<>>
  BY <1>3, EmptySeq
<1>5. /\ Script(t) /\ Len(t) = Len(u) - 1
      /\ \A i \in 1 .. Len(u) - 1 : t[i] = u[i + 1]
  BY <1>2, <1>4, ScriptTail, ScriptParts
<1>. HIDE DEF t
<1>6. \A i \in 1 .. Len(t) : t[i] = s[i + 2]
  <2>. TAKE i \in 1 .. Len(t)
  <2>1. /\ t[i] = u[i + 1] /\ i + 1 \in 1 .. Len(s) - 1
        /\ (i + 1) + 1 = i + 2
    BY <1>2, <1>5
  <2>2. u[i + 1] = s[(i + 1) + 1]
    BY <1>2, <2>1
  <2>. QED  BY <2>1, <2>2
<1>7. ASSUME t # <<>> PROVE Head(t) = s[3] /\ 3 \in 2 .. Len(s)
  <2>1. Head(t) = t[1] /\ Len(t) \in Nat \ {0}
    BY <1>5, <1>7, ScriptParts
  <2>. QED  BY <1>2, <1>5, <1>6, <2>1
<1>. QED  BY <1>2, <1>5, <1>6, <1>7 DEF t, u

\* The calls of the shell: nothing, one agent, or two of which the second
\* does not write to a pipe.
LEMMA ShellScripts ==
    /\ Script(<<>>)
    /\ \A c \in ExecCall : Script(<<c>>)
    /\ \A c, d \in ExecCall : d.chan_write \in {None, 0} => Script(<<c, d>>)
<1>1. Script(<<>>)
  BY EmptySeq DEF Script
<1>2. ASSUME NEW c \in ExecCall PROVE Script(<<c>>)
  <2>1. c \in Calls /\ c.op = "execute"
    BY DEF Calls, ExecCall
  <2>2. <<c>> \in Seq(Calls) /\ Len(<<c>>) = 1 /\ <<c>>[1] = c
    BY <2>1
  <2>. QED  BY <2>1, <2>2 DEF Script
<1>3. ASSUME NEW c \in ExecCall, NEW d \in ExecCall, d.chan_write \in {None, 0}
      PROVE  Script(<<c, d>>)
  <2>1. c \in Calls /\ d \in Calls /\ c.op = "execute" /\ d.op = "execute"
    BY DEF Calls, ExecCall
  <2>2. /\ <<c, d>> \in Seq(Calls) /\ Len(<<c, d>>) = 2
        /\ <<c, d>>[1] = c /\ <<c, d>>[2] = d
    BY <2>1
  <2>. QED  BY <1>3, <2>1, <2>2 DEF Script
<1>. QED  BY <1>1, <1>2, <1>3

\* Where the indices of the boot script lie.
LEMMA FifteenCases ==
    ASSUME NEW i \in 1 .. 15
    PROVE  i \in {1, 2, 3, 4, 5} \/ i \in {6, 7, 8, 9, 10} \/ i \in {11, 12, 13, 14, 15}
OBVIOUS

\* Fifteen members of a set make a sequence over it.
LEMMA FifteenCalls ==
    ASSUME NEW S, NEW c1 \in S, NEW c2 \in S, NEW c3 \in S, NEW c4 \in S,
           NEW c5 \in S, NEW c6 \in S, NEW c7 \in S, NEW c8 \in S, NEW c9 \in S,
           NEW c10 \in S, NEW c11 \in S, NEW c12 \in S, NEW c13 \in S,
           NEW c14 \in S, NEW c15 \in S
    PROVE  LET b == <<c1, c2, c3, c4, c5, c6, c7, c8, c9, c10, c11, c12, c13, c14, c15>>
           IN  b \in Seq(S) /\ Len(b) = 15
OBVIOUS

\* What the guardian runs at boot is made of calls, with the arguments that
\* the invariant asks for.
LEMMA BootScriptIsScript ==
    /\ Script(BootScript) /\ Len(BootScript) = 15
    /\ BootScript # <<>> /\ BootScript[1].op = "spawn_guardian"
    /\ BootScript[13].op = "create_channel"
<1>. DEFINE b == BootScript
<1>1. /\ b \in Seq(Calls) /\ Len(b) = 15
  <2>1. /\ Serial \in Resources /\ Memory \in Resources /\ AuditLog \in Resources
        /\ Compute \in Resources
    BY DEF Resources
  <2>2. 0 \in Channels /\ "returns" \in Outcomes
    BY TableLimitsAssumption DEF Channels, Outcomes
  <2>3. \A w, r \in {0, None} : Exec("returns", w, r, FALSE) \in Calls
    BY <2>2 DEF Exec, Calls, ExecCall
  <2>4. \A r \in Resources, R \in SUBSET AllRights, t \in {0, ComputeTimeout} :
          [op |-> "cap_grant", resource |-> r, rights |-> R, timeout |-> t] \in Calls
    BY DEF Calls, GrantCall
  <2>5. \A r \in Resources, op \in {"read", "write", "delegate", "revoke"} :
          [op |-> op, resource |-> r] \in Calls
    BY DEF Calls, UseCall
  <2>6. [op |-> "spawn_guardian"] \in Calls /\ [op |-> "create_channel"] \in Calls
    BY DEF Calls, PlainCall
  <2>. HIDE DEF Calls, Resources, Serial, Memory, AuditLog, Compute
  <2>7. /\ [op |-> "cap_grant", resource |-> Serial,
             rights |-> {"READ", "WRITE"}, timeout |-> 0] \in Calls
        /\ [op |-> "cap_grant", resource |-> Memory,
             rights |-> {"READ"}, timeout |-> 0] \in Calls
        /\ [op |-> "cap_grant", resource |-> AuditLog,
             rights |-> {"READ"}, timeout |-> 0] \in Calls
        /\ [op |-> "cap_grant", resource |-> Compute,
             rights |-> {"READ", "EXECUTE"}, timeout |-> ComputeTimeout] \in Calls
    BY <2>1, <2>4 DEF AllRights
  <2>8. /\ [op |-> "read", resource |-> Serial] \in Calls
        /\ [op |-> "write", resource |-> Serial] \in Calls
        /\ [op |-> "read", resource |-> Memory] \in Calls
        /\ [op |-> "write", resource |-> Memory] \in Calls
        /\ [op |-> "delegate", resource |-> Serial] \in Calls
        /\ [op |-> "revoke", resource |-> Serial] \in Calls
    BY <2>1, <2>5
  <2>9. /\ Exec("returns", None, None, FALSE) \in Calls
        /\ Exec("returns", 0, None, FALSE) \in Calls
        /\ Exec("returns", None, 0, FALSE) \in Calls
    BY <2>3
  <2>. QED  BY <2>6, <2>7, <2>8, <2>9, FifteenCalls, Zenon DEF BootScript
<1>2. /\ b[1].op = "spawn_guardian" /\ b[2].op = "cap_grant"
      /\ b[3].op = "cap_grant" /\ b[4].op = "cap_grant"
      /\ b[5].op = "cap_grant" /\ b[6].op = "read" /\ b[7].op = "write"
      /\ b[8].op = "read" /\ b[9].op = "write" /\ b[10].op = "delegate"
      /\ b[11] = [op |-> "revoke", resource |-> b[10].resource]
      /\ b[11].op = "revoke" /\ b[13].op = "create_channel"
  BY DEF BootScript
<1>3. /\ b[12].op = "execute" /\ b[14].op = "execute" /\ b[15].op = "execute"
      /\ ~b[12].abort /\ ~b[14].abort /\ ~b[15].abort
      /\ b[12].chan_write = None /\ b[14].chan_write = 0 /\ b[15].chan_write = None
  BY DEF BootScript, Exec
<1>. HIDE DEF b
<1>4. ASSUME NEW i \in 2 .. 15
      PROVE  /\ b[i].op # "spawn_guardian"
             /\ b[i].op = "revoke" => b[i - 1].op = "delegate"
             /\ b[i].op = "execute" => b[i].chan_write \in {None, 0}
  <2>1. b[i].op = "revoke" => i = 11
    BY <1>2, <1>3, FifteenCases
  <2>. QED  BY <1>2, <1>3, <2>1, FifteenCases
<1>5. ASSUME NEW i \in 1 .. 15
      PROVE  /\ b[i].op = "delegate" => i = 10
             /\ b[i].op = "execute" => ~b[i].abort
  BY <1>2, <1>3, FifteenCases
<1>6. ASSUME NEW i \in 1 .. 15
      PROVE  /\ b[i].op = "delegate" =>
                  /\ i < 15
                  /\ b[i + 1] = [op |-> "revoke", resource |-> b[i].resource]
             /\ b[i].op = "execute" /\ b[i].abort =>
                  \A j \in 1 .. 15 : b[j].op # "create_channel"
  BY <1>2, <1>5
<1>7. Script(b)
  BY <1>1, <1>4, <1>6 DEF Script
<1>8. b # <<>>
  <2>1. SUFFICES ASSUME b = <<>> PROVE FALSE
    OBVIOUS
  <2>2. Len(<<>>) = 0
    BY EmptySeq
  <2>. QED  BY <1>1, <2>1, <2>2
<1>. QED  BY <1>1, <1>2, <1>7, <1>8 DEF b

-----------------------------------------------------------------------------
(* What the conjuncts of the invariant say of the call at the head. *)

\* What the first call still to be made has for arguments.
LEMMA HeadFacts ==
    ASSUME Script(todo), todo # <<>>
    PROVE  /\ Head(todo) = todo[1] /\ Head(todo) \in Calls
           /\ Len(todo) \in Nat \ {0}
           /\ Head(todo).op = "execute" => Head(todo) \in ExecCall
           /\ Head(todo).op = "cap_grant" => Head(todo) \in GrantCall
           /\ Head(todo).op \in {"read", "write", "delegate", "revoke"} =>
                 Head(todo).resource \in Resources
           /\ Head(todo).op = "delegate" =>
                 /\ Len(todo) > 1
                 /\ todo[2] = [op |-> "revoke", resource |-> Head(todo).resource]
<1>1. /\ Head(todo) = todo[1] /\ todo[1] \in Calls
      /\ Len(todo) \in Nat \ {0} /\ 1 \in 1 .. Len(todo)
  BY ScriptParts
<1>2. \A c \in Calls :
        /\ c.op = "execute" => c \in ExecCall
        /\ c.op = "cap_grant" => c \in GrantCall
        /\ c.op \in {"read", "write", "delegate", "revoke"} => c.resource \in Resources
  BY DEF Calls, GrantCall, UseCall, PlainCall, ExecCall
<1>3. todo[1].op = "delegate" =>
        /\ 1 < Len(todo)
        /\ todo[1 + 1] = [op |-> "revoke", resource |-> todo[1].resource]
  BY <1>1 DEF Script
<1>. QED  BY <1>1, <1>2, <1>3

\* After a call the next one is at the head.
LEMMA DoneMeans ==
    ASSUME Script(todo), todo # <<>>, todo' = Tail(todo)
    PROVE  /\ Script(todo')
           /\ Len(todo') = Len(todo) - 1
           /\ \A i \in 1 .. Len(todo') : todo'[i] = todo[i + 1]
           /\ todo' # <<>> =>
                 /\ Len(todo) > 1
                 /\ Head(todo') = todo[2] /\ Head(todo').op # "spawn_guardian"
                 /\ Head(todo').op = "revoke" => Head(todo).op = "delegate"
                 /\ Head(todo').op = "execute" => Head(todo').chan_write \in {None, 0}
<1>1. Script(todo')
  BY ScriptTail
<1>2. /\ Head(todo) = todo[1] /\ Len(todo) \in Nat \ {0}
      /\ Len(todo') = Len(todo) - 1
      /\ \A i \in 1 .. Len(todo') : todo'[i] = todo[i + 1]
  BY ScriptParts
<1>3. ASSUME todo' # <<>>
      PROVE  /\ Len(todo) > 1
             /\ Head(todo') = todo[2] /\ Head(todo').op # "spawn_guardian"
             /\ Head(todo').op = "revoke" => Head(todo).op = "delegate"
             /\ Head(todo').op = "execute" => Head(todo').chan_write \in {None, 0}
  <2>1. Len(todo') \in Nat \ {0} /\ Head(todo') = todo'[1]
    BY <1>1, <1>3, ScriptParts
  <2>2. 2 \in 2 .. Len(todo) /\ Head(todo') = todo[2]
    BY <1>2, <2>1
  <2>3. /\ todo[2].op # "spawn_guardian"
        /\ todo[2].op = "revoke" => todo[2 - 1].op = "delegate"
        /\ todo[2].op = "execute" => todo[2].chan_write \in {None, 0}
    BY <2>2 DEF Script
  <2>. QED  BY <1>2, <2>2, <2>3
<1>. QED  BY <1>1, <1>2, <1>3

-----------------------------------------------------------------------------
(* The script. *)

\* The end of execute_agent.
LEMMA ExitMeans ==
    ASSUME NEW ok, todo # <<>>, Exit(ok)
    PROVE  /\ run' = None /\ UNCHANGED commands
           /\ \/ todo' = Tail(todo)
              \/ todo' = <<>> /\ Head(todo).abort
BY DEF Exit

\* What the shell puts on the list.
LEMMA ExecsAreCalls ==
    ASSUME NEW image \in Images, NEW w \in Channels \cup {None},
           NEW r \in Channels \cup {None}, NEW abort \in BOOLEAN
    PROVE  /\ Exec(image, w, r, abort) \in ExecCall
           /\ Exec(image, w, r, abort).op = "execute"
           /\ Exec(image, w, r, abort).chan_write = w
BY ImagesAssumption DEF Exec, ExecCall

\* The call is for the image it was made for.
LEMMA ExecsImage ==
    ASSUME NEW image, NEW w, NEW r, NEW abort
    PROVE  Exec(image, w, r, abort).image = image
BY DEF Exec

\* The thread only drops the first call or puts well-formed calls in its
\* place.
LEMMA ScriptStep ==
    ASSUME SysInv, [SysNext]_vars
    PROVE  Script(todo)'
<1>. USE DEF SysInv
<1>1. CASE todo' = todo
  BY <1>1
<1>2. CASE todo # <<>> /\ todo' = Tail(todo)
  BY <1>2, ScriptTail
<1>3. CASE Delegate
  <2>1. CASE Done
    BY <1>2, <1>3, <2>1 DEF Delegate, Calling, Done
  <2>2. CASE todo' = Tail(Tail(todo))
    <3>1. todo # <<>> /\ Len(todo) > 1 /\ Script(Tail(todo))
      BY <1>3, HeadFacts, ScriptTail DEF Delegate, Calling
    <3>2. Len(Tail(todo)) = Len(todo) - 1 /\ Len(todo) \in Nat
      BY <3>1, ScriptParts
    <3>3. Tail(todo) # <<>>
      <4>. DEFINE t == Tail(todo)
      <4>1. Len(t) # 0
        BY <3>1, <3>2
      <4>. HIDE DEF t
      <4>2. t # <<>>
        BY <4>1, EmptySeq
      <4>. QED  BY <4>2 DEF t
    <3>. QED  BY <2>2, <3>1, <3>3, ScriptTail
  <2>. QED  BY <1>3, <2>1, <2>2 DEF Delegate
<1>4. ASSUME NEW ok, todo # <<>>, Exit(ok)
      PROVE  Script(todo)'
  BY <1>2, <1>4, ExitMeans, ShellScripts
<1>5. CASE Boot
  BY <1>2, <1>3, <1>5 DEF Boot, SpawnGuardian, GrantToGuardian, GuardianReads,
     GuardianWrites, RevokeDelegated, CreateChannel, Calling, Done
<1>6. CASE Execute
  <2>1. CASE SpawnFails \/ LoadFails \/ NoStart \/ LogKill
    <3>1. todo # <<>>
      BY <2>1 DEF SpawnFails, LoadFails, NoStart, LogKill, Calling, Loading,
         Running, RunInv
    <3>. QED  BY <1>4, <2>1, <3>1 DEF SpawnFails, LoadFails, NoStart, LogKill
  <2>2. CASE Spawn \/ GrantNext \/ Load \/ Finish
    BY <1>1, <2>2 DEF Spawn, GrantNext, Load, Finish
  <2>. QED  BY <1>6, <2>1, <2>2 DEF Execute
<1>7. CASE HostCall \/ Loop \/ Wait \/ Timer
  BY <1>1, <1>7 DEF HostCall, HostChanSend, HostChanRecv, HostFsWrite, Loop, Wait,
     Timer, thread, vars
<1>8. CASE Shell
  <2>0. 0 \in Channels /\ (CanCreate => Len(channels) \in Channels)
    <3>1. Len(channels) \in Nat
      BY LenProperties DEF TrafficInv
    <3>. QED  BY <3>1, TableLimitsAssumption DEF CanCreate, Channels
  <2>1. CASE Deploy
    BY <2>0, <2>1, ExecsAreCalls, ShellScripts DEF Deploy
  <2>2. CASE RunCommand
    <3>1. PICK first \in Images, second \in Images :
             todo' = << Exec(first, None, None, FALSE), Exec(second, None, None, FALSE) >>
      BY <2>2 DEF RunCommand
    <3>. DEFINE c == Exec(first, None, None, FALSE)
                d == Exec(second, None, None, FALSE)
    <3>2. c \in ExecCall /\ d \in ExecCall /\ d.chan_write = None
      BY ExecsAreCalls
    <3>3. todo' = <<c, d>>
      BY <3>1
    <3>. HIDE DEF c, d
    <3>4. Script(<<c, d>>)
      BY <3>2, ShellScripts
    <3>. QED  BY <3>3, <3>4
  <2>3. CASE Pipe
    <3>1. CASE UNCHANGED todo
      BY <1>1, <3>1
    <3>2. CASE CanCreate /\ \E first, second \in Images :
               todo' = << Exec(first, Len(channels), None, TRUE),
                          Exec(second, None, Len(channels), FALSE) >>
      <4>1. PICK first \in Images, second \in Images :
               todo' = << Exec(first, Len(channels), None, TRUE),
                          Exec(second, None, Len(channels), FALSE) >>
        BY <3>2
      <4>. QED  BY <2>0, <3>2, <4>1, ExecsAreCalls, ShellScripts
    <3>. QED  BY <2>3, <3>1, <3>2 DEF Pipe
  <2>4. CASE Send \/ FileCommand \/ KillCommand \/ GcCommand
    BY <1>1, <2>4 DEF Send, FileCommand, KillCommand, GcCommand
  <2>. QED  BY <1>8, <2>1, <2>2, <2>3, <2>4 DEF Shell
<1>9. CASE UNCHANGED vars
  BY <1>1, <1>9 DEF vars, thread
<1>. QED
  BY <1>5, <1>6, <1>7, <1>8, <1>9 DEF SysNext

-----------------------------------------------------------------------------
(* The capability table and the agents. *)

\* No handle changes what it means.
HandlesKept ==
    \A i \in Caps!Used :
        /\ i \in Caps!Used'
        /\ entries'[i].owner = entries[i].owner
        /\ entries'[i].resource = entries[i].resource
        /\ entries'[i].rights = entries[i].rights
        /\ entries'[i].parent = entries[i].parent
        /\ entries'[i].expires_at = entries[i].expires_at

\* cap_grant: one more live handle of the guardian, or none.
LEMMA GuardianGrantMeans ==
    ASSUME SysInv, GrantToGuardian
    PROVE  /\ CapInv' /\ HandlesKept
           /\ Caps!Live' \subseteq Caps!Live \cup
                 {i \in Caps!Used' : entries'[i].owner = Guardian}
<1>1. Head(todo) \in GrantCall /\ CapInv /\ UNCHANGED tick
  BY HeadFacts DEF GrantToGuardian, Calling, SysInv
<1>2. CASE UNCHANGED capVars
  BY <1>1, <1>2, CapUnchanged DEF capVars, HandlesKept, Caps!Used, Caps!Live
<1>3. CASE ~UNCHANGED capVars
  <2>1. PICK r \in Resources, R \in SUBSET AllRights, t \in {0, ComputeTimeout} :
           r = Head(todo).resource /\ R = Head(todo).rights /\ t = Head(todo).timeout
    BY <1>1 DEF GrantCall
  <2>2. PICK s \in Caps!Slots : Caps!Grant(s, Guardian, r, R, Caps!ExpiryOf(t))
    BY <1>3, <2>1 DEF GrantToGuardian, CapGrant
  <2>3. /\ CapInv'
        /\ entries'[s] = [resource |-> r, rights |-> R, owner |-> Guardian,
                          parent |-> None, expires_at |-> Caps!ExpiryOf(t),
                          revoked |-> FALSE]
        /\ \A i \in Caps!Used : entries'[i] = entries[i]
        /\ Caps!Used' = Caps!Used \cup {s} /\ Caps!Live' = Caps!Live \cup {s}
    <3>1. Guardian \in Nat
      BY DEF Guardian
    <3>. QED  BY <1>1, <2>2, <3>1, GrantEffect
  <2>4. entries'[s].owner = Guardian
    BY <2>3
  <2>. QED  BY <2>3, <2>4 DEF HandlesKept
<1>. QED  BY <1>2, <1>3

\* delegate: one more live handle, below the guardian's.
LEMMA DelegateMeans ==
    ASSUME SysInv, Delegate
    PROVE  /\ CapInv' /\ HandlesKept
           /\ \/ UNCHANGED capVars
              \/ /\ Done
                 /\ GuardianHandle(Head(todo).resource) \in Caps!Live
                 /\ \E s \in Caps!Slots :
                      /\ Caps!Live' = Caps!Live \cup {s}
                      /\ Caps!Used' = Caps!Used \cup {s}
                      /\ entries'[s].owner = SubAgent
                      /\ entries'[s].parent = GuardianHandle(Head(todo).resource)
<1>. DEFINE p == GuardianHandle(Head(todo).resource)
<1>1. CapInv /\ UNCHANGED tick
  BY DEF Delegate, SysInv
<1>2. CASE UNCHANGED capVars
  BY <1>1, <1>2, CapUnchanged DEF capVars, HandlesKept, Caps!Used
<1>3. CASE ~UNCHANGED capVars
  <2>1. PICK s \in Caps!Slots : Caps!Delegate(s, p, SubAgent, {"READ"}) /\ Done
    BY <1>3 DEF Delegate
  <2>2. p \in Caps!Live
    BY <2>1 DEF Caps!Delegate, Caps!Check, Caps!Live
  <2>. HIDE DEF p
  <2>3. p \in Caps!Handles /\ SubAgent \in Nat /\ {"READ"} \in SUBSET AllRights
    BY <1>1, <2>2, CapInvMeans, TableLimitsAssumption
       DEF Caps!Slots, Caps!Handles, SubAgent, AllRights
  <2>4. /\ CapInv'
        /\ entries'[s].owner = SubAgent /\ entries'[s].parent = p
        /\ \A i \in Caps!Used : entries'[i] = entries[i]
        /\ Caps!Used' = Caps!Used \cup {s} /\ Caps!Live' = Caps!Live \cup {s}
    <3>1. /\ CapInv'
          /\ entries'[s] = [resource |-> entries[p].resource, rights |-> {"READ"},
                            owner |-> SubAgent, parent |-> p,
                            expires_at |-> entries[p].expires_at,
                            revoked |-> FALSE]
          /\ \A i \in Caps!Used : entries'[i] = entries[i]
          /\ Caps!Used' = Caps!Used \cup {s} /\ Caps!Live' = Caps!Live \cup {s}
      BY <1>1, <2>1, <2>3, DelegateEffect
    <3>. QED  BY <3>1
  <2>5. HandlesKept
    BY <2>4 DEF HandlesKept
  <2>. QED  BY <2>1, <2>2, <2>4, <2>5 DEF p
<1>. QED  BY <1>2, <1>3

\* One of the grants of execute_agent, for an agent that is alive.
LEMMA GrantNextMeans ==
    ASSUME SysInv, GrantNext
    PROVE  LET w == Head(run.wanted) IN
           /\ CapInv' /\ HandlesKept
           /\ w \in Wishes(Head(todo)) /\ Tail(run.wanted) \in Seq(Wishes(Head(todo)))
           /\ \/ /\ UNCHANGED capVars
                 /\ run' = [run EXCEPT !.wanted = Tail(@)]
              \/ \E s \in Caps!Slots :
                   /\ run' = [run EXCEPT !.wanted = Tail(@), !.host[w.for] = s]
                   /\ Caps!Live' = Caps!Live \cup {s}
                   /\ entries'[s] = [resource |-> w.resource, rights |-> {w.right},
                                     owner |-> run.id, parent |-> None,
                                     expires_at |-> 0, revoked |-> FALSE]
<1>. DEFINE w == Head(run.wanted)
<1>1. CapInv /\ UNCHANGED tick /\ RunInv /\ run # None
  BY DEF GrantNext, SysInv
<1>2. run.wanted \in Seq(Wishes(Head(todo))) /\ run.wanted # <<>> /\ run.id \in Nat
  BY <1>1 DEF RunInv, GrantNext, Runs
<1>3. w \in Wishes(Head(todo)) /\ Tail(run.wanted) \in Seq(Wishes(Head(todo)))
  BY <1>2, HeadTailProperties
<1>4. w.resource \in Resources /\ {w.right} \in SUBSET AllRights
  BY <1>3 DEF Wishes
<1>. HIDE DEF w
<1>5. CASE UNCHANGED capVars
  <2>1. run' = [run EXCEPT !.wanted = Tail(@)]
    <3>1. ASSUME NEW s, Caps!Grant(s, run.id, w.resource, {w.right}, 0)
          PROVE  FALSE
      <4>1. active_count' = active_count + 1 /\ active_count \in Nat
        BY <1>1, <3>1, CapInvMeans DEF Caps!Grant, Caps!Insert, Caps!TypeOK
      <4>. QED  BY <1>5, <4>1 DEF capVars
    <3>. QED  BY <3>1 DEF GrantNext, w
  <2>. QED
    BY <1>1, <1>3, <1>5, <2>1, CapUnchanged DEF capVars, HandlesKept, Caps!Used, w
<1>6. CASE ~UNCHANGED capVars
  <2>1. PICK a \in Nat, r \in Resources, R \in SUBSET AllRights,
             t \in {0, ComputeTimeout} :
           a = run.id /\ r = w.resource /\ R = {w.right} /\ t = 0
    BY <1>2, <1>4
  <2>2. PICK s \in Caps!Slots :
          /\ Caps!Grant(s, a, r, R, 0)
          /\ run' = [run EXCEPT !.wanted = Tail(@), !.host[w.for] = s]
    BY <1>6, <2>1 DEF GrantNext, w
  <2>3. /\ CapInv'
        /\ entries'[s] = [resource |-> r, rights |-> R, owner |-> a, parent |-> None,
                          expires_at |-> 0, revoked |-> FALSE]
        /\ \A i \in Caps!Used : entries'[i] = entries[i]
        /\ Caps!Used' = Caps!Used \cup {s}
        /\ Caps!Live' = Caps!Live \cup {s}
    <3>1. Caps!ExpiryOf(t) = 0
      BY <2>1 DEF Caps!ExpiryOf
    <3>2. Caps!Grant(s, a, r, R, Caps!ExpiryOf(t))
      BY <2>2, <3>1 DEF Caps!Grant
    <3>3. /\ CapInv'
          /\ entries'[s] = [resource |-> r, rights |-> R, owner |-> a, parent |-> None,
                            expires_at |-> Caps!ExpiryOf(t), revoked |-> FALSE]
          /\ \A i \in Caps!Used : entries'[i] = entries[i]
          /\ Caps!Used' = Caps!Used \cup {s}
          /\ Caps!Live' = Caps!Live \cup {s}
      BY <1>1, <3>2, GrantEffect
    <3>. QED  BY <3>1, <3>3
  <2>4. HandlesKept
    BY <2>3 DEF HandlesKept
  <2>. QED  BY <1>3, <2>1, <2>2, <2>3, <2>4 DEF w
<1>. QED  BY <1>5, <1>6

\* A kill ends one agent and leaves nothing live that it owns.
LEMMA KillMeans ==
    ASSUME SysInv, NEW a, Kill(a), UNCHANGED tick
    PROVE  /\ CapInv' /\ HandlesKept
           /\ a \in DOMAIN agents /\ DOMAIN agents' = DOMAIN agents
           /\ \A b \in DOMAIN agents' : agents'[b] \in AgentRecord
           /\ Alive' = Alive \ {a}
           /\ Caps!Live' \subseteq {h \in Caps!Live : entries[h].owner # a}
<1>1. /\ CapInv
      /\ \A b \in DOMAIN agents : agents[b] \in AgentRecord
  BY DEF SysInv, AgentsInv
<1>2. /\ a \in DOMAIN agents
      /\ agents' = [b \in DOMAIN agents |->
            IF b \in {a} THEN [agents[b] EXCEPT !.state = "Terminated"]
                         ELSE agents[b]]
      /\ Caps!RevokeEach({h \in Caps!Live : entries[h].owner \in {a}})
  BY KillTerminates
<1>3. /\ DOMAIN agents' = DOMAIN agents
      /\ \A b \in DOMAIN agents' : agents'[b] \in AgentRecord
      /\ Alive' = Alive \ {a}
  BY <1>1, <1>2, TerminateEffect
<1>. DEFINE H == {h \in Caps!Live : entries[h].owner \in {a}}
<1>4. H \subseteq Caps!Live
  OBVIOUS
<1>5. /\ CapInv' /\ HandlesKept
      /\ Caps!Live' = Caps!Live \ Caps!Cascade(H) /\ Caps!Live \cap H \subseteq Caps!Cascade(H)
  <2>. HIDE DEF H
  <2>1. Caps!RevokeEach(H)
    BY <1>2 DEF H
  <2>. QED  BY <1>1, <2>1, RevokeEffect DEF HandlesKept
<1>6. Caps!Live' \subseteq Caps!Live \ H
  BY <1>4, <1>5
<1>. QED  BY <1>2, <1>3, <1>5, <1>6

\* The revocation at the end of the boot script.
LEMMA RevokeMeans ==
    ASSUME SysInv, RevokeDelegated
    PROVE  /\ CapInv' /\ HandlesKept
           /\ Caps!Live' \subseteq Caps!Live
           /\ \A h \in Caps!Live' :
                 entries[h].parent # GuardianHandle(Head(todo).resource)
<1>. DEFINE p == GuardianHandle(Head(todo).resource)
<1>1. CapInv /\ UNCHANGED tick /\ Caps!RevokeEach({p})
  BY DEF RevokeDelegated, SysInv, Caps!Revoke
<1>2. p \in Nat
  <2>1. GuardianHandles(Head(todo).resource) \subseteq Nat
    BY <1>1, CapInvMeans DEF GuardianHandles, Caps!Slots
  <2>. QED  BY <2>1, TableLimitsAssumption DEF GuardianHandle
<1>. HIDE DEF p
<1>. DEFINE S == Caps!Cascade({p})
<1>3. /\ CapInv' /\ HandlesKept
      /\ Caps!Live' = Caps!Live \ S /\ Caps!Live \cap {p} \subseteq S
      /\ Caps!ClosedUnderChildren(S)
  BY <1>1, RevokeEffect DEF HandlesKept
<1>. HIDE DEF S
<1>4. ASSUME NEW h \in Caps!Live', entries[h].parent = p PROVE FALSE
  <2>1. p \in Caps!Live
    BY <1>1, <1>2, <1>3, <1>4, CapInvMeans, AbsentAssumption
  <2>2. p \in S
    BY <1>3, <2>1
  <2>. QED  BY <1>3, <1>4, <2>2 DEF Caps!ClosedUnderChildren
<1>. QED  BY <1>3, <1>4 DEF p

\* Every step keeps the table in order and changes the meaning of no handle.
LEMMA CapStep ==
    ASSUME SysInv, [SysNext]_vars
    PROVE  CapInv' /\ HandlesKept
<1>1. CASE UNCHANGED capVars /\ tick' \in Nat \cup {tick}
  BY <1>1, CapUnchanged DEF SysInv, capVars, HandlesKept, Caps!Used
<1>2. CASE GrantToGuardian \/ Delegate \/ RevokeDelegated \/ GrantNext
  BY <1>2, GuardianGrantMeans, DelegateMeans, RevokeMeans, GrantNextMeans
<1>3. CASE Finish \/ KillCommand
  BY <1>3, KillMeans DEF Finish, KillCommand
<1>4. CASE Boot
  BY <1>1, <1>2, <1>4 DEF Boot, SpawnGuardian, GuardianReads, GuardianWrites,
     ResourceRead, ResourceWrite, CreateChannel
<1>5. CASE Execute
  BY <1>1, <1>2, <1>3, <1>5 DEF Execute, Spawn, SpawnFails, LoadFails, Load, NoStart,
     LogKill
<1>6. CASE HostCall
  BY <1>1, <1>6 DEF HostCall, HostChanSend, HostChanRecv, HostFsWrite
<1>7. CASE Shell
  BY <1>1, <1>3, <1>7 DEF Shell, Deploy, RunCommand, Pipe, Send, FileCommand, GcCommand
<1>8. CASE Timer
  <2>1. tick \in Nat
    BY CapInvMeans DEF SysInv, Caps!TypeOK
  <2>. QED  BY <1>1, <1>8, <2>1 DEF Timer
<1>9. CASE Loop \/ Wait \/ UNCHANGED vars
  BY <1>1, <1>9 DEF Loop, Wait, vars
<1>. QED
  BY <1>4, <1>5, <1>6, <1>7, <1>8, <1>9 DEF SysNext

\* The agents in the table are finitely many.
LEMMA AgentsFinite ==
    ASSUME AgentsInv, NEW S \in SUBSET DOMAIN agents
    PROVE  IsFiniteSet(S) /\ Cardinality(S) \in Nat /\ Cardinality(S) <= MaxAgents
<1>1. DOMAIN agents \subseteq 1 .. next_id - 1 /\ next_id - 1 \in Int
  BY DEF AgentsInv, Ids
<1>2. IsFiniteSet(DOMAIN agents)
  BY <1>1, FS_Interval, FS_Subset
<1>3. /\ IsFiniteSet(S) /\ Cardinality(S) \in Nat
      /\ Cardinality(DOMAIN agents) \in Nat
      /\ Cardinality(S) <= Cardinality(DOMAIN agents)
  BY <1>2, FS_Subset, FS_CardinalityType
<1>. QED  BY <1>3, TableLimitsAssumption DEF AgentsInv

\* A new agent has a new id.
LEMMA SpawnMeans ==
    ASSUME SysInv, Spawn \/ SpawnGuardian
    PROVE  /\ AgentsInv' /\ next_id' = next_id + 1
           /\ next_id \notin DOMAIN agents
           /\ DOMAIN agents' = DOMAIN agents \cup {next_id}
           /\ Alive' = Alive \cup {next_id}
<1>1. AgentsInv /\ TableHasRoom /\ next_id' = next_id + 1
  BY DEF SysInv, Spawn, SpawnGuardian
<1>2. PICK record \in AgentRecord :
        agents' = WithAgent(next_id, record) /\ record.state # "Terminated"
  <2>1. tick \in Nat
    BY CapInvMeans DEF SysInv, Caps!TypeOK
  <2>2. ASSUME NEW lifetime \in Nat
        PROVE  /\ NewAgent(lifetime) \in AgentRecord
               /\ [NewAgent(lifetime) EXCEPT !.state = "Active"] \in AgentRecord
               /\ NewAgent(lifetime).state = "Initializing"
               /\ [NewAgent(lifetime) EXCEPT !.state = "Active"].state = "Active"
    BY <2>1 DEF NewAgent, AgentRecord
  <2>3. 0 \in Nat /\ AgentLifetime \in Nat
    BY TableLimitsAssumption
  <2>. QED  BY <2>2, <2>3 DEF Spawn, SpawnGuardian
<1>3. next_id \notin DOMAIN agents
  BY <1>1 DEF AgentsInv, Ids
<1>4. /\ DOMAIN agents' = DOMAIN agents \cup {next_id}
      /\ \A b \in DOMAIN agents : agents'[b] = agents[b]
      /\ agents'[next_id] = record
  BY <1>2, <1>3 DEF WithAgent
<1>5. Alive' = Alive \cup {next_id}
  BY <1>2, <1>3, <1>4 DEF Alive
<1>6. Cardinality(DOMAIN agents') <= MaxAgents
  <2>1. /\ IsFiniteSet(DOMAIN agents) /\ Cardinality(DOMAIN agents) \in Nat
        /\ MaxAgents \in Nat
    BY <1>1, AgentsFinite, TableLimitsAssumption
  <2>2. Cardinality(DOMAIN agents \cup {next_id}) = Cardinality(DOMAIN agents) + 1
    BY <1>3, <2>1, FS_AddElement
  <2>. QED  BY <1>1, <1>4, <2>1, <2>2 DEF TableHasRoom
<1>7. /\ next_id' \in Nat \ {0} /\ DOMAIN agents' \subseteq Ids'
      /\ \A b \in DOMAIN agents' : agents'[b] \in AgentRecord
  BY <1>1, <1>2, <1>4 DEF AgentsInv, Ids
<1>. QED  BY <1>1, <1>3, <1>4, <1>5, <1>6, <1>7 DEF AgentsInv

\* A change of the records that leaves the states or starts an agent that is
\* alive.
LEMMA UpdateMeans ==
    ASSUME AgentsInv, UNCHANGED next_id, DOMAIN agents' = DOMAIN agents,
           \A b \in DOMAIN agents :
              /\ agents'[b] \in AgentRecord
              /\ \/ agents'[b].state = agents[b].state
                 \/ b \in Alive /\ agents'[b].state # "Terminated"
    PROVE  AgentsInv' /\ Alive' = Alive
BY DEF AgentsInv, Alive, Ids

\* No other step adds an agent or wakes a dead one; and only the two kills end
\* one.
LEMMA NoSpawnMeans ==
    ASSUME SysInv, [SysNext]_vars, ~Spawn, ~SpawnGuardian
    PROVE  /\ AgentsInv' /\ UNCHANGED next_id
           /\ DOMAIN agents' \subseteq DOMAIN agents
           /\ Alive' \subseteq Alive
           /\ Finish \/ KillCommand \/ Alive' = Alive
<1>1. AgentsInv /\ CapInv
  BY DEF SysInv
<1>2. CASE UNCHANGED <<agents, next_id>>
  BY <1>1, <1>2 DEF AgentsInv, Alive, Ids
<1>3. CASE /\ UNCHANGED next_id /\ DOMAIN agents' = DOMAIN agents
           /\ \A b \in DOMAIN agents :
                /\ agents'[b] \in AgentRecord
                /\ \/ agents'[b].state = agents[b].state
                   \/ b \in Alive /\ agents'[b].state # "Terminated"
  BY <1>1, <1>3, UpdateMeans
<1>4. CASE GrantToGuardian
  <2>1. CASE UNCHANGED agents
    BY <1>2, <1>4, <2>1 DEF GrantToGuardian
  <2>2. CASE \E s \in Caps!Slots :
               agents' = [b \in DOMAIN agents |-> IF b # Guardian THEN agents[b] ELSE
                            [agents[b] EXCEPT !.capabilities = @ \cup {s}]]
    <3>1. PICK s \in Caps!Slots :
             agents' = [b \in DOMAIN agents |-> IF b # Guardian THEN agents[b] ELSE
                            [agents[b] EXCEPT !.capabilities = @ \cup {s}]]
      BY <2>2
    <3>2. \A b \in DOMAIN agents : agents[b] \in AgentRecord
      BY <1>1 DEF AgentsInv
    <3>3. ASSUME NEW b \in DOMAIN agents
          PROVE  agents'[b] \in AgentRecord /\ agents'[b].state = agents[b].state
      BY <3>1, <3>2 DEF AgentRecord
    <3>. QED  BY <1>3, <1>4, <3>1, <3>3 DEF GrantToGuardian
  <2>. QED  BY <1>4, <2>1, <2>2 DEF GrantToGuardian, CapGrant
<1>5. CASE GuardianWrites
  <2>1. CASE UNCHANGED agents
    BY <1>2, <1>5, <2>1 DEF GuardianWrites
  <2>2. CASE RecordIo(Guardian)
    <3>1. \A b \in DOMAIN agents : agents[b] \in AgentRecord
      BY <1>1 DEF AgentsInv
    <3>2. ASSUME NEW b \in DOMAIN agents
          PROVE  agents'[b] \in AgentRecord /\ agents'[b].state = agents[b].state
      BY <2>2, <3>1 DEF RecordIo, AgentRecord
    <3>. QED  BY <1>3, <1>5, <2>2, <3>2 DEF GuardianWrites, RecordIo
  <2>. QED  BY <1>5, <2>1, <2>2 DEF GuardianWrites, ResourceWrite
<1>6. CASE Load
  <2>1. run.id \in Alive
    BY <1>6 DEF Load, Loading, SysInv, RunInv
  <2>2. \A b \in DOMAIN agents : agents[b] \in AgentRecord
    BY <1>1 DEF AgentsInv
  <2>3. ASSUME NEW b \in DOMAIN agents
        PROVE  /\ agents'[b] \in AgentRecord
               /\ \/ agents'[b].state = agents[b].state
                  \/ b \in Alive /\ agents'[b].state # "Terminated"
    BY <1>6, <2>1, <2>2 DEF Load, AgentRecord
  <2>. QED  BY <1>3, <1>6, <2>3 DEF Load
<1>7. CASE Finish \/ KillCommand
  <2>1. PICK a : Kill(a) /\ UNCHANGED <<tick, next_id>>
    BY <1>7 DEF Finish, KillCommand
  <2>2. /\ DOMAIN agents' = DOMAIN agents
        /\ \A b \in DOMAIN agents' : agents'[b] \in AgentRecord
        /\ Alive' = Alive \ {a}
    BY <2>1, KillMeans
  <2>. QED  BY <1>1, <1>7, <2>1, <2>2 DEF AgentsInv, Ids
<1>8. CASE GcCommand
  <2>1. /\ UNCHANGED next_id /\ DOMAIN agents' = Alive
        /\ \A b \in Alive : agents'[b] = agents[b]
    BY <1>8 DEF GcCommand, CollectTerminated
  <2>2. Alive \in SUBSET DOMAIN agents
    BY DEF Alive
  <2>3. Cardinality(DOMAIN agents') <= MaxAgents
    BY <1>1, <2>1, <2>2, AgentsFinite
  <2>4. Alive' = Alive
    BY <2>1 DEF Alive
  <2>. QED  BY <1>1, <2>1, <2>2, <2>3, <2>4 DEF AgentsInv, Ids
<1>9. CASE Boot
  BY <1>2, <1>4, <1>5, <1>9 DEF Boot, GuardianReads, ResourceRead, Delegate,
     RevokeDelegated, CreateChannel
<1>10. CASE Execute
  BY <1>2, <1>6, <1>7, <1>10 DEF Execute, SpawnFails, GrantNext, LoadFails, NoStart,
     LogKill
<1>11. CASE HostCall \/ Loop \/ Wait \/ Timer \/ UNCHANGED vars
  BY <1>2, <1>11 DEF HostCall, HostChanSend, HostChanRecv, HostFsWrite, Loop, Wait,
     Timer, vars
<1>12. CASE Shell
  BY <1>2, <1>7, <1>8, <1>12 DEF Shell, Deploy, RunCommand, Pipe, Send, FileCommand
<1>. QED
  BY <1>9, <1>10, <1>11, <1>12 DEF SysNext

-----------------------------------------------------------------------------
(* How the list of calls moves. *)

\* A step leaves the list alone, drops the call at the head (two, if delegate
\* fails), empties the list, or puts the agents of a command on it; and the
\* calls of the boot script are dropped by the actions of their names.
LEMMA TodoStep ==
    ASSUME SysInv, [SysNext]_vars
    PROVE  \/ todo' = todo
           \/ todo # <<>> /\ todo' = Tail(todo)
           \/ /\ Delegate /\ UNCHANGED capVars
              /\ Len(todo) > 1 /\ todo' = Tail(Tail(todo))
           \/ /\ todo # <<>> /\ Head(todo).op = "execute" /\ Head(todo).abort
              /\ Execute /\ todo' = <<>>
           \/ /\ Shell /\ AtPrompt /\ todo' \in Seq(ExecCall)
              /\ \A i \in 1 .. Len(todo') : todo'[i].image \in Images
              /\ ~Pipe => \A i \in 1 .. Len(todo') : todo'[i].chan_write \in {None, 0}
<1>. USE DEF SysInv
<1>1. CASE Delegate
  <2>1. Len(todo) > 1
    BY <1>1, HeadFacts DEF Delegate, Calling
  <2>. QED  BY <1>1, <2>1 DEF Delegate, Done, Calling
<1>2. CASE Boot /\ ~Delegate
  BY <1>2 DEF Boot, SpawnGuardian, GrantToGuardian, GuardianReads,
     GuardianWrites, RevokeDelegated, CreateChannel, Calling, Done
<1>3. CASE Execute
  <2>1. CASE SpawnFails \/ LoadFails \/ NoStart \/ LogKill
    <3>1. todo # <<>> /\ Head(todo).op = "execute"
      BY <2>1 DEF SpawnFails, LoadFails, NoStart, LogKill, Calling, Loading,
         Running, RunInv
    <3>2. PICK ok \in BOOLEAN : Exit(ok)
      BY <2>1 DEF SpawnFails, LoadFails, NoStart, LogKill
    <3>. QED  BY <1>3, <3>1, <3>2, ExitMeans
  <2>2. CASE Spawn \/ GrantNext \/ Load \/ Finish
    BY <2>2 DEF Spawn, GrantNext, Load, Finish
  <2>. QED  BY <1>3, <2>1, <2>2 DEF Execute
<1>4. CASE HostCall \/ Loop \/ Wait \/ Timer \/ UNCHANGED vars
  BY <1>4 DEF HostCall, HostChanSend, HostChanRecv, HostFsWrite, Loop, Wait,
     Timer, thread, vars
<1>5. CASE Shell
  <2>0. 0 \in Channels /\ (CanCreate => Len(channels) \in Channels)
    <3>1. Len(channels) \in Nat
      BY LenProperties DEF TrafficInv
    <3>. QED  BY <3>1, TableLimitsAssumption DEF CanCreate, Channels
  <2>1. AtPrompt
    BY <1>5 DEF Shell, Deploy, RunCommand, Pipe, Send, FileCommand, KillCommand,
       GcCommand, Command
  <2>2. ASSUME NEW c \in ExecCall, NEW d \in ExecCall
        PROVE  /\ <<c>> \in Seq(ExecCall) /\ Len(<<c>>) = 1 /\ <<c>>[1] = c
               /\ <<c, d>> \in Seq(ExecCall) /\ Len(<<c, d>>) = 2
               /\ <<c, d>>[1] = c /\ <<c, d>>[2] = d
    OBVIOUS
  <2>3. CASE Deploy
    <3>0. PICK image \in Images :
             \E call \in {Exec(image, None, None, FALSE), Exec(image, 0, None, FALSE),
                          Exec(image, None, 0, FALSE)} : todo' = <<call>>
      BY <2>3 DEF Deploy
    <3>1. PICK c \in ExecCall : /\ todo' = <<c>>
                                /\ c.chan_write \in {None, 0} /\ c.image \in Images
      <4>1. \A w, r \in {None, 0} : /\ Exec(image, w, r, FALSE) \in ExecCall
                                    /\ Exec(image, w, r, FALSE).chan_write = w
        BY <2>0, ExecsAreCalls
      <4>1i. \A w, r \in {None, 0} : Exec(image, w, r, FALSE).image = image
        BY ExecsImage
      <4>2. PICK call \in {Exec(image, None, None, FALSE), Exec(image, 0, None, FALSE),
                           Exec(image, None, 0, FALSE)} : todo' = <<call>>
        BY <3>0
      <4>3. call \in ExecCall /\ call.chan_write \in {None, 0} /\ call.image \in Images
        BY <4>1, <4>1i, <4>2
      <4>. QED  BY <4>2, <4>3
    <3>2. Len(todo') = 1 /\ todo'[1] = c /\ todo' \in Seq(ExecCall)
      BY <3>1
    <3>3. \A i \in 1 .. Len(todo') : /\ todo'[i].chan_write \in {None, 0}
                                    /\ todo'[i].image \in Images
      BY <3>1, <3>2
    <3>. QED  BY <1>5, <2>1, <3>2, <3>3
  <2>4. CASE RunCommand
    <3>1. PICK first \in Images, second \in Images :
             todo' = << Exec(first, None, None, FALSE), Exec(second, None, None, FALSE) >>
      BY <2>4 DEF RunCommand
    <3>2. \A image \in Images : /\ Exec(image, None, None, FALSE) \in ExecCall
                                /\ Exec(image, None, None, FALSE).chan_write = None
                                /\ Exec(image, None, None, FALSE).image \in Images
      <4>1. None \in Channels \cup {None} /\ FALSE \in BOOLEAN
        OBVIOUS
      <4>2. \A image \in Images : Exec(image, None, None, FALSE).image = image
        BY ExecsImage
      <4>. HIDE DEF Channels
      <4>. QED  BY <4>1, <4>2, ExecsAreCalls
    <3>. DEFINE c == Exec(first, None, None, FALSE)
                d == Exec(second, None, None, FALSE)
    <3>3. /\ todo' = <<c, d>> /\ c \in ExecCall /\ d \in ExecCall
          /\ c.chan_write = None /\ d.chan_write = None
          /\ c.image \in Images /\ d.image \in Images
      BY <3>1, <3>2
    <3>. HIDE DEF c, d
    <3>4. /\ Len(todo') = 2 /\ todo'[1] = c /\ todo'[2] = d
          /\ todo' \in Seq(ExecCall)
      BY <2>2, <3>3
    <3>5. \A i \in 1 .. Len(todo') : /\ todo'[i].chan_write \in {None, 0}
                                    /\ todo'[i].image \in Images
      <4>1. \A i \in 1 .. 2 : i = 1 \/ i = 2
        OBVIOUS
      <4>. QED  BY <3>3, <3>4, <4>1
    <3>. QED  BY <1>5, <2>1, <3>4, <3>5
  <2>5. CASE Pipe
    <3>1. CASE UNCHANGED todo
      BY <3>1
    <3>2. CASE CanCreate /\ \E first, second \in Images :
               todo' = << Exec(first, Len(channels), None, TRUE),
                          Exec(second, None, Len(channels), FALSE) >>
      <4>1. PICK first \in Images, second \in Images :
               todo' = << Exec(first, Len(channels), None, TRUE),
                          Exec(second, None, Len(channels), FALSE) >>
        BY <3>2
      <4>0. /\ Exec(first, Len(channels), None, TRUE).image = first
            /\ Exec(second, None, Len(channels), FALSE).image = second
        BY ExecsImage
      <4>2. PICK c \in ExecCall, d \in ExecCall :
               /\ c = Exec(first, Len(channels), None, TRUE)
               /\ d = Exec(second, None, Len(channels), FALSE)
        BY <2>0, <3>2, ExecsAreCalls
      <4>2i. c.image \in Images /\ d.image \in Images
        BY <4>0, <4>2
      <4>3. todo' = <<c, d>>
        BY <4>1, <4>2
      <4>4. todo' \in Seq(ExecCall) /\ Len(todo') = 2 /\ todo'[1] = c /\ todo'[2] = d
        BY <2>2, <4>3
      <4>5. \A i \in 1 .. Len(todo') : todo'[i].image \in Images
        <5>1. \A i \in 1 .. 2 : i = 1 \/ i = 2
          OBVIOUS
        <5>. QED  BY <4>2i, <4>4, <5>1
      <4>. QED  BY <1>5, <2>1, <2>5, <4>4, <4>5
    <3>. QED  BY <2>5, <3>1, <3>2 DEF Pipe
  <2>6. CASE Send \/ FileCommand \/ KillCommand \/ GcCommand
    BY <2>6 DEF Send, FileCommand, KillCommand, GcCommand
  <2>. QED  BY <1>5, <2>3, <2>4, <2>5, <2>6 DEF Shell
<1>. QED
  BY <1>1, <1>2, <1>3, <1>4, <1>5 DEF SysNext

\* A list of the shell's calls has none of the boot script's.
LEMMA ExecLists ==
    ASSUME NEW s \in Seq(ExecCall)
    PROVE  /\ Len(s) \in Nat
           /\ \A i \in 1 .. Len(s) : s[i] \in ExecCall /\ s[i].op = "execute"
           /\ s # <<>> => Len(s) # 0 /\ Head(s) = s[1]
<1>1. Len(s) \in Nat /\ \A i \in 1 .. Len(s) : s[i] \in ExecCall
  BY LenProperties, ElementOfSeq
<1>2. s # <<>> => Len(s) # 0 /\ Head(s) = s[1]
  BY EmptySeq
<1>. QED  BY <1>1, <1>2 DEF ExecCall

-----------------------------------------------------------------------------
(* The guardian and the authority. *)

\* Only the shell ends the guardian.
LEMMA GuardianStays ==
    ASSUME SysInv, [SysNext]_vars, Guardian \in Alive, ~KillCommand
    PROVE  Guardian \in Alive'
<1>1. CASE Spawn \/ SpawnGuardian
  BY <1>1, SpawnMeans
<1>2. CASE ~Spawn /\ ~SpawnGuardian /\ ~Finish
  BY <1>2, NoSpawnMeans
<1>3. CASE Finish
  <2>1. run.id # Guardian
    BY <1>3 DEF Finish, Ended, Running, SysInv, RunInv
  <2>2. Alive' = Alive \ {run.id}
    BY <1>3, KillMeans DEF Finish
  <2>. QED  BY <2>1, <2>2
<1>. QED  BY <1>1, <1>2, <1>3

\* What the thread calls while the spawn of the guardian is at the head.
LEMMA SpawningGuardian ==
    ASSUME SysInv, [SysNext]_vars, Calling("spawn_guardian")
    PROVE  \/ SpawnGuardian
           \/ UNCHANGED <<entries, agents, next_id, todo, run>>
<1>1. /\ todo # <<>> /\ run = None /\ Head(todo).op = "spawn_guardian"
      /\ ~AtPrompt
  BY DEF Calling, AtPrompt
<1>2. CASE Boot
  BY <1>1, <1>2 DEF Boot, GrantToGuardian, GuardianReads, GuardianWrites,
     Delegate, RevokeDelegated, CreateChannel, Calling
<1>3. ~Execute /\ ~HostCall /\ ~Loop
  BY <1>1 DEF Execute, Spawn, SpawnFails, GrantNext, LoadFails, Load, NoStart,
     Finish, LogKill, Ended, Calling, Loading, Running, HostCall, HostChanSend, HostChanRecv,
     HostFsWrite, Permitted, Called, Loop
<1>4. ~Shell /\ ~Wait
  BY <1>1 DEF Shell, Deploy, RunCommand, Pipe, Send, FileCommand, KillCommand,
     GcCommand, Command, Wait
<1>5. CASE Timer \/ UNCHANGED vars
  BY <1>5 DEF Timer, vars, capVars, thread
<1>. QED  BY <1>2, <1>3, <1>4, <1>5 DEF SysNext

\* The calls that the guardian makes as an agent come after its spawn, and
\* nothing kills it before they are made.
LEMMA GuardianStep ==
    ASSUME SysInv, [SysNext]_vars
    PROVE  GuardianInv'
<1>. USE DEF SysInv
<1>1. ASSUME NEW i \in 1 .. Len(todo'), todo'[i].op \in GuardianCalls
      PROVE  Guardian \in Alive' \/ todo'[1].op = "spawn_guardian"
  <2>. DEFINE G == Guardian \in Alive \/ todo[1].op = "spawn_guardian"
  <2>1. ASSUME NEW j \in 1 .. Len(todo), todo[j].op \in GuardianCalls
        PROVE  G
    BY <2>1 DEF GuardianInv
  <2>2. CASE todo' = todo
    <3>1. G /\ todo # <<>>
      BY <1>1, <2>1, <2>2, EmptySeq
    <3>2. ~KillCommand
      BY <3>1 DEF KillCommand, Command, AtPrompt
    <3>. QED  BY <2>2, <3>1, <3>2, GuardianStays
  <2>4. CASE todo # <<>> /\ todo' = Tail(todo)
    <3>1. /\ Len(todo') = Len(todo) - 1 /\ todo'[i] = todo[i + 1] /\ Len(todo) \in Nat
      BY <1>1, <2>4, DoneMeans, HeadFacts
    <3>2. i + 1 \in 1 .. Len(todo)
      BY <3>1
    <3>3. G /\ Head(todo) = todo[1]
      BY <1>1, <2>1, <2>4, <3>1, <3>2, HeadFacts
    <3>4. ~KillCommand
      BY <2>4 DEF KillCommand, Command, AtPrompt
    <3>5. CASE Guardian \in Alive
      BY <3>4, <3>5, GuardianStays
    <3>6. CASE todo[1].op = "spawn_guardian"
      <4>1. run = None
        BY <2>4, <3>3, <3>6 DEF RunInv
      <4>2. Calling("spawn_guardian")
        BY <2>4, <3>3, <3>6, <4>1 DEF Calling
      <4>3. todo' # todo
        BY <3>1
      <4>4. SpawnGuardian /\ next_id = 1
        BY <4>2, <4>3, SpawningGuardian DEF GuardianInv
      <4>. QED  BY <4>4, SpawnMeans DEF Guardian
    <3>. QED  BY <3>3, <3>5, <3>6
  <2>5. CASE Delegate /\ todo' = Tail(Tail(todo)) /\ Len(todo) > 1
    <3>1. /\ todo # <<>> /\ Head(todo).op = "delegate" /\ Head(todo) = todo[1]
          /\ Len(todo) \in Nat
      BY <2>5, HeadFacts DEF Delegate, Calling
    <3>2. 1 \in 1 .. Len(todo) /\ todo[1].op \in GuardianCalls
      BY <3>1, <2>5 DEF GuardianCalls
    <3>3. Guardian \in Alive
      BY <2>1, <3>1, <3>2
    <3>4. Alive' = Alive
      BY <2>5 DEF Delegate, Alive
    <3>. QED  BY <3>3, <3>4
  <2>6. CASE todo' = <<>>
    BY <1>1, <2>6, EmptySeq
  <2>7. CASE todo' \in Seq(ExecCall)
    BY <1>1, <2>7, ExecLists DEF GuardianCalls
  <2>. QED  BY <2>2, <2>4, <2>5, <2>6, <2>7, TodoStep
<1>2. next_id' >= next_id /\ next_id \in Nat \ {0}
  BY SpawnMeans, NoSpawnMeans DEF AgentsInv
<1>3. ASSUME Calling("spawn_guardian")'
      PROVE  Calling("spawn_guardian") /\ todo' = todo
  <2>0. todo' # <<>> /\ Head(todo').op = "spawn_guardian" /\ run' = None
    BY <1>3 DEF Calling
  <2>1. ASSUME todo # <<>>, todo' = Tail(todo) PROVE FALSE
    BY <2>0, <2>1, DoneMeans
  <2>2. ASSUME Delegate, Len(todo) > 1, todo' = Tail(Tail(todo)) PROVE FALSE
    <3>1. Head(todo') = todo[3] /\ 3 \in 2 .. Len(todo)
      BY <2>0, <2>2, ScriptTailTail
    <3>. QED  BY <2>0, <3>1 DEF Script
  <2>3. todo' \notin Seq(ExecCall)
    <3>1. SUFFICES ASSUME todo' \in Seq(ExecCall) PROVE FALSE
      OBVIOUS
    <3>2. Len(todo') \in Nat /\ Len(todo') # 0 /\ Head(todo') = todo'[1]
      BY <2>0, <3>1, ExecLists
    <3>3. todo'[1].op = "execute"
      BY <3>1, <3>2, ExecLists
    <3>. QED  BY <2>0, <3>2, <3>3
  <2>4. todo' = todo
    BY <2>0, <2>1, <2>2, <2>3, TodoStep
  <2>5. run = None
    BY <2>0, <2>4 DEF RunInv
  <2>. QED  BY <2>0, <2>4, <2>5 DEF Calling
<1>4. Calling("spawn_guardian")' => agents' = <<>> /\ next_id' = 1 /\ Caps!Live' = {}
  <2>1. SUFFICES ASSUME Calling("spawn_guardian")'
                 PROVE  agents' = <<>> /\ next_id' = 1 /\ Caps!Live' = {}
    OBVIOUS
  <2>2. Calling("spawn_guardian") /\ todo' = todo
    BY <1>3, <2>1
  <2>3. ~SpawnGuardian
    <3>1. SUFFICES ASSUME SpawnGuardian PROVE FALSE
      OBVIOUS
    <3>2. todo # <<>> /\ todo' = Tail(todo)
      BY <3>1 DEF SpawnGuardian, Calling, Done
    <3>3. Len(todo') = Len(todo) - 1 /\ Len(todo) \in Nat
      BY <3>2, DoneMeans, HeadFacts
    <3>. QED  BY <2>2, <3>3
  <2>4. UNCHANGED <<entries, agents, next_id>>
    BY <2>2, <2>3, SpawningGuardian
  <2>. QED  BY <2>2, <2>4 DEF GuardianInv, Caps!Live, Caps!Used
<1>5. ASSUME next_id' = 1 PROVE Calling("spawn_guardian")'
  <2>1. next_id = 1 /\ Calling("spawn_guardian")
    BY <1>2, <1>5 DEF GuardianInv
  <2>2. ~SpawnGuardian
    BY <1>5, <2>1, SpawnMeans
  <2>3. UNCHANGED <<todo, run>>
    BY <2>1, <2>2, SpawningGuardian
  <2>. QED  BY <2>1, <2>3 DEF Calling
<1>. QED  BY <1>1, <1>4, <1>5 DEF GuardianInv

\* Between delegate and revoke the guardian's handle is still the same one.
LEMMA SameGuardianHandle ==
    ASSUME SysInv, Delegate, ~UNCHANGED capVars
    PROVE  /\ Calling("revoke")'
           /\ GuardianHandle(Head(todo).resource)'
                = GuardianHandle(Head(todo).resource)
           /\ Head(todo').resource = Head(todo).resource
<1>. DEFINE r == Head(todo).resource
<1>1. /\ todo # <<>> /\ Head(todo).op = "delegate" /\ run = None
      /\ Len(todo) > 1 /\ todo[2] = [op |-> "revoke", resource |-> r]
  BY HeadFacts DEF Delegate, Calling, SysInv
<1>2. /\ HandlesKept /\ Done
      /\ GuardianHandle(r) \in Caps!Live
  BY DelegateMeans
<1>3. PICK s \in Caps!Slots :
        Caps!Used' = Caps!Used \cup {s} /\ entries'[s].owner = SubAgent
  BY DelegateMeans
<1>4. run' = None /\ todo' = Tail(todo)
  BY <1>1, <1>2 DEF Done
<1>5. Len(todo') # 0 /\ Head(todo') = todo[2] /\ todo' # <<>>
  <2>1. Len(todo') = Len(todo) - 1 /\ Len(todo) \in Nat
    BY <1>1, <1>4, DoneMeans, HeadFacts DEF SysInv
  <2>2. Len(todo') # 0
    BY <1>1, <2>1
  <2>3. todo' # <<>>
    BY <2>2, EmptySeq
  <2>. QED  BY <1>1, <1>4, <2>2, <2>3, DoneMeans DEF SysInv
<1>6. Calling("revoke")' /\ Head(todo').resource = r
  BY <1>1, <1>4, <1>5 DEF Calling
<1>7. Caps!Used \subseteq Caps!Slots
  BY DEF Caps!Used
<1>. HIDE DEF r
<1>8. {h \in Caps!Used' : entries'[h].owner = Guardian /\ entries'[h].resource = r}
        = {h \in Caps!Used : entries[h].owner = Guardian /\ entries[h].resource = r}
  BY <1>2, <1>3 DEF HandlesKept, SubAgent, Guardian
<1>9. GuardianHandles(Head(todo).resource)' = GuardianHandles(Head(todo).resource)
  BY <1>6, <1>8 DEF r, GuardianHandles
<1>10. GuardianHandle(Head(todo).resource)' = GuardianHandle(Head(todo).resource)
  <2>. DEFINE First(S) == IF S = {} THEN MaxCapabilities ELSE CHOOSE h \in S : TRUE
  <2>1. /\ GuardianHandle(Head(todo).resource)
             = First(GuardianHandles(Head(todo).resource))
        /\ GuardianHandle(Head(todo).resource)'
             = First(GuardianHandles(Head(todo).resource)')
    BY DEF GuardianHandle
  <2>. HIDE DEF First
  <2>. QED  BY <1>9, <2>1
<1>. QED  BY <1>6, <1>10 DEF r

\* What a step kills or collects it also revokes, with all that came from it.
LEMMA AuthorityStep ==
    ASSUME SysInv, [SysNext]_vars
    PROVE  AuthorityInv'
<1>. USE DEF SysInv
<1>. DEFINE Held == \A h \in Caps!Live : entries[h].owner \in Alive
<1>0. HandlesKept /\ Caps!Live \subseteq Caps!Used
  BY CapStep, CapInvMeans
<1>1. Calling("revoke") \/ Held
  BY DEF AuthorityInv
<1>2. CASE Held /\ UNCHANGED entries /\ Alive \subseteq Alive'
  BY <1>2 DEF AuthorityInv, Caps!Live, Caps!Used
<1>3. CASE Loop \/ Wait \/ Timer \/ UNCHANGED vars
  BY <1>3 DEF Loop, Wait, Timer, vars, capVars, thread, AuthorityInv, Caps!Live,
     Caps!Used, Alive, Calling, GuardianHandle, GuardianHandles
<1>4. CASE SpawnGuardian
  <2>1. Caps!Live' = {}
    BY <1>4 DEF SpawnGuardian, GuardianInv, capVars, Caps!Live, Caps!Used
  <2>. QED  BY <2>1 DEF AuthorityInv
<1>5. CASE GrantToGuardian
  <2>1. /\ Calling("cap_grant") /\ ~Calling("revoke") /\ todo # <<>>
        /\ Head(todo).op = "cap_grant"
    BY <1>5 DEF GrantToGuardian, Calling
  <2>2. 1 \in 1 .. Len(todo) /\ todo[1].op = "cap_grant"
    BY <2>1, HeadFacts
  <2>3. Guardian \in Alive
    BY <2>2 DEF GuardianInv, GuardianCalls
  <2>4. Alive' = Alive
    BY <1>5, <2>1, NoSpawnMeans DEF Calling, Spawn, SpawnGuardian, KillCommand,
       Command, AtPrompt, Finish, Ended, Running
  <2>5. ASSUME NEW h \in Caps!Live' PROVE entries'[h].owner \in Alive'
    BY <1>0, <1>1, <1>5, <2>1, <2>3, <2>4, GuardianGrantMeans DEF HandlesKept
  <2>. QED  BY <2>5 DEF AuthorityInv
<1>6. CASE Delegate
  <2>1. ~Calling("revoke") /\ Alive' = Alive
    BY <1>6 DEF Delegate, Calling, Alive
  <2>2. CASE UNCHANGED capVars
    BY <1>1, <1>2, <2>1, <2>2 DEF capVars
  <2>3. CASE ~UNCHANGED capVars
    <3>1. PICK s \in Caps!Slots :
             /\ Caps!Live' = Caps!Live \cup {s}
             /\ entries'[s].parent = GuardianHandle(Head(todo).resource)
      BY <1>6, <2>3, DelegateMeans
    <3>2. ASSUME NEW h \in Caps!Live
          PROVE  entries'[h].owner \in Alive'
      BY <1>0, <1>1, <2>1 DEF HandlesKept
    <3>3. /\ Calling("revoke")'
          /\ entries'[s].parent = GuardianHandle(Head(todo).resource)'
      BY <1>6, <2>3, <3>1, SameGuardianHandle
    <3>. QED  BY <3>1, <3>2, <3>3 DEF AuthorityInv
  <2>. QED  BY <2>2, <2>3
<1>7. CASE RevokeDelegated
  <2>1. Alive' = Alive
    BY <1>7 DEF RevokeDelegated, Alive
  <2>2. ASSUME NEW h \in Caps!Live' PROVE entries'[h].owner \in Alive'
    <3>1. /\ h \in Caps!Live
          /\ entries[h].parent # GuardianHandle(Head(todo).resource)
      BY <1>7, RevokeMeans
    <3>. QED  BY <1>0, <2>1, <3>1 DEF AuthorityInv, HandlesKept
  <2>. QED  BY <2>2 DEF AuthorityInv
<1>8. CASE GuardianReads \/ GuardianWrites \/ CreateChannel
  <2>1. /\ ~Calling("revoke") /\ UNCHANGED entries /\ ~AtPrompt
        /\ ~Spawn /\ ~SpawnGuardian /\ ~Finish /\ ~KillCommand
    BY <1>8 DEF GuardianReads, GuardianWrites, ResourceRead, ResourceWrite,
       CreateChannel, Calling, AtPrompt, capVars, Spawn, SpawnGuardian, Finish,
       Ended, Running, KillCommand, Command
  <2>. QED  BY <1>1, <1>2, <2>1, NoSpawnMeans
<1>9. CASE Spawn \/ SpawnFails
  <2>1. ~Calling("revoke") /\ UNCHANGED entries
    BY <1>9 DEF Spawn, SpawnFails, Calling, capVars
  <2>2. Alive \subseteq Alive'
    BY <1>9, SpawnMeans DEF SpawnFails, Alive
  <2>. QED  BY <1>1, <1>2, <2>1, <2>2
<1>10. CASE GrantNext
  <2>1. run # None /\ Held /\ Alive' = Alive
    BY <1>1, <1>10 DEF GrantNext, Calling, Alive
  <2>2. run.id \in Alive
    BY <1>10 DEF GrantNext, RunInv
  <2>3. ASSUME NEW h \in Caps!Live' PROVE entries'[h].owner \in Alive'
    <3>1. CASE h \in Caps!Live
      BY <1>0, <2>1, <3>1 DEF HandlesKept
    <3>2. CASE h \notin Caps!Live
      <4>1. ~UNCHANGED capVars
        BY <3>2 DEF capVars, Caps!Live, Caps!Used
      <4>2. PICK s \in Caps!Slots :
               /\ Caps!Live' = Caps!Live \cup {s}
               /\ entries'[s] = [resource |-> Head(run.wanted).resource,
                                 rights |-> {Head(run.wanted).right},
                                 owner |-> run.id, parent |-> None,
                                 expires_at |-> 0, revoked |-> FALSE]
        BY <1>10, <4>1, GrantNextMeans
      <4>3. h = s /\ entries'[s].owner = run.id
        BY <3>2, <4>2
      <4>. QED  BY <2>1, <2>2, <4>3
    <3>. QED  BY <3>1, <3>2
  <2>. QED  BY <2>3 DEF AuthorityInv
<1>11. CASE LoadFails \/ Load \/ NoStart \/ LogKill \/ HostCall
  <2>1. /\ run # None /\ ~Calling("revoke") /\ UNCHANGED entries
        /\ ~Spawn /\ ~SpawnGuardian /\ ~KillCommand
    BY <1>11 DEF LoadFails, Load, NoStart, LogKill, HostCall, HostChanSend, HostChanRecv,
       HostFsWrite, Permitted, Called, Loading, Running, Calling, capVars,
       Spawn, SpawnGuardian, KillCommand, Command, AtPrompt
  <2>2. Alive' = Alive
    <3>1. CASE Load
      <4>1. ~Finish
        BY <3>1 DEF Load, Loading, Finish, Ended, Running
      <4>. QED  BY <2>1, <4>1, NoSpawnMeans
    <3>2. CASE ~Load
      BY <1>11, <3>2 DEF LoadFails, NoStart, LogKill, HostCall, HostChanSend, HostChanRecv,
         HostFsWrite, Alive
    <3>. QED  BY <3>1, <3>2
  <2>. QED  BY <1>1, <1>2, <2>1, <2>2
<1>12. CASE Finish \/ KillCommand
  <2>1. PICK a : Kill(a) /\ UNCHANGED tick
    BY <1>12 DEF Finish, KillCommand
  <2>2. ~Calling("revoke")
    BY <1>12 DEF Finish, Ended, Running, KillCommand, Command, AtPrompt, Calling
  <2>3. ASSUME NEW h \in Caps!Live' PROVE entries'[h].owner \in Alive'
    <3>1. h \in Caps!Live /\ entries[h].owner # a /\ Alive' = Alive \ {a}
      BY <2>1, KillMeans
    <3>. QED  BY <1>0, <1>1, <2>2, <3>1 DEF HandlesKept
  <2>. QED  BY <2>3 DEF AuthorityInv
<1>13. CASE Shell /\ ~KillCommand
  <2>1. ~Calling("revoke") /\ UNCHANGED entries
    BY <1>13 DEF Shell, Deploy, RunCommand, Pipe, Send, FileCommand, GcCommand,
       Command, AtPrompt, Calling, capVars
  <2>2. ~Spawn /\ ~SpawnGuardian /\ ~Finish
    BY <1>13 DEF Shell, Deploy, RunCommand, Pipe, Send, FileCommand, GcCommand,
       Command, AtPrompt, Calling, Spawn, SpawnGuardian, Finish, Ended, Running
  <2>3. Alive' = Alive
    BY <1>13, <2>2, NoSpawnMeans
  <2>. QED  BY <1>1, <1>2, <2>1, <2>3
<1>. QED
  BY <1>3, <1>4, <1>5, <1>6, <1>7, <1>8, <1>9, <1>10, <1>11, <1>12, <1>13
     DEF SysNext, Boot, Execute, Shell

-----------------------------------------------------------------------------
(* The run. *)

WishRecord == [for : HostFields, resource : Resources, right : {"READ", "WRITE"}]

\* What execute_agent asks for is what its call says.
LEMMA WantedIsWished ==
    ASSUME NEW call \in ExecCall
    PROVE  /\ Wanted(call) \in Seq(Wishes(call))
           /\ Wishes(call) \subseteq WishRecord
<1>. DEFINE W == Wishes(call)
            wish(f, r, right) == [for |-> f, resource |-> r, right |-> right]
<1>1. ASSUME NEW f \in HostFields, NEW r \in Resources, r = ResourceFor(f, call)
      PROVE  wish(f, r, RightFor(f)) \in W
  BY <1>1 DEF Wishes, RightFor, AllRights
<1>2. W \subseteq WishRecord
  BY DEF Wishes, WishRecord, RightFor
<1>3. Serial \in Resources /\ Filesystem \in Resources
      /\ \A c \in Channels : ChannelRef(c) \in Resources
  BY DEF Resources, Channels
<1>4. /\ wish("serial", Serial, "WRITE") \in W
      /\ wish("fs_write", Filesystem, "WRITE") \in W
      /\ wish("fs_read", Filesystem, "READ") \in W
  <2>1. /\ {"serial", "fs_write", "fs_read"} \subseteq HostFields
        /\ RightFor("serial") = "WRITE" /\ RightFor("fs_write") = "WRITE"
        /\ RightFor("fs_read") = "READ"
        /\ ResourceFor("serial", call) = Serial
        /\ ResourceFor("fs_write", call) = Filesystem
        /\ ResourceFor("fs_read", call) = Filesystem
    BY DEF HostFields, RightFor, ResourceFor
  <2>. HIDE DEF W, wish
  <2>. QED  BY <1>1, <1>3, <2>1
<1>5. /\ call.chan_write # None =>
            wish("chan_write", ChannelRef(call.chan_write), "WRITE") \in W
      /\ call.chan_read # None =>
            wish("chan_read", ChannelRef(call.chan_read), "READ") \in W
  <2>1. /\ {"chan_write", "chan_read"} \subseteq HostFields
        /\ RightFor("chan_write") = "WRITE" /\ RightFor("chan_read") = "READ"
        /\ ResourceFor("chan_write", call) = ChannelRef(call.chan_write)
        /\ ResourceFor("chan_read", call) = ChannelRef(call.chan_read)
        /\ call.chan_write \in Channels \cup {None}
        /\ call.chan_read \in Channels \cup {None}
    BY DEF HostFields, RightFor, ResourceFor, ExecCall
  <2>. HIDE DEF W, wish, Channels, ChannelRef
  <2>. QED  BY <1>1, <1>3, <2>1
<1>. DEFINE s1 == <<wish("serial", Serial, "WRITE")>>
            s2 == IF call.chan_write = None THEN <<>> ELSE
                  <<wish("chan_write", ChannelRef(call.chan_write), "WRITE")>>
            s3 == IF call.chan_read = None THEN <<>> ELSE
                  <<wish("chan_read", ChannelRef(call.chan_read), "READ")>>
            s4 == <<wish("fs_write", Filesystem, "WRITE"),
                    wish("fs_read", Filesystem, "READ")>>
<1>6. Wanted(call) = ((s1 \o s2) \o s3) \o s4
  BY DEF Wanted
<1>. HIDE DEF wish, W
<1>7. s1 \in Seq(W) /\ s2 \in Seq(W) /\ s3 \in Seq(W) /\ s4 \in Seq(W)
  BY <1>4, <1>5
<1>. HIDE DEF s1, s2, s3, s4
<1>8. ((s1 \o s2) \o s3) \o s4 \in Seq(W)
  BY <1>7, ConcatProperties
<1>. QED  BY <1>2, <1>6, <1>8 DEF W

\* A step that changes neither the call nor the handles, for a run that goes on.
LEMMA RunStays ==
    ASSUME SysInv, [SysNext]_vars, run # None, todo' = todo,
           run.id \in DOMAIN agents', run'.pc = "killed" <=> run.id \notin Alive',
           run' # None, run' \in Runs, run'.id = run.id, run'.host = run.host,
           run'.wanted \in Seq(Wishes(Head(todo))),
           run'.pc # "killed" =>
              run.pc # "killed" /\ \A h \in Caps!Live : h \in Caps!Live'
    PROVE  RunInv'
<1>1. HandlesKept /\ Caps!Live \subseteq Caps!Used
  BY CapStep, CapInvMeans DEF SysInv
<1>2. /\ todo # <<>> /\ Head(todo).op = "execute" /\ run.id # Guardian
      /\ \A f \in HostFields : run.host[f] # None /\ run.pc # "killed" =>
            LET entry == entries[run.host[f]] IN
            /\ run.host[f] \in Caps!Live
            /\ entry.owner = run.id /\ entry.expires_at = 0
            /\ entry.rights = {RightFor(f)}
            /\ entry.resource = ResourceFor(f, Head(todo))
  BY DEF SysInv, RunInv
<1>3. ASSUME NEW f \in HostFields, run'.host[f] # None, run'.pc # "killed"
      PROVE  /\ run'.host[f] \in Caps!Live'
             /\ entries'[run'.host[f]].owner = run'.id
             /\ entries'[run'.host[f]].expires_at = 0
             /\ entries'[run'.host[f]].rights = {RightFor(f)}
             /\ entries'[run'.host[f]].resource = ResourceFor(f, Head(todo'))
  <2>. DEFINE h == run.host[f]
  <2>1. /\ h \in Caps!Live
        /\ entries[h].owner = run.id /\ entries[h].expires_at = 0
        /\ entries[h].rights = {RightFor(f)}
        /\ entries[h].resource = ResourceFor(f, Head(todo))
    BY <1>2, <1>3
  <2>2. run'.host[f] = h /\ Head(todo') = Head(todo)
    OBVIOUS
  <2>3. h \in Caps!Live'
    BY <1>3, <2>1
  <2>. HIDE DEF h
  <2>. QED  BY <1>1, <2>1, <2>2, <2>3 DEF HandlesKept
<1>4. run'.id \in DOMAIN agents' \ {Guardian} /\ run'.wanted \in Seq(Wishes(Head(todo')))
  BY <1>2
<1>. QED  BY <1>2, <1>3, <1>4 DEF RunInv, Wishes, ResourceFor, ChannelRef, Serial, Filesystem

\* The handles kept for the run stay the running agent's, with the rights
\* that it was granted.
LEMMA RunStep ==
    ASSUME SysInv, [SysNext]_vars
    PROVE  RunInv'
<1>. USE DEF SysInv
<1>1. CASE run' = None
  BY <1>1 DEF RunInv
<1>2. CASE Spawn
  <2>1. /\ todo # <<>> /\ Head(todo).op = "execute" /\ Head(todo) \in ExecCall
        /\ todo' = todo /\ ~Calling("spawn_guardian")
    BY <1>2, HeadFacts DEF Spawn, Calling
  <2>2. /\ Wanted(Head(todo)) \in Seq(Wishes(Head(todo)))
        /\ Wanted(Head(todo)) \in Seq(WishRecord)
    <3>1. Wanted(Head(todo)) \in Seq(Wishes(Head(todo)))
          /\ Wishes(Head(todo)) \subseteq WishRecord
      BY <2>1, WantedIsWished
    <3>. QED  BY <3>1, SeqMonotonic
  <2>3. /\ run' = [id |-> next_id, pc |-> "grant", wanted |-> Wanted(Head(todo)),
                   host |-> [f \in HostFields |-> None]]
        /\ next_id \in Nat /\ next_id # Guardian
    BY <1>2, <2>1 DEF Spawn, GuardianInv, Guardian, AgentsInv
  <2>4. run' \in Runs
    BY <2>2, <2>3 DEF Runs, WishRecord
  <2>5. next_id \in Alive' /\ next_id \in DOMAIN agents'
    BY <1>2, SpawnMeans
  <2>6. /\ run'.id = next_id /\ run'.wanted = Wanted(Head(todo))
        /\ run'.pc = "grant"
        /\ \A f \in HostFields : run'.host[f] = None
    BY <2>3
  <2>. QED  BY <2>1, <2>2, <2>3, <2>4, <2>5, <2>6 DEF RunInv, Wishes, ResourceFor,
            ChannelRef, Serial, Filesystem
<1>3. CASE Load
  <2>1. /\ run # None /\ todo' = todo /\ run' = [run EXCEPT !.pc = "start"]
        /\ UNCHANGED entries /\ ~Spawn /\ ~SpawnGuardian /\ ~Finish /\ ~KillCommand
    BY <1>3 DEF Load, Loading, capVars, Spawn, SpawnGuardian, Calling, Finish,
       Ended, Running, KillCommand, Command, AtPrompt
  <2>2. /\ run \in Runs /\ run.id \in Alive
        /\ run.wanted \in Seq(Wishes(Head(todo)))
    BY <1>3 DEF Load, Loading, RunInv
  <2>3. /\ run' \in Runs /\ run'.id = run.id /\ run'.host = run.host
        /\ run'.wanted = run.wanted /\ run'.pc = "start" /\ run.pc # "killed"
    BY <1>3, <2>1, <2>2 DEF Runs, Load, Loading
  <2>4. run' # None
    BY <2>3, NoRunAssumption
  <2>5. Alive' = Alive /\ DOMAIN agents' = DOMAIN agents /\ run.id \in DOMAIN agents
    BY <1>3, <2>1, NoSpawnMeans DEF RunInv, Load
  <2>. QED  BY <2>1, <2>2, <2>3, <2>4, <2>5, RunStays DEF Caps!Live, Caps!Used
<1>4. CASE run # None /\ UNCHANGED <<run, todo, entries, agents>>
  <2>1. /\ run \in Runs /\ run.id \in DOMAIN agents'
        /\ run.pc = "killed" <=> run.id \notin Alive'
        /\ run.wanted \in Seq(Wishes(Head(todo)))
    BY <1>4 DEF RunInv, Alive
  <2>. QED  BY <1>4, <2>1, RunStays DEF Caps!Live, Caps!Used
<1>5. CASE GrantNext
  <2>. DEFINE w == Head(run.wanted)
              call == Head(todo)
  <2>1. /\ run # None /\ todo' = todo /\ UNCHANGED agents
        /\ run \in Runs /\ run.id \in Alive' \ {Guardian}
        /\ run.id \in DOMAIN agents' /\ run.pc = "grant"
        /\ todo # <<>> /\ call.op = "execute" /\ call \in ExecCall
    BY <1>5, HeadFacts DEF GrantNext, RunInv, Alive
  <2>2. /\ w \in Wishes(call) /\ Tail(run.wanted) \in Seq(Wishes(call))
        /\ Tail(run.wanted) \in Seq(WishRecord)
    <3>1. w \in Wishes(call) /\ Tail(run.wanted) \in Seq(Wishes(call))
      BY <1>5, GrantNextMeans
    <3>. QED  BY <2>1, <3>1, WantedIsWished, SeqMonotonic
  <2>3. w.for \in HostFields /\ w.right = RightFor(w.for)
        /\ w.resource = ResourceFor(w.for, call)
    BY <2>2 DEF Wishes
  <2>. HIDE DEF w, call
  <2>4. CASE UNCHANGED capVars /\ run' = [run EXCEPT !.wanted = Tail(@)]
    <3>1. /\ run' \in Runs /\ run'.id = run.id /\ run'.host = run.host
          /\ run'.wanted = Tail(run.wanted) /\ run'.pc = run.pc
      BY <2>1, <2>2, <2>4 DEF Runs, WishRecord
    <3>2. run' # None /\ run'.wanted \in Seq(Wishes(Head(todo)))
      BY <2>2, <3>1, NoRunAssumption DEF call
    <3>. QED  BY <2>1, <2>4, <3>1, <3>2, RunStays DEF capVars, Caps!Live, Caps!Used
  <2>5. CASE ~(UNCHANGED capVars /\ run' = [run EXCEPT !.wanted = Tail(@)])
    <3>1. PICK s \in Caps!Slots :
             /\ run' = [run EXCEPT !.wanted = Tail(@), !.host[w.for] = s]
             /\ Caps!Live' = Caps!Live \cup {s}
             /\ entries'[s] = [resource |-> w.resource, rights |-> {w.right},
                               owner |-> run.id, parent |-> None,
                               expires_at |-> 0, revoked |-> FALSE]
      BY <1>5, <2>5, GrantNextMeans DEF w
    <3>2. /\ run' \in Runs /\ run'.id = run.id
          /\ run'.host = [run.host EXCEPT ![w.for] = s]
          /\ run'.wanted = Tail(run.wanted) /\ run'.pc = run.pc
      BY <2>1, <2>2, <2>3, <3>1 DEF Runs, WishRecord
    <3>3. run' # None /\ run'.wanted \in Seq(Wishes(call))
      BY <2>2, <3>2, NoRunAssumption
    <3>4. HandlesKept /\ Caps!Live \subseteq Caps!Used
      BY CapStep, CapInvMeans
    <3>5. ASSUME NEW f \in HostFields, run'.host[f] # None
          PROVE  /\ run'.host[f] \in Caps!Live'
                 /\ entries'[run'.host[f]].owner = run'.id
                 /\ entries'[run'.host[f]].expires_at = 0
                 /\ entries'[run'.host[f]].rights = {RightFor(f)}
                 /\ entries'[run'.host[f]].resource = ResourceFor(f, call)
      <4>0. run.host \in [HostFields -> Caps!Slots \cup {None}]
        BY <2>1 DEF Runs
      <4>1. CASE f = w.for
        <5>1. run'.host[f] = s
          BY <3>2, <4>0, <4>1
        <5>2. /\ entries'[s].owner = run.id /\ entries'[s].expires_at = 0
              /\ entries'[s].rights = {w.right} /\ entries'[s].resource = w.resource
          BY <3>1
        <5>. QED  BY <2>3, <3>1, <3>2, <4>1, <5>1, <5>2
      <4>2. CASE f # w.for
        <5>1. run'.host[f] = run.host[f]
          BY <3>2, <4>0, <4>2
        <5>2. /\ run.host[f] \in Caps!Live
              /\ entries[run.host[f]].owner = run.id
              /\ entries[run.host[f]].expires_at = 0
              /\ entries[run.host[f]].rights = {RightFor(f)}
              /\ entries[run.host[f]].resource = ResourceFor(f, call)
          BY <2>1, <3>5, <5>1 DEF RunInv, call
        <5>. QED  BY <3>1, <3>2, <3>4, <5>1, <5>2 DEF HandlesKept
      <4>. QED  BY <4>1, <4>2
    <3>6. call = Head(todo')
      BY <2>1 DEF call
    <3>. QED
      BY <2>1, <3>2, <3>3, <3>5, <3>6 DEF RunInv, Wishes, ResourceFor, ChannelRef,
         Serial, Filesystem
  <2>. QED  BY <2>4, <2>5
<1>6. CASE SpawnFails \/ LoadFails \/ NoStart \/ LogKill
  <2>1. PICK ok \in BOOLEAN : Exit(ok)
    BY <1>6 DEF SpawnFails, LoadFails, NoStart, LogKill
  <2>. QED  BY <1>1, <2>1 DEF Exit
<1>10. CASE Finish
  <2>1. /\ run # None /\ todo' = todo /\ run' = [run EXCEPT !.pc = "killed"]
        /\ run \in Runs /\ run.id \in DOMAIN agents
        /\ run.wanted \in Seq(Wishes(Head(todo)))
    BY <1>10 DEF Finish, Ended, Running, RunInv
  <2>2. /\ run' \in Runs /\ run'.id = run.id /\ run'.host = run.host
        /\ run'.wanted = run.wanted /\ run'.pc = "killed"
    BY <2>1 DEF Runs
  <2>3. run' # None
    BY <2>2, NoRunAssumption
  <2>4. DOMAIN agents' = DOMAIN agents /\ Alive' = Alive \ {run.id}
    BY <1>10, KillMeans DEF Finish
  <2>. QED  BY <2>1, <2>2, <2>3, <2>4, RunStays
<1>7. CASE Boot
  <2>1. run' = None
    BY <1>7 DEF Boot, SpawnGuardian, GrantToGuardian, GuardianReads, GuardianWrites,
       Delegate, RevokeDelegated, CreateChannel, Calling, Done
  <2>. QED  BY <1>1, <2>1
<1>8. CASE Shell
  <2>1. run' = None
    BY <1>8 DEF Shell, Deploy, RunCommand, Pipe, Send, FileCommand, KillCommand,
       GcCommand, Command, AtPrompt
  <2>. QED  BY <1>1, <2>1
<1>9. CASE HostCall \/ Loop \/ Wait \/ Timer \/ UNCHANGED vars
  <2>1. UNCHANGED <<run, todo, entries, agents>>
    BY <1>9 DEF HostCall, HostChanSend, HostChanRecv, HostFsWrite, Loop, Wait,
       Timer, thread, vars, capVars
  <2>. QED  BY <1>1, <1>4, <2>1
<1>. QED
  BY <1>2, <1>3, <1>5, <1>6, <1>7, <1>8, <1>9, <1>10 DEF SysNext, Execute

-----------------------------------------------------------------------------
(* The audit log. *)

\* What is new in the log: a spawn, a kill, or an event that is neither.
LEMMA LogGrows ==
    ASSUME SysInv, [SysNext]_vars, ~Spawn, ~LogKill
    PROVE  \/ UNCHANGED audit
           \/ \E e \in {"CapGranted", "CapCheckFail", "AgentOverBudget"} :
                audit' = audit \cup {<<e, Guardian>>}
<1>1. CASE Boot
  BY <1>1 DEF Boot, SpawnGuardian, GrantToGuardian, GuardianReads, GuardianWrites,
     Delegate, RevokeDelegated, CreateChannel, CapGrant, ResourceRead,
     ResourceWrite, Logged
<1>2. CASE Execute
  BY <1>2 DEF Execute, SpawnFails, GrantNext, LoadFails, Load, NoStart,
     Finish
<1>3. CASE HostCall \/ Loop \/ Wait \/ Timer \/ UNCHANGED vars
  BY <1>3 DEF HostCall, HostChanSend, HostChanRecv, HostFsWrite, Loop, Wait, Timer, vars
<1>4. CASE Shell
  BY <1>4 DEF Shell, Deploy, RunCommand, Pipe, Send, FileCommand, KillCommand, GcCommand
<1>. QED  BY <1>1, <1>2, <1>3, <1>4 DEF SysNext

\* Spawns are logged in the step that makes them, the kill at the end of a run in
\* the step after it.
LEMMA AuditStep ==
    ASSUME SysInv, [SysNext]_vars
    PROVE  AuditInv'
<1>. DEFINE Spawned(a) == <<"AgentSpawned", a>>
            Killed(a) == <<"AgentKilled", a>>
<1>1. /\ \A event \in audit :
            /\ event = <<event[1], event[2]>>
            /\ event[1] \in {"AgentSpawned", "AgentKilled"} => event[2] \in Ids
      /\ \A a \in DOMAIN agents \ {Guardian} : Spawned(a) \in audit
      /\ \A a \in Ids : Killed(a) \in audit => Spawned(a) \in audit /\ a \notin Alive
  BY DEF SysInv, AuditInv, AuditIsTruthful
<1>2. next_id \in Nat \ {0} /\ Alive \subseteq DOMAIN agents
      /\ DOMAIN agents \subseteq Ids
  BY DEF SysInv, AgentsInv, Alive
<1>3. ASSUME NEW a, Killed(a) \in audit PROVE a \in Ids
  BY <1>1, <1>3
<1>4. SUFFICES
        /\ \A event \in audit' :
              /\ event = <<event[1], event[2]>>
              /\ event[1] \in {"AgentSpawned", "AgentKilled"} => event[2] \in Ids'
        /\ \A a \in DOMAIN agents' \ {Guardian} : Spawned(a) \in audit'
        /\ \A a \in Ids' : Killed(a) \in audit' =>
              Spawned(a) \in audit' /\ a \notin Alive'
  BY DEF AuditInv, AuditIsTruthful
<1>5. CASE Spawn
  <2>1. /\ audit' = audit \cup {Spawned(next_id)}
        /\ DOMAIN agents' = DOMAIN agents \cup {next_id}
        /\ Alive' = Alive \cup {next_id} /\ next_id' = next_id + 1
    BY <1>5, SpawnMeans DEF Spawn, Logged
  <2>2. Ids' = Ids \cup {next_id} /\ next_id \notin Ids
    BY <1>2, <2>1 DEF Ids
  <2>3. \A a : Killed(a) \in audit' => Killed(a) \in audit
    BY <2>1
  <2>. QED  BY <1>1, <1>2, <1>3, <2>1, <2>2, <2>3
<1>6. CASE LogKill
  <2>1. /\ audit' = audit \cup {Killed(run.id)}
        /\ DOMAIN agents' = DOMAIN agents /\ Alive' = Alive /\ next_id' = next_id
    BY <1>6 DEF LogKill, Logged, Alive
  <2>2. run.id \in DOMAIN agents \ {Guardian} /\ run.id \notin Alive
    BY <1>6 DEF LogKill, SysInv, RunInv
  <2>3. Ids' = Ids
    BY <2>1 DEF Ids
  <2>4. \A a : Killed(a) \in audit' => Killed(a) \in audit \/ a = run.id
    BY <2>1
  <2>. QED  BY <1>1, <1>2, <1>3, <2>1, <2>2, <2>3, <2>4
<1>7. CASE ~Spawn /\ ~LogKill
  <2>1. /\ audit \subseteq audit'
        /\ \A event \in audit' \ audit :
              /\ event = <<event[1], event[2]>>
              /\ event[1] \notin {"AgentSpawned", "AgentKilled"}
    BY <1>7, LogGrows
  <2>2. \A a : Killed(a) \in audit' => Killed(a) \in audit
    BY <2>1
  <2>3. CASE SpawnGuardian
    <3>1. Ids = {} /\ next_id = 1
      BY <2>3 DEF SpawnGuardian, SysInv, GuardianInv, Ids
    <3>2. DOMAIN agents' = {Guardian} /\ Ids \subseteq Ids'
      BY <1>2, <2>3, <3>1, SpawnMeans DEF Guardian
    <3>. QED  BY <1>1, <1>3, <2>1, <2>2, <3>1, <3>2
  <2>4. CASE ~SpawnGuardian
    <3>1. /\ UNCHANGED next_id /\ DOMAIN agents' \subseteq DOMAIN agents
          /\ Alive' \subseteq Alive
      BY <1>7, <2>4, NoSpawnMeans
    <3>2. Ids' = Ids
      BY <3>1 DEF Ids
    <3>. QED  BY <1>1, <1>3, <2>1, <2>2, <3>1, <3>2
  <2>. QED  BY <2>3, <2>4
<1>. QED  BY <1>5, <1>6, <1>7

-----------------------------------------------------------------------------
(* The traffic. *)

\* The agent behind a permitted host function was granted what it does.
LEMMA PermittedMeans ==
    ASSUME SysInv, NEW f \in HostFields, Permitted(f, RightFor(f))
    PROVE  /\ run # None /\ todo # <<>> /\ Head(todo) \in ExecCall
           /\ run.id \in Ids /\ run.id \in Nat
           /\ WasGranted(run.id, ResourceFor(f, Head(todo)), RightFor(f))
<1>1. /\ run # None /\ todo # <<>> /\ Head(todo).op = "execute" /\ run.id \in Alive
      /\ run.host[f] # None
  BY DEF Permitted, Called, Loading, Running, SysInv, RunInv
<1>2. /\ run.host[f] \in Caps!Live
      /\ entries[run.host[f]].owner = run.id
      /\ entries[run.host[f]].rights = {RightFor(f)}
      /\ entries[run.host[f]].resource = ResourceFor(f, Head(todo))
  BY <1>1 DEF SysInv, RunInv
<1>3. Caps!Live \subseteq Caps!Used /\ Head(todo) \in ExecCall
  BY <1>1, CapInvMeans, HeadFacts DEF SysInv
<1>4. run.id \in Ids /\ Ids \subseteq Nat
  BY <1>1 DEF SysInv, AgentsInv, Alive, Ids
<1>. QED  BY <1>1, <1>2, <1>3, <1>4 DEF WasGranted

\* What was granted once was granted for ever, and the same for ids given out.
LEMMA GrantsLast ==
    ASSUME SysInv, [SysNext]_vars, NEW a
    PROVE  /\ Ids \subseteq Ids'
           /\ \A r, right : WasGranted(a, r, right) => WasGranted(a, r, right)'
<1>1. HandlesKept
  BY CapStep
<1>2. next_id \in Nat /\ (next_id' = next_id \/ next_id' = next_id + 1)
  BY SpawnMeans, NoSpawnMeans DEF SysInv, AgentsInv
<1>3. ASSUME NEW r, NEW right, WasGranted(a, r, right)
      PROVE  WasGranted(a, r, right)'
  <2>1. PICK h \in Caps!Used : entries[h].owner = a
                 /\ entries[h].resource = r /\ right \in entries[h].rights
    BY <1>3 DEF WasGranted
  <2>. QED  BY <1>1, <2>1 DEF HandlesKept, WasGranted
<1>4. Ids \subseteq Ids'
  <2>1. CASE next_id' = next_id
    BY <2>1 DEF Ids
  <2>2. CASE next_id' = next_id + 1
    BY <1>2, <2>2 DEF Ids
  <2>. QED  BY <1>2, <2>1, <2>2
<1>. QED  BY <1>3, <1>4

\* What the channels hold after a step: what they held, one message of the
\* shell, or one of the agent that runs, in the channel of its call.
LEMMA ChannelsMove ==
    ASSUME SysInv, [SysNext]_vars
    PROVE  /\ channels' \in Seq(Seq(Nat))
           /\ Len(channels) \in Nat /\ Len(channels') \in Nat
           /\ Len(channels) <= Len(channels') /\ Len(channels') <= MaxChannels
           /\ \A c \in 1 .. Len(channels') : Len(channels'[c]) <= ChannelCapacity
           /\ \A c \in 1 .. Len(channels') : \A i \in 1 .. Len(channels'[c]) :
                \/ /\ c \in 1 .. Len(channels)
                   /\ \E j \in 1 .. Len(channels[c]) : channels'[c][i] = channels[c][j]
                \/ Send /\ c = 1 /\ channels'[c][i] = Kernel
                \/ /\ HostChanSend /\ c = Head(todo).chan_write + 1
                   /\ channels'[c][i] = run.id
<1>1. /\ channels \in Seq(Seq(Nat)) /\ Len(channels) <= MaxChannels
      /\ Len(channels) \in Nat
      /\ \A c \in 1 .. Len(channels) :
            /\ channels[c] \in Seq(Nat) /\ Len(channels[c]) \in Nat
            /\ Len(channels[c]) <= ChannelCapacity
      /\ DOMAIN channels = 1 .. Len(channels)
  BY LenProperties, ElementOfSeq DEF SysInv, TrafficInv
<1>. DEFINE Old(c, i) == /\ c \in 1 .. Len(channels)
                         /\ \E j \in 1 .. Len(channels[c]) :
                              channels'[c][i] = channels[c][j]
            Fine(c, i) == \/ Old(c, i)
                          \/ Send /\ c = 1 /\ channels'[c][i] = Kernel
                          \/ /\ HostChanSend /\ c = Head(todo).chan_write + 1
                             /\ channels'[c][i] = run.id
            Goal == /\ channels' \in Seq(Seq(Nat))
                    /\ Len(channels) \in Nat /\ Len(channels') \in Nat
                    /\ Len(channels) <= Len(channels') /\ Len(channels') <= MaxChannels
                    /\ \A c \in 1 .. Len(channels') : Len(channels'[c]) <= ChannelCapacity
                    /\ \A c \in 1 .. Len(channels') : \A i \in 1 .. Len(channels'[c]) :
                          Fine(c, i)
<1>. SUFFICES Goal
  OBVIOUS
<1>0. ASSUME channels' \in Seq(Seq(Nat)), Len(channels') = Len(channels),
             \A c \in 1 .. Len(channels) : Len(channels'[c]) <= ChannelCapacity,
             \A c \in 1 .. Len(channels) : \A i \in 1 .. Len(channels'[c]) : Fine(c, i)
      PROVE  Goal
  <2>. HIDE DEF Fine
  <2>. QED  BY <1>0, <1>1
<1>2. CASE UNCHANGED channels
  <2>1. \A c \in 1 .. Len(channels) : \A i \in 1 .. Len(channels'[c]) : Old(c, i)
    BY <1>2
  <2>. HIDE DEF Goal, Old
  <2>. QED  BY <1>0, <1>1, <1>2, <2>1
<1>3. CASE CanCreate /\ channels' = CreatedChannel
  <2>1. /\ channels' \in Seq(Seq(Nat)) /\ Len(channels') = Len(channels) + 1
        /\ \A c \in 1 .. Len(channels) : channels'[c] = channels[c]
        /\ channels'[Len(channels) + 1] = <<>>
    <3>1. <<>> \in Seq(Nat) /\ channels' = Append(channels, <<>>)
      BY <1>3 DEF CreatedChannel
    <3>. QED  BY <1>1, <3>1, AppendProperties
  <2>2. Len(<<>>) = 0 /\ ChannelCapacity \in Nat
    BY EmptySeq, LimitsAssumption
  <2>3. Len(channels') <= MaxChannels
    BY <1>1, <1>3, <2>1, TableLimitsAssumption DEF CanCreate
  <2>4. ASSUME NEW c \in 1 .. Len(channels')
        PROVE  /\ c \in 1 .. Len(channels) \/ channels'[c] = <<>>
               /\ Len(channels'[c]) <= ChannelCapacity
    <3>1. c \in 1 .. Len(channels) \/ c = Len(channels) + 1
      BY <1>1, <2>1
    <3>. QED  BY <1>1, <2>1, <2>2, <3>1
  <2>5. ASSUME NEW c \in 1 .. Len(channels'), NEW i \in 1 .. Len(channels'[c])
        PROVE  Old(c, i)
    <3>1. channels'[c] # <<>>
      BY <2>2, <2>5
    <3>. QED  BY <2>1, <2>4, <3>1
  <2>. HIDE DEF Old
  <2>. QED  BY <1>1, <2>1, <2>3, <2>4, <2>5
<1>4. ASSUME NEW k \in 1 .. Len(channels), NEW x \in Nat,
             Len(channels[k]) < ChannelCapacity,
             channels' = [channels EXCEPT ![k] = Append(@, x)],
             \A i : channels'[k][i] = x => Fine(k, i)
      PROVE  Goal
  <2>. DEFINE q == channels[k]
              p == Append(q, x)
  <2>1. /\ q \in Seq(Nat) /\ p \in Seq(Nat) /\ Len(p) = Len(q) + 1
        /\ \A i \in 1 .. Len(q) : p[i] = q[i]
        /\ p[Len(q) + 1] = x
        /\ Len(q) \in Nat
    BY <1>1, AppendProperties
  <2>. HIDE DEF p
  <2>2. channels' = [channels EXCEPT ![k] = p]
    BY <1>4 DEF p
  <2>3. /\ channels' \in Seq(Seq(Nat)) /\ Len(channels') = Len(channels)
        /\ \A c \in 1 .. Len(channels) : channels'[c] = IF c = k THEN p ELSE channels[c]
    BY <1>1, <2>1, <2>2, ExceptSeq
  <2>4. \A c \in 1 .. Len(channels) : Len(channels'[c]) <= ChannelCapacity
    BY <1>1, <1>4, <2>1, <2>3, LimitsAssumption
  <2>5. ASSUME NEW c \in 1 .. Len(channels), NEW i \in 1 .. Len(channels'[c])
        PROVE  Old(c, i) \/ (c = k /\ channels'[c][i] = x)
    <3>1. CASE c = k
      <4>1. channels'[c] = p /\ i \in 1 .. Len(q) + 1
        BY <2>1, <2>3, <2>5, <3>1
      <4>2. i \in 1 .. Len(q) \/ i = Len(q) + 1
        BY <2>1, <4>1
      <4>. QED  BY <2>1, <3>1, <4>1, <4>2
    <3>2. CASE c # k
      BY <2>3, <2>5, <3>2
    <3>. QED  BY <3>1, <3>2
  <2>6. \A c \in 1 .. Len(channels) : \A i \in 1 .. Len(channels'[c]) : Fine(c, i)
    BY <1>4, <2>5
  <2>. HIDE DEF Goal, Fine
  <2>. QED  BY <1>0, <2>3, <2>4, <2>6
<1>5. CASE Send
  <2>1. channels # <<>>
    <3>1. \A i \in 1 .. Len(todo) : FALSE
      BY <1>5, EmptySeq DEF Send, Command, AtPrompt
    <3>. QED  BY <3>1 DEF SysInv, TrafficInv
  <2>2. 1 \in 1 .. Len(channels)
    BY <1>1, <2>1, EmptySeq
  <2>3. CASE UNCHANGED channels
    BY <1>2, <2>3
  <2>4. CASE /\ Len(channels[1]) < ChannelCapacity
             /\ channels' = [channels EXCEPT ![1] = Append(@, Kernel)]
    <3>1. Kernel \in Nat
      BY DEF Kernel
    <3>2. \A i : channels'[1][i] = Kernel => Fine(1, i)
      BY <1>5
    <3>. HIDE DEF Goal, Fine
    <3>. QED  BY <1>4, <2>2, <2>4, <3>1, <3>2
  <2>. QED  BY <1>5, <2>3, <2>4 DEF Send
<1>6. CASE HostChanSend
  <2>1. "chan_write" \in HostFields /\ RightFor("chan_write") = "WRITE"
    BY DEF HostFields, RightFor
  <2>2. run.id \in Nat
    BY <1>6, <2>1, PermittedMeans DEF HostChanSend
  <2>3. PICK k \in 1 .. Len(channels) :
          /\ k = Head(todo).chan_write + 1 /\ Len(channels[k]) < ChannelCapacity
          /\ channels' = [channels EXCEPT ![k] = Append(@, run.id)]
    BY <1>1, <1>6 DEF HostChanSend
  <2>4. \A i : channels'[k][i] = run.id => Fine(k, i)
    BY <1>6, <2>3
  <2>. HIDE DEF Goal, Fine
  <2>. QED  BY <1>4, <2>2, <2>3, <2>4
<1>7. CASE HostChanRecv
  <2>1. PICK k \in 1 .. Len(channels) :
          channels[k] # <<>> /\ channels' = [channels EXCEPT ![k] = Tail(@)]
    BY <1>1, <1>7 DEF HostChanRecv
  <2>. DEFINE q == channels[k]
              p == Tail(q)
  <2>2. /\ q \in Seq(Nat) /\ p \in Seq(Nat) /\ Len(p) = Len(q) - 1
        /\ \A i \in 1 .. Len(q) - 1 : p[i] = q[i + 1]
        /\ Len(q) \in Nat
    BY <1>1, <2>1, HeadTailProperties
  <2>. HIDE DEF p
  <2>3. channels' = [channels EXCEPT ![k] = p]
    BY <2>1 DEF p
  <2>4. /\ channels' \in Seq(Seq(Nat)) /\ Len(channels') = Len(channels)
        /\ \A c \in 1 .. Len(channels) : channels'[c] = IF c = k THEN p ELSE channels[c]
    BY <1>1, <2>2, <2>3, ExceptSeq
  <2>5. \A c \in 1 .. Len(channels) : Len(channels'[c]) <= ChannelCapacity
    <3>1. Len(p) <= Len(q) /\ Len(p) \in Nat /\ Len(q) <= ChannelCapacity
      BY <1>1, <2>2
    <3>2. Len(p) <= ChannelCapacity
      BY <2>2, <3>1, LimitsAssumption
    <3>. QED  BY <1>1, <2>4, <3>2
  <2>6. ASSUME NEW c \in 1 .. Len(channels), NEW i \in 1 .. Len(channels'[c])
        PROVE  Old(c, i)
    <3>1. CASE c = k
      <4>1. channels'[c] = p /\ i \in 1 .. Len(q) - 1
        BY <2>2, <2>4, <2>6, <3>1
      <4>2. i + 1 \in 1 .. Len(q) /\ p[i] = q[i + 1]
        BY <2>2, <4>1
      <4>. QED  BY <3>1, <4>1, <4>2
    <3>2. CASE c # k
      BY <2>4, <2>6, <3>2
    <3>. QED  BY <3>1, <3>2
  <2>. HIDE DEF Goal, Old
  <2>. QED  BY <1>0, <2>4, <2>5, <2>6
<1>8. CASE CreateChannel \/ Pipe
  BY <1>2, <1>3, <1>8 DEF CreateChannel, Pipe
<1>9. CASE Boot /\ ~CreateChannel
  BY <1>2, <1>9 DEF Boot, SpawnGuardian, GrantToGuardian, GuardianReads,
     GuardianWrites, Delegate, RevokeDelegated, shared
<1>10. CASE Execute
  BY <1>2, <1>10 DEF Execute, Spawn, SpawnFails, GrantNext, LoadFails, Load,
     NoStart, Finish, LogKill, shared
<1>11. CASE HostFsWrite \/ Loop \/ Wait \/ Timer \/ UNCHANGED vars
  BY <1>2, <1>11 DEF HostFsWrite, Loop, Wait, Timer, vars, shared
<1>12. CASE Shell /\ ~Send /\ ~Pipe
  BY <1>2, <1>12 DEF Shell, Deploy, RunCommand, FileCommand, KillCommand,
     GcCommand, shared
<1>. QED
  BY <1>5, <1>6, <1>7, <1>8, <1>9, <1>10, <1>11, <1>12 DEF SysNext, HostCall

\* The creation of channel 0 stays on the list until it is done.
LEMMA CreationStays ==
    ASSUME SysInv, [SysNext]_vars,
           NEW k \in 1 .. Len(todo), todo[k].op = "create_channel", channels = <<>>
    PROVE  channels' # <<>> \/ \E i \in 1 .. Len(todo') : todo'[i].op = "create_channel"
<1>. USE DEF SysInv
<1>1. todo # <<>> /\ Len(todo) \in Nat
  <2>1. todo # <<>>
    BY EmptySeq
  <2>. QED  BY <2>1, HeadFacts
<1>2. CASE todo' = todo
  BY <1>2
<1>3. CASE todo' = Tail(todo)
  <2>1. /\ Len(todo') = Len(todo) - 1
        /\ \A i \in 1 .. Len(todo') : todo'[i] = todo[i + 1]
    BY <1>1, <1>3, DoneMeans
  <2>2. CASE k # 1
    <3>1. k - 1 \in 1 .. Len(todo') /\ (k - 1) + 1 = k
      BY <1>1, <2>1, <2>2
    <3>2. todo'[k - 1].op = "create_channel"
      BY <2>1, <3>1
    <3>. QED  BY <3>1, <3>2
  <2>3. CASE k = 1
    <3>1. Head(todo).op = "create_channel" /\ todo' # todo
      BY <1>1, <2>1, <2>3, HeadFacts
    <3>2. run = None /\ ~AtPrompt
      BY <1>1, <3>1 DEF RunInv, AtPrompt
    <3>3. CreateChannel
      <4>1. CASE Boot
        BY <3>1, <4>1 DEF Boot, SpawnGuardian, GrantToGuardian, GuardianReads,
           GuardianWrites, Delegate, RevokeDelegated, Calling
      <4>2. ~Execute /\ ~HostCall /\ ~Loop
        BY <3>1, <3>2 DEF Execute, Spawn, SpawnFails, GrantNext, LoadFails, Load,
           NoStart, Finish, LogKill, Ended, Calling, Loading, Running, HostCall, HostChanSend,
           HostChanRecv, HostFsWrite, Permitted, Called, Loop
      <4>3. ~Shell /\ ~Wait
        BY <3>2 DEF Shell, Deploy, RunCommand, Pipe, Send, FileCommand, KillCommand,
           GcCommand, Command, Wait
      <4>4. ~Timer /\ ~UNCHANGED vars
        BY <3>1 DEF Timer, vars, thread
      <4>. QED  BY <4>1, <4>2, <4>3, <4>4 DEF SysNext
    <3>4. Len(channels) = 0
      BY EmptySeq
    <3>5. CanCreate
      BY <3>4, TableLimitsAssumption DEF CanCreate
    <3>6. channels' = Append(<<>>, <<>>)
      BY <3>3, <3>5 DEF CreateChannel, CreatedChannel
    <3>. QED  BY <3>6
  <2>. QED  BY <2>2, <2>3
<1>4. CASE Delegate /\ Len(todo) > 1 /\ todo' = Tail(Tail(todo))
  <2>1. /\ Len(todo') = Len(todo) - 2
        /\ \A i \in 1 .. Len(todo') : todo'[i] = todo[i + 2]
    BY <1>4, ScriptTailTail
  <2>2. todo[1].op = "delegate" /\ todo[2].op = "revoke"
    BY <1>1, <1>4, HeadFacts DEF Delegate, Calling
  <2>3. k - 2 \in 1 .. Len(todo') /\ (k - 2) + 2 = k
    BY <1>1, <2>1, <2>2
  <2>4. todo'[k - 2].op = "create_channel"
    BY <2>1, <2>3
  <2>. QED  BY <2>3, <2>4
<1>5. ~(Head(todo).op = "execute" /\ Head(todo).abort)
  <2>1. Head(todo) = todo[1] /\ 1 \in 1 .. Len(todo)
    BY <1>1, HeadFacts
  <2>. QED  BY <2>1 DEF Script
<1>6. ~AtPrompt
  BY <1>1 DEF AtPrompt
<1>. QED  BY <1>2, <1>3, <1>4, <1>5, <1>6, TodoStep

\* A channel for which a capability was granted is one that there can be.
LEMMA GrantedChannel ==
    ASSUME SysInv, NEW a, NEW c, NEW right, WasGranted(a, ChannelRef(c), right)
    PROVE  c \in Channels
<1>1. PICK h \in Caps!Used : entries[h].resource = ChannelRef(c)
  BY DEF WasGranted
<1>2. ChannelRef(c) \in Resources
  BY <1>1, CapInvMeans DEF SysInv, Caps!CapEntry
<1>3. PICK d \in Channels : ChannelRef(c) = ChannelRef(d)
  BY <1>2 DEF Resources, ChannelRef, Serial, Filesystem, Memory, AuditLog, Compute,
     Channels
<1>. QED  BY <1>3 DEF ChannelRef

\* Whoever puts something into a channel or a file was granted the right, and
\* a grant is remembered for ever.
LEMMA TrafficStep ==
    ASSUME SysInv, [SysNext]_vars
    PROVE  TrafficInv'
<1>. USE DEF SysInv
<1>. DEFINE Granted(a, r, right) ==
                \E h \in Caps!Used' : entries'[h].owner = a
                    /\ entries'[h].resource = r /\ right \in entries'[h].rights
<1>0. \A a, r, right : WasGranted(a, r, right) => Granted(a, r, right)
  <2>. TAKE a
  <2>. QED  BY GrantsLast DEF WasGranted
<1>1. Ids \subseteq Ids' /\ Ids \subseteq Nat
  BY GrantsLast DEF Ids
<1>2. /\ channels' \in Seq(Seq(Nat)) /\ Len(channels') <= MaxChannels
      /\ Len(channels) \in Nat /\ Len(channels') \in Nat
      /\ Len(channels) <= Len(channels')
      /\ \A c \in 1 .. Len(channels') : Len(channels'[c]) <= ChannelCapacity
  BY ChannelsMove
<1>3. /\ DOMAIN channels = 1 .. Len(channels) /\ DOMAIN channels' = 1 .. Len(channels')
      /\ \A c \in 1 .. Len(channels) : DOMAIN channels[c] = 1 .. Len(channels[c])
      /\ \A c \in 1 .. Len(channels') : DOMAIN channels'[c] = 1 .. Len(channels'[c])
  BY <1>2, LenProperties, ElementOfSeq DEF TrafficInv
<1>4. ASSUME NEW c \in 1 .. Len(channels'), NEW i \in 1 .. Len(channels'[c])
      PROVE  /\ channels'[c][i] \in {Kernel} \cup Ids'
             /\ \/ channels'[c][i] = Kernel /\ c = 1
                \/ Granted(channels'[c][i], ChannelRef(c - 1), "WRITE")
  <2>. HIDE DEF Granted
  <2>1. CASE c \in 1 .. Len(channels)
               /\ \E j \in 1 .. Len(channels[c]) : channels'[c][i] = channels[c][j]
    <3>1. PICK j \in 1 .. Len(channels[c]) : channels'[c][i] = channels[c][j]
      BY <2>1
    <3>2. /\ channels[c][j] \in {Kernel} \cup Ids
          /\ \/ channels[c][j] = Kernel /\ c = 1
             \/ WasGranted(channels[c][j], ChannelRef(c - 1), "WRITE")
      BY <1>3, <2>1, <3>1 DEF TrafficInv, TrafficIsAuthorised
    <3>. QED  BY <1>0, <1>1, <3>1, <3>2
  <2>2. CASE Send /\ c = 1 /\ channels'[c][i] = Kernel
    BY <2>2 DEF Kernel
  <2>3. CASE HostChanSend /\ c = Head(todo).chan_write + 1 /\ channels'[c][i] = run.id
    <3>1. "chan_write" \in HostFields /\ RightFor("chan_write") = "WRITE"
          /\ ResourceFor("chan_write", Head(todo)) = ChannelRef(Head(todo).chan_write)
      BY DEF HostFields, RightFor, ResourceFor
    <3>2. /\ run.id \in Ids /\ Head(todo) \in ExecCall
          /\ WasGranted(run.id, ChannelRef(Head(todo).chan_write), "WRITE")
      BY <2>3, <3>1, PermittedMeans DEF HostChanSend
    <3>3. Head(todo).chan_write \in Channels
      BY <3>2, GrantedChannel
    <3>4. c - 1 = Head(todo).chan_write
      BY <2>3, <3>3 DEF Channels
    <3>. QED  BY <1>0, <1>1, <2>3, <3>2, <3>4
  <2>. QED  BY <2>1, <2>2, <2>3, ChannelsMove
<1>5. /\ writer' \in {None, Kernel} \cup Ids'
      /\ writer' \in {None, Kernel} \/ Granted(writer', Filesystem, "WRITE")
  <2>. HIDE DEF Granted
  <2>1. CASE writer' \in {None, Kernel}
    BY <2>1 DEF Kernel
  <2>2. CASE writer' = writer
    <3>1. \/ writer \in {None, Kernel}
          \/ writer \in Ids /\ WasGranted(writer, Filesystem, "WRITE")
      BY DEF TrafficInv, TrafficIsAuthorised
    <3>. QED  BY <1>0, <1>1, <2>2, <3>1
  <2>3. CASE HostFsWrite
    <3>1. "fs_write" \in HostFields /\ RightFor("fs_write") = "WRITE"
          /\ ResourceFor("fs_write", Head(todo)) = Filesystem
      BY DEF HostFields, RightFor, ResourceFor
    <3>2. run.id \in Ids /\ WasGranted(run.id, Filesystem, "WRITE")
      BY <2>3, <3>1, PermittedMeans DEF HostFsWrite
    <3>. QED  BY <1>0, <1>1, <2>3, <3>2 DEF HostFsWrite
  <2>4. CASE Boot
    BY <2>2, <2>4 DEF Boot, SpawnGuardian, GrantToGuardian, GuardianReads,
       GuardianWrites, Delegate, RevokeDelegated, CreateChannel, shared
  <2>5. CASE Execute
    BY <2>2, <2>5 DEF Execute, Spawn, SpawnFails, GrantNext, LoadFails, Load,
       NoStart, Finish, LogKill, shared
  <2>6. CASE HostChanSend \/ HostChanRecv \/ Loop \/ Wait \/ Timer \/ UNCHANGED vars
    BY <2>2, <2>6 DEF HostChanSend, HostChanRecv, Loop, Wait, Timer, vars, shared
  <2>7. CASE Shell
    BY <2>1, <2>2, <2>7 DEF Shell, Deploy, RunCommand, Pipe, Send, FileCommand,
       KillCommand, GcCommand, shared
  <2>. QED
    BY <2>3, <2>4, <2>5, <2>6, <2>7 DEF SysNext, HostCall
<1>6. channels' # <<>> \/ \E i \in 1 .. Len(todo') : todo'[i].op = "create_channel"
  <2>1. CASE channels # <<>>
    <3>1. Len(channels) # 0
      BY <2>1, EmptySeq DEF TrafficInv
    <3>. QED  BY <1>2, <3>1, EmptySeq
  <2>2. CASE channels = <<>>
    BY <2>2, CreationStays DEF TrafficInv
  <2>. QED  BY <2>1, <2>2
<1>7. TrafficIsAuthorised'
  <2>1. \A c \in DOMAIN channels' : \A i \in DOMAIN channels'[c] :
           \/ channels'[c][i] = Kernel /\ c = 1
           \/ Granted(channels'[c][i], ChannelRef(c - 1), "WRITE")
    BY <1>3, <1>4
  <2>2. writer' \in {None, Kernel} \/ Granted(writer', Filesystem, "WRITE")
    BY <1>5
  <2>. QED  BY <2>1, <2>2, Zenon DEF TrafficIsAuthorised, WasGranted
<1>. HIDE DEF Granted
<1>8. \A c \in 1 .. Len(channels') : \A i \in 1 .. Len(channels'[c]) :
         channels'[c][i] \in {Kernel} \cup Ids'
  BY <1>4
<1>. QED
  BY <1>2, <1>5, <1>6, <1>7, <1>8 DEF TrafficInv

\* A run goes on until its call leaves the list.
LEMMA RunGoesOn ==
    ASSUME SysInv, [SysNext]_vars, run # None, todo' = todo
    PROVE  run' # None /\ run'.id = run.id
<1>. USE DEF SysInv
<1>1. /\ todo # <<>> /\ run \in Runs /\ run.id \in Nat /\ ~AtPrompt
      /\ Head(todo).op = "execute"
  BY DEF RunInv, Runs, AtPrompt
<1>2. ASSUME NEW w, run' = [run EXCEPT !.wanted = w] \/ run' = [run EXCEPT !.pc = w]
                 \/ \E f, s : run' = [run EXCEPT !.wanted = w, !.host[f] = s]
      PROVE  run'.id = run.id
  BY <1>1, <1>2 DEF Runs
<1>3. RunInv'
  BY RunStep
<1>4. CASE GrantNext \/ Load \/ Finish
  <2>1. run'.id = run.id
    BY <1>2, <1>4 DEF GrantNext, Load, Finish
  <2>2. run' # None
    <3>1. CASE Load \/ Finish
      <4>1. run' \in Runs
        BY <1>1, <3>1 DEF Load, Finish, Runs
      <4>. QED  BY <4>1, NoRunAssumption
    <3>2. CASE GrantNext
      <4>1. Tail(run.wanted) \in Seq(WishRecord)
        BY <1>1, <3>2, HeadTailProperties DEF GrantNext, Runs, WishRecord
      <4>. DEFINE w == Tail(run.wanted)
      <4>2. ASSUME NEW f, NEW s \in Caps!Slots,
                   run' = [run EXCEPT !.wanted = w, !.host[f] = s]
            PROVE  run' \in Runs
        <5>. HIDE DEF w
        <5>1. w \in Seq(WishRecord)
          BY <4>1 DEF w
        <5>2. run.host \in [HostFields -> Caps!Slots \cup {None}]
          BY <1>1 DEF Runs
        <5>3. [run.host EXCEPT ![f] = s] \in [HostFields -> Caps!Slots \cup {None}]
          BY <5>2
        <5>4. run' = [run EXCEPT !.wanted = w, !.host = [run.host EXCEPT ![f] = s]]
          BY <1>1, <4>2 DEF Runs
        <5>. QED  BY <1>1, <5>1, <5>3, <5>4 DEF Runs, WishRecord
      <4>3. ASSUME run' = [run EXCEPT !.wanted = w] PROVE run' \in Runs
        <5>. HIDE DEF w
        <5>1. w \in Seq(WishRecord)
          BY <4>1 DEF w
        <5>. QED  BY <1>1, <4>3, <5>1 DEF Runs, WishRecord
      <4>4. \/ run' = [run EXCEPT !.wanted = w]
            \/ \E f : \E s \in Caps!Slots :
                 run' = [run EXCEPT !.wanted = w, !.host[f] = s]
        BY <3>2 DEF GrantNext
      <4>5. run' \in Runs
        BY <4>2, <4>3, <4>4
      <4>. QED  BY <4>5, NoRunAssumption
    <3>. QED  BY <1>4, <3>1, <3>2
  <2>. QED  BY <2>1, <2>2
<1>5. CASE UNCHANGED run
  BY <1>5
<1>6. ~(SpawnFails \/ LoadFails \/ NoStart \/ LogKill)
  <2>1. SUFFICES ASSUME NEW ok, Exit(ok) PROVE FALSE
    BY DEF SpawnFails, LoadFails, NoStart, LogKill
  <2>2. todo' = Tail(todo) \/ todo' = <<>>
    BY <1>1, <2>1, ExitMeans
  <2>3. Len(Tail(todo)) = Len(todo) - 1 /\ Len(todo) \in Nat
    BY <1>1, ScriptParts
  <2>. DEFINE t == Tail(todo)
  <2>4. t # todo
    <3>. HIDE DEF t
    <3>1. Len(t) = Len(todo) - 1
      BY <2>3 DEF t
    <3>. QED  BY <2>3, <3>1
  <2>. QED  BY <1>1, <2>2, <2>4
<1>7. ~Boot /\ ~Shell /\ ~Spawn
  BY <1>1 DEF Boot, SpawnGuardian, GrantToGuardian, GuardianReads, GuardianWrites,
     Delegate, RevokeDelegated, CreateChannel, Calling, Shell, Deploy, RunCommand,
     Pipe, Send, FileCommand, KillCommand, GcCommand, Command, Spawn
<1>8. CASE HostCall \/ Loop \/ Wait \/ Timer \/ UNCHANGED vars
  BY <1>5, <1>8 DEF HostCall, HostChanSend, HostChanRecv, HostFsWrite, Loop, Wait,
     Timer, vars, thread
<1>. QED
  BY <1>4, <1>6, <1>7, <1>8 DEF SysNext, Execute

\* What an agent writes goes to the channel of its call, which is one there
\* can be.
LEMMA SendMeans ==
    ASSUME SysInv, HostChanSend
    PROVE  /\ run # None /\ todo # <<>> /\ Head(todo).op = "execute"
           /\ Head(todo).chan_write \in Channels /\ Head(todo).chan_write # None
<1>1. "chan_write" \in HostFields /\ RightFor("chan_write") = "WRITE"
      /\ ResourceFor("chan_write", Head(todo)) = ChannelRef(Head(todo).chan_write)
  BY DEF HostFields, RightFor, ResourceFor
<1>2. /\ run # None /\ todo # <<>> /\ Head(todo) \in ExecCall
      /\ WasGranted(run.id, ChannelRef(Head(todo).chan_write), "WRITE")
  BY <1>1, PermittedMeans DEF HostChanSend
<1>3. Head(todo).chan_write \in Channels
  BY <1>2, GrantedChannel
<1>. QED  BY <1>2, <1>3, AbsentAssumption DEF Channels, ExecCall

\* The channel of a pipe is new, so that only the calls of that pipe name it.
LEMMA PipeStep ==
    ASSUME SysInv, [SysNext]_vars
    PROVE  PipeInv'
<1>. USE DEF SysInv
<1>1. /\ DOMAIN channels = 1 .. Len(channels) /\ DOMAIN channels' = 1 .. Len(channels')
      /\ \A c \in 1 .. Len(channels) : DOMAIN channels[c] = 1 .. Len(channels[c])
      /\ \A c \in 1 .. Len(channels') : DOMAIN channels'[c] = 1 .. Len(channels'[c])
      /\ Len(channels) \in Nat /\ Len(channels') \in Nat
  BY ChannelsMove, LenProperties, ElementOfSeq DEF TrafficInv
<1>. DEFINE Old(c, i) == /\ c \in 1 .. Len(channels)
                         /\ \E j \in 1 .. Len(channels[c]) :
                              channels'[c][i] = channels[c][j]
            New(c, i) == /\ HostChanSend /\ c = Head(todo).chan_write + 1
                         /\ channels'[c][i] = run.id
<1>2. ASSUME NEW c \in 2 .. Len(channels'), NEW i \in 1 .. Len(channels'[c])
      PROVE  Old(c, i) \/ New(c, i)
  <2>1. c \in 1 .. Len(channels') /\ c # 1
    OBVIOUS
  <2>. QED  BY <2>1, ChannelsMove
<1>3. ASSUME NEW c \in 2 .. Len(channels), todo # <<>>, Head(todo).op = "execute",
             Head(todo).chan_write # None, c = Head(todo).chan_write + 1
      PROVE  \A j \in 1 .. Len(channels[c]) : run # None /\ channels[c][j] = run.id
  BY <1>3 DEF PipeInv
<1>4. ASSUME NEW c \in 2 .. Len(channels),
             NEW i \in 1 .. Len(channels[c]), NEW j \in 1 .. Len(channels[c])
      PROVE  channels[c][i] = channels[c][j]
  <2>1. c \in DOMAIN channels /\ c > 1
    BY <1>1
  <2>. QED  BY <1>1, <2>1 DEF PipeInv, PipesDoNotMix
<1>5. PipesDoNotMix'
  <2>1. SUFFICES ASSUME NEW c \in 2 .. Len(channels'),
                        NEW i \in 1 .. Len(channels'[c]), NEW j \in 1 .. Len(channels'[c])
                 PROVE  channels'[c][i] = channels'[c][j]
    <3>1. ASSUME NEW c \in DOMAIN channels', c > 1 PROVE c \in 2 .. Len(channels')
      BY <1>1, <3>1
    <3>2. \A c \in DOMAIN channels' : c > 1 => DOMAIN channels'[c] = 1 .. Len(channels'[c])
      BY <1>1
    <3>. QED  BY <3>1, <3>2 DEF PipesDoNotMix
  <2>2. CASE HostChanSend /\ c = Head(todo).chan_write + 1
    <3>1. ASSUME NEW k \in 1 .. Len(channels'[c]) PROVE channels'[c][k] = run.id
      <4>1. CASE New(c, k)
        BY <4>1
      <4>2. CASE Old(c, k)
        <5>1. c \in 2 .. Len(channels)
          BY <1>1, <4>2
        <5>2. \A l \in 1 .. Len(channels[c]) : channels[c][l] = run.id
          BY <1>3, <2>2, <5>1, SendMeans
        <5>. QED  BY <4>2, <5>2
      <4>. HIDE DEF Old, New
      <4>. QED  BY <1>2, <4>1, <4>2
    <3>. QED  BY <3>1
  <2>3. CASE ~(HostChanSend /\ c = Head(todo).chan_write + 1)
    <3>1. Old(c, i) /\ Old(c, j)
      BY <1>2, <2>3
    <3>2. c \in 2 .. Len(channels)
      BY <1>1, <3>1
    <3>. QED  BY <1>4, <3>1, <3>2
  <2>. QED  BY <2>2, <2>3
<1>6. ASSUME todo' # <<>>, Head(todo').op = "execute", Head(todo').chan_write # None,
             NEW c \in 2 .. Len(channels'), c = Head(todo').chan_write + 1,
             NEW i \in 1 .. Len(channels'[c])
      PROVE  run' # None /\ channels'[c][i] = run'.id
  <2>1. ASSUME Head(todo').chan_write \in {None, 0} PROVE FALSE
    BY <1>6, <2>1
  <2>2. CASE todo' = todo
    <3>1. run # None /\ channels'[c][i] = run.id
      <4>1. CASE New(c, i)
        BY <4>1, SendMeans
      <4>2. CASE Old(c, i)
        <5>1. c \in 2 .. Len(channels)
          BY <1>1, <4>2
        <5>2. \A l \in 1 .. Len(channels[c]) : run # None /\ channels[c][l] = run.id
          BY <1>3, <1>6, <2>2, <5>1
        <5>. QED  BY <4>2, <5>2
      <4>. HIDE DEF Old, New
      <4>. QED  BY <1>2, <4>1, <4>2
    <3>. QED  BY <2>2, <3>1, RunGoesOn
  <2>3. CASE todo # <<>> /\ todo' = Tail(todo)
    BY <1>6, <2>1, <2>3, DoneMeans
  <2>4. CASE Delegate /\ Len(todo) > 1 /\ todo' = Tail(Tail(todo))
    <3>1. Head(todo') = todo[3] /\ 3 \in 2 .. Len(todo)
      BY <1>6, <2>4, ScriptTailTail
    <3>2. Head(todo').chan_write \in {None, 0}
      BY <1>6, <3>1 DEF Script
    <3>. QED  BY <2>1, <3>2
  <2>5. CASE Shell /\ AtPrompt /\ todo' \in Seq(ExecCall)
    <3>1. Len(todo') \in Nat /\ Len(todo') # 0 /\ Head(todo') = todo'[1]
      BY <1>6, <2>5, ExecLists
    <3>2. CASE \A j \in 1 .. Len(todo') : todo'[j].chan_write \in {None, 0}
      BY <2>1, <3>1, <3>2
    <3>3. CASE Pipe
      <4>1. todo' # todo /\ ~HostChanSend
        BY <1>6, <2>5 DEF AtPrompt, HostChanSend, Permitted, Called, Loading, Running
      <4>2. Head(todo').chan_write = Len(channels)
        BY <3>3, <4>1 DEF Pipe, Exec
      <4>3. ~Old(c, i)
        BY <1>1, <1>6, <4>2
      <4>. QED  BY <1>2, <4>1, <4>3
    <3>4. CASE ~Pipe /\ todo' # todo
      <4>1. \A j \in 1 .. Len(todo') : todo'[j].chan_write \in {None, 0}
        <5>1. ~(todo # <<>>)
          BY <2>5 DEF AtPrompt
        <5>2. ~Delegate
          BY <5>1 DEF Delegate, Calling
        <5>. QED  BY <3>4, <5>1, <5>2, TodoStep
      <4>. QED  BY <3>2, <4>1
    <3>. QED  BY <2>2, <3>3, <3>4
  <2>. QED  BY <1>6, <2>2, <2>3, <2>4, <2>5, TodoStep
<1>. QED  BY <1>5, <1>6 DEF PipeInv

-----------------------------------------------------------------------------
(* The invariant. *)

\* The invariant holds when the guardian starts.
LEMMA SysInitInv == SysInit => SysInv
<1>. SUFFICES ASSUME SysInit PROVE SysInv
  OBVIOUS
<1>1. CapInv
  <2>1. CapProofs!Init
    BY DEF SysInit, Caps!Init, CapProofs!Init, Caps!Slots, CapProofs!Slots
  <2>. QED  BY <2>1, CapAssumptions, CapProofs!InitIInv DEF CapInv
<1>2. /\ Script(todo) /\ Len(todo) = 15 /\ todo # <<>>
      /\ todo[1].op = "spawn_guardian" /\ todo[13].op = "create_channel"
  BY BootScriptIsScript DEF SysInit
<1>3. Calling("spawn_guardian")
  BY <1>2, HeadFacts DEF SysInit, Calling
<1>4. AgentsInv
  <2>1. DOMAIN agents = {} /\ Cardinality(DOMAIN agents) = 0
    BY FS_EmptySet DEF SysInit
  <2>. QED  BY <2>1, TableLimitsAssumption DEF AgentsInv, SysInit
<1>5. Caps!Live = {}
  BY DEF SysInit, Caps!Init, Caps!Live, Caps!Used
<1>6. GuardianInv
  BY <1>2, <1>3, <1>5 DEF GuardianInv, SysInit
<1>7. AuthorityInv
  BY <1>5 DEF AuthorityInv
<1>8. RunInv
  BY DEF RunInv, SysInit
<1>9. AuditInv
  <2>1. DOMAIN agents = {} /\ Ids = {}
    BY DEF SysInit, Ids
  <2>2. audit = {<<"KernelBoot", Kernel>>}
    BY DEF SysInit
  <2>. QED  BY <2>1, <2>2 DEF AuditInv, AuditIsTruthful
<1>10. channels = <<>> /\ Len(channels) = 0 /\ writer = None /\ DOMAIN channels = {}
  BY EmptySeq DEF SysInit
<1>11. TrafficInv
  <2>1. channels \in Seq(Seq(Nat))
    BY <1>10, EmptySeq
  <2>2. \E i \in 1 .. Len(todo) : todo[i].op = "create_channel"
    BY <1>2
  <2>3. TrafficIsAuthorised
    BY <1>10 DEF TrafficIsAuthorised
  <2>. QED  BY <1>10, <2>1, <2>2, <2>3, TableLimitsAssumption DEF TrafficInv
<1>12. PipeInv
  BY <1>10 DEF PipeInv, PipesDoNotMix
<1>. QED
  BY <1>1, <1>2, <1>4, <1>6, <1>7, <1>8, <1>9, <1>11, <1>12 DEF SysInv

\* Every step keeps the invariant: its parts, one by one.
LEMMA SysNextInv == SysInv /\ [SysNext]_vars => SysInv'
<1>. SUFFICES ASSUME SysInv, [SysNext]_vars PROVE SysInv'
  OBVIOUS
<1>1. CapInv' /\ Script(todo)'
  BY CapStep, ScriptStep
<1>2. AgentsInv'
  BY SpawnMeans, NoSpawnMeans
<1>3. GuardianInv' /\ AuthorityInv' /\ RunInv' /\ AuditInv' /\ TrafficInv' /\ PipeInv'
  BY GuardianStep, AuthorityStep, RunStep, AuditStep, TrafficStep, PipeStep
<1>. QED  BY <1>1, <1>2, <1>3 DEF SysInv

\* The invariant holds in every reachable state.
LEMMA SysSpecInv == SysSpec => []SysInv
<1>. QED  BY SysInitInv, SysNextInv, PTL DEF SysSpec

-----------------------------------------------------------------------------
(* The theorems. *)

\* Ids, the table and the channels stay within their limits, whatever runs.
THEOREM RuntimeTypeCorrect == SysSpec => []SysTypeOK
<1>1. SysInv => SysTypeOK
  <2>. SUFFICES ASSUME SysInv PROVE SysTypeOK
    OBVIOUS
  <2>1. Caps!TypeOK
    BY CapInvMeans DEF SysInv
  <2>2. /\ DOMAIN agents \subseteq Ids /\ Cardinality(DOMAIN agents) <= MaxAgents
        /\ \A a \in DOMAIN agents :
              /\ agents[a].state \in {"Initializing", "Active", "Terminated"}
              /\ agents[a].capabilities \subseteq Caps!Slots
    BY DEF SysInv, AgentsInv, AgentRecord
  <2>3. channels \in Seq(Seq(Nat)) /\ Len(channels) <= MaxChannels
    BY DEF SysInv, TrafficInv
  <2>4. ASSUME NEW c \in DOMAIN channels
        PROVE  channels[c] \in Seq({Kernel} \cup Ids) /\ Len(channels[c]) <= ChannelCapacity
    <3>1. c \in 1 .. Len(channels) /\ channels[c] \in Seq(Nat)
      BY <2>3, <2>4, LenProperties, ElementOfSeq
    <3>2. \A i \in 1 .. Len(channels[c]) : channels[c][i] \in {Kernel} \cup Ids
      BY <3>1 DEF SysInv, TrafficInv
    <3>3. /\ Len(channels[c]) \in Nat
          /\ channels[c] \in [1 .. Len(channels[c]) -> {Kernel} \cup Ids]
      BY <3>1, <3>2, LenProperties
    <3>4. channels[c] \in Seq({Kernel} \cup Ids)
      BY <3>3, SeqDef
    <3>. QED  BY <3>1, <3>4 DEF SysInv, TrafficInv
  <2>5. writer \in {None, Kernel} \cup Ids
    BY DEF SysInv, TrafficInv
  <2>6. run \in Runs \cup {None} /\ (run # None => todo # <<>>)
    BY DEF SysInv, RunInv
  <2>. QED  BY <2>1, <2>2, <2>3, <2>4, <2>5, <2>6 DEF SysTypeOK
<1>. QED  BY <1>1, SysSpecInv, PTL

\* No agent that was killed, or killed and collected, is left with authority.
THEOREM DeathEndsAuthority == SysSpec => []DeadHoldNothing
<1>1. SysInv => DeadHoldNothing
  BY DEF SysInv, AuthorityInv, DeadHoldNothing
<1>. QED  BY <1>1, SysSpecInv, PTL

\* The handles that the host keeps while an agent runs are the agent's own and
\* never go stale.
THEOREM HandlesStayGood == SysSpec => []HandlesOutliveTheRun
<1>1. SysInv => HandlesOutliveTheRun
  <2>. SUFFICES ASSUME SysInv, run # None, run.pc = "start",
                       NEW f \in HostFields, run.host[f] # None
                PROVE  /\ entries[run.host[f]].owner = run.id
                       /\ Caps!Check(run.host[f],
                             {IF f \in {"chan_read", "fs_read"} THEN "READ" ELSE "WRITE"})
                            = "Ok"
                       /\ f = "chan_write" =>
                            entries[run.host[f]].resource = ChannelRef(Head(todo).chan_write)
                       /\ f = "chan_read" =>
                            entries[run.host[f]].resource = ChannelRef(Head(todo).chan_read)
    BY DEF HandlesOutliveTheRun, Running
  <2>. DEFINE h == run.host[f]
  <2>1. /\ h \in Caps!Live
        /\ entries[h].owner = run.id /\ entries[h].expires_at = 0
        /\ entries[h].rights = {RightFor(f)}
        /\ entries[h].resource = ResourceFor(f, Head(todo))
    BY DEF SysInv, RunInv
  <2>2. /\ f = "chan_write" => entries[h].resource = ChannelRef(Head(todo).chan_write)
        /\ f = "chan_read" => entries[h].resource = ChannelRef(Head(todo).chan_read)
    BY <2>1 DEF ResourceFor
  <2>. HIDE DEF h
  <2>3. h \in Caps!Used /\ ~entries[h].revoked /\ ~Caps!IsExpired(entries[h])
    BY <2>1 DEF Caps!Live, Caps!IsExpired
  <2>4. Caps!Check(h, {RightFor(f)}) = "Ok"
    BY <2>1, <2>3 DEF Caps!Check
  <2>. QED  BY <2>1, <2>2, <2>4 DEF h, RightFor
<1>. QED  BY <1>1, SysSpecInv, PTL

\* Every message and every file comes from the shell or from an agent that was
\* granted the right to write there.
THEOREM TrafficIsAllowed == SysSpec => []TrafficIsAuthorised
<1>1. SysInv => TrafficIsAuthorised
  BY DEF SysInv, TrafficInv
<1>. QED  BY <1>1, SysSpecInv, PTL

\* The audit log tells the truth about births and deaths.
THEOREM AuditHolds == SysSpec => []AuditIsTruthful
<1>1. SysInv => AuditIsTruthful
  BY DEF SysInv, AuditInv
<1>. QED  BY <1>1, SysSpecInv, PTL

\* A pipe's channel never carries the messages of two agents.
THEOREM PipesStayApart == SysSpec => []PipesDoNotMix
<1>1. SysInv => PipesDoNotMix
  BY DEF SysInv, PipeInv
<1>. QED  BY <1>1, SysSpecInv, PTL

\* The dead stay dead: no id is ever given out again.
THEOREM NoResurrection == SysSpec => DeadStayDead
<1>1. ASSUME SysInv, [SysNext]_vars, NEW a, <<"AgentSpawned", a>> \in audit, a \notin Alive
      PROVE  a \notin Alive'
  <2>1. a \in Ids
    <3>1. <<"AgentSpawned", a>>[1] = "AgentSpawned" /\ <<"AgentSpawned", a>>[2] = a
      OBVIOUS
    <3>. QED  BY <1>1, <3>1 DEF SysInv, AuditInv
  <2>2. a # next_id
    BY <1>1, <2>1 DEF Ids, SysInv, AgentsInv
  <2>3. Alive' \subseteq Alive \cup {next_id}
    BY <1>1, SpawnMeans, NoSpawnMeans
  <2>. QED  BY <1>1, <2>2, <2>3
<1>2. SysInv /\ [SysNext]_vars =>
        [\A a \in 1 .. 2 * MaxCommands + 4 :
           (<<"AgentSpawned", a>> \in audit /\ a \notin Alive) => a \notin Alive']_vars
  BY <1>1
<1>. QED  BY <1>2, SysSpecInv, PTL DEF SysSpec, DeadStayDead

-----------------------------------------------------------------------------
(* Images that load and end. *)

EndingImages == Images \subseteq {"returns", "traps"}

\* With such images no agent is left behind with authority: what is live is the
\* guardian's or the agent's that runs, or about to be revoked.
HolderInv ==
    /\ \A i \in 1 .. Len(todo) :
          todo[i].op = "execute" => todo[i].image \in {"returns", "traps"}
    /\ \A h \in Caps!Live :
          \/ entries[h].owner = Guardian
          \/ run # None /\ entries[h].owner = run.id
          \/ /\ Calling("revoke")
             /\ entries[h].parent = GuardianHandle(Head(todo).resource)

\* Only images that the shell may run get onto the list.
LEMMA ListedImages ==
    ASSUME EndingImages, SysInv, HolderInv, [SysNext]_vars
    PROVE  \A i \in 1 .. Len(todo') :
               todo'[i].op = "execute" => todo'[i].image \in {"returns", "traps"}
<1>. DEFINE Ends(s) == \A i \in 1 .. Len(s) :
                          s[i].op = "execute" => s[i].image \in {"returns", "traps"}
<1>1. Ends(todo) /\ Script(todo)
  BY DEF HolderInv, SysInv
<1>2. CASE todo' = todo
  BY <1>1, <1>2
<1>3. CASE todo # <<>> /\ todo' = Tail(todo)
  <2>1. /\ Len(todo) \in Nat /\ Len(todo') = Len(todo) - 1
        /\ \A i \in 1 .. Len(todo') : todo'[i] = todo[i + 1]
    BY <1>1, <1>3, DoneMeans, ScriptParts
  <2>2. \A i \in 1 .. Len(todo') : i + 1 \in 1 .. Len(todo)
    BY <2>1
  <2>. QED  BY <1>1, <2>1, <2>2
<1>4. CASE Len(todo) > 1 /\ todo' = Tail(Tail(todo))
  <2>1. /\ Len(todo) \in Nat /\ Len(todo') = Len(todo) - 2
        /\ \A i \in 1 .. Len(todo') : todo'[i] = todo[i + 2]
    BY <1>1, <1>4, ScriptTailTail
  <2>2. \A i \in 1 .. Len(todo') : i + 2 \in 1 .. Len(todo)
    BY <2>1
  <2>. QED  BY <1>1, <2>1, <2>2
<1>5. CASE todo' = <<>>
  BY <1>5, EmptySeq
<1>6. CASE \A i \in 1 .. Len(todo') : todo'[i].image \in Images
  BY <1>6 DEF EndingImages
<1>. QED  BY <1>2, <1>3, <1>4, <1>5, <1>6, TodoStep

\* A kill of the guardian, or the end of the run, leaves what the others hold.
LEMMA HolderStep ==
    ASSUME EndingImages, SysInv, HolderInv, [SysNext]_vars
    PROVE  HolderInv'
<1>. DEFINE Holds(h) == \/ entries[h].owner = Guardian
                        \/ run # None /\ entries[h].owner = run.id
            Kept == \A h \in Caps!Live : Holds(h)
            Goal == \A h \in Caps!Live' :
                        \/ entries'[h].owner = Guardian
                        \/ run' # None /\ entries'[h].owner = run'.id
                        \/ /\ Calling("revoke")'
                           /\ entries'[h].parent = GuardianHandle(Head(todo).resource)'
<1>0. HandlesKept /\ Caps!Live \subseteq Caps!Used
  BY CapStep, CapInvMeans DEF SysInv
<1>1. Calling("revoke") \/ Kept
  BY DEF HolderInv
<1>2. ASSUME Caps!Live' \subseteq Caps!Live, Kept,
             \/ run' = run
             \/ run = None
             \/ run # None /\ todo' = todo
      PROVE  Goal
  <2>1. run # None => run' # None /\ run'.id = run.id
    BY <1>2, RunGoesOn
  <2>. QED  BY <1>0, <1>2, <2>1 DEF HandlesKept
<1>3. SUFFICES Goal
  BY ListedImages DEF HolderInv
<1>4. CASE GrantToGuardian
  <2>1. Kept /\ run' = run /\ run = None
    BY <1>1, <1>4 DEF GrantToGuardian, Calling, Done
  <2>. QED  BY <1>0, <1>4, <2>1, GuardianGrantMeans DEF HandlesKept
<1>5. CASE Delegate
  <2>1. Kept /\ run = None
    BY <1>1, <1>5 DEF Delegate, Calling
  <2>2. CASE UNCHANGED capVars
    <3>1. Caps!Live' = Caps!Live
      BY <2>2 DEF capVars, Caps!Live, Caps!Used
    <3>. QED  BY <1>2, <2>1, <3>1
  <2>3. CASE ~UNCHANGED capVars
    <3>1. PICK s \in Caps!Slots :
             /\ Caps!Live' = Caps!Live \cup {s}
             /\ entries'[s].parent = GuardianHandle(Head(todo).resource)
      BY <1>5, <2>3, DelegateMeans
    <3>2. ASSUME NEW h \in Caps!Live PROVE entries'[h].owner = Guardian
      BY <1>0, <2>1 DEF HandlesKept
    <3>3. /\ Calling("revoke")'
          /\ entries'[s].parent = GuardianHandle(Head(todo).resource)'
      BY <1>5, <2>3, <3>1, SameGuardianHandle
    <3>. QED  BY <3>1, <3>2, <3>3
  <2>. QED  BY <2>2, <2>3
<1>6. CASE RevokeDelegated
  <2>1. run = None /\ run' = run
    BY <1>6 DEF RevokeDelegated, Calling, Done
  <2>2. ASSUME NEW h \in Caps!Live' PROVE entries'[h].owner = Guardian
    <3>1. /\ h \in Caps!Live
          /\ entries[h].parent # GuardianHandle(Head(todo).resource)
      BY <1>6, RevokeMeans
    <3>. QED  BY <1>0, <2>1, <3>1 DEF HolderInv, HandlesKept
  <2>. QED  BY <2>2
<1>7. CASE \/ SpawnGuardian \/ GuardianReads \/ GuardianWrites \/ CreateChannel
           \/ Spawn \/ SpawnFails
  <2>1. ~Calling("revoke") /\ UNCHANGED entries /\ run = None
    BY <1>7 DEF SpawnGuardian, GuardianReads, GuardianWrites, ResourceRead,
       ResourceWrite, CreateChannel, Spawn, SpawnFails, Calling, capVars
  <2>2. Caps!Live' = Caps!Live
    BY <1>7, <2>1 DEF SpawnGuardian, GuardianReads, GuardianWrites, CreateChannel,
       Spawn, SpawnFails, Caps!Live, Caps!Used
  <2>. QED  BY <1>1, <1>2, <2>1, <2>2
<1>8. CASE GrantNext
  <2>1. run # None /\ Kept /\ todo' = todo /\ run' # None /\ run'.id = run.id
    BY <1>1, <1>8, RunGoesOn DEF GrantNext, Calling
  <2>2. ASSUME NEW h \in Caps!Live' PROVE entries'[h].owner \in {Guardian, run.id}
    <3>1. CASE h \in Caps!Live
      BY <1>0, <2>1, <3>1 DEF HandlesKept
    <3>2. CASE h \notin Caps!Live
      <4>1. ~UNCHANGED capVars
        BY <3>2 DEF capVars, Caps!Live, Caps!Used
      <4>2. PICK s \in Caps!Slots :
               /\ Caps!Live' = Caps!Live \cup {s}
               /\ entries'[s] = [resource |-> Head(run.wanted).resource,
                                 rights |-> {Head(run.wanted).right},
                                 owner |-> run.id, parent |-> None,
                                 expires_at |-> 0, revoked |-> FALSE]
        BY <1>8, <4>1, GrantNextMeans
      <4>. QED  BY <3>2, <4>2
    <3>. QED  BY <3>1, <3>2
  <2>. QED  BY <2>1, <2>2
<1>14. CASE LogKill
  <2>1. /\ run # None /\ run.id \notin Alive /\ ~Calling("revoke") /\ Kept
        /\ UNCHANGED entries
    BY <1>1, <1>14 DEF LogKill, Calling, SysInv, RunInv, capVars
  <2>2. Caps!Live' = Caps!Live
    BY <2>1 DEF Caps!Live, Caps!Used
  <2>3. ASSUME NEW h \in Caps!Live PROVE entries[h].owner \in Alive
    BY <2>1 DEF SysInv, AuthorityInv
  <2>4. ASSUME NEW h \in Caps!Live PROVE entries[h].owner = Guardian
    BY <2>1, <2>3
  <2>. QED  BY <2>1, <2>2, <2>4
<1>9. CASE LoadFails \/ NoStart
  <2>1. /\ run # None /\ todo # <<>> /\ Head(todo).op = "execute"
        /\ Head(todo).image \notin {"returns", "traps"}
    BY <1>9 DEF LoadFails, NoStart, Loading, SysInv, RunInv
  <2>2. 1 \in 1 .. Len(todo) /\ Head(todo) = todo[1]
    BY <2>1, HeadFacts DEF SysInv
  <2>. QED  BY <2>1, <2>2 DEF HolderInv
<1>10. CASE Load \/ HostCall
  <2>1. /\ run # None /\ todo' = todo /\ UNCHANGED entries /\ Kept
    BY <1>1, <1>10 DEF Load, HostCall, HostChanSend, HostChanRecv, HostFsWrite,
       Permitted, Called, Loading, Running, Calling, capVars, thread
  <2>2. Caps!Live' = Caps!Live
    BY <1>10, <2>1 DEF Load, HostCall, HostChanSend, HostChanRecv, HostFsWrite,
       Caps!Live, Caps!Used
  <2>. QED  BY <1>2, <2>1, <2>2
<1>11. CASE Finish
  <2>1. Kill(run.id) /\ UNCHANGED tick /\ run # None /\ Kept
    BY <1>1, <1>11 DEF Finish, Ended, Running, Calling
  <2>2. ASSUME NEW h \in Caps!Live' PROVE entries'[h].owner = Guardian
    <3>1. h \in Caps!Live /\ entries[h].owner # run.id
      BY <2>1, KillMeans
    <3>. QED  BY <1>0, <2>1, <3>1 DEF HandlesKept
  <2>. QED  BY <2>2
<1>12. CASE Shell
  <2>1. run = None /\ ~Calling("revoke") /\ Kept
    BY <1>1, <1>12 DEF Shell, Deploy, RunCommand, Pipe, Send, FileCommand,
       KillCommand, GcCommand, Command, AtPrompt, Calling
  <2>2. CASE KillCommand
    <3>1. PICK a : Kill(a) /\ UNCHANGED tick
      BY <2>2 DEF KillCommand
    <3>2. Caps!Live' \subseteq Caps!Live
      BY <3>1, KillMeans
    <3>. QED  BY <1>2, <2>1, <3>2
  <2>3. CASE ~KillCommand
    <3>1. UNCHANGED entries
      BY <1>12, <2>3 DEF Shell, Deploy, RunCommand, Pipe, Send, FileCommand,
         GcCommand, capVars
    <3>2. Caps!Live' = Caps!Live
      BY <1>12, <2>3, <3>1 DEF Shell, Deploy, RunCommand, Pipe, Send, FileCommand,
         GcCommand, Caps!Live, Caps!Used
    <3>. QED  BY <1>2, <2>1, <3>2
  <2>. QED  BY <2>2, <2>3
<1>13. CASE Loop \/ Wait \/ Timer \/ UNCHANGED vars
  <2>1. CASE Timer
    <3>1. UNCHANGED <<entries, todo, run>>
      BY <2>1 DEF Timer, capVars, thread
    <3>3. Caps!Live' = Caps!Live
      BY <3>1 DEF Caps!Live, Caps!Used
    <3>. QED  BY <3>1, <3>3 DEF HolderInv, Calling, GuardianHandle, GuardianHandles, Caps!Used
  <2>. QED  BY <1>13, <2>1 DEF Loop, Wait, vars, capVars, thread, HolderInv, Caps!Live, Caps!Used,
             Calling, GuardianHandle, GuardianHandles
<1>. QED
  BY <1>4, <1>5, <1>6, <1>7, <1>8, <1>9, <1>10, <1>11, <1>12, <1>13,
     <1>14 DEF SysNext, Boot, Execute

\* With images that load and end, an agent's authority ends with its run: in
\* between runs the guardian is the only holder.
THEOREM AuthorityEndsWithTheRun ==
    ASSUME EndingImages
    PROVE  SysSpec => []OnlyRunnerHoldsAuthority
<1>1. SysInit => HolderInv
  <2>. SUFFICES ASSUME SysInit PROVE HolderInv
    OBVIOUS
  <2>1. Caps!Live = {}
    BY DEF SysInit, Caps!Init, Caps!Live, Caps!Used
  <2>2. todo = BootScript /\ Len(todo) = 15
    BY BootScriptIsScript DEF SysInit
  <2>3. /\ todo[1].op # "execute" /\ todo[2].op # "execute" /\ todo[3].op # "execute"
        /\ todo[4].op # "execute" /\ todo[5].op # "execute" /\ todo[6].op # "execute"
        /\ todo[7].op # "execute" /\ todo[8].op # "execute" /\ todo[9].op # "execute"
        /\ todo[10].op # "execute" /\ todo[11].op # "execute"
        /\ todo[13].op # "execute"
        /\ todo[12].image = "returns" /\ todo[14].image = "returns"
        /\ todo[15].image = "returns"
    BY <2>2 DEF BootScript, Exec
  <2>4. ASSUME NEW i \in 1 .. 15
        PROVE  todo[i].op = "execute" => todo[i].image = "returns"
    BY <2>3, FifteenCases
  <2>. QED  BY <2>1, <2>2, <2>4 DEF HolderInv
<1>2. SysInv /\ HolderInv /\ [SysNext]_vars => HolderInv'
  BY HolderStep
<1>3. HolderInv => OnlyRunnerHoldsAuthority
  BY DEF HolderInv, OnlyRunnerHoldsAuthority
<1>. QED  BY <1>1, <1>2, <1>3, SysSpecInv, PTL DEF SysSpec
=============================================================================
