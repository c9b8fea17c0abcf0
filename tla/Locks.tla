------------------------------- MODULE Locks --------------------------------
(***************************************************************************)
(* Which spinlock is taken under which, on every path of the kernel's      *)
(* thread: the boot script, the interactive loop, every command, the run   *)
(* of an agent and its host functions.  A path is the sequence of the      *)
(* locks and unlocks it makes, with the guards where Rust drops them: at   *)
(* the end of the block, at drop, at the end of the statement for a        *)
(* temporary, and at the end of the match or if let for a temporary in     *)
(* its scrutinee.  A loop makes the calls of its body once, since it makes *)
(* the same ones again.                                                    *)
(*                                                                         *)
(* A keyboard interrupt can come before any step, and so can a fault: an   *)
(* exception of the CPU or a panic, whose handler prints and halts without *)
(* giving up what the thread held.                                         *)
(***************************************************************************)
EXTENDS Sequences

VARIABLES
    ahead,    \* what the thread has still to do, handlers included
    locked,   \* the locks that are taken
    handler   \* what runs: "thread", "keyboard" or "fault"

lockVars == <<ahead, locked, handler>>

\* A body under a lock, and a lock that is taken for one expression.
Hold(lock, body) == << <<"lock", lock>> >> \o body \o << <<"unlock", lock>> >>
Take(lock) == Hold(lock, <<>>)

\* serial_println!: SERIAL is locked before the arguments are formatted.
Println == Take("SERIAL")
Klog == Take("KLOG")

\* Calls with paths of their own, chosen when the call is made.
Call(f) == << <<"call", f>> >>

\* One of the paths A, then one of the paths B.
Joined(A, B) == {a \o b : a \in A, b \in B}

-----------------------------------------------------------------------------
(* The commands, each as the set of its paths.  A usage or an unknown name *)
(* is the path Println.                                                    *)

InfoPaths == {Println}

StatusPaths ==
    {Take("CAP_TABLE") \o Take("AGENT_TABLE") \o Take("AUDIT_LOG") \o Take("FS")
       \o Println}

AgentsPaths == {Hold("AGENT_TABLE", Println)}

KillPaths ==
    {Println, Hold("AGENT_TABLE", Take("CAP_TABLE") \o Println),
     Hold("AGENT_TABLE", Println)}

CapsPaths == {Hold("CAP_TABLE", Println)}

AuditPaths == {Hold("AUDIT_LOG", Println)}

Channel0 == Take("CHANNELS")  \* ensure_channel_0

DeployPaths ==
    {Println, Println \o Call("execute_agent") \o Println,
     Println \o Channel0 \o Call("execute_agent") \o Println}

SendPaths == {Println, Channel0 \o Hold("CHANNELS", Println)}

MemPaths == {Take("FRAME_ALLOC") \o Println \o Hold("FS", Println)}

PipePaths ==
    LET first == Println \o Take("CHANNELS") \o Println \o Call("execute_agent")
                   \o Println
    IN  {Println, Println \o Hold("CHANNELS", Println),
         Println \o Take("CHANNELS") \o Println, first,
         first \o Hold("CHANNELS", Println) \o Println \o Call("execute_agent")
           \o Println}

TopPaths ==
    {Take("AGENT_TABLE") \o Take("CAP_TABLE") \o Take("AUDIT_LOG")
       \o Take("FRAME_ALLOC") \o Take("FS") \o Println}

\* Mutant: the count is kept under the guard that gc then waits for.
GcPaths_OneBlock == {Hold("AGENT_TABLE", Take("AGENT_TABLE")) \o Println}

GcPaths == {Take("AGENT_TABLE") \o Take("AGENT_TABLE") \o Println}

\* set and get print in the match on what the temporary guard returned; unset
\* prints in an if, whose condition has dropped it.
EnvPaths == {Println, Hold("ENV", Println), Take("ENV") \o Println}

RunPaths == {Println, Println \o Call("execute_agent") \o Println}

AliasPaths == {Println, Hold("ALIASES", Println), Take("ALIASES") \o Println}

HistoryPaths == {Hold("HISTORY", Println)}

SysinfoPaths ==
    {Println \o Take("ENV") \o Println \o Take("FRAME_ALLOC") \o Println \o Take("FS")
       \o Println \o Take("AGENT_TABLE") \o Println \o Take("CAP_TABLE") \o Println
       \o Take("AUDIT_LOG") \o Println \o Take("ALIASES") \o Take("HISTORY")
       \o Println}

\* llm::query: SERIAL for the question, then for each look at the line.
Query == Take("SERIAL") \o Take("SERIAL")
AskPaths == {Println, Println \o Query \o Println}

DmesgPaths == {Hold("KLOG", Println)}

FilePaths == {Println, Hold("FS", Println)}

CommandPaths ==
    InfoPaths \cup StatusPaths \cup AgentsPaths \cup KillPaths \cup CapsPaths
      \cup AuditPaths \cup DeployPaths \cup SendPaths \cup MemPaths \cup PipePaths
      \cup TopPaths \cup GcPaths \cup EnvPaths \cup RunPaths \cup AliasPaths
      \cup HistoryPaths \cup SysinfoPaths \cup AskPaths \cup DmesgPaths
      \cup FilePaths

\* execute: an empty line; `!!` with and without a history; an alias, whose
\* guard is dropped before the expansion is executed; a command, or a line
\* that fuzzy_intent turns into a command, a suggestion or a question.
ExecutePaths ==
    {<<>>, Hold("HISTORY", Println),
     Take("HISTORY") \o Println \o Call("execute")}
    \cup Joined({Take("ALIASES"), Take("HISTORY") \o Take("ALIASES")},
                {Println \o Call("execute")} \cup CommandPaths)

-----------------------------------------------------------------------------
(* An agent. *)

HostPaths ==
    {Take("CAP_TABLE") \o Println,                 \* log
     Take("CAP_TABLE") \o Take("CHANNELS"),        \* chan_send, chan_recv
     Take("CAP_TABLE") \o Hold("FS", Println),     \* fs_write
     Take("CAP_TABLE") \o Take("FS") \o Println,   \* fs_read
     Take("ENV") \o Println}                       \* env_get

\* execute_agent: full table, image rejected, or a run with as many host calls
\* as the agent likes, from its start section on, and the cleanup.
ExecuteAgentPaths ==
    LET spawned == Println \o Klog \o Take("AGENT_TABLE") \o Take("AUDIT_LOG")
        granted == Take("CAP_TABLE") \o Hold("CAP_TABLE", Println)
                     \o Take("CAP_TABLE") \o Take("CAP_TABLE")
    IN  {Println \o Klog \o Take("AGENT_TABLE"),
         spawned \o granted \o Call("agent"),
         spawned \o granted \o Call("agent") \o Take("AGENT_TABLE") \o Println
           \o Call("agent") \o Println
           \o Hold("AGENT_TABLE", Take("CAP_TABLE")) \o Take("AUDIT_LOG")}

-----------------------------------------------------------------------------
(* The guardian. *)

GrantPaths ==
    {Take("CAP_TABLE") \o Take("AGENT_TABLE") \o Take("AUDIT_LOG"),
     Hold("CAP_TABLE", Take("AUDIT_LOG"))}

ReadPaths == {Take("CAP_TABLE") \o Take("AUDIT_LOG") \o Println}

WritePaths ==
    {Take("CAP_TABLE") \o Take("AGENT_TABLE") \o Println \o Take("AUDIT_LOG"),
     Take("CAP_TABLE") \o Hold("AGENT_TABLE", Take("AUDIT_LOG")),
     Take("CAP_TABLE") \o Take("AUDIT_LOG")}

\* run, up to the loop: each kind of call once.
GuardianScript ==
    Println \o Take("AGENT_TABLE") \o Println \o Call("cap_grant") \o Println
      \o Call("resource_read") \o Call("resource_write") \o Println
      \o Hold("CAP_TABLE", Println)
      \o Take("CAP_TABLE") \o Take("AGENT_TABLE") \o Take("AUDIT_LOG") \o Println
      \o Call("execute_agent") \o Take("CHANNELS") \o Println
      \o Hold("CHANNELS", Println) \o Println
      \o Take("CHAT") \o Take("CHAT") \o Println \o Call("loop")

\* kmain: KLOG after each step, the frame allocator prints under its lock.
KmainScript ==
    Println \o Klog \o Hold("FRAME_ALLOC", Println) \o Klog \o Take("AUDIT_LOG")
      \o Println \o Take("ENV") \o Println \o GuardianScript

\* One turn of interactive_loop.  A key goes to the chat, which executes a line
\* while CHAT is locked, and to the serial line's buffer; a byte from the serial
\* line is shown in the chat before its line is executed.
LoopPaths ==
    LET key == Take("KEY_BUFFER") \o Hold("CHAT", <<>>)
        keyRun == Take("KEY_BUFFER") \o Hold("CHAT", Call("execute"))
        echo == {<<>>, Take("SERIAL"), Println \o Println,
                 Println \o Call("execute") \o Println}
        byte == Take("KEY_BUFFER") \o Take("SERIAL")
        shown == {<<>>, Take("SERIAL"), Println \o Println,
                  Println \o Take("CHAT") \o Call("execute") \o Println}
    IN  Joined(Joined({key, keyRun}, echo) \cup Joined({byte}, shown), {Call("loop")})

\* The paths of a call; an agent calls the host and goes on, or is done.
PathsOf(f) ==
    CASE f = "execute" -> ExecutePaths
      [] f = "execute_agent" -> ExecuteAgentPaths
      [] f = "agent" -> {<<>>} \cup {path \o Call("agent") : path \in HostPaths}
      [] f = "cap_grant" -> GrantPaths
      [] f = "resource_read" -> ReadPaths
      [] f = "resource_write" -> WritePaths
      [] f = "loop" -> LoopPaths

-----------------------------------------------------------------------------
LockInit == ahead = KmainScript /\ locked = {} /\ handler = "thread"

NextIs(kind) == ahead # <<>> /\ Head(ahead)[1] = kind

Lock ==
    /\ NextIs("lock") /\ Head(ahead)[2] \notin locked
    /\ locked' = locked \cup {Head(ahead)[2]}
    /\ ahead' = Tail(ahead) /\ UNCHANGED handler

Unlock ==
    /\ NextIs("unlock")
    /\ locked' = locked \ {Head(ahead)[2]}
    /\ ahead' = Tail(ahead) /\ UNCHANGED handler

Choose ==
    /\ NextIs("call")
    /\ \E path \in PathsOf(Head(ahead)[2]) : ahead' = path \o Tail(ahead)
    /\ UNCHANGED <<locked, handler>>

\* keyboard_handler: nothing it calls can wait but the lock of the key ring.
KeyboardIrq ==
    /\ handler = "thread"
    /\ handler' = "keyboard"
    /\ ahead' = Take("KEY_BUFFER") \o << <<"iret", handler>> >> \o ahead
    /\ UNCHANGED locked

Iret ==
    /\ NextIs("iret")
    /\ handler' = Head(ahead)[2] /\ ahead' = Tail(ahead) /\ UNCHANGED locked

\* An exception handler or the panic handler: print, print, halt for good.
\* (Before the IDT is loaded an exception resets the machine instead.)
Fault ==
    /\ handler # "fault"
    /\ handler' = "fault" /\ ahead' = Println \o Println
    /\ UNCHANGED locked

LockNext == Lock \/ Unlock \/ Choose \/ KeyboardIrq \/ Iret \/ Fault

-----------------------------------------------------------------------------
\* The one CPU waits for a lock that it holds itself: for ever.
Spinning == NextIs("lock") /\ Head(ahead)[2] \in locked

\* No path of the kernel takes a lock that the path already holds.  What can
\* hang is a handler that came in the middle of a critical section: a key while
\* read_key has the key ring, and a fault while a line is being printed, whose
\* report is then never seen.
OnlyHandlersHang ==
    Spinning => <<handler, Head(ahead)[2]>> \in
                    {<<"keyboard", "KEY_BUFFER">>, <<"fault", "SERIAL">>}
=============================================================================
