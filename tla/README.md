# tunicore: models, checks and proofs

A TLA+ development for the tunicore kernel (`src/kernel/src`) and its LLM bridge
(`src/tools/llm_bridge.py`).  Every definition that stands for code is listed in
`PROJECT.json` under "map" with the lines it translates.  Paths below are relative
to `src/kernel/src` unless they start with `src/`.

## The system

tunicore is a kernel for one processor.  `kmain` initialises the hardware and calls
`guardian::run`: a boot script that exercises the capability system and three WASM
agents, and then an interactive loop that never ends.  There is one thread.  WASM
agents are run synchronously by whoever deploys them, so the only concurrency inside
the kernel is between the thread and the interrupt handlers (keyboard and timer); the
other concurrency is between the kernel and the bridge process on the host, over the
serial line.  All shared state sits behind spinlocks (`spin::Mutex`), nothing is
persistent, and a panic stops the machine (`panic = "abort"`, a `hlt` loop), so there is
no crash recovery to model.  The default build has overflow checks.

| Component (files) | State | Operations | Used by | What is hard |
|---|---|---|---|---|
| Capability table (`cap_table.rs`, `capability/types.rs`, `resource.rs`) | `entries`, `active_count`, append-only slots | grant, delegate, revoke (recursive cascade), revoke_all_for_agent, gc_expired, check | syscalls, runtime, agent table | delegation forests, expiry, recursion inside a scan of the same array, slots that run out |
| Agent table (`agent.rs`) | agents with state, lifetime, budget, list of handles; `NEXT_AGENT_ID` | spawn, kill, gc, enforce_timeouts, budget calls | guardian, runtime, shell | dead agents and their authority, limits, lifetimes |
| WASM runtime (`wasm_runtime.rs`) | the host data of one run: handles and channel ids | execute_agent, host functions | guardian, shell | error paths that leave early, agents that never return |
| Syscall gate (`syscall.rs`) | none | cap_grant, resource_read, resource_write, cap_revoke, status | guardian | check, budget and audit in one order |
| Guardian (`guardian.rs`) | the boot script's position; `line_buf` | boot script, interactive loop | kmain | input from two sources, `hlt` races |
| Channels (`channel.rs`) | rings of 64 messages, registry | create, send, recv | runtime, shell | wrap-around, full rings, ids never freed |
| Kernel log, audit log (`klog.rs`, `audit.rs`) | rings; hash chain | log, recent; record | everything | wrap-around arithmetic, chain over a ring |
| VirtFS, environment (`virtfs.rs`, `env.rs`) | bounded vectors of named entries | write, touch, append, remove; set, unset | shell, host functions | limits against updates of what exists |
| Frame allocator (`memory/page_alloc.rs`) | bitmap, bounds, counters | init_from_memmap, alloc, free | boot, status | boundaries of the scan, the unsigned counter |
| Console (`keyboard.rs`, `interrupts.rs`, `serial.rs`, `chat_ui.rs`) | key ring and its lock, two line buffers | IRQ handlers, read_key, chat key input | guardian | interrupts between any two steps, a lock shared with a handler |
| LLM bridge (`llm.rs`, `src/tools/llm_bridge.py`) | one open query, framing state | query, forward, reply, keystrokes | shell | late replies, framing, two users of one line |
| Shell (`intent.rs`, `alias.rs`) | history ring, aliases | execute, `!!`, alias, commands | guardian | recursion of `execute`, index arithmetic |
| Natural language (`intent.rs`) | none | fuzzy_intent, suggest_command | shell | edit distance in two arrays, ties, what is near enough |
| Boot and hardware (`main.rs`, `hwdetect.rs`, `interrupts.rs`, `idt.rs`, `gdt.rs`) | what is set up; `APIC_MODE`; the interrupt flag | the steps of `kmain`, detection, `init`, `send_eoi` | – | a CPU without x2APIC, interrupts that are on before there is a heap |
| Keyboard (`keyboard.rs`) | `SHIFT_HELD` | `keyboard_handler` | console | one flag for two keys, codes that the keyboard makes up |
| Chat window (`chat_ui.rs`) | messages, size | `system_msg`, `user_msg`, `render` | guardian | unsigned arithmetic of the layout, what is cut off |
| Locks (all files) | `SERIAL`, `KLOG`, `CAP_TABLE`, `AGENT_TABLE`, `AUDIT_LOG`, `CHANNELS`, `FS`, `ENV`, `ALIASES`, `HISTORY`, `CHAT`, `KEY_BUFFER`, `FRAME_ALLOC` | lock, drop | everything | temporaries that live to the end of a match, `CHAT` held while a command runs, faults in the middle |
| Heap, boot header | – | – | – | not modelled, see the end |

### What makes each component correct

* **Capabilities.** The count is exact; no live capability descends from a revoked one;
  a delegated capability never allows what its parent refuses; a handle means one
  capability for ever; a refused check stays refused; every revocation returns and,
  seen from outside the lock, happens in one step.
* **Agents.** Authority belongs to agents that are alive; a dead agent stays dead; the
  handles that the host keeps stay valid while it uses them; what is in a channel was
  put there by somebody entitled to it, and so is what is in a file; the audit log does not
  lie; the prompt returns.  When an agent is killed or its time enforced, exactly the
  authority that came from it ends.
* **Data structures.** Each refines its abstract specification: a channel is a bounded
  queue, a store a bounded map, a log shows its latest entries, a frame has one owner.
* **Console.** Keys keep their order and are read in the end; nothing runs twice from
  one line.
* **Locks.** The thread never waits for a lock that it holds; only a handler can.
* **Boot.** Nothing is used before it is there, and interrupts find an APIC in the mode in
  which it is acknowledged; only a CPU without x2APIC can trap the boot.
* **Keyboard, chat window.** A letter has the case its shift key asked for; the window shows the
  latest messages, whole.
* **LLM.** An answer is one whole reply or its beginning, replies are not used twice, and a
  query gets another's reply only after a timeout.
* **Shell.** The history is the latest lines; a line runs away only through a circle of aliases or
  a "!!" that repeats itself; what is
  suggested for a mistyped command is the nearest there is.

## The modules

Where the code holds one lock for a whole call, the call is one step; where it does not,
or where the property is about the inside of a call, there is a step per piece.

* `CapTable` – the table with each call as one step.  `entries` and `active_count` are the
  fields of that name; `tick` is the timer.  `Grant`, `Delegate`, `Revoke`,
  `RevokeAllForAgent`, `GcExpired` are the methods; `Check` is an operator that returns
  the code's error.  The cascade is the least set closed under "live child of", so that
  the module needs no recursion and can be proved about.  `CapId`s and `created_at` are
  left out: nothing reads them.
* `CapRevoke` – the same table with the cascade as the code runs it: a stack of loops, one
  slot per step.  It EXTENDS `CapTable` and is shown to implement it
  (`RefinesAtomicRevoke`), the table before the call standing for the abstract one while
  the lock is held.
* `CapTableProofs`, `CapRevokeProofs`, `AgentTableProofs`, `AgentRuntimeProofs`, `RingProofs`,
  `ConsoleProofs`, `MachineProofs`, `StructureProofs` – the theorems, see "What is proved".
* `AgentTable` – the agent table and the syscalls as operators over the capability table
  (`INSTANCE CapTable`), and a specification that calls them in any order, with
  `enforce_timeouts` and `cap_revoke`, which nothing in the kernel calls.  Whose authority came
  from an agent (`Ancestry`) is again a least closed set, no recursion.
* `AgentRuntime` – EXTENDS `AgentTable` with the channel registry, a file that agents and
  shell share, the guardian's boot script, `execute_agent` and the commands of the shell
  that drive them.  The thread is the variable `todo` (the calls
  it has still to make) and `run` (the `execute_agent` it is in); a WASM image is one of
  five outcomes: rejected, no `_start`, returns, traps, never ends.  The cleanup is two steps
  under two locks, `Finish` (the kill) and `LogKill` (the audit record and the return);
  `Pipe` takes its channel before it knows the agents' names, and returns without a run when it
  does not know one.
* `BoundedQueue`, `BoundedMap` – the abstract specifications; `Channel` refines the first,
  `Stores` (VirtFS and the environment) the second.  Both remember the last call and its
  answer, so that the refinement covers what a call returns and not only what it leaves.
  `EntriesKept` is `retain` written by positions, because the provers know nothing of
  `SelectSeq`.
* `KernelLogs` – `klog.rs` and the ring and hash chain of `audit.rs`.  `fnv1a` is taken to be
  injective on what it hashes: the event, which stands for tick and agent too, and the hash
  before.  `details` stands for the handle and the result, which it does not hash.
* `FrameAlloc` – the bitmap as the set of clear bits.  `free` is called for any frame: one that
  the caller holds (`GiveBack`) or any other (`FreeAstray`: free already, reserved, another
  caller's, beyond the bitmap), which `strayed` remembers; `halted` is the panic of the counter
  at zero.
* `Console` – the key ring with its lock, the interrupt handlers, the loop of the guardian
  one step at a time, `hlt`, both line buffers.  A character is the number of its
  keystroke, so that running it twice shows.
* `LlmBridge` – both ends of the serial line and the bytes between them.  Of a reply's bytes it
  knows what the kernel tells apart: characters of one byte, the last byte of a longer one
  and those before it, and the two control bytes that frame a reply, which the bridge does
  not take out of it.  The letters of the header inside a reply are bytes like others, as the
  kernel only looks for them after STX; the bridge turns line breaks of a reply into blanks.
  A reply may be empty.  Backspace at the prompt is left out.
* `Shell` – `execute` up to the dispatch, the history, the aliases.  A line is a sequence of
  words, of which one may be a run of blanks as long as a history entry; an entry keeps the
  first `EntryWords`, and `execute` trims.  That a cut may fall inside a word is left out: the
  127 bytes kept then begin with the same words but for the last, and a word that long is no
  alias (16 bytes).  The kernel's stack holds `StackDepth` nested calls.
* `Suggest` – what becomes of a line that is no command: a topic, the suggestion of a
  command, or a question to the model.  The edit distance is filled row by row from the
  row before, as in the code, and compared with what so many edits of the word can reach.
* `Locks` – every path of the thread as the sequence of the locks it takes and drops.  A command
  is the set of its paths (`KillPaths`, `PipePaths`, ...); `execute`, `execute_agent`, a host
  call and a turn of the interactive loop are calls, so that paths compose as in the code.
  A keyboard interrupt or a fault may come before any step.
* `Boot` – `kmain` up to the guardian, for any CPU: its vendor, its features, the leaves of
  CPUID it has.  Timer and key interrupts come between the steps once they are enabled.
* `Keyboard` – an external keyboard with two shift keys, a letter and a grey key, with the codes
  it makes up around the grey key, and `keyboard_handler`.
* `ChatWindow` – the messages and the layout that `render` computes.
* `MC*` – the instances for TLC.  `MCStructures` drives the parts that share nothing with
  each other, one per behaviour, and `MCPrompt` the console or the shell, which share no more
  than the line that one hands to the other.

## The runs

Bounds named `MaxTick`, `MaxCommands`, `MaxLogged`, `MaxTyped`, `MaxEnters`, `MaxQueries`,
`MaxLines` cap what could grow for ever; the others are the code's own limits made small.

| Run | Instance | Shows |
|---|---|---|
| `cap_table` | 3 slots, 2 resources, 2 rights, expiry at once or never, 2 ticks; 171k states | the table's invariants; `RefusalIsFinal`, `HandlesAreStable` |
| `cap_revoke` | 4 slots, 2 agents: chains and forks of three delegations; 335k states | the recursive cascade implements the one-step cascade, never re-enters a handle, forgets no child, keeps the count throughout (`CascadeInvariant`) and returns |
| `agent_runtime` | boot, then 3 commands; 20 capability slots, 6 agents, 2 channels of 1 message; images rejected, without `_start`, ending or endless; 1.39M states | authority, handles, traffic on channels and files, audit, dead agents |
| `agent_pipes` | boot, then 2 commands with images that load and end; 7 agents, so the second pipe fails half-way, 3 channels; 20k states | only the running agent holds authority, pipes do not mix, the prompt returns |
| `structures` | rings of 3, stores of 2, 6 frames in bytes of 2, words of up to 4 letters against names of 2, 3 and 5, 3 capabilities of 2 agents, 360 CPUs, 24 sizes of window; 3 queries, replies of 0 to 3 bytes in a buffer of 2, one with a character across its end and one that looks like a frame, 6 keystrokes; 771k states | the refinements, the logs, the allocator, the suggestion; the end of an agent's authority, the locks, the boot, the shift flag, the chat window; answers whole or cut, in order, stray only when late |
| `prompt` | *console*: a ring for 2 keys, lines of 2 and 1, 3 characters and 3 other keys from either source; *shell*: 4 lines typed, with and without blanks between their words, 2 aliases over 3 words, a history of 2; 1.96M states | order of keys, no line twice, all input is read; history, `!!`, chains of aliases |
| `viol_timeouts` | one endless image | nobody enforces the lifetime of an agent |
| `viol_keyboard` | a key during `read_key` | the handler spins on a lock that the interrupted thread holds |
| `viol_alias` | an alias for itself | `execute` recurses until the stack ends |
| `viol_history` | `history` on a wrapped ring | an unsigned subtraction underflows |
| `viol_bang` | a line of "!!", blanks and a word | it is recorded and cut to what runs as "!!" |
| `viol_llm` | a reply cut inside a character | the query returns another text |

Why the bounds are enough.  *Capabilities*: the hazards are about parent and child, chains
of two edges, siblings and a full table; three slots have the first two and the last,
four have forks below a child too.  The proofs remove these bounds.  *Agents*: the
boot script takes 16 of the 20 slots, 4 of the 6 places and one of the two channels, so that
all three run out within the next commands; three commands are enough for an
agent to be run, killed and collected, and two for a pipe after a pipe.  *Agent table*: three
capabilities make a chain of two delegations through an agent that has left the table.  *Rings*: three slots and seven
entries wrap twice.  *Frames*: a byte of two frames and a map that may begin, end or break
off anywhere give every alignment of `min_frame` and `max_frame` in a byte, and frame 6 is beyond the bitmap.  *Locks*:
no bound; the calls that an agent or the loop may go on making are the only loops.  *Boot*: all
CPUs that detection tells apart, with one feature for each leaf of CPUID.  *Window*: the heights on either
side of each change in the layout, and seven messages where four fit.  *Keyboard*: one letter and one
grey key, up to three waiting codes when a key goes down, more than a key and its made-up
codes need.  *Console*: three
characters overrun both lines and the key ring.  *LLM*: with three
queries a reply may be two queries late.  *Shell*: a ring of two is wrapped by the third
line; the stack of four holds `!!`, the line, and a chain of two aliases, the longest
there is without a circle.

`cap_table` uses symmetry (agents and resources are interchangeable and it checks no
liveness).  `cap_revoke` checks liveness, so instead of symmetry it fixes the owner of slot
0, which no operation can tell from another.  `structures` has `CHECK_DEADLOCK FALSE`: nobody
need call a data structure again, the logs end at `MaxLogged`, and a fault or a trap halts.
A structure that may start in many states does so only in the behaviours that drive it.

### Fairness

* `WF(Walk)` in `CapRevoke`: the loops of `revoke` are plain code of the thread that holds the
  lock.
* `WF(Boot \/ Execute)` and `WF(Timer)` in `AgentRuntime`: the thread goes on by itself
  through the boot script and through `execute_agent`; the APIC timer is periodic.
  Commands and host calls are not fair: nobody has to type, an image need not
  call anything.  An endless image takes `Loop` steps for ever.
* `WF(Loop)` and `WF(OtherIrq)` in `Console`: the loop is plain code, and the periodic timer
  wakes it from `hlt`.  Interrupts are only enabled when there is an APIC (`main.rs`
  103-114); without one, input that comes after the last look is not promised.

## What is proved

TLC checks small instances; these theorems hold for every value of the constants that the
modules' assumptions allow.  The assumptions are that limits are natural numbers (where the code
divides by one or puts something in, not 0), that timeouts are ticks, and that `None` and the
like are none of the values they are told apart from.  Two have a
hypothesis of their own: `AuthorityEndsWithTheRun`, that all images load and end, and
`OnlyCirclesRunAway`, that the stack holds `MAX_ALIASES` + 2 = 34 calls of `execute`, as many as
`NestingIsBounded` shows there can be without a circle and a "!!" that repeats itself, whatever the
stack holds.  Four properties have a condition in their statement: the three of the bridge
are about replies without STX and ETX in them (`Framed`), because nothing else marks where a
frame ends; and `FramesAreExclusive` is about callers that free what they hold (`~strayed`).

| Module | Theorem | States |
|---|---|---|
| `CapTableProofs` | `TypeCorrect`, `CountIsExact`, `RevocationIsTransitive`, `DelegationIsAcyclic`, `NoEscalation`, `HandleStability`, `RefusalFinality` | all that `cap_table` checks |
| `CapRevokeProofs` | `CascadeKeepsCount` | `CascadeInvariant` |
| | `ScanIsAtomic` | `RefinesAtomicRevoke`: `CapRevoke` implements `CapTable` |
| `AgentTableProofs` | `HolderEndsAuthority` | `AuthorityEndsWithItsHolder` |
| `AgentRuntimeProofs` | `RuntimeTypeCorrect`, `DeathEndsAuthority`, `HandlesStayGood`, `TrafficIsAllowed`, `AuditHolds`, `PipesStayApart`, `NoResurrection` | `SysTypeOK`, `DeadHoldNothing`, `HandlesOutliveTheRun`, `TrafficIsAuthorised`, `AuditIsTruthful`, `PipesDoNotMix`, `DeadStayDead` |
| | `AuthorityEndsWithTheRun` | `OnlyRunnerHoldsAuthority`, with images that load and end |
| `RingProofs` | `RingStaysConsistent`, `RingIsAQueue` | `RingIsConsistent`; `Channel` implements `BoundedQueue` |
| | `DmesgIsRight`, `TamperingIsFound` | `DmesgShowsTheLatest`; `TamperingShows`, for the fields that are hashed |
| `ConsoleProofs` | `KeysKeepTheirOrder`, `NoCharacterRunsTwice`, `ConsoleTypeOK` | `KeyBufferIsAQueue`, `NothingRunsTwiceFromALine`; `TypeOK` |
| `MachineProofs` | `BootIsOrdered`, `ShiftIsRight`, `WindowShowsTheEnd` | `BootOnlyTrapsWithoutX2apic`, `ShiftFollowsTheKeys`, `LatestMessagesAreShown` |
| | `AnswersAreReplies`, `AnswersKeepOrder`, `OnlyLateRepliesStray`, `BridgeTypeOK` | `AnswersAreWhole`, `AnswersInOrder`, `StrayRepliesAreLate`; `TypeOK` |
| `StructureProofs` | `FramesHaveOneOwner`, `FrameCountIsExact` | `FramesAreExclusive`, `UsedCountIsExact` |
| | `StoresStayMaps` | `StoresAreMaps`: both stores implement `BoundedMap` |
| | `HistoryIsRight` | `HistoryIsTheLatest` |
| | `NestingIsBounded`, `OnlyCirclesRunAway` | a bound on nested calls of `execute` without a loop; `RunawayNeedsALoop`, if the stack holds them |
| | `OnlyHandlersWait` | `OnlyHandlersHang` |
| | `NearestIsSuggested` | `SuggestionIsTheNearest` |

How the arguments go:

* **`CapTable`.**  `IInv` joins the type invariant, the exact count, that no live entry
  has a revoked parent, that parents lie below their children, and two facts that no run
  states: slots fill from below (so a new entry's handle is above all that are in
  use, and no entry can be the child of an unused slot), and a delegated entry attenuates
  its parent (same resource and expiry, no more rights), of which
  `ChildNeverExceedsParent` is the consequence that a caller of `check` sees.
  `NoOrphanAuthority` is only preserved by a revocation because the set it revokes has the
  root and, with an entry, all its live children: lemma `CascadeProperties`.  The count needs that
  the number of live entries drops by the size of the cascade, which is a fact about
  cardinalities of finite sets and the saturating subtraction.  The action properties follow
  from the invariant: an entry changes only in its flag, from FALSE to TRUE, and the tick
  never goes back.
* **`CapRevoke`.**  In the middle of a cascade there are live children of revoked entries, so
  `WalkInv` keeps all of `IInv` but `NoOrphanAuthority` and says instead whose they are: of a
  loop that is still on the stack and has not passed them (`OrphansAreOwned`,
  `ScannedIsDone`).  The other parts say which entry each loop is about and that the calls
  descend, that `gc_expired` still has the tick it was given, and that so far only entries of
  the one-step cascade are marked.  When the outermost loop returns there is no loop left to own
  an orphan, so all that is live is outside the cascade, and all that was marked was in it:
  the table is what the one step would have made.
* **Agents.**  `HolderEndsAuthority` is about one step: the lemmas of the first half of
  `AgentTableProofs` say what each call does to the handles in use and to the live ones, and
  the cascade of a holder's entries is what descends from them.
  `AgentRuntime` needs one invariant, `SysInv`, for the calls that the thread still
  has to make (`Script`), the agents, the guardian, the live authority, the run, the audit log,
  the traffic and the pipes.  The parts lean on each other: `DeadHoldNothing` needs that a host
  call's handle is the running agent's and that the guardian is alive as long as the script
  uses it; the handles stay good because they never expire and only a kill of their owner would
  revoke them, which cannot come while it runs: the handles count until `Finish`, and between
  `Finish` and `LogKill` the agent of the run is dead (`RunInv`), so that the log only says so
  afterwards; traffic is authorised for ever because a
  grant stays in its slot after it is revoked.  In one state the authority of
  an agent that does not exist is live: the boot script delegates to id 99 and then revokes,
  under one hold of the lock.  `AuthorityInv` names that state.  For `OnlyRunnerHoldsAuthority`
  `HolderInv` adds that the calls to come have images that end.
* **Rings.**  Positions are sums below twice the capacity, so a remainder is at most one
  subtraction (`Wraps`), and a slot is occupied when its offset from the tail is less than the
  count.  For the logs the invariant says where the entry `i` places back from the newest is, and
  for the audit log that each entry kept has the hash of the one before; an entry changed in a
  field that is hashed then differs in its hash from what the next one, or `last_hash`, remembers.
* **Console.**  The order of keys needs of the ring only that its indices are in it
  (`RingInv`); the positions again need one subtraction.  For
  `NoCharacterRunsTwice` the invariant `ConsoleInv` follows each character on its way: it is
  in one place of the ring, the serial line and the loop's hand (`OnTheWayOnce`), and for
  each of the two lines what is still to come, what the line holds and what it has run are
  disjoint (`FreshLines`).  A new character is new because all that has been anywhere has a
  number up to `typed`.
* **Boot.**  `BootInv` says for each step of `kmain` what is ready before it (`ReadyAt`) and
  what mode the APIC is in (`ApicOK`): until the fallback or the x2APIC path has set
  `APIC_MODE` no timer is set up, and once it is the mode is the APIC's own, so an interrupt
  at any later point ends where it should.
* **Keyboard.**  What the handler will do with the codes that wait is fixed when they are
  sent.  `WillRead` gives it a witness: the flag after each code and the number of letters up
  to it.  `KeyboardInv` says that all of these letters will get the case that is meant and that
  the last flag is the one that is asked for (`Settled`), unless something made up is still to be
  taken back (`UndoSettles`).  The keyboard adds a code at the end of the witness
  (`ReadsCode`, `ReadsLetter`), the handler takes the first one off (`ReadsFirst`).
* **Window.**  Arithmetic: without an overflow the column lies within the width, and as many
  bubbles fit below the header as the quotient says (`LayoutFits`), so the cut-off in
  `render`'s loop never takes effect (`BubblesAre`).
* **Bridge.**  The invariant is about the bytes from the one that the kernel has read last to the
  end of the line (`Stream`): each may follow the one before, so that only the first frame may be
  broken off, and no reply is older than one that ended before it.  `ParserInv` ties the query's
  state machine to that first byte: with the header seen, the body is what the buffer takes of
  the reply up to it (`Cut`), even if the query that began to listen in the middle of a frame is not
  the one that was replied to.  The order of the answers follows from that of the replies on the
  way, at the bridge and before it (`Asked`, `QueriesInv`).  All this holds as long as no reply
  sent has a frame's own bytes in it, and what was sent stays sent (`Framed`).  For `OnlyLateRepliesStray` each of these
  with nothing older given up is the reply to the query that the kernel waits for (`Awaited`):
  when that one is given up, all are late, and when it is answered on time, nothing newer can be
  on the way.
* **Frames.**  Until a caller strays, a frame that may be used is free or held, never both, and
  the bounds of the scan are the least and the greatest usable frame, so nothing free lies outside
  them.  Least elements come from the well-foundedness of the numbers.  The count needs
  none of this: the counter and the number of clear bits change by one, together and against each
  other, whatever frame is freed; and it is not zero when a holder gives a frame back, because
  that frame is counted.
* **Stores.**  A vector without duplicate names is a map (`SizeMap`) of as many keys as it has
  entries; overwriting, appending, removing and retaining are the map's updates.
* **History.**  Again the slot `i` places back from the head holds the line that was recorded
  `i`-th last (`RingOf`), and both branches of `iter_recent` compute that slot.
* **Aliases.**  The aliases expanded on the way to a line lead to each other or to that line
  (`WayTo`).  Expanding one of them again would close a circle, so without one each call but
  the line's and that of "!!" has an alias of its own (`ChainInv`), and the table has at most
  `MAX_ALIASES`.  "!!" adds one call only, if the entry that it repeats does not trim to "!!".
* **Locks.**  `LocksInv` says that the path ahead leads from what is locked to some end without
  taking a lock twice (`Leads`), its calls left out.  A call may be replaced by any path of
  what is called, because all of these give back what they take (`Neutral`); that holds for
  each command by the way it is put together, from calls, locks held around neutral paths, and
  neutral paths in a row.  `Under` says what may be held at a call: the chat, when the loop
  executes a line.  The keyboard handler takes the ring's lock and no other, so that is the only
  one it can find held (`KeyIsStuck`).
* **Suggestion.**  A cell of the table need be right only up to two edits: `Cell` says that
  for k up to 2 it is at most k just when k edits lead from the start of the word to the start
  of the name.  The step from three cells to the next (`CellStep`) is that of the edit
  distance: `WithinFromParts` makes the edits, `WithinToParts` shows that there are no others,
  by putting the last edits off from the ends of both words (`EditsFromTheRight`).  What has
  been compared is then the best so far (`BestOf`), and the first of its equals.
  That a row exists at all, `NextRow` being recursive, and that all of its cells are
  right is shown by a least cell that would be wrong.

Only model-checked is liveness (`EveryCallReturns`, `PromptReturns`,
`InputIsEventuallyRead`), which the prover cannot do under fairness.

## Where the code and its documentation part

With a run:

* `agent.rs` says of an agent "Time-limited (max lifetime, auto-killed on expiry)"; nothing calls
  `enforce_timeouts` (`viol_timeouts`).
* `keyboard.rs` calls `read_key` "non-blocking"; with interrupts enabled while it holds
  `KEY_BUFFER`, the handler can spin for ever on it (`viol_keyboard`).
* `alias.rs` says that aliases "expand to existing commands"; they expand to aliases too,
  and a circle overflows the stack (`viol_alias`).
* `intent.rs:100` says that "!!" is not recorded; a line of "!!", 125 blanks or more and a character
  is, its entry trims to "!!", and the next "!!" repeats itself until the stack ends
  (`viol_bang`).
* `llm.rs:8` says that a query returns the response; one of more than 1024 bytes, which 900
  characters can be, may be cut inside a character, and the query then returns
  "[invalid utf8]" (`viol_llm`).
* The README promises a "ring buffer with `!!` repeat"; once the ring has wrapped, listing it computes
  `head - show + i` from the left, which underflows (`viol_history`).

Stated by a property as the code does it, against the documentation: `klog.rs:94` says of `recent`
"newest first", and `DmesgShowsTheLatest` holds with the oldest first; `audit.rs:4` says that the hash
chain "makes tampering detectable", and `TamperingShows` holds for tick, agent, event and previous
hash, but the hash (`audit.rs:66-74`) leaves out the handle and the result, in which an entry can be
changed unseen.

Seen while modelling, not made into runs: `MAX_CAPABILITIES` is called the maximum of *active*
capabilities (`cap_table.rs:14`) but limits those ever granted; an agent's list of its capabilities
(`agent.rs:112`) is filled for the guardian only and never emptied; the audit log is said to
record all operations (`audit.rs:3`) but the shell's `kill` is not in it; host functions do not count
against the I/O budget (`agent.rs:7`); delegation does not ask for the GRANT right
(`capability/types.rs:45`); an agent whose image is rejected stays in the table and keeps its
capabilities (the `?` of `wasm_runtime.rs:98`); terminated agents count against the limit on concurrent
ones (`agent.rs:17`) until `gc`; a pipe of unknown agents takes a channel, and no channel is
ever freed; a reply with STX or ETX in it is cut there, and its rest goes to the next reader;
`chan_recv` loses a message whose copy fails; x2APIC is enabled without asking `hw.x2apic`, and the
fallback keeps 32 bits of the APIC's address; releasing one shift key clears the flag while the other is held;
the chat window shows no message at all on a screen
of 182 to 249 lines, though one would fit from 234, panics below 182, lets text run
out of its bubble, and never trims its messages; a keyboard line is executed by the chat and again by the code commented "Also echo to
serial" (`guardian.rs`); the first 256 frames are counted as used whether or not they are
usable, and one of them that is freed may be handed out (`free` takes any frame).

## Not modelled, and why

* What a command prints, how it parses its arguments, and which keywords make a topic: wording.
  Commands that only print keep no state; the locks they take are in `Locks`.
* The heap allocator: an array handed to an external crate.  Running out of heap is not
  modelled; where the code bounds its collections the bound is.
* The contents of GDT, TSS and IDT, and the values written to controllers and the UART.
* Pixels, and the header that `framebuffer.rs` draws once at boot.
* Inside a WASM agent: its memory and instructions (wasmi is external).
* The entries of the scancode tables; `keyboard::init`'s read of a waiting byte, which with
  interrupts enabled the handler has usually taken already.
* The budgets for memory, compute and children: nothing charges or asks for them.

## Plan

The order was: capabilities first (the kernel's purpose), then the agents that hold
them, then the data structures, the console, the bridge, the shell; then the agent table
with the calls nobody makes yet, locks, boot, keyboard and window; then the proofs about capabilities,
agents, rings, the console, the boot, keyboard and window, the bridge, stores, frames, the
history, aliases, locks and the suggestion.  That is done: every safety property that a
passing run checks is proved.  What would come next is the code's own next step: the timeouts that nothing
enforces and the budgets that nothing charges, once the kernel calls them.
