----------------------------- MODULE CapRevoke ------------------------------
(***************************************************************************)
(* The cascade as cap_table.rs runs it: revoke marks one entry and then    *)
(* scans the whole table, calling itself on every live child it meets;     *)
(* revoke_all_for_agent and gc_expired scan the table and call revoke on   *)
(* the entries they select.  The three loops have one shape, a frame that  *)
(* tests slot after slot, and the recursion is a stack of frames.          *)
(*                                                                         *)
(* The table is locked from the call to its return, so other operations    *)
(* wait for an empty stack.  before is a history variable: the table at    *)
(* the call, which is what anyone who does not hold the lock can tell.     *)
(***************************************************************************)
EXTENDS CapTable, Sequences

VARIABLES
    stack,   \* the active loops, the innermost last
    before   \* the table when the outermost call began, None when idle

walkVars == <<entries, active_count, tick, stack, before>>

Frame ==
    [test : {"child"}, key : Slots, next : 0 .. MaxCapabilities]
      \cup [test : {"owner"}, key : Agents, next : 0 .. MaxCapabilities]
      \cup [test : {"expired"}, key : Nat, next : 0 .. MaxCapabilities]

\* The condition inside the loop of frame f, at slot i.
Selects(f, i) ==
    /\ i \in Live
    /\ f.test = "child" => entries[i].parent = f.key
    /\ f.test = "owner" => entries[i].owner = f.key
    /\ f.test = "expired" =>
          entries[i].expires_at > 0 /\ f.key >= entries[i].expires_at

Idle == stack = <<>>
Top == stack[Len(stack)]
Below == SubSeq(stack, 1, Len(stack) - 1)
\* Mutant: the loop index does not move.
Advanced_Stuck(f) == f

Advanced(f) == [f EXCEPT !.next = @ + 1]
Children(h) == [test |-> "child", key |-> h, next |-> 0]

\* The body of revoke before its loop.
Mark(h) ==
    /\ entries' = [entries EXCEPT ![h].revoked = TRUE]
    /\ active_count' = SaturatingSub(active_count, 1)

Enter(frame) ==
    /\ Idle
    /\ stack' = <<frame>>
    /\ before' = [entries |-> entries, active_count |-> active_count]
    /\ UNCHANGED tick

WalkInit == Init /\ stack = <<>> /\ before = None

\* revoke of a live entry; a handle that is invalid or already revoked
\* returns at once.
CallRevoke(h) == h \in Live /\ Mark(h) /\ Enter(Children(h))

CallRevokeAll(agent) ==
    Enter([test |-> "owner", key |-> agent, next |-> 0]) /\ UNCHANGED capVars

CallGc ==
    Enter([test |-> "expired", key |-> tick, next |-> 0]) /\ UNCHANGED capVars

\* One iteration that finds nothing to do in its slot.
Skip ==
    /\ ~Idle /\ Top.next < MaxCapabilities
    /\ ~Selects(Top, Top.next)
    /\ stack' = Append(Below, Advanced(Top))
    /\ UNCHANGED <<entries, active_count, tick, before>>

\* Mutant: the child is marked, its own children are not visited.
Descend_MarksOnly ==
    /\ ~Idle /\ Top.next < MaxCapabilities
    /\ Selects(Top, Top.next)
    /\ Mark(Top.next)
    /\ stack' = Append(Below, Advanced(Top))
    /\ UNCHANGED <<tick, before>>

\* One iteration that calls revoke on the entry in its slot.
Descend ==
    /\ ~Idle /\ Top.next < MaxCapabilities
    /\ Selects(Top, Top.next)
    /\ Mark(Top.next)
    /\ stack' = Append(Append(Below, Advanced(Top)), Children(Top.next))
    /\ UNCHANGED <<tick, before>>

\* Mutant: the loop stops one slot short.
Return_OneShort ==
    /\ ~Idle /\ Top.next \in {MaxCapabilities - 1, MaxCapabilities}
    /\ stack' = Below
    /\ before' = IF Len(stack) = 1 THEN None ELSE before
    /\ UNCHANGED <<entries, active_count, tick>>

\* The loop ran to the end of the table: back to the caller.
Return ==
    /\ ~Idle /\ Top.next = MaxCapabilities
    /\ stack' = Below
    /\ before' = IF Len(stack) = 1 THEN None ELSE before
    /\ UNCHANGED <<entries, active_count, tick>>

Walk == Skip \/ Descend \/ Return

\* Everything else needs the lock, or belongs to the caller between calls.
Other ==
    Idle /\ (GrantAny \/ DelegateAny \/ Tick) /\ UNCHANGED <<stack, before>>

WalkNext ==
    \/ Walk
    \/ \E h \in Handles : CallRevoke(h)
    \/ \E a \in Agents : CallRevokeAll(a)
    \/ CallGc
    \/ Other

\* The loops are plain code of the thread that holds the lock: they go on.
WalkSpec == WalkInit /\ [][WalkNext]_walkVars /\ WF_walkVars(Walk)

-----------------------------------------------------------------------------
\* What the lock shows of the table: nothing of a cascade until its end.
Abs == INSTANCE CapTable WITH
    entries <- IF Idle THEN entries ELSE before.entries,
    active_count <- IF Idle THEN active_count ELSE before.active_count

WalkTypeOK ==
    /\ TypeOK
    /\ stack \in Seq(Frame)
    /\ Idle <=> before = None

\* The recursive scan has the effect of the one-step cascade of CapTable.
RefinesAtomicRevoke == Abs!Spec

\* The pending calls are a path down the delegation forest, each on a child
\* of the one below it: no call re-enters a handle, and the recursion is no
\* deeper than the table has slots (plus the loop that started it).
CallsDescend ==
    /\ \A k \in 2 .. Len(stack) : stack[k].test = "child"
    /\ \A k \in 1 .. Len(stack) - 1 :
          stack[k].test = "child" =>
             /\ entries[stack[k + 1].key].parent = stack[k].key
             /\ stack[k].key < stack[k + 1].key

\* A revoked entry has a live child only while some pending loop has yet to
\* reach that child's slot.
UnreachedChildrenArePending ==
    \A c \in Live :
        LET p == entries[c].parent IN
        (p # None /\ p \notin Live) =>
            \E k \in 1 .. Len(stack) :
                stack[k].test = "child" /\ stack[k].key = p /\ stack[k].next <= c

\* What holds in the middle of a cascade, of the calls, the table and the count:
\* it gets everywhere, through nothing twice, and counts what it revokes.
CascadeInvariant == CallsDescend /\ UnreachedChildrenArePending /\ ActiveCountExact

\* Every call returns.
EveryCallReturns == ~Idle ~> Idle
=============================================================================
