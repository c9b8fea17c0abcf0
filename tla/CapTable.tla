------------------------------ MODULE CapTable ------------------------------
(***************************************************************************)
(* The kernel capability table (cap_table.rs): the entries behind the      *)
(* opaque handles, and the operations the rest of the kernel performs on   *)
(* it while it holds the CAP_TABLE lock.  Every operation is one atomic    *)
(* action here; CapRevoke refines the cascading revocation into the steps  *)
(* of the recursive scan that the code runs.                               *)
(*                                                                         *)
(* Abstracted: the CapId and created_at fields of an entry (never read by  *)
(* a decision) and the fields of a ResourceRef beyond its identity.        *)
(***************************************************************************)
EXTENDS Naturals, FiniteSets

CONSTANTS
    Agents,           \* AgentId: any agent the callers name
    Resources,        \* ResourceRef values
    Rights,           \* the single rights; a Rights value is a set of them
    MaxCapabilities,  \* MAX_CAPABILITIES, the number of slots
    Timeouts,         \* lifetimes that callers ask for, 0 = never expires
    MaxTick,          \* bound on the timer (checking only)
    None              \* an empty slot, and the parent of a root capability

ASSUME MaxCapabilitiesAssumption == MaxCapabilities \in Nat \ {0}
ASSUME TimeoutsAssumption == Timeouts \subseteq Nat /\ MaxTick \in Nat

Slots == 0 .. (MaxCapabilities - 1)

\* A handle is a u32 that an agent may make up: one lies past the table.
Handles == 0 .. MaxCapabilities

CapEntry == [resource : Resources, rights : SUBSET Rights, owner : Agents,
             parent : Slots \cup {None}, expires_at : Nat, revoked : BOOLEAN]

ASSUME NoneAssumption == None \notin CapEntry /\ None \notin Nat

VARIABLES
    entries,       \* entries[i]: what slot i holds, None if it is free
    active_count,  \* the table's own count of non-revoked entries
    tick           \* current_tick: interrupts::ticks() as the caller of the next
                   \* operation read it, just before it took the lock

capVars == <<entries, active_count>>
vars == <<entries, active_count, tick>>

-----------------------------------------------------------------------------
Used == {i \in Slots : entries[i] # None}
Live == {i \in Used : ~entries[i].revoked}

\* Mutant: any free slot will do.
IsFirstFree_Any(s) == s \in Slots /\ entries[s] = None

\* Mutant: the slot of a revoked entry is used again.
IsFirstFree_OrRevoked(s) ==
    s \in Slots \ Live /\ \A i \in Slots : i < s => i \in Live

\* position(|e| e.is_none()): the first free slot, when there is one.
IsFirstFree(s) ==
    s \in Slots /\ entries[s] = None /\ \A i \in Slots : i < s => entries[i] # None

IsExpired(entry) == entry.expires_at > 0 /\ tick >= entry.expires_at

\* check: the first test that fails decides the error.
Check(h, required) ==
    IF h \notin Used THEN "InvalidHandle"
    ELSE IF entries[h].revoked THEN "Revoked"
    ELSE IF IsExpired(entries[h]) THEN "Expired"
    ELSE IF required \subseteq entries[h].rights THEN "Ok"
    ELSE "InsufficientRights"

\* The handles that one call of revoke on each member of H marks: the least
\* set that holds the live ones of H and every live child of a member.
ClosedUnderChildren(S) ==
    \A c \in Live : entries[c].parent \in S => c \in S

\* Mutant: revoke reaches the direct children only.
Cascade_DirectOnly(H) ==
    {i \in Live : i \in H \/ (H \cap Live # {} /\ entries[i].parent \in H)}

Cascade(H) ==
    LET live == Live
        roots == H \cap live
        children == {i \in live : entries[i].parent # None} IN
    {i \in live : \A S \in SUBSET children :
        ClosedUnderChildren(roots \cup S) => i \in roots \cup S}

SaturatingSub(m, n) == IF n <= m THEN m - n ELSE 0

\* Mutant: the count goes down once per call of revoke.
MarkRevoked_CountsCalls(S) ==
    /\ entries' = [i \in Slots |->
          IF i \in S THEN [entries[i] EXCEPT !.revoked = TRUE] ELSE entries[i]]
    /\ active_count' = SaturatingSub(active_count, 1)

MarkRevoked(S) ==
    /\ entries' = [i \in Slots |->
          IF i \in S THEN [entries[i] EXCEPT !.revoked = TRUE] ELSE entries[i]]
    /\ active_count' = SaturatingSub(active_count, Cardinality(S))

-----------------------------------------------------------------------------
Init ==
    /\ entries = [i \in Slots |-> None]
    /\ active_count = 0
    /\ tick = 0

\* Fill slot s; the tail of grant and of delegate.
Insert(s, entry) ==
    /\ IsFirstFree(s)
    /\ entries' = [entries EXCEPT ![s] = entry]
    /\ active_count' = active_count + 1

\* grant into slot s.  With no free slot it returns TableFull and changes
\* nothing: no step.
Grant(s, agent, resource, rights, expiry) ==
    Insert(s, [resource |-> resource, rights |-> rights, owner |-> agent,
               parent |-> None, expires_at |-> expiry, revoked |-> FALSE])

\* Mutant: the child of an expiring capability never expires.
Delegate_NoExpiry(s, parent, newOwner, newRights) ==
    /\ Check(parent, newRights) = "Ok"
    /\ Insert(s, [resource |-> entries[parent].resource, rights |-> newRights,
                  owner |-> newOwner, parent |-> parent, expires_at |-> 0,
                  revoked |-> FALSE])

\* delegate into slot s: whoever calls it, the parent must pass check for the
\* rights asked; resource and expiry come from the parent.
Delegate(s, parent, newOwner, newRights) ==
    /\ Check(parent, newRights) = "Ok"
    /\ Insert(s, [resource |-> entries[parent].resource, rights |-> newRights,
                  owner |-> newOwner, parent |-> parent,
                  expires_at |-> entries[parent].expires_at,
                  revoked |-> FALSE])

\* revoke on each member of H, with the cascades.
RevokeEach(H) == \E S \in {Cascade(H)} : MarkRevoked(S)

\* revoke: an invalid handle and one already revoked leave the table as it is.
Revoke(h) == RevokeEach({h})

\* Mutant: the agent's slots are freed for reuse at once.
RevokeAllForAgent_FreesSlots(agent) ==
    LET S == Cascade({i \in Live : entries[i].owner = agent}) IN
    /\ entries' = [i \in Slots |-> IF i \in S THEN None ELSE entries[i]]
    /\ active_count' = SaturatingSub(active_count, Cardinality(S))

RevokeAllForAgent(agent) ==
    RevokeEach({i \in Live : entries[i].owner = agent})

\* gc_expired: part of the table's interface; the kernel never calls it.
GcExpired == RevokeEach({i \in Live : IsExpired(entries[i])})

\* The next caller reads a later tick; MaxTick bounds the model.
Tick == tick < MaxTick /\ tick' = tick + 1 /\ UNCHANGED capVars

\* Mutant: "no expiry" kept as an absent value.
ExpiryOf_Option(timeout) == IF timeout = 0 THEN None ELSE tick + timeout

\* The callers turn a timeout into expires_at (0 stays 0 = never).
ExpiryOf(timeout) == IF timeout = 0 THEN 0 ELSE tick + timeout

GrantAny ==
    \E s \in Slots, a \in Agents, r \in Resources, R \in SUBSET Rights,
       t \in Timeouts : Grant(s, a, r, R, ExpiryOf(t)) /\ UNCHANGED tick

DelegateAny ==
    \E s \in Slots, p \in Handles, a \in Agents, R \in SUBSET Rights :
        Delegate(s, p, a, R) /\ UNCHANGED tick

RevokeAny == \E h \in Handles : Revoke(h) /\ UNCHANGED tick

RevokeAllAny == \E a \in Agents : RevokeAllForAgent(a) /\ UNCHANGED tick

GcAny == GcExpired /\ UNCHANGED tick

Next == GrantAny \/ DelegateAny \/ RevokeAny \/ RevokeAllAny \/ GcAny \/ Tick

Spec == Init /\ [][Next]_vars

-----------------------------------------------------------------------------
\* The table holds entries or nothing, and its count fits the table.
TypeOK ==
    /\ entries \in [Slots -> CapEntry \cup {None}]
    /\ active_count \in Nat
    /\ tick \in Nat

\* active_count, decremented inside a recursive cascade and by three callers
\* of it, is exactly the number of entries that are not revoked.
ActiveCountExact == active_count = Cardinality(Live)

\* Revocation reaches every descendant: no live capability was delegated,
\* however indirectly, from a revoked one.
NoOrphanAuthority ==
    \A c \in Live : entries[c].parent # None => entries[c].parent \in Live

\* Slots fill from below and a delegation only points down, so delegation
\* chains have no cycle and the recursion of revoke has a bottom.
ParentBelowChild ==
    \A c \in Used : entries[c].parent # None =>
        entries[c].parent \in Used /\ entries[c].parent < c

\* Whatever an agent can do with a delegated capability at this moment, the
\* parent handle allows too: same resource, and every check that the child
\* passes the parent passes (rights, expiry and revocation together).
ChildNeverExceedsParent ==
    \A c \in Used : entries[c].parent # None =>
        LET p == entries[c].parent IN
        /\ entries[c].resource = entries[p].resource
        /\ \A R \in SUBSET Rights : Check(c, R) = "Ok" => Check(p, R) = "Ok"

\* A handle that is refused stays refused: a slot is never reused for another
\* capability, no entry changes but to become revoked, and no later step
\* (a grant, a delegation, time passing) makes a failing check succeed.
RefusalIsFinal ==
    [][\A h \in Used, R \in SUBSET Rights :
          Check(h, R) # "Ok" => Check(h, R)' # "Ok"]_vars

\* A handle keeps meaning the same capability as long as the kernel runs.
HandlesAreStable ==
    [][\A h \in Used : entries'[h] \in
          {entries[h], [entries[h] EXCEPT !.revoked = TRUE]}]_vars
=============================================================================
