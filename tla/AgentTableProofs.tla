-------------------------- MODULE AgentTableProofs --------------------------
(***************************************************************************)
(* What the agent table promises of authority, for every limit and every   *)
(* sequence of calls.  The first part turns the lemmas of CapTableProofs   *)
(* into what each call on the capability table does to the handles in use  *)
(* and to the live ones; AgentRuntimeProofs builds on it too.              *)
(***************************************************************************)
EXTENDS AgentTable, FiniteSetTheorems, TLAPS

CapProofs == INSTANCE CapTableProofs WITH
    Agents <- Nat, Rights <- {"READ", "WRITE", "EXECUTE", "GRANT"},
    Timeouts <- {0, ComputeTimeout}

AllRights == {"READ", "WRITE", "EXECUTE", "GRANT"}

\* The inductive invariant of the capability table.
CapInv == CapProofs!IInv

-----------------------------------------------------------------------------
(* The calls on the capability table. *)

\* The constants are such as CapTable assumes.
LEMMA CapAssumptions ==
    /\ MaxCapabilities \in Nat \ {0}
    /\ {0, ComputeTimeout} \subseteq Nat /\ MaxTick \in Nat
    /\ None \notin CapProofs!CapEntry /\ None \notin Nat
    /\ None \notin Caps!CapEntry
BY TableLimitsAssumption, AbsentAssumption
   DEF Caps!CapEntry, CapProofs!CapEntry, Caps!Slots, CapProofs!Slots

\* The instances of CapTable and of CapTableProofs speak of the same table.
LEMMA SameTable ==
    /\ CapProofs!Slots = Caps!Slots
    /\ CapProofs!CapEntry = Caps!CapEntry
    /\ CapProofs!Used = Caps!Used
    /\ CapProofs!Live = Caps!Live
    /\ CapProofs!TypeOK = Caps!TypeOK
    /\ \A H : CapProofs!ClosedUnderChildren(H) = Caps!ClosedUnderChildren(H)
    /\ \A H : CapProofs!Cascade(H) = Caps!Cascade(H)
BY DEF CapProofs!Slots, Caps!Slots, CapProofs!CapEntry, Caps!CapEntry,
       CapProofs!Used, Caps!Used, CapProofs!Live, Caps!Live, CapProofs!TypeOK,
       Caps!TypeOK, CapProofs!ClosedUnderChildren, Caps!ClosedUnderChildren,
       CapProofs!Cascade, Caps!Cascade

\* Cardinality is the same operator in every instance.
LEMMA SameCardinality ==
    \A S : CapProofs!Cardinality(S) = Caps!Cardinality(S)
BY DEF CapProofs!Cardinality, Caps!Cardinality

\* The invariant at hand: the type, and that no live entry has a dead parent.
LEMMA CapInvMeans ==
    ASSUME CapInv
    PROVE  /\ Caps!TypeOK
           /\ \A h \in Caps!Live : entries[h].parent # None =>
                 entries[h].parent \in Caps!Live
           /\ Caps!Live \subseteq Caps!Used /\ Caps!Used \subseteq Caps!Slots
           /\ \A h \in Caps!Used : entries[h] \in Caps!CapEntry
<1>1. Caps!TypeOK /\ CapProofs!NoOrphanAuthority
  BY SameTable DEF CapInv, CapProofs!IInv
<1>2. \A h \in Caps!Live : entries[h].parent # None =>
                 entries[h].parent \in Caps!Live
  BY <1>1, SameTable DEF CapProofs!NoOrphanAuthority
<1>. QED  BY <1>1, <1>2 DEF Caps!TypeOK, Caps!Live, Caps!Used

\* Filling a slot adds one live handle and leaves the other slots alone.
LEMMA InsertEffect ==
    ASSUME CapInv, NEW s \in Caps!Slots, NEW entry \in Caps!CapEntry,
           Caps!Insert(s, entry), ~entry.revoked
    PROVE  /\ s \notin Caps!Used
           /\ entries'[s] = entry
           /\ \A i \in Caps!Used : entries'[i] = entries[i]
           /\ Caps!Used' = Caps!Used \cup {s}
           /\ Caps!Live' = Caps!Live \cup {s}
<1>1. entries \in [Caps!Slots -> Caps!CapEntry \cup {None}]
  BY CapInvMeans DEF Caps!TypeOK
<1>2. /\ entries[s] = None /\ s \notin Caps!Used
      /\ entries' = [entries EXCEPT ![s] = entry]
  BY DEF Caps!Insert, Caps!IsFirstFree, Caps!Used
<1>3. /\ entries'[s] = entry
      /\ \A i \in Caps!Slots : i # s => entries'[i] = entries[i]
  BY <1>1, <1>2
<1>4. entry # None
  BY CapAssumptions
<1>5. Caps!Used' = Caps!Used \cup {s}
  BY <1>3, <1>4 DEF Caps!Used
<1>6. Caps!Live' = Caps!Live \cup {s}
  BY <1>2, <1>3, <1>5 DEF Caps!Live, Caps!Used
<1>. QED  BY <1>2, <1>3, <1>5, <1>6 DEF Caps!Used

\* grant adds one live root capability.
LEMMA GrantEffect ==
    ASSUME CapInv, tick' = tick, NEW s \in Caps!Slots, NEW a \in Nat,
           NEW r \in Resources, NEW R \in SUBSET AllRights,
           NEW t \in {0, ComputeTimeout},
           Caps!Grant(s, a, r, R, Caps!ExpiryOf(t))
    PROVE  /\ CapInv'
           /\ s \notin Caps!Used
           /\ entries'[s] = [resource |-> r, rights |-> R, owner |-> a,
                             parent |-> None, expires_at |-> Caps!ExpiryOf(t),
                             revoked |-> FALSE]
           /\ \A i \in Caps!Used : entries'[i] = entries[i]
           /\ Caps!Used' = Caps!Used \cup {s}
           /\ Caps!Live' = Caps!Live \cup {s}
<1>. DEFINE entry == [resource |-> r, rights |-> R, owner |-> a,
                      parent |-> None, expires_at |-> Caps!ExpiryOf(t),
                      revoked |-> FALSE]
<1>1. CapProofs!Grant(s, a, r, R, CapProofs!ExpiryOf(t))
  BY DEF Caps!Grant, CapProofs!Grant, Caps!ExpiryOf, CapProofs!ExpiryOf,
         Caps!Insert, CapProofs!Insert, Caps!IsFirstFree, CapProofs!IsFirstFree,
         Caps!Slots, CapProofs!Slots
<1>2. CapInv'
  <2>1. CapProofs!IInv /\ UNCHANGED tick /\ s \in CapProofs!Slots
    BY SameTable DEF CapInv
  <2>. QED
    BY <1>1, <2>1, CapAssumptions, CapProofs!GrantPreserves DEF CapInv, AllRights
<1>3. tick \in Nat /\ t \in Nat
  BY CapInvMeans, CapAssumptions DEF Caps!TypeOK
<1>4. Caps!ExpiryOf(t) \in Nat
  BY <1>3 DEF Caps!ExpiryOf
<1>5. entry \in Caps!CapEntry /\ ~entry.revoked
  BY <1>4 DEF Caps!CapEntry, AllRights
<1>6. Caps!Insert(s, entry)
  BY DEF Caps!Grant
<1>. HIDE DEF entry
<1>7. /\ s \notin Caps!Used
      /\ entries'[s] = entry
      /\ \A i \in Caps!Used : entries'[i] = entries[i]
      /\ Caps!Used' = Caps!Used \cup {s}
      /\ Caps!Live' = Caps!Live \cup {s}
  BY <1>5, <1>6, InsertEffect
<1>. QED  BY <1>2, <1>7 DEF entry

\* delegate adds one live capability below a live one.
LEMMA DelegateEffect ==
    ASSUME CapInv, tick' = tick, NEW s \in Caps!Slots, NEW p \in Caps!Handles,
           NEW a \in Nat, NEW R \in SUBSET AllRights, Caps!Delegate(s, p, a, R)
    PROVE  /\ CapInv'
           /\ p \in Caps!Live /\ s \notin Caps!Used
           /\ entries'[s] = [resource |-> entries[p].resource, rights |-> R,
                             owner |-> a, parent |-> p,
                             expires_at |-> entries[p].expires_at,
                             revoked |-> FALSE]
           /\ \A i \in Caps!Used : entries'[i] = entries[i]
           /\ Caps!Used' = Caps!Used \cup {s}
           /\ Caps!Live' = Caps!Live \cup {s}
<1>. DEFINE entry == [resource |-> entries[p].resource, rights |-> R,
                      owner |-> a, parent |-> p,
                      expires_at |-> entries[p].expires_at, revoked |-> FALSE]
<1>1. CapProofs!Delegate(s, p, a, R)
  BY DEF Caps!Delegate, CapProofs!Delegate, Caps!Check, CapProofs!Check,
         Caps!IsExpired, CapProofs!IsExpired, Caps!Used, CapProofs!Used,
         Caps!Insert, CapProofs!Insert, Caps!IsFirstFree, CapProofs!IsFirstFree,
         Caps!Slots, CapProofs!Slots
<1>2. CapInv'
  <2>1. /\ CapProofs!IInv /\ UNCHANGED tick
        /\ s \in CapProofs!Slots /\ p \in CapProofs!Handles
    BY SameTable DEF CapInv, Caps!Handles, CapProofs!Handles
  <2>. QED
    BY <1>1, <2>1, CapAssumptions, CapProofs!DelegatePreserves
       DEF CapInv, AllRights
<1>3. p \in Caps!Live
  BY DEF Caps!Delegate, Caps!Check, Caps!Live
<1>4. entries[p] \in Caps!CapEntry /\ p \in Caps!Slots
  BY <1>3, CapInvMeans
<1>5. entry \in Caps!CapEntry /\ ~entry.revoked
  BY <1>4 DEF Caps!CapEntry, AllRights
<1>6. Caps!Insert(s, entry)
  BY DEF Caps!Delegate
<1>. HIDE DEF entry
<1>7. /\ s \notin Caps!Used
      /\ entries'[s] = entry
      /\ \A i \in Caps!Used : entries'[i] = entries[i]
      /\ Caps!Used' = Caps!Used \cup {s}
      /\ Caps!Live' = Caps!Live \cup {s}
  BY <1>5, <1>6, InsertEffect
<1>. QED  BY <1>2, <1>3, <1>7 DEF entry

\* revoke ends what it cascades over, and changes nothing else.
LEMMA RevokeEffect ==
    ASSUME CapInv, NEW H, Caps!RevokeEach(H)
    PROVE  /\ tick' = tick => CapInv'
           /\ \A i \in Caps!Used : /\ entries'[i].owner = entries[i].owner
                                   /\ entries'[i].resource = entries[i].resource
                                   /\ entries'[i].rights = entries[i].rights
                                   /\ entries'[i].parent = entries[i].parent
                                   /\ entries'[i].expires_at = entries[i].expires_at
           /\ Caps!Used' = Caps!Used
           /\ Caps!Live' = Caps!Live \ Caps!Cascade(H)
           /\ Caps!Cascade(H) \subseteq Caps!Live
           /\ Caps!Live \cap H \subseteq Caps!Cascade(H)
           /\ Caps!ClosedUnderChildren(Caps!Cascade(H))
<1>. DEFINE S == Caps!Cascade(H)
<1>1. CapProofs!IInv /\ CapProofs!TypeOK
  BY DEF CapInv, CapProofs!IInv
<1>2. /\ S \subseteq Caps!Live
      /\ Caps!Live \cap H \subseteq S
      /\ Caps!ClosedUnderChildren(S)
  <2>1. /\ CapProofs!Cascade(H) \subseteq CapProofs!Live
        /\ H \cap CapProofs!Live \subseteq CapProofs!Cascade(H)
        /\ CapProofs!ClosedUnderChildren(CapProofs!Cascade(H))
    BY CapAssumptions, CapProofs!CascadeProperties
  <2>. QED  BY <2>1, SameTable
<1>3. Caps!MarkRevoked(S)
  BY DEF Caps!RevokeEach
<1>4. CapProofs!MarkRevoked(CapProofs!Cascade(H))
  BY <1>3, SameTable, SameCardinality DEF Caps!MarkRevoked, CapProofs!MarkRevoked,
     Caps!SaturatingSub, CapProofs!SaturatingSub
<1>5. CapProofs!RevokeEach(H)
  BY <1>4 DEF CapProofs!RevokeEach
<1>6. tick' = tick => CapInv'
  <2>1. ASSUME UNCHANGED tick PROVE CapProofs!IInv'
    BY <1>1, <1>5, <2>1, CapAssumptions, CapProofs!CascadePreserves
  <2>. QED  BY <2>1 DEF CapInv
<1>7. /\ CapProofs!Used' = CapProofs!Used
      /\ CapProofs!Live' = CapProofs!Live \ CapProofs!Cascade(H)
  <2>1. CapProofs!Cascade(H) \in SUBSET CapProofs!Live
    BY <1>2, SameTable
  <2>. QED
    BY <1>1, <1>4, <2>1, CapAssumptions, CapProofs!MarkRevokedEffect
<1>8. Caps!Used' = Caps!Used /\ Caps!Live' = Caps!Live \ S
  <2>1. Caps!Used' = CapProofs!Used' /\ Caps!Live' = CapProofs!Live'
    BY DEF CapProofs!Slots, Caps!Slots, CapProofs!Used, Caps!Used,
           CapProofs!Live, Caps!Live
  <2>. QED  BY <1>7, <2>1, SameTable
<1>9. ASSUME NEW i \in Caps!Used
      PROVE  /\ entries'[i].owner = entries[i].owner
             /\ entries'[i].resource = entries[i].resource
             /\ entries'[i].rights = entries[i].rights
             /\ entries'[i].parent = entries[i].parent
             /\ entries'[i].expires_at = entries[i].expires_at
  <2>1. entries[i] \in Caps!CapEntry /\ i \in Caps!Slots
    BY CapInvMeans
  <2>2. entries'[i] = IF i \in S THEN [entries[i] EXCEPT !.revoked = TRUE]
                                 ELSE entries[i]
    BY <1>3, <2>1 DEF Caps!MarkRevoked
  <2>. HIDE DEF S
  <2>. QED  BY <2>1, <2>2 DEF Caps!CapEntry
<1>. QED  BY <1>2, <1>6, <1>8, <1>9

\* Nothing in the invariant is about the time, but that it is a number.
LEMMA CapUnchanged ==
    ASSUME CapInv, UNCHANGED <<entries, active_count>>, tick' \in Nat \cup {tick}
    PROVE  CapInv'
BY DEF CapInv, CapProofs!IInv, CapProofs!TypeOK, CapProofs!ActiveCountExact,
       CapProofs!NoOrphanAuthority, CapProofs!ParentBelowChild,
       CapProofs!SlotsFillFromBelow, CapProofs!DelegationAttenuates,
       CapProofs!Used, CapProofs!Live

-----------------------------------------------------------------------------
(* The cascade and the lines of descent. *)

\* A capability is in its own line, and the line of its parent is in its line.
LEMMA AncestryStep ==
    ASSUME NEW h \in Caps!Slots
    PROVE  /\ h \in Ancestry(h)
           /\ h \in Caps!Used /\ entries[h].parent # None =>
                 Ancestry(entries[h].parent) \subseteq Ancestry(h)
           /\ ~(h \in Caps!Used /\ entries[h].parent # None) =>
                 Ancestry(h) \subseteq {h}
<1>1. h \in Ancestry(h)
  BY DEF Ancestry
<1>2. ASSUME h \in Caps!Used, entries[h].parent # None,
             NEW x \in Ancestry(entries[h].parent)
      PROVE  x \in Ancestry(h)
  <2>1. ASSUME NEW S \in SUBSET Caps!Slots, h \in S, ClosedUnderParents(S)
        PROVE  x \in S
    <3>1. entries[h].parent \in S
      BY <1>2, <2>1 DEF ClosedUnderParents
    <3>. QED  BY <1>2, <2>1, <3>1 DEF Ancestry
  <2>. QED  BY <1>2, <2>1 DEF Ancestry
<1>3. ASSUME ~(h \in Caps!Used /\ entries[h].parent # None)
      PROVE  Ancestry(h) \subseteq {h}
  <2>1. {h} \in SUBSET Caps!Slots /\ ClosedUnderParents({h})
    BY <1>3 DEF ClosedUnderParents
  <2>. QED  BY <2>1 DEF Ancestry
<1>. QED  BY <1>1, <1>2, <1>3

\* A revocation that begins in H reaches the live capabilities that H is in
\* the line of, and no others.
LEMMA CascadeIsDescent ==
    ASSUME CapInv, NEW H
    PROVE  Caps!Live \ Caps!Cascade(H) = Surviving(H)
<1>. DEFINE S == Caps!Cascade(H)
            T == {h \in Caps!Live : Ancestry(h) \cap H # {}}
            children == {i \in Caps!Live : entries[i].parent # None}
<1>1. /\ S \subseteq Caps!Live /\ Caps!Live \cap H \subseteq S
      /\ Caps!ClosedUnderChildren(S)
  <2>1. /\ CapProofs!Cascade(H) \subseteq CapProofs!Live
        /\ H \cap CapProofs!Live \subseteq CapProofs!Cascade(H)
        /\ CapProofs!ClosedUnderChildren(CapProofs!Cascade(H))
    BY CapAssumptions, CapProofs!CascadeProperties
  <2>. QED  BY <2>1, SameTable
<1>2. S \subseteq T
  <2>1. H \cap Caps!Live \subseteq T
    BY AncestryStep, CapInvMeans
  <2>2. T \ H \subseteq children
    <3>1. SUFFICES ASSUME NEW h \in T, h \notin H, entries[h].parent = None
                   PROVE  FALSE
      OBVIOUS
    <3>2. h \in Caps!Slots
      BY CapInvMeans
    <3>. QED  BY <3>1, <3>2, AncestryStep
  <2>3. Caps!ClosedUnderChildren(T)
    <3>1. SUFFICES ASSUME NEW c \in Caps!Live, entries[c].parent \in T
                   PROVE  c \in T
      BY DEF Caps!ClosedUnderChildren
    <3>2. c \in Caps!Used /\ c \in Caps!Slots /\ entries[c].parent \in Caps!Slots
      BY <3>1, CapInvMeans
    <3>3. None \notin Caps!Slots
      BY CapAssumptions DEF Caps!Slots
    <3>4. Ancestry(entries[c].parent) \subseteq Ancestry(c)
      BY <3>2, <3>3, AncestryStep
    <3>. QED  BY <3>1, <3>4
  <2>4. T = (H \cap Caps!Live) \cup (T \ H)
    BY <2>1
  <2>. HIDE DEF T
  <2>5. (T \ H) \in SUBSET children
        /\ Caps!ClosedUnderChildren((H \cap Caps!Live) \cup (T \ H))
    BY <2>2, <2>3, <2>4
  <2>6. \A i \in S : i \in (H \cap Caps!Live) \cup (T \ H)
    BY <2>5 DEF Caps!Cascade
  <2>. QED  BY <2>4, <2>6
<1>3. T \subseteq S
  <2>1. SUFFICES ASSUME NEW h \in Caps!Live \ S PROVE Ancestry(h) \cap H = {}
    OBVIOUS
  <2>. HIDE DEF S
  <2>2. Caps!Live \ S \in SUBSET Caps!Slots
    BY CapInvMeans
  <2>3. ClosedUnderParents(Caps!Live \ S)
    BY <1>1, CapInvMeans DEF ClosedUnderParents, Caps!ClosedUnderChildren
  <2>4. Ancestry(h) \subseteq Caps!Live \ S
    BY <2>1, <2>2, <2>3 DEF Ancestry
  <2>. QED  BY <2>4, <1>1
<1>. QED  BY <1>2, <1>3 DEF Surviving

-----------------------------------------------------------------------------
(* The inductive invariant of the agent table. *)

AgentRecord ==
    [state : {"Initializing", "Active", "Terminated"}, spawn_tick : Nat,
     max_lifetime : Nat, capabilities : SUBSET Caps!Slots, used_io : Nat]

\* The ids count up, so that the next one is new.
TableInv ==
    /\ CapInv
    /\ next_id \in Nat \ {0}
    /\ DOMAIN agents \subseteq 1 .. next_id - 1
    /\ \A a \in DOMAIN agents : agents[a] \in AgentRecord

\* The invariant holds of an empty table.
LEMMA TableInitInv == TableInit => TableInv
<1>. SUFFICES ASSUME TableInit PROVE TableInv
  OBVIOUS
<1>1. CapProofs!Init
  BY DEF TableInit, Caps!Init, CapProofs!Init, Caps!Slots, CapProofs!Slots
<1>2. CapInv
  BY <1>1, CapAssumptions, CapProofs!InitIInv DEF CapInv
<1>3. DOMAIN agents = {}
  BY DEF TableInit
<1>. QED  BY <1>2, <1>3 DEF TableInit, TableInv

\* Terminating some agents of the table.
LEMMA TerminateEffect ==
    ASSUME \A a \in DOMAIN agents : agents[a] \in AgentRecord,
           NEW A \in SUBSET DOMAIN agents,
           agents' = [a \in DOMAIN agents |->
              IF a \in A THEN [agents[a] EXCEPT !.state = "Terminated"]
                         ELSE agents[a]]
    PROVE  /\ DOMAIN agents' = DOMAIN agents
           /\ \A a \in DOMAIN agents' : agents'[a] \in AgentRecord
           /\ Alive' = Alive \ A
<1>1. \A a \in DOMAIN agents : /\ agents[a] \in AgentRecord
                               /\ agents'[a] = IF a \in A
                                    THEN [agents[a] EXCEPT !.state = "Terminated"]
                                    ELSE agents[a]
  OBVIOUS
<1>2. \A a \in DOMAIN agents : /\ agents'[a] \in AgentRecord
                               /\ a \in A => agents'[a].state = "Terminated"
  BY <1>1 DEF AgentRecord
<1>. QED  BY <1>1, <1>2 DEF Alive

\* kill is the termination of one agent.
LEMMA KillTerminates ==
    ASSUME NEW a, Kill(a)
    PROVE  /\ a \in DOMAIN agents
           /\ agents' = [b \in DOMAIN agents |->
                 IF b \in {a} THEN [agents[b] EXCEPT !.state = "Terminated"]
                              ELSE agents[b]]
           /\ Caps!RevokeEach({h \in Caps!Live : entries[h].owner \in {a}})
<1>1. Caps!RevokeAllForAgent(a) /\ a \in DOMAIN agents
  BY DEF Kill
<1>2. {h \in Caps!Live : entries[h].owner = a}
        = {h \in Caps!Live : entries[h].owner \in {a}}
  OBVIOUS
<1>. QED  BY <1>1, <1>2 DEF Caps!RevokeAllForAgent, Kill

\* Revoking all that the agents of A own ends what came through them.
LEMMA RevokingHolders ==
    ASSUME CapInv, NEW A, Caps!RevokeEach({h \in Caps!Live : entries[h].owner \in A})
    PROVE  Caps!Live' = Surviving(OwnedBy(A))
<1>. DEFINE H == {h \in Caps!Live : entries[h].owner \in A}
<1>1. Caps!Live' = Surviving(H)
  BY RevokeEffect, CascadeIsDescent
<1>2. ASSUME NEW h \in Caps!Live
      PROVE  Ancestry(h) \subseteq Caps!Live
  <2>1. Caps!Live \in SUBSET Caps!Slots /\ ClosedUnderParents(Caps!Live)
    BY CapInvMeans DEF ClosedUnderParents
  <2>. QED  BY <2>1, <1>2 DEF Ancestry
<1>3. H = OwnedBy(A) \cap Caps!Live
  BY CapInvMeans DEF OwnedBy
<1>. QED  BY <1>1, <1>2, <1>3 DEF Surviving

\* Every call keeps the invariant.
LEMMA TableNextInv == TableInv /\ [TableNext]_tableVars => TableInv'
<1>. SUFFICES ASSUME TableInv, [TableNext]_tableVars PROVE TableInv'
  OBVIOUS
<1>. USE DEF TableInv
<1>1. CASE SpawnAny
  <2>1. PICK lifetime \in {0, AgentLifetime} :
           agents' = WithAgent(next_id, NewAgent(lifetime))
    BY <1>1 DEF SpawnAny
  <2>2. tick \in Nat /\ lifetime \in Nat
    BY CapInvMeans, TableLimitsAssumption DEF Caps!TypeOK
  <2>3. NewAgent(lifetime) \in AgentRecord
    BY <2>2 DEF NewAgent, AgentRecord
  <2>4. /\ DOMAIN agents' = DOMAIN agents \cup {next_id}
        /\ \A a \in DOMAIN agents' : agents'[a] \in AgentRecord
    BY <2>1, <2>3 DEF WithAgent
  <2>5. CapInv' /\ next_id' = next_id + 1
    BY <1>1, CapUnchanged DEF SpawnAny, capVars
  <2>. QED  BY <2>4, <2>5
<1>2. CASE KillAny
  <2>1. PICK a \in DOMAIN agents : Kill(a)
    BY <1>2 DEF KillAny
  <2>2. CapInv' /\ UNCHANGED next_id
    BY <1>2, <2>1, KillTerminates, RevokeEffect DEF KillAny
  <2>. QED  BY <2>1, <2>2, KillTerminates, TerminateEffect
<1>3. CASE CollectAny
  <2>1. CapInv' /\ UNCHANGED next_id
    BY <1>3, CapUnchanged DEF CollectAny, capVars
  <2>. QED  BY <1>3, <2>1 DEF CollectAny, CollectTerminated, Alive
<1>4. CASE EnforceAny
  <2>. DEFINE expired == {a \in Alive : IsExpired(a)}
  <2>1. /\ expired \in SUBSET DOMAIN agents
        /\ agents' = [a \in DOMAIN agents |->
              IF a \in expired THEN [agents[a] EXCEPT !.state = "Terminated"]
                               ELSE agents[a]]
        /\ Caps!RevokeEach({h \in Caps!Live : entries[h].owner \in expired})
        /\ UNCHANGED <<tick, next_id>>
    BY <1>4 DEF EnforceAny, EnforceTimeouts, Alive
  <2>. HIDE DEF expired
  <2>. QED  BY <2>1, TerminateEffect, RevokeEffect
<1>5. CASE GrantAny
  <2>1. PICK a \in Alive, t \in {0, ComputeTimeout} :
           CapGrant(a, Serial, {"READ", "WRITE"}, t)
    BY <1>5 DEF GrantAny
  <2>2. a \in Nat /\ UNCHANGED <<tick, next_id>>
    BY <1>5 DEF GrantAny, Alive
  <2>3. PICK s \in Caps!Slots :
           /\ Caps!Grant(s, a, Serial, {"READ", "WRITE"}, Caps!ExpiryOf(t))
           /\ agents' = [b \in DOMAIN agents |-> IF b # a THEN agents[b] ELSE
                 [agents[b] EXCEPT !.capabilities = @ \cup {s}]]
    BY <1>5, <2>1 DEF GrantAny, CapGrant
  <2>4. CapInv'
    BY <2>2, <2>3, GrantEffect DEF Resources, AllRights
  <2>5. \A b \in DOMAIN agents : agents'[b] \in AgentRecord
    BY <2>3 DEF AgentRecord
  <2>. QED  BY <2>2, <2>3, <2>4, <2>5
<1>6. CASE DelegateAny
  <2>1. PICK s \in Caps!Slots, p \in Caps!Slots, a \in Names :
           Caps!Delegate(s, p, a, {"READ"})
    BY <1>6 DEF DelegateAny
  <2>2. a \in Nat /\ p \in Caps!Handles
    BY TableLimitsAssumption DEF Names, SubAgent, Caps!Slots, Caps!Handles
  <2>3. CapInv' /\ UNCHANGED <<agents, next_id>>
    BY <1>6, <2>1, <2>2, DelegateEffect DEF DelegateAny, AllRights
  <2>. QED  BY <2>3
<1>7. CASE RevokeAny
  <2>1. CapInv' /\ UNCHANGED <<agents, next_id>>
    BY <1>7, RevokeEffect DEF RevokeAny, CapRevoke, Caps!Revoke
  <2>. QED  BY <2>1
<1>8. CASE TickAny
  <2>1. tick' \in Nat /\ UNCHANGED <<capVars, agents, next_id>>
    BY <1>8, CapInvMeans DEF TickAny, Caps!Tick, Caps!TypeOK, Caps!capVars, capVars
  <2>. QED  BY <2>1, CapUnchanged DEF capVars
<1>9. CASE UNCHANGED tableVars
  <2>1. tick' \in Nat /\ UNCHANGED <<capVars, agents, next_id>>
    BY <1>9, CapInvMeans DEF tableVars, Caps!TypeOK
  <2>. QED  BY <2>1, CapUnchanged DEF capVars
<1>. QED
  BY <1>1, <1>2, <1>3, <1>4, <1>5, <1>6, <1>7, <1>8, <1>9 DEF TableNext

-----------------------------------------------------------------------------
(* The theorem. *)

\* Whatever the agents do, revoking, killing and timing out end exactly the
\* authority that came through the holder, at any distance, and no other.
THEOREM HolderEndsAuthority == TableSpec => AuthorityEndsWithItsHolder
<1>1. ASSUME TableInv, EnforceAny
      PROVE  LET expired == {a \in Alive : IsExpired(a)} IN
             Alive' = Alive \ expired /\ Caps!Live' = Surviving(OwnedBy(expired))
  <2>. DEFINE expired == {a \in Alive : IsExpired(a)}
  <2>1. /\ expired \in SUBSET DOMAIN agents
        /\ agents' = [a \in DOMAIN agents |->
              IF a \in expired THEN [agents[a] EXCEPT !.state = "Terminated"]
                               ELSE agents[a]]
        /\ Caps!RevokeEach({h \in Caps!Live : entries[h].owner \in expired})
    BY <1>1 DEF EnforceAny, EnforceTimeouts, Alive
  <2>. HIDE DEF expired
  <2>2. Alive' = Alive \ expired
    BY <1>1, <2>1, TerminateEffect DEF TableInv
  <2>3. Caps!Live' = Surviving(OwnedBy(expired))
    BY <1>1, <2>1, RevokingHolders DEF TableInv
  <2>. QED  BY <2>2, <2>3 DEF expired
<1>2. ASSUME TableInv, NEW a \in DOMAIN agents, Kill(a)
      PROVE  Alive' = Alive \ {a} /\ Caps!Live' = Surviving(OwnedBy({a}))
  BY <1>2, KillTerminates, TerminateEffect, RevokingHolders DEF TableInv
<1>3. ASSUME TableInv, NEW a \in Names, NEW h \in Caps!Slots, CapRevoke(a, h)
      PROVE  h \in OwnedBy({a}) /\ Caps!Live' = Surviving({h})
  <2>1. h \in OwnedBy({a})
    BY <1>3 DEF CapRevoke, Caps!Check, OwnedBy
  <2>2. Caps!RevokeEach({h}) /\ CapInv
    BY <1>3 DEF CapRevoke, Caps!Revoke, TableInv
  <2>. QED  BY <2>1, <2>2, RevokeEffect, CascadeIsDescent
<1>4. TableInv /\ [TableNext]_tableVars =>
        [ /\ EnforceAny =>
               LET expired == {a \in Alive : IsExpired(a)} IN
               Alive' = Alive \ expired /\ Caps!Live' = Surviving(OwnedBy(expired))
          /\ \A a \in DOMAIN agents :
               (Kill(a) /\ UNCHANGED <<tick, next_id, audit>>) =>
                 Alive' = Alive \ {a} /\ Caps!Live' = Surviving(OwnedBy({a}))
          /\ \A a \in Names, h \in Caps!Slots : CapRevoke(a, h) =>
               h \in OwnedBy({a}) /\ Caps!Live' = Surviving({h}) ]_tableVars
  BY <1>1, <1>2, <1>3
<1>. QED
  BY <1>4, TableInitInv, TableNextInv, PTL
     DEF TableSpec, AuthorityEndsWithItsHolder
=============================================================================
