--------------------------- MODULE CapTableProofs ---------------------------
(***************************************************************************)
(* What the capability table promises for every size of the table, every   *)
(* set of agents, resources and rights, and every run: the invariants and  *)
(* the action properties of CapTable, proved from one inductive invariant. *)
(***************************************************************************)
EXTENDS CapTable, FiniteSetTheorems, TLAPS

\* position() picks the first free slot and no slot is ever freed.
SlotsFillFromBelow == \A i \in Used, j \in Slots : j < i => j \in Used

\* What delegate copies or narrows, it leaves so for the life of the entry.
DelegationAttenuates ==
    \A c \in Used : entries[c].parent # None =>
        LET p == entries[c].parent IN
        /\ entries[c].resource = entries[p].resource
        /\ entries[c].rights \subseteq entries[p].rights
        /\ entries[c].expires_at = entries[p].expires_at

\* The inductive invariant.  SlotsFillFromBelow is what makes the parent of a
\* new entry lie below it; DelegationAttenuates is about all entries, revoked
\* ones too, where ChildNeverExceedsParent only speaks of what passes a check.
IInv ==
    /\ TypeOK
    /\ ActiveCountExact
    /\ NoOrphanAuthority
    /\ ParentBelowChild
    /\ SlotsFillFromBelow
    /\ DelegationAttenuates

-----------------------------------------------------------------------------
(* Facts about the state functions. *)

\* Every set of slots is finite.
LEMMA SlotSetsFinite ==
    ASSUME NEW S \in SUBSET Slots
    PROVE  IsFiniteSet(S) /\ Cardinality(S) \in Nat
<1>1. IsFiniteSet(Slots)
  BY MaxCapabilitiesAssumption, FS_Interval DEF Slots
<1>2. IsFiniteSet(S)
  BY <1>1, FS_Subset
<1>. QED  BY <1>2, FS_CardinalityType

\* What a slot in use holds is an entry; its parent is a slot or None.
LEMMA UsedHoldsEntry ==
    ASSUME TypeOK, NEW i \in Used
    PROVE  /\ entries[i] \in CapEntry
           /\ i \in Slots
           /\ entries[i].parent \in Slots \cup {None}
           /\ entries[i].revoked \in BOOLEAN
           /\ entries[i].expires_at \in Nat
           /\ entries[i].rights \in SUBSET Rights
BY DEF TypeOK, Used, CapEntry

\* A cascade marks live entries only, all the live ones it starts from, and
\* with a marked entry all its live children.
LEMMA CascadeProperties ==
    ASSUME NEW H
    PROVE  /\ Cascade(H) \subseteq Live
           /\ H \cap Live \subseteq Cascade(H)
           /\ ClosedUnderChildren(Cascade(H))
<1>1. Cascade(H) \subseteq Live
  BY DEF Cascade
<1>2. H \cap Live \subseteq Cascade(H)
  BY DEF Cascade
<1>3. ASSUME NEW c \in Live, entries[c].parent \in Cascade(H)
      PROVE  c \in Cascade(H)
  <2>1. SUFFICES ASSUME NEW S \in SUBSET {i \in Live : entries[i].parent # None},
                        ClosedUnderChildren((H \cap Live) \cup S)
                 PROVE  c \in (H \cap Live) \cup S
    BY DEF Cascade
  <2>2. entries[c].parent \in (H \cap Live) \cup S
    BY <1>3, <2>1 DEF Cascade
  <2>. QED  BY <2>1, <2>2 DEF ClosedUnderChildren
<1>. QED  BY <1>1, <1>2, <1>3 DEF ClosedUnderChildren

-----------------------------------------------------------------------------
(* The three kinds of step preserve the inductive invariant. *)

\* Filling the first free slot with a live entry whose parent, if any, is a
\* live entry that it attenuates.
LEMMA InsertPreserves ==
    ASSUME IInv, UNCHANGED tick,
           NEW s \in Slots, NEW entry \in CapEntry, Insert(s, entry),
           ~entry.revoked,
           entry.parent # None =>
              /\ entry.parent \in Live
              /\ entry.resource = entries[entry.parent].resource
              /\ entry.rights \subseteq entries[entry.parent].rights
              /\ entry.expires_at = entries[entry.parent].expires_at
    PROVE  IInv'
<1>. USE DEF IInv
<1>1. /\ s \in Slots \ Used
      /\ \A i \in Slots : i < s => i \in Used
      /\ entries' = [entries EXCEPT ![s] = entry]
      /\ active_count' = active_count + 1
  BY DEF Insert, IsFirstFree, Used
<1>2. entries \in [Slots -> CapEntry \cup {None}]
  BY DEF TypeOK
<1>3. TypeOK'
  BY <1>1, <1>2 DEF TypeOK
<1>4. entries'[s] = entry /\ \A i \in Slots : i # s => entries'[i] = entries[i]
  BY <1>1, <1>2
<1>5. entry # None
  BY NoneAssumption
<1>6. Used' = Used \cup {s}
  BY <1>1, <1>4, <1>5 DEF Used
<1>7. Live' = Live \cup {s} /\ s \notin Live
  BY <1>1, <1>4, <1>6 DEF Live, Used
<1>8. ActiveCountExact'
  <2>1. Live \in SUBSET Slots
    BY DEF Live, Used
  <2>2. IsFiniteSet(Live) /\ Cardinality(Live) \in Nat
    BY <2>1, SlotSetsFinite
  <2>3. Cardinality(Live \cup {s}) = Cardinality(Live) + 1
    BY <2>2, <1>7, FS_AddElement
  <2>. QED  BY <1>1, <1>7, <2>3 DEF ActiveCountExact
<1>9. Live \subseteq Used
  BY DEF Live
<1>10. ParentBelowChild'
  <2>1. SUFFICES ASSUME NEW c \in Used', (entries[c].parent # None)'
                 PROVE  (entries[c].parent \in Used /\ entries[c].parent < c)'
    BY DEF ParentBelowChild
  <2>2. CASE c = s
    <3>1. entry.parent \in Used
      BY <2>1, <2>2, <1>4, <1>9
    <3>2. entry.parent # s /\ entry.parent \in Slots
      BY <3>1, <1>1 DEF Used
    <3>3. ~(s < entry.parent)
      BY <3>1, <1>1 DEF SlotsFillFromBelow
    <3>4. entry.parent < s
      BY <3>2, <3>3, MaxCapabilitiesAssumption DEF Slots
    <3>. QED  BY <2>2, <3>1, <3>4, <1>4, <1>6
  <2>3. CASE c # s
    <3>1. c \in Used /\ entries'[c] = entries[c]
      BY <2>1, <2>3, <1>4, <1>6 DEF Used
    <3>. QED  BY <3>1, <2>1, <1>6 DEF ParentBelowChild
  <2>. QED  BY <2>2, <2>3
<1>11. NoOrphanAuthority'
  <2>1. SUFFICES ASSUME NEW c \in Live', (entries[c].parent # None)'
                 PROVE  (entries[c].parent \in Live)'
    BY DEF NoOrphanAuthority
  <2>2. CASE c = s
    BY <2>1, <2>2, <1>4, <1>7
  <2>3. CASE c # s
    <3>1. c \in Live /\ entries'[c] = entries[c]
      BY <2>1, <2>3, <1>4, <1>7 DEF Live, Used
    <3>. QED  BY <3>1, <2>1, <1>7 DEF NoOrphanAuthority
  <2>. QED  BY <2>2, <2>3
<1>12. SlotsFillFromBelow'
  BY <1>1, <1>6 DEF SlotsFillFromBelow
<1>13. DelegationAttenuates'
  <2>1. SUFFICES ASSUME NEW c \in Used', (entries[c].parent # None)'
                 PROVE  /\ entries'[c].resource
                              = entries'[entries'[c].parent].resource
                        /\ entries'[c].rights
                              \subseteq entries'[entries'[c].parent].rights
                        /\ entries'[c].expires_at
                              = entries'[entries'[c].parent].expires_at
    BY DEF DelegationAttenuates
  <2>2. CASE c = s
    <3>1. entry.parent \in Used /\ entry.parent # s
      BY <2>1, <2>2, <1>1, <1>4, <1>9
    <3>2. entries'[entry.parent] = entries[entry.parent]
      BY <3>1, <1>4 DEF Used
    <3>. QED  BY <2>1, <2>2, <3>2, <1>4
  <2>3. CASE c # s
    <3>1. c \in Used /\ entries'[c] = entries[c]
      BY <2>1, <2>3, <1>4, <1>6 DEF Used
    <3>2. entries[c].parent \in Used /\ entries[c].parent # s
      BY <3>1, <2>1, <1>1 DEF ParentBelowChild
    <3>3. entries'[entries[c].parent] = entries[entries[c].parent]
      BY <3>2, <1>4 DEF Used
    <3>. QED  BY <3>1, <3>3, <2>1 DEF DelegationAttenuates
  <2>. QED  BY <2>2, <2>3
<1>. QED  BY <1>3, <1>8, <1>10, <1>11, <1>12, <1>13

\* Marking a cascade: only the revoked flags of its members change.
LEMMA MarkRevokedEffect ==
    ASSUME TypeOK, NEW S \in SUBSET Live, MarkRevoked(S)
    PROVE  /\ entries' \in [Slots -> CapEntry \cup {None}]
           /\ \A i \in Slots \ S : entries'[i] = entries[i]
           /\ \A i \in S : entries'[i] = [entries[i] EXCEPT !.revoked = TRUE]
           /\ \A i \in Used : /\ entries'[i].parent = entries[i].parent
                              /\ entries'[i].resource = entries[i].resource
                              /\ entries'[i].rights = entries[i].rights
                              /\ entries'[i].expires_at = entries[i].expires_at
                              /\ entries'[i].revoked = (entries[i].revoked \/ i \in S)
           /\ Used' = Used
           /\ Live' = Live \ S
<1>1. S \subseteq Slots /\ S \subseteq Used
  BY DEF Live, Used
<1>2. \A i \in Slots : entries'[i] =
         IF i \in S THEN [entries[i] EXCEPT !.revoked = TRUE] ELSE entries[i]
  BY DEF MarkRevoked
<1>3. \A i \in S : /\ entries'[i] = [entries[i] EXCEPT !.revoked = TRUE]
                   /\ entries[i] \in CapEntry
                   /\ entries'[i] \in CapEntry
                   /\ entries'[i].revoked = TRUE
  BY <1>1, <1>2, UsedHoldsEntry DEF CapEntry
<1>4. \A i \in Slots \ S : entries'[i] = entries[i]
  BY <1>2
<1>5. entries' \in [Slots -> CapEntry \cup {None}]
  <2>1. \A i \in Slots : entries'[i] \in CapEntry \cup {None}
    BY <1>3, <1>4 DEF TypeOK
  <2>. QED  BY <2>1 DEF MarkRevoked
<1>6. \A i \in Used : /\ entries'[i].parent = entries[i].parent
                      /\ entries'[i].resource = entries[i].resource
                      /\ entries'[i].rights = entries[i].rights
                      /\ entries'[i].expires_at = entries[i].expires_at
                      /\ entries'[i].revoked = (entries[i].revoked \/ i \in S)
  <2>1. SUFFICES ASSUME NEW i \in Used
                 PROVE  /\ entries'[i].parent = entries[i].parent
                        /\ entries'[i].resource = entries[i].resource
                        /\ entries'[i].rights = entries[i].rights
                        /\ entries'[i].expires_at = entries[i].expires_at
                        /\ entries'[i].revoked = (entries[i].revoked \/ i \in S)
    OBVIOUS
  <2>2. CASE i \in S
    BY <2>2, <1>3 DEF CapEntry
  <2>3. CASE i \notin S
    BY <2>3, <1>4, UsedHoldsEntry DEF Used
  <2>. QED  BY <2>2, <2>3
<1>7. Used' = Used
  BY <1>1, <1>3, <1>4, NoneAssumption DEF Used
<1>8. Live' = Live \ S
  BY <1>1, <1>6, <1>7 DEF Live
<1>. QED  BY <1>3, <1>4, <1>5, <1>6, <1>7, <1>8

\* Revoking the cascade of a set of entries keeps the invariant.
LEMMA CascadePreserves ==
    ASSUME IInv, UNCHANGED tick, NEW H, RevokeEach(H)
    PROVE  IInv'
<1>. DEFINE S == Cascade(H)
<1>. USE DEF IInv
<1>1. S \in SUBSET Live /\ ClosedUnderChildren(S)
  BY CascadeProperties
<1>. HIDE DEF S
<1>2. MarkRevoked(S)
  BY DEF S, RevokeEach
<1>3. /\ entries' \in [Slots -> CapEntry \cup {None}]
      /\ \A i \in Used : /\ entries'[i].parent = entries[i].parent
                         /\ entries'[i].resource = entries[i].resource
                         /\ entries'[i].rights = entries[i].rights
                         /\ entries'[i].expires_at = entries[i].expires_at
      /\ Used' = Used
      /\ Live' = Live \ S
  BY <1>1, <1>2, MarkRevokedEffect
<1>4. ActiveCountExact' /\ active_count' \in Nat
  <2>1. Live \in SUBSET Slots
    BY DEF Live, Used
  <2>2. IsFiniteSet(Live) /\ Cardinality(Live) \in Nat
    BY <2>1, SlotSetsFinite
  <2>3. S \in SUBSET Slots /\ Live \cap S = S
    BY <1>1, <2>1
  <2>4. Cardinality(S) \in Nat
    BY <2>3, SlotSetsFinite
  <2>5. Cardinality(S) <= Cardinality(Live)
    BY <1>1, <2>2, FS_Subset
  <2>6. Cardinality(Live \ S) = Cardinality(Live) - Cardinality(S)
    BY <2>2, <2>3, FS_Difference
  <2>7. active_count' = Cardinality(Live) - Cardinality(S)
    BY <1>2, <2>5 DEF MarkRevoked, SaturatingSub, ActiveCountExact
  <2>. QED  BY <1>3, <2>2, <2>4, <2>5, <2>6, <2>7 DEF ActiveCountExact
<1>5. TypeOK'
  BY <1>3, <1>4 DEF TypeOK
<1>6. NoOrphanAuthority'
  <2>1. SUFFICES ASSUME NEW c \in Live \ S, entries[c].parent # None
                 PROVE  entries[c].parent \in Live \ S
    BY <1>3 DEF NoOrphanAuthority, Live
  <2>2. entries[c].parent \in Live
    BY <2>1 DEF NoOrphanAuthority
  <2>3. entries[c].parent \notin S
    BY <1>1, <2>1 DEF ClosedUnderChildren
  <2>. QED  BY <2>2, <2>3
<1>7. ParentBelowChild'
  BY <1>3 DEF ParentBelowChild
<1>8. SlotsFillFromBelow'
  BY <1>3 DEF SlotsFillFromBelow
<1>9. DelegationAttenuates'
  BY <1>3 DEF DelegationAttenuates, ParentBelowChild
<1>. QED  BY <1>4, <1>5, <1>6, <1>7, <1>8, <1>9

-----------------------------------------------------------------------------
(* The inductive invariant. *)

\* The invariant holds of an empty table.
LEMMA InitIInv == Init => IInv
<1>. SUFFICES ASSUME Init PROVE IInv
  OBVIOUS
<1>1. Used = {} /\ Live = {}
  BY DEF Init, Used, Live
<1>2. Cardinality({}) = 0
  BY FS_EmptySet
<1>. QED
  BY <1>1, <1>2 DEF Init, IInv, TypeOK, ActiveCountExact, NoOrphanAuthority,
     ParentBelowChild, SlotsFillFromBelow, DelegationAttenuates

\* A root entry is well formed; the expiry it asks for is a natural number.
LEMMA GrantPreserves ==
    ASSUME IInv, UNCHANGED tick, NEW s \in Slots, NEW a \in Agents,
           NEW r \in Resources, NEW R \in SUBSET Rights, NEW t \in Timeouts,
           Grant(s, a, r, R, ExpiryOf(t))
    PROVE  IInv'
<1>. DEFINE entry == [resource |-> r, rights |-> R, owner |-> a,
                      parent |-> None, expires_at |-> ExpiryOf(t),
                      revoked |-> FALSE]
<1>1. tick \in Nat /\ t \in Nat
  BY TimeoutsAssumption DEF IInv, TypeOK
<1>2. ExpiryOf(t) \in Nat
  BY <1>1 DEF ExpiryOf
<1>3. entry \in CapEntry /\ ~entry.revoked /\ entry.parent = None
  BY <1>2 DEF CapEntry
<1>4. Insert(s, entry)
  BY DEF Grant
<1>. HIDE DEF entry
<1>. QED  BY <1>3, <1>4, InsertPreserves

\* A capability that passes check is live and holds the rights asked for.
LEMMA CheckOkMeans ==
    ASSUME NEW h, NEW R, Check(h, R) = "Ok"
    PROVE  h \in Live /\ R \subseteq entries[h].rights /\ ~IsExpired(entries[h])
BY DEF Check, Live

\* Delegating keeps the invariant.
LEMMA DelegatePreserves ==
    ASSUME IInv, UNCHANGED tick, NEW s \in Slots, NEW p \in Handles,
           NEW a \in Agents, NEW R \in SUBSET Rights, Delegate(s, p, a, R)
    PROVE  IInv'
<1>. DEFINE entry == [resource |-> entries[p].resource, rights |-> R,
                      owner |-> a, parent |-> p,
                      expires_at |-> entries[p].expires_at, revoked |-> FALSE]
<1>1. p \in Live /\ R \subseteq entries[p].rights
  BY CheckOkMeans DEF Delegate
<1>2. p \in Used
  BY <1>1 DEF Live
<1>3. entries[p] \in CapEntry /\ p \in Slots
  BY <1>2, UsedHoldsEntry DEF IInv
<1>4. entry \in CapEntry /\ ~entry.revoked
  BY <1>3 DEF CapEntry
<1>5. Insert(s, entry)
  BY DEF Delegate
<1>6. /\ entry.parent \in Live
      /\ entry.resource = entries[entry.parent].resource
      /\ entry.rights \subseteq entries[entry.parent].rights
      /\ entry.expires_at = entries[entry.parent].expires_at
  BY <1>1
<1>. HIDE DEF entry
<1>. QED  BY <1>4, <1>5, <1>6, InsertPreserves

\* Every call keeps the invariant.
LEMMA NextIInv == IInv /\ [Next]_vars => IInv'
<1>. SUFFICES ASSUME IInv, [Next]_vars PROVE IInv'
  OBVIOUS
<1>1. CASE GrantAny
  BY <1>1, GrantPreserves DEF GrantAny
<1>2. CASE DelegateAny
  BY <1>2, DelegatePreserves DEF DelegateAny
<1>3. CASE RevokeAny
  BY <1>3, CascadePreserves DEF RevokeAny, Revoke
<1>4. CASE RevokeAllAny
  BY <1>4, CascadePreserves DEF RevokeAllAny, RevokeAllForAgent
<1>5. CASE GcAny
  BY <1>5, CascadePreserves DEF GcAny, GcExpired
<1>6. CASE Tick
  <2>1. tick' \in Nat /\ UNCHANGED capVars
    BY <1>6 DEF Tick, IInv, TypeOK
  <2>. QED
    BY <2>1 DEF IInv, TypeOK, ActiveCountExact, NoOrphanAuthority,
       ParentBelowChild, SlotsFillFromBelow, DelegationAttenuates, Used, Live,
       capVars
<1>7. CASE UNCHANGED vars
  BY <1>7 DEF vars, IInv, TypeOK, ActiveCountExact, NoOrphanAuthority,
     ParentBelowChild, SlotsFillFromBelow, DelegationAttenuates, Used, Live
<1>. QED  BY <1>1, <1>2, <1>3, <1>4, <1>5, <1>6, <1>7 DEF Next

\* The invariant holds in every reachable state.
LEMMA SpecIInv == Spec => []IInv
BY InitIInv, NextIInv, PTL DEF Spec

-----------------------------------------------------------------------------
(* The theorems. *)

\* The table stays well formed.
THEOREM TypeCorrect == Spec => []TypeOK
<1>1. IInv => TypeOK
  BY DEF IInv
<1>. QED  BY <1>1, SpecIInv, PTL

\* active_count never drifts from the number of entries that are not revoked,
\* whatever cascades have run.
THEOREM CountIsExact == Spec => []ActiveCountExact
<1>1. IInv => ActiveCountExact
  BY DEF IInv
<1>. QED  BY <1>1, SpecIInv, PTL

\* Revoking a capability revokes everything ever delegated from it.
THEOREM RevocationIsTransitive == Spec => []NoOrphanAuthority
<1>1. IInv => NoOrphanAuthority
  BY DEF IInv
<1>. QED  BY <1>1, SpecIInv, PTL

\* Delegation chains descend, so the recursion of revoke is well founded.
THEOREM DelegationIsAcyclic == Spec => []ParentBelowChild
<1>1. IInv => ParentBelowChild
  BY DEF IInv
<1>. QED  BY <1>1, SpecIInv, PTL

\* Nothing passes a check through a delegated handle that would not pass it
\* through the parent.
THEOREM NoEscalation == Spec => []ChildNeverExceedsParent
<1>1. IInv => ChildNeverExceedsParent
  <2>. SUFFICES ASSUME IInv, NEW c \in Used, entries[c].parent # None
                PROVE  LET p == entries[c].parent IN
                       /\ entries[c].resource = entries[p].resource
                       /\ \A R \in SUBSET Rights :
                             Check(c, R) = "Ok" => Check(p, R) = "Ok"
    BY DEF ChildNeverExceedsParent
  <2>. DEFINE p == entries[c].parent
  <2>1. /\ entries[c].resource = entries[p].resource
        /\ entries[c].rights \subseteq entries[p].rights
        /\ entries[c].expires_at = entries[p].expires_at
    BY DEF IInv, DelegationAttenuates
  <2>2. ASSUME NEW R \in SUBSET Rights, Check(c, R) = "Ok"
        PROVE  Check(p, R) = "Ok"
    <3>1. c \in Live /\ R \subseteq entries[c].rights /\ ~IsExpired(entries[c])
      BY <2>2, CheckOkMeans
    <3>2. p \in Live /\ p \in Used
      BY <3>1 DEF IInv, NoOrphanAuthority, Live
    <3>3. ~IsExpired(entries[p])
      BY <3>1, <2>1 DEF IsExpired
    <3>4. R \subseteq entries[p].rights
      BY <3>1, <2>1
    <3>. HIDE DEF p
    <3>. QED  BY <3>2, <3>3, <3>4 DEF Check, Live
  <2>. QED  BY <2>1, <2>2
<1>. QED  BY <1>1, SpecIInv, PTL

-----------------------------------------------------------------------------
(* What a step may never do. *)

\* A used slot keeps its entry, but for the revoked flag, and time goes on.
LEMMA StepKeepsEntries ==
    ASSUME IInv, [Next]_vars
    PROVE  /\ \A h \in Used : entries'[h] \in
                 {entries[h], [entries[h] EXCEPT !.revoked = TRUE]}
           /\ tick \in Nat /\ tick' \in Nat /\ tick <= tick'
<1>. DEFINE Kept == \A h \in Used : entries'[h] \in
                      {entries[h], [entries[h] EXCEPT !.revoked = TRUE]}
<1>1. tick \in Nat /\ TypeOK
  BY DEF IInv, TypeOK
<1>2. ASSUME NEW s \in Slots, NEW entry, Insert(s, entry)
      PROVE  Kept
  BY <1>1, <1>2 DEF Insert, IsFirstFree, Used, TypeOK
<1>3. ASSUME NEW H, RevokeEach(H)
      PROVE  Kept
  <2>1. Cascade(H) \in SUBSET Live
    BY CascadeProperties
  <2>2. /\ \A i \in Slots \ Cascade(H) : entries'[i] = entries[i]
        /\ \A i \in Cascade(H) :
              entries'[i] = [entries[i] EXCEPT !.revoked = TRUE]
    BY <1>1, <1>3, <2>1, MarkRevokedEffect DEF RevokeEach
  <2>. QED  BY <2>2 DEF Used
<1>4. CASE GrantAny
  <2>1. PICK s \in Slots : \E entry : Insert(s, entry)
    BY <1>4 DEF GrantAny, Grant
  <2>. QED  BY <1>1, <1>2, <1>4, <2>1 DEF GrantAny
<1>5. CASE DelegateAny
  <2>1. PICK s \in Slots : \E entry : Insert(s, entry)
    BY <1>5 DEF DelegateAny, Delegate
  <2>. QED  BY <1>1, <1>2, <1>5, <2>1 DEF DelegateAny
<1>6. CASE RevokeAny
  BY <1>1, <1>3, <1>6 DEF RevokeAny, Revoke
<1>7. CASE RevokeAllAny
  BY <1>1, <1>3, <1>7 DEF RevokeAllAny, RevokeAllForAgent
<1>8. CASE GcAny
  BY <1>1, <1>3, <1>8 DEF GcAny, GcExpired
<1>9. CASE Tick
  BY <1>1, <1>9 DEF Tick, capVars
<1>10. CASE UNCHANGED vars
  BY <1>1, <1>10 DEF vars
<1>. QED
  BY <1>4, <1>5, <1>6, <1>7, <1>8, <1>9, <1>10 DEF Next

\* A handle never comes to mean another capability.
THEOREM HandleStability == Spec => HandlesAreStable
<1>1. IInv /\ [Next]_vars =>
        [\A h \in Used : entries'[h] \in
           {entries[h], [entries[h] EXCEPT !.revoked = TRUE]}]_vars
  BY StepKeepsEntries
<1>. QED  BY <1>1, SpecIInv, PTL DEF Spec, HandlesAreStable

\* A refused check is refused for ever.
THEOREM RefusalFinality == Spec => RefusalIsFinal
<1>1. ASSUME IInv, [Next]_vars, NEW h \in Used, NEW R \in SUBSET Rights,
             Check(h, R) # "Ok"
      PROVE  Check(h, R)' # "Ok"
  <2>1. entries'[h] \in {entries[h], [entries[h] EXCEPT !.revoked = TRUE]}
    BY <1>1, StepKeepsEntries
  <2>2. tick \in Nat /\ tick' \in Nat /\ tick <= tick'
    BY <1>1, StepKeepsEntries
  <2>3. entries[h] \in CapEntry
    BY <1>1, UsedHoldsEntry DEF IInv
  <2>4. CASE entries'[h] = entries[h]
    BY <1>1, <2>2, <2>3, <2>4 DEF Check, IsExpired, CapEntry, Used
  <2>5. CASE entries'[h] = [entries[h] EXCEPT !.revoked = TRUE]
    <3>1. entries'[h].revoked = TRUE
      BY <2>3, <2>5 DEF CapEntry
    <3>. QED  BY <3>1 DEF Check
  <2>. QED  BY <2>1, <2>4, <2>5
<1>2. IInv /\ [Next]_vars =>
        [\A h \in Used, R \in SUBSET Rights :
           Check(h, R) # "Ok" => Check(h, R)' # "Ok"]_vars
  BY <1>1
<1>. QED  BY <1>2, SpecIInv, PTL DEF Spec, RefusalIsFinal
=============================================================================
