--------------------------- MODULE CapRevokeProofs --------------------------
(***************************************************************************)
(* The recursive scan of cap_table.rs, for every size of the table: what   *)
(* holds of the calls and of the count in the middle of a cascade, and     *)
(* that each call of revoke, revoke_all_for_agent and gc_expired has the   *)
(* effect of the one-step cascade of CapTable.                             *)
(***************************************************************************)
EXTENDS CapRevoke, CapTableProofs, SequenceTheorems

(* The cascade again, of a given table T: CapTable's is about entries.      *)

LiveIn(T) == {i \in Slots : T[i] # None /\ ~T[i].revoked}

\* The entries that the outermost loop or call selects.
RootsIn(T, test, key) ==
    {i \in LiveIn(T) :
        /\ test = "child" => i = key
        /\ test = "owner" => T[i].owner = key
        /\ test = "expired" => T[i].expires_at > 0 /\ key >= T[i].expires_at}

ClosedIn(T, S) == \A c \in LiveIn(T) : T[c].parent \in S => c \in S

CascadeIn(T, H) ==
    {i \in LiveIn(T) : \A S \in SUBSET {c \in LiveIn(T) : T[c].parent # None} :
        ClosedIn(T, (H \cap LiveIn(T)) \cup S) => i \in (H \cap LiveIn(T)) \cup S}

\* What the call under way may mark: the cascade of its roots, in the table
\* as it was when the call began.
Reach ==
    CascadeIn(before.entries,
              RootsIn(before.entries, stack[1].test, stack[1].key))

Calls == 1 .. Len(stack)

\* The loop of a frame is about a handle that its call has just revoked.
KeysAreRevoked ==
    \A k \in Calls : stack[k].test = "child" => stack[k].key \in Reach \ Live

\* gc_expired was given the tick that its caller still has.
GcSeesTheTick ==
    \A k \in Calls : stack[k].test = "expired" => stack[k].key = tick

\* A live child of a revoked entry belongs to a loop that is still running.
OrphansAreOwned ==
    \A c \in Live :
        LET p == entries[c].parent IN
        (p # None /\ p \notin Live) =>
            \E k \in Calls : stack[k].test = "child" /\ stack[k].key = p

\* No loop has left behind it an entry that it should have revoked.
ScannedIsDone ==
    \A k \in Calls : \A i \in Live :
        Selects(stack[k], i) => stack[k].next <= i

\* The table is the one the call began with, but for entries of the cascade
\* that are marked already.
OnlyTheCascadeIsMarked ==
    ~Idle =>
      /\ before.entries \in [Slots -> CapEntry \cup {None}]
      /\ before.active_count = Cardinality(LiveIn(before.entries))
      /\ \A i \in Slots :
            \/ entries[i] = before.entries[i]
            \/ /\ i \in Reach
               /\ entries[i] = [before.entries[i] EXCEPT !.revoked = TRUE]

\* The parts of CapTable's invariant that a cascade keeps at every step:
\* all but NoOrphanAuthority, in whose place stands OrphansAreOwned.
TableInv ==
    /\ TypeOK
    /\ ActiveCountExact
    /\ ParentBelowChild
    /\ SlotsFillFromBelow
    /\ DelegationAttenuates

\* The inductive invariant.
WalkInv ==
    /\ TableInv
    /\ stack \in Seq(Frame)
    /\ CallsDescend
    /\ KeysAreRevoked
    /\ GcSeesTheTick
    /\ OrphansAreOwned
    /\ ScannedIsDone
    /\ OnlyTheCascadeIsMarked

-----------------------------------------------------------------------------
(* Facts about frames, the stack and the table. *)

\* What a frame holds.
LEMMA FrameFacts ==
    ASSUME NEW f \in Frame
    PROVE  /\ f.next \in Nat /\ f.next <= MaxCapabilities
           /\ f.test = "child" \/ f.test = "owner" \/ f.test = "expired"
           /\ f.test = "child" => f.key \in Slots
           /\ f.next < MaxCapabilities =>
                 /\ Advanced(f) \in Frame
                 /\ f.next \in Slots
           /\ Advanced(f).test = f.test
           /\ Advanced(f).key = f.key
           /\ Advanced(f).next = f.next + 1
BY MaxCapabilitiesAssumption DEF Frame, Advanced, Slots

\* The call that a child frame stands for.
LEMMA ChildrenFacts ==
    ASSUME NEW h \in Slots
    PROVE  /\ Children(h) \in Frame
           /\ Children(h).test = "child"
           /\ Children(h).key = h
           /\ Children(h).next = 0
BY MaxCapabilitiesAssumption DEF Frame, Children

\* While a call runs there is a top frame.
LEMMA TopFacts ==
    ASSUME stack \in Seq(Frame), ~Idle
    PROVE  /\ Len(stack) \in Nat /\ Len(stack) >= 1
           /\ Len(stack) \in Calls /\ 1 \in Calls
           /\ Top = stack[Len(stack)]
           /\ Top \in Frame
           /\ \A k \in Calls : stack[k] \in Frame
<1>1. Len(stack) \in Nat /\ Len(stack) # 0
  BY EmptySeq DEF Idle
<1>2. \A k \in Calls : stack[k] \in Frame
  BY ElementOfSeq DEF Calls
<1>. QED  BY <1>1, <1>2 DEF Calls, Top

\* The stack below the top.
LEMMA BelowFacts ==
    ASSUME stack \in Seq(Frame), ~Idle
    PROVE  /\ Below \in Seq(Frame)
           /\ Len(Below) = Len(stack) - 1
           /\ \A k \in 1 .. Len(stack) - 1 : Below[k] = stack[k]
<1>1. Len(stack) \in Nat /\ Len(stack) >= 1
  BY TopFacts
<1>2. Below \in Seq(Frame)
  BY <1>1, SubSeqProperties DEF Below
<1>3. Len(Below) = Len(stack) - 1
  <2>1. ASSUME NEW n \in Nat, n >= 1
        PROVE  (IF 1 <= n - 1 THEN n - 1 - 1 + 1 ELSE 0) = n - 1
    BY <2>1
  <2>2. Len(Below) = IF 1 <= Len(stack) - 1 THEN Len(stack) - 1 - 1 + 1 ELSE 0
    BY <1>1, SubSeqProperties DEF Below
  <2>. QED  BY ONLY <1>1, <2>1, <2>2
<1>4. \A k \in 1 .. Len(stack) - 1 : Below[k] = stack[k]
  BY <1>1, SubSeqProperties DEF Below
<1>. QED  BY <1>2, <1>3, <1>4

\* The stack with another top frame.
LEMMA RetopFacts ==
    ASSUME stack \in Seq(Frame), ~Idle, NEW f \in Frame
    PROVE  /\ Append(Below, f) \in Seq(Frame)
           /\ Len(Append(Below, f)) = Len(stack)
           /\ \A k \in 1 .. Len(stack) - 1 : Append(Below, f)[k] = stack[k]
           /\ Append(Below, f)[Len(stack)] = f
<1>1. Len(stack) \in Nat /\ Len(stack) >= 1
  BY TopFacts
<1>2. /\ Below \in Seq(Frame)
      /\ Len(Below) = Len(stack) - 1
      /\ \A k \in 1 .. Len(stack) - 1 : Below[k] = stack[k]
  BY BelowFacts
<1>3. Append(Below, f) \in Seq(Frame)
  BY <1>2, AppendProperties
<1>4. Len(Append(Below, f)) = Len(stack)
  BY <1>1, <1>2, AppendProperties
<1>5. \A k \in 1 .. Len(Below) : Append(Below, f)[k] = Below[k]
  BY <1>2, AppendProperties
<1>6. Append(Below, f)[Len(Below) + 1] = f
  BY <1>2, AppendProperties
<1>. QED  BY <1>1, <1>2, <1>3, <1>4, <1>5, <1>6

\* A frame pushed on a stack.
LEMMA PushFacts ==
    ASSUME NEW s \in Seq(Frame), NEW f \in Frame
    PROVE  /\ Append(s, f) \in Seq(Frame)
           /\ Len(Append(s, f)) = Len(s) + 1
           /\ \A k \in 1 .. Len(s) : Append(s, f)[k] = s[k]
           /\ Append(s, f)[Len(s) + 1] = f
BY AppendProperties

\* Marking one live entry is marking the set of it.
LEMMA MarkEffect ==
    ASSUME TableInv, NEW h \in Live, Mark(h)
    PROVE  /\ entries' \in [Slots -> CapEntry \cup {None}]
           /\ \A i \in Slots \ {h} : entries'[i] = entries[i]
           /\ entries'[h] = [entries[h] EXCEPT !.revoked = TRUE]
           /\ \A i \in Used : /\ entries'[i].parent = entries[i].parent
                              /\ entries'[i].resource = entries[i].resource
                              /\ entries'[i].rights = entries[i].rights
                              /\ entries'[i].owner = entries[i].owner
                              /\ entries'[i].expires_at = entries[i].expires_at
           /\ Used' = Used
           /\ Live' = Live \ {h}
           /\ ActiveCountExact' /\ active_count' \in Nat
<1>. USE DEF TableInv
<1>1. h \in Slots /\ entries[h] \in CapEntry /\ entries \in [Slots -> CapEntry \cup {None}]
  BY UsedHoldsEntry DEF Live, TypeOK
<1>2. /\ Live \in SUBSET Slots /\ IsFiniteSet(Live) /\ Cardinality(Live) \in Nat
      /\ Live \ {h} \in SUBSET Slots /\ Cardinality(Live \ {h}) \in Nat
  <2>1. Live \in SUBSET Slots /\ Live \ {h} \in SUBSET Slots
    BY DEF Live, Used
  <2>. QED  BY <2>1, SlotSetsFinite
<1>3. Cardinality(Live \ {h}) = Cardinality(Live) - 1
  BY <1>2, FS_RemoveElement
<1>4. active_count' = Cardinality(Live \ {h})
  BY <1>2, <1>3 DEF Mark, SaturatingSub, ActiveCountExact
<1>5. Cardinality({h}) = 1 /\ {h} \in SUBSET Live
  BY FS_Singleton
<1>6. entries' = [i \in Slots |-> IF i \in {h} THEN [entries[i] EXCEPT !.revoked = TRUE]
                                  ELSE entries[i]]
  BY <1>1 DEF Mark
<1>7. MarkRevoked({h})
  BY <1>5, <1>6 DEF Mark, MarkRevoked
<1>8. /\ entries' \in [Slots -> CapEntry \cup {None}]
      /\ \A i \in Slots \ {h} : entries'[i] = entries[i]
      /\ entries'[h] = [entries[h] EXCEPT !.revoked = TRUE]
      /\ \A i \in Used : /\ entries'[i].parent = entries[i].parent
                         /\ entries'[i].resource = entries[i].resource
                         /\ entries'[i].rights = entries[i].rights
                         /\ entries'[i].expires_at = entries[i].expires_at
      /\ Used' = Used
      /\ Live' = Live \ {h}
  BY <1>5, <1>7, MarkRevokedEffect
<1>9. entries'[h].owner = entries[h].owner
  BY <1>1, <1>8 DEF CapEntry
<1>10. \A i \in Used : entries'[i].owner = entries[i].owner
  BY <1>8, <1>9 DEF Used
<1>. QED  BY <1>2, <1>4, <1>8, <1>10 DEF ActiveCountExact

\* A table of which only revoked flags change keeps its invariant.
LEMMA MarkKeepsTable ==
    ASSUME TableInv, NEW h \in Live, Mark(h), UNCHANGED tick
    PROVE  TableInv'
<1>1. /\ entries' \in [Slots -> CapEntry \cup {None}]
      /\ \A i \in Used : /\ entries'[i].parent = entries[i].parent
                         /\ entries'[i].resource = entries[i].resource
                         /\ entries'[i].rights = entries[i].rights
                         /\ entries'[i].expires_at = entries[i].expires_at
      /\ Used' = Used
      /\ ActiveCountExact' /\ active_count' \in Nat
  BY MarkEffect
<1>2. TypeOK'
  BY <1>1 DEF TypeOK, TableInv
<1>3. ParentBelowChild'
  BY <1>1 DEF ParentBelowChild, TableInv
<1>4. SlotsFillFromBelow'
  BY <1>1 DEF SlotsFillFromBelow, TableInv
<1>5. DelegationAttenuates'
  BY <1>1 DEF DelegationAttenuates, ParentBelowChild, TableInv
<1>. QED  BY <1>1, <1>2, <1>3, <1>4, <1>5 DEF TableInv

\* A cascade of a given table, as CascadeProperties has it for entries.
LEMMA CascadeInProperties ==
    ASSUME NEW T, NEW H
    PROVE  /\ CascadeIn(T, H) \subseteq LiveIn(T)
           /\ H \cap LiveIn(T) \subseteq CascadeIn(T, H)
           /\ ClosedIn(T, CascadeIn(T, H))
<1>1. CascadeIn(T, H) \subseteq LiveIn(T)
  BY DEF CascadeIn
<1>2. H \cap LiveIn(T) \subseteq CascadeIn(T, H)
  BY DEF CascadeIn
<1>3. ASSUME NEW c \in LiveIn(T), T[c].parent \in CascadeIn(T, H)
      PROVE  c \in CascadeIn(T, H)
  <2>1. SUFFICES ASSUME NEW S \in SUBSET {i \in LiveIn(T) : T[i].parent # None},
                        ClosedIn(T, (H \cap LiveIn(T)) \cup S)
                 PROVE  c \in (H \cap LiveIn(T)) \cup S
    BY <1>3 DEF CascadeIn
  <2>2. T[c].parent \in (H \cap LiveIn(T)) \cup S
    BY <1>3, <2>1 DEF CascadeIn
  <2>. QED  BY <1>3, <2>1, <2>2 DEF ClosedIn
<1>. QED  BY <1>1, <1>2, <1>3 DEF ClosedIn

\* The table now against the table at the call.
LEMMA SinceTheCall ==
    ASSUME TypeOK, OnlyTheCascadeIsMarked, ~Idle
    PROVE  /\ Reach \subseteq LiveIn(before.entries)
           /\ ClosedIn(before.entries, Reach)
           /\ RootsIn(before.entries, stack[1].test, stack[1].key) \subseteq Reach
           /\ Used = {i \in Slots : before.entries[i] # None}
           /\ Live \subseteq LiveIn(before.entries)
           /\ LiveIn(before.entries) \ Live \subseteq Reach
           /\ \A i \in Live : entries[i] = before.entries[i]
           /\ \A i \in Used : /\ entries[i].parent = before.entries[i].parent
                              /\ entries[i].owner = before.entries[i].owner
                              /\ entries[i].expires_at = before.entries[i].expires_at
<1>. DEFINE B == before.entries
            R == RootsIn(B, stack[1].test, stack[1].key)
<1>1. /\ Reach \subseteq LiveIn(B)
      /\ ClosedIn(B, Reach)
      /\ R \cap LiveIn(B) \subseteq Reach
  BY CascadeInProperties DEF Reach
<1>2. R \subseteq LiveIn(B)
  BY DEF RootsIn
<1>3. B \in [Slots -> CapEntry \cup {None}]
  BY DEF OnlyTheCascadeIsMarked
<1>4. \A i \in Slots : \/ entries[i] = B[i]
                       \/ i \in Reach /\ entries[i] = [B[i] EXCEPT !.revoked = TRUE]
  BY DEF OnlyTheCascadeIsMarked
<1>. HIDE DEF B, R
<1>5. ASSUME NEW i \in Slots, B[i] # None
      PROVE  /\ entries[i] # None
             /\ entries[i].parent = B[i].parent
             /\ entries[i].owner = B[i].owner
             /\ entries[i].expires_at = B[i].expires_at
             /\ ~entries[i].revoked => entries[i] = B[i]
             /\ entries[i] # B[i] => i \in Reach
  <2>1. B[i] \in CapEntry
    BY <1>3, <1>5
  <2>2. CASE entries[i] = B[i]
    BY <1>5, <2>2
  <2>3. CASE i \in Reach /\ entries[i] = [B[i] EXCEPT !.revoked = TRUE]
    <3>1. entries[i] \in CapEntry /\ entries[i].revoked = TRUE
      BY <2>1, <2>3 DEF CapEntry
    <3>. QED  BY <2>1, <2>3, <3>1, NoneAssumption DEF CapEntry
  <2>. QED  BY <1>4, <2>2, <2>3
<1>6. \A i \in Slots : B[i] = None => entries[i] = None
  BY <1>1, <1>4 DEF LiveIn
<1>7. Used = {i \in Slots : B[i] # None}
  BY <1>5, <1>6 DEF Used
<1>8. Live \subseteq LiveIn(B) /\ \A i \in Live : entries[i] = B[i]
  BY <1>5, <1>7 DEF Live, LiveIn
<1>9. LiveIn(B) \ Live \subseteq Reach
  BY <1>5, <1>7 DEF Live, LiveIn
<1>. QED  BY <1>1, <1>2, <1>5, <1>7, <1>8, <1>9 DEF B, R

-----------------------------------------------------------------------------
(* The steps of a walk preserve the invariant. *)

\* Within a walk the roots stay what they were.
LEMMA SameReach ==
    ASSUME before' = before,
           stack'[1].test = stack[1].test, stack'[1].key = stack[1].key
    PROVE  Reach' = Reach
BY DEF Reach

\* A loop passes a slot that it has nothing to do in.
LEMMA SkipStep == WalkInv /\ Skip => WalkInv'
<1>. SUFFICES ASSUME WalkInv, Skip PROVE WalkInv'
  OBVIOUS
<1>1. /\ stack \in Seq(Frame) /\ ~Idle /\ ~Selects(Top, Top.next)
      /\ Top.next < MaxCapabilities
      /\ stack' = Append(Below, Advanced(Top))
      /\ UNCHANGED <<entries, active_count, tick, before>>
  BY DEF Skip, WalkInv
<1>2. PICK n : n = Len(stack)
  OBVIOUS
<1>3. /\ n \in Nat /\ n >= 1
      /\ Top = stack[n] /\ Top \in Frame
      /\ Calls = 1 .. n
  BY <1>1, <1>2, TopFacts DEF Calls
<1>4. /\ Advanced(Top) \in Frame
      /\ Advanced(Top).test = Top.test
      /\ Advanced(Top).key = Top.key
      /\ Advanced(Top).next = Top.next + 1
      /\ Top.next \in Nat
  BY <1>1, <1>3, FrameFacts
<1>5. /\ stack' \in Seq(Frame)
      /\ Len(stack') = n
      /\ \A k \in 1 .. n - 1 : stack'[k] = stack[k]
      /\ stack'[n] = Advanced(Top)
  BY <1>1, <1>2, <1>4, RetopFacts
<1>6. Calls' = 1 .. n
  BY <1>5 DEF Calls
<1>7. \A k \in 1 .. n : stack'[k].test = stack[k].test /\ stack'[k].key = stack[k].key
  <2>1. SUFFICES ASSUME NEW k \in 1 .. n
                 PROVE  stack'[k].test = stack[k].test /\ stack'[k].key = stack[k].key
    OBVIOUS
  <2>2. k = n \/ k \in 1 .. n - 1
    BY <1>3
  <2>. QED  BY <2>2, <1>3, <1>4, <1>5
<1>8. ~Idle'
  BY <1>3, <1>5, EmptySeq DEF Idle
<1>9. 1 \in 1 .. n
  BY <1>3
<1>10. Reach' = Reach
  BY <1>1, <1>7, <1>9, SameReach
<1>11. Live' = Live /\ Used' = Used
  BY <1>1 DEF Live, Used
<1>12. TableInv'
  BY <1>1, <1>11 DEF WalkInv, TableInv, TypeOK, ActiveCountExact, ParentBelowChild,
     SlotsFillFromBelow, DelegationAttenuates
<1>13. CallsDescend'
  <2>1. \A k \in 2 .. n : stack'[k].test = "child"
    BY <1>2, <1>3, <1>7 DEF WalkInv, CallsDescend
  <2>2. ASSUME NEW k \in 1 .. n - 1, stack'[k].test = "child"
        PROVE  /\ entries'[stack'[k + 1].key].parent = stack'[k].key
               /\ stack'[k].key < stack'[k + 1].key
    <3>1. k \in 1 .. n /\ k + 1 \in 1 .. n
      BY <1>3
    <3>2. /\ entries[stack[k + 1].key].parent = stack[k].key
          /\ stack[k].key < stack[k + 1].key
      BY <1>2, <1>7, <2>2, <3>1 DEF WalkInv, CallsDescend
    <3>. QED  BY <1>1, <1>7, <3>1, <3>2
  <2>. QED  BY <1>5, <2>1, <2>2 DEF CallsDescend
<1>14. KeysAreRevoked'
  BY <1>3, <1>6, <1>7, <1>10, <1>11 DEF WalkInv, KeysAreRevoked
<1>15. GcSeesTheTick'
  BY <1>1, <1>3, <1>6, <1>7 DEF WalkInv, GcSeesTheTick
<1>16. OrphansAreOwned'
  <2>1. SUFFICES ASSUME NEW c \in Live, entries[c].parent # None,
                        entries[c].parent \notin Live
                 PROVE  \E k \in 1 .. n :
                           stack'[k].test = "child" /\ stack'[k].key = entries[c].parent
    BY <1>1, <1>6, <1>11 DEF OrphansAreOwned
  <2>2. PICK k \in 1 .. n : stack[k].test = "child" /\ stack[k].key = entries[c].parent
    BY <1>3, <2>1 DEF WalkInv, OrphansAreOwned
  <2>. QED  BY <1>7, <2>2
<1>17. ScannedIsDone'
  <2>1. SUFFICES ASSUME NEW k \in 1 .. n, NEW i \in Live, Selects(stack[k], i)'
                 PROVE  stack'[k].next <= i
    BY <1>6, <1>11 DEF ScannedIsDone
  <2>2. Selects(stack[k], i)
    BY <2>1, <1>1, <1>7, <1>11 DEF Selects
  <2>3. stack[k].next <= i /\ i \in Nat
    BY <2>2, <1>3 DEF WalkInv, ScannedIsDone, Live, Used, Slots
  <2>4. CASE k = n
    BY <1>1, <1>3, <1>4, <1>5, <2>2, <2>3, <2>4
  <2>5. CASE k # n
    BY <1>3, <1>5, <2>3, <2>5
  <2>. QED  BY <2>4, <2>5
<1>18. OnlyTheCascadeIsMarked'
  BY <1>1, <1>10 DEF WalkInv, OnlyTheCascadeIsMarked
<1>. QED
  BY <1>5, <1>12, <1>13, <1>14, <1>15, <1>16, <1>17, <1>18 DEF WalkInv

\* A loop calls revoke on the entry in its slot.
LEMMA DescendStep == WalkInv /\ Descend => WalkInv'
<1>. SUFFICES ASSUME WalkInv, Descend PROVE WalkInv'
  OBVIOUS
<1>1. /\ stack \in Seq(Frame) /\ ~Idle /\ Selects(Top, Top.next)
      /\ Top.next < MaxCapabilities
      /\ Mark(Top.next)
      /\ stack' = Append(Append(Below, Advanced(Top)), Children(Top.next))
      /\ UNCHANGED <<tick, before>>
      /\ TableInv /\ TypeOK
  BY DEF Descend, WalkInv, TableInv
<1>2. PICK n : n = Len(stack)
  OBVIOUS
<1>3. PICK h : h = Top.next
  OBVIOUS
<1>4. /\ n \in Nat /\ n >= 1
      /\ Top = stack[n] /\ Top \in Frame
      /\ Calls = 1 .. n
  BY <1>1, <1>2, TopFacts DEF Calls
<1>5. /\ Advanced(Top) \in Frame
      /\ Advanced(Top).test = Top.test
      /\ Advanced(Top).key = Top.key
      /\ Advanced(Top).next = Top.next + 1
      /\ h \in Nat /\ h \in Slots
  BY <1>1, <1>3, <1>4, FrameFacts
<1>6. h \in Live /\ Mark(h) /\ Selects(Top, h)
  BY <1>1, <1>3 DEF Selects
<1>7. /\ Children(h) \in Frame
      /\ Children(h).test = "child"
      /\ Children(h).key = h
      /\ Children(h).next = 0
  BY <1>5, ChildrenFacts
<1>8. /\ Append(Below, Advanced(Top)) \in Seq(Frame)
      /\ Len(Append(Below, Advanced(Top))) = n
      /\ \A k \in 1 .. n - 1 : Append(Below, Advanced(Top))[k] = stack[k]
      /\ Append(Below, Advanced(Top))[n] = Advanced(Top)
  BY <1>1, <1>2, <1>5, RetopFacts
<1>9. /\ stack' \in Seq(Frame)
      /\ Len(stack') = n + 1
      /\ \A k \in 1 .. n - 1 : stack'[k] = stack[k]
      /\ stack'[n] = Advanced(Top)
      /\ stack'[n + 1] = Children(h)
  <2>. DEFINE s == Append(Below, Advanced(Top))
  <2>1. s \in Seq(Frame) /\ Len(s) = n
    BY <1>8
  <2>2. stack' = Append(s, Children(h))
    BY <1>1, <1>3
  <2>3. /\ Append(s, Children(h)) \in Seq(Frame)
        /\ Len(Append(s, Children(h))) = n + 1
        /\ \A k \in 1 .. n : Append(s, Children(h))[k] = s[k]
        /\ Append(s, Children(h))[n + 1] = Children(h)
    BY <1>7, <2>1, PushFacts
  <2>4. \A k \in 1 .. n - 1 : k \in 1 .. n
    BY <1>4
  <2>5. n \in 1 .. n
    BY <1>4
  <2>. QED  BY <1>8, <2>2, <2>3, <2>4, <2>5
<1>10. Calls' = 1 .. n + 1
  BY <1>9 DEF Calls
<1>11. \A k \in 1 .. n : stack'[k].test = stack[k].test /\ stack'[k].key = stack[k].key
  <2>1. SUFFICES ASSUME NEW k \in 1 .. n
                 PROVE  stack'[k].test = stack[k].test /\ stack'[k].key = stack[k].key
    OBVIOUS
  <2>2. k = n \/ k \in 1 .. n - 1
    BY <1>4
  <2>. QED  BY <2>2, <1>4, <1>5, <1>9
<1>12. ~Idle'
  BY <1>4, <1>9, EmptySeq DEF Idle
<1>13. 1 \in 1 .. n /\ n \in 1 .. n
  BY <1>4
<1>14. Reach' = Reach
  BY <1>1, <1>11, <1>13, SameReach
<1>15. /\ entries' \in [Slots -> CapEntry \cup {None}]
       /\ \A i \in Slots \ {h} : entries'[i] = entries[i]
       /\ entries'[h] = [entries[h] EXCEPT !.revoked = TRUE]
       /\ \A i \in Used : /\ entries'[i].parent = entries[i].parent
                          /\ entries'[i].owner = entries[i].owner
                          /\ entries'[i].expires_at = entries[i].expires_at
       /\ Used' = Used
       /\ Live' = Live \ {h}
  BY <1>1, <1>6, MarkEffect
<1>16. TableInv'
  BY <1>1, <1>6, MarkKeepsTable
<1>17. /\ OnlyTheCascadeIsMarked
       /\ KeysAreRevoked
       /\ CallsDescend
  BY DEF WalkInv
<1>18. /\ Reach \subseteq LiveIn(before.entries)
       /\ ClosedIn(before.entries, Reach)
       /\ RootsIn(before.entries, stack[1].test, stack[1].key) \subseteq Reach
       /\ Used = {i \in Slots : before.entries[i] # None}
       /\ Live \subseteq LiveIn(before.entries)
       /\ \A i \in Live : entries[i] = before.entries[i]
  BY <1>1, <1>17, SinceTheCall
<1>19. h \in Reach
  <2>1. h \in LiveIn(before.entries) /\ entries[h] = before.entries[h]
    BY <1>6, <1>18
  <2>2. CASE Top.test = "child"
    <3>1. entries[h].parent = Top.key
      BY <1>6, <2>2 DEF Selects
    <3>2. Top.key \in Reach
      BY <1>4, <1>13, <1>17, <2>2 DEF KeysAreRevoked
    <3>. QED  BY <1>18, <2>1, <3>1, <3>2 DEF ClosedIn
  <2>3. CASE Top.test # "child"
    <3>1. n = 1
      BY <1>2, <1>4, <1>17, <2>3 DEF CallsDescend
    <3>2. h \in RootsIn(before.entries, Top.test, Top.key)
      BY <1>6, <2>1, <2>3 DEF RootsIn, Selects
    <3>. QED  BY <1>4, <1>18, <3>1, <3>2
  <2>. QED  BY <2>2, <2>3
<1>20. \A k \in 1 .. n + 1 : k = n + 1 \/ k \in 1 .. n
  BY <1>4
<1>21. CallsDescend'
  <2>1. \A k \in 2 .. n + 1 : stack'[k].test = "child"
    BY <1>2, <1>4, <1>7, <1>9, <1>11, <1>17 DEF CallsDescend
  <2>2. ASSUME NEW k \in 1 .. n, stack'[k].test = "child"
        PROVE  /\ entries'[stack'[k + 1].key].parent = stack'[k].key
               /\ stack'[k].key < stack'[k + 1].key
    <3>1. CASE k = n
      <4>1. Top.test = "child" /\ stack'[n].key = Top.key
        BY <1>5, <1>9, <2>2, <3>1
      <4>2. entries[h].parent = Top.key /\ h \in Used
        BY <1>6, <4>1 DEF Selects, Live
      <4>3. Top.key \in Slots /\ Top.key # None
        BY <1>4, <4>1, FrameFacts, NoneAssumption DEF Slots
      <4>4. Top.key < h
        BY <1>1, <4>2, <4>3 DEF TableInv, ParentBelowChild
      <4>. QED  BY <1>7, <1>9, <1>15, <3>1, <4>1, <4>2, <4>4
    <3>2. CASE k # n
      <4>1. k \in 1 .. n - 1 /\ k \in 1 .. n /\ k + 1 \in 1 .. n
        BY <1>4, <3>2
      <4>2. stack[k].test = "child" /\ stack[k + 1].test = "child"
        BY <1>2, <1>4, <1>11, <1>17, <2>2, <4>1 DEF CallsDescend
      <4>3. /\ entries[stack[k + 1].key].parent = stack[k].key
            /\ stack[k].key < stack[k + 1].key
        BY <1>2, <1>17, <4>1, <4>2 DEF CallsDescend
      <4>4. stack[k + 1].key \in Used
        BY <1>4, <1>17, <1>18, <4>1, <4>2 DEF KeysAreRevoked, LiveIn
      <4>. QED  BY <1>11, <1>15, <4>1, <4>3, <4>4
    <3>. QED  BY <3>1, <3>2
  <2>3. (n + 1) - 1 = n
    BY <1>4
  <2>. QED  BY <1>9, <2>1, <2>2, <2>3 DEF CallsDescend
<1>22. KeysAreRevoked'
  <2>1. \A k \in 1 .. n : stack'[k].test = "child" => stack'[k].key \in Reach \ Live'
    BY <1>4, <1>11, <1>15, <1>17 DEF KeysAreRevoked
  <2>2. stack'[n + 1].key \in Reach \ Live'
    BY <1>7, <1>9, <1>15, <1>19
  <2>. QED  BY <1>10, <1>14, <1>20, <2>1, <2>2 DEF KeysAreRevoked
<1>23. GcSeesTheTick'
  BY <1>1, <1>4, <1>7, <1>9, <1>10, <1>11, <1>20 DEF WalkInv, GcSeesTheTick
<1>24. OrphansAreOwned'
  <2>1. SUFFICES ASSUME NEW c \in Live \ {h}, entries[c].parent # None,
                        entries[c].parent \notin Live \ {h}
                 PROVE  \E k \in 1 .. n + 1 :
                           stack'[k].test = "child" /\ stack'[k].key = entries[c].parent
    BY <1>10, <1>15 DEF OrphansAreOwned, Live
  <2>2. CASE entries[c].parent = h
    <3>1. n + 1 \in 1 .. n + 1
      BY <1>4
    <3>. QED  BY <1>7, <1>9, <2>2, <3>1
  <2>3. CASE entries[c].parent # h
    <3>1. PICK k \in 1 .. n : stack[k].test = "child" /\ stack[k].key = entries[c].parent
      BY <1>4, <2>1, <2>3 DEF WalkInv, OrphansAreOwned
    <3>2. k \in 1 .. n + 1
      BY <1>4
    <3>. QED  BY <1>11, <3>1, <3>2
  <2>. QED  BY <2>2, <2>3
<1>25. ScannedIsDone'
  <2>1. SUFFICES ASSUME NEW k \in 1 .. n + 1, NEW i \in Live \ {h}, Selects(stack[k], i)'
                 PROVE  stack'[k].next <= i
    BY <1>10, <1>15 DEF ScannedIsDone
  <2>2. i \in Nat /\ i \in Used
    BY DEF Live, Used, Slots
  <2>3. CASE k = n + 1
    BY <1>7, <1>9, <2>2, <2>3
  <2>4. CASE k \in 1 .. n
    <3>1. Selects(stack[k], i)
      BY <2>1, <2>2, <2>4, <1>11, <1>15 DEF Selects
    <3>2. stack[k].next <= i
      BY <3>1, <1>4, <2>4 DEF WalkInv, ScannedIsDone
    <3>3. CASE k = n
      BY <1>3, <1>4, <1>5, <1>9, <2>1, <2>2, <3>2, <3>3
    <3>4. CASE k # n
      BY <1>4, <1>9, <2>4, <3>2, <3>4
    <3>. QED  BY <3>3, <3>4
  <2>. QED  BY <1>20, <2>3, <2>4
<1>26. OnlyTheCascadeIsMarked'
  <2>1. /\ before.entries \in [Slots -> CapEntry \cup {None}]
        /\ before.active_count = Cardinality(LiveIn(before.entries))
        /\ \A i \in Slots :
              \/ entries[i] = before.entries[i]
              \/ /\ i \in Reach
                 /\ entries[i] = [before.entries[i] EXCEPT !.revoked = TRUE]
    BY <1>1, <1>17 DEF OnlyTheCascadeIsMarked
  <2>2. ASSUME NEW i \in Slots
        PROVE  \/ entries'[i] = before.entries[i]
               \/ /\ i \in Reach
                  /\ entries'[i] = [before.entries[i] EXCEPT !.revoked = TRUE]
    <3>1. CASE i = h
      BY <1>6, <1>15, <1>18, <1>19, <3>1
    <3>2. CASE i # h
      BY <1>15, <2>1, <3>2
    <3>. QED  BY <3>1, <3>2
  <2>. QED  BY <1>1, <1>14, <2>1, <2>2 DEF OnlyTheCascadeIsMarked
<1>. QED
  BY <1>9, <1>16, <1>21, <1>22, <1>23, <1>24, <1>25, <1>26 DEF WalkInv

\* The innermost loop ends; if it was the outermost one too, the table is free.
LEMMA ReturnStep == WalkInv /\ Return => WalkInv'
<1>. SUFFICES ASSUME WalkInv, Return PROVE WalkInv'
  OBVIOUS
<1>1. /\ stack \in Seq(Frame) /\ ~Idle
      /\ Top.next = MaxCapabilities
      /\ stack' = Below
      /\ Len(stack) # 1 => before' = before
      /\ UNCHANGED <<entries, active_count, tick>>
  BY DEF Return, WalkInv
<1>2. PICK n : n = Len(stack)
  OBVIOUS
<1>3. /\ n \in Nat /\ n >= 1
      /\ Top = stack[n] /\ Top \in Frame
      /\ Calls = 1 .. n
  BY <1>1, <1>2, TopFacts DEF Calls
<1>4. /\ stack' \in Seq(Frame)
      /\ Len(stack') = n - 1
      /\ \A k \in 1 .. n - 1 : stack'[k] = stack[k]
  BY <1>1, <1>2, BelowFacts
<1>5. Calls' = 1 .. n - 1 /\ \A k \in 1 .. n - 1 : k \in 1 .. n
  BY <1>3, <1>4 DEF Calls
<1>6. Live' = Live /\ Used' = Used
  BY <1>1 DEF Live, Used
<1>7. ASSUME n # 1
      PROVE  Reach' = Reach /\ before' = before /\ 1 \in 1 .. n - 1
  <2>1. 1 \in 1 .. n - 1 /\ before' = before
    BY <1>1, <1>2, <1>3, <1>7
  <2>. QED  BY <1>4, <2>1, SameReach
<1>8. TableInv'
  BY <1>1, <1>6 DEF WalkInv, TableInv, TypeOK, ActiveCountExact, ParentBelowChild,
     SlotsFillFromBelow, DelegationAttenuates
<1>9. CallsDescend'
  <2>1. \A k \in 2 .. n - 1 : stack'[k].test = "child"
    BY <1>2, <1>3, <1>4 DEF WalkInv, CallsDescend
  <2>2. ASSUME NEW k \in 1 .. (n - 1) - 1, stack'[k].test = "child"
        PROVE  /\ entries'[stack'[k + 1].key].parent = stack'[k].key
               /\ stack'[k].key < stack'[k + 1].key
    <3>1. k \in 1 .. n - 1 /\ k + 1 \in 1 .. n - 1
      BY <1>3
    <3>2. /\ entries[stack[k + 1].key].parent = stack[k].key
          /\ stack[k].key < stack[k + 1].key
      BY <1>2, <1>4, <2>2, <3>1 DEF WalkInv, CallsDescend
    <3>. QED  BY <1>1, <1>4, <3>1, <3>2
  <2>. QED  BY <1>4, <2>1, <2>2 DEF CallsDescend
<1>10. KeysAreRevoked'
  <2>1. SUFFICES ASSUME NEW k \in 1 .. n - 1, stack'[k].test = "child"
                 PROVE  stack'[k].key \in Reach' \ Live
    BY <1>5, <1>6 DEF KeysAreRevoked
  <2>2. n # 1
    BY <1>3, <2>1
  <2>. QED  BY <1>3, <1>4, <1>5, <1>7, <2>1, <2>2 DEF WalkInv, KeysAreRevoked
<1>11. GcSeesTheTick'
  BY <1>1, <1>3, <1>4, <1>5 DEF WalkInv, GcSeesTheTick
<1>12. OrphansAreOwned'
  <2>1. SUFFICES ASSUME NEW c \in Live, entries[c].parent # None,
                        entries[c].parent \notin Live
                 PROVE  \E k \in 1 .. n - 1 :
                           stack'[k].test = "child" /\ stack'[k].key = entries[c].parent
    BY <1>1, <1>5, <1>6 DEF OrphansAreOwned
  <2>2. PICK k \in 1 .. n : stack[k].test = "child" /\ stack[k].key = entries[c].parent
    BY <1>3, <2>1 DEF WalkInv, OrphansAreOwned
  <2>3. k # n
    <3>1. SUFFICES ASSUME k = n PROVE FALSE
      OBVIOUS
    <3>2. Selects(Top, c)
      BY <1>3, <2>2, <3>1 DEF Selects
    <3>3. Top.next <= c
      BY <1>3, <2>2, <3>1, <3>2 DEF WalkInv, ScannedIsDone
    <3>4. c \in Slots
      BY DEF Live, Used
    <3>. QED  BY <1>1, <3>3, <3>4, MaxCapabilitiesAssumption DEF Slots
  <2>4. k \in 1 .. n - 1
    BY <1>3, <2>3
  <2>. QED  BY <1>4, <2>2, <2>4
<1>13. ScannedIsDone'
  <2>1. SUFFICES ASSUME NEW k \in 1 .. n - 1, NEW i \in Live, Selects(stack[k], i)'
                 PROVE  stack'[k].next <= i
    BY <1>5, <1>6 DEF ScannedIsDone
  <2>2. Selects(stack[k], i)
    BY <1>1, <1>4, <1>6, <2>1 DEF Selects
  <2>. QED  BY <1>3, <1>4, <1>5, <2>2 DEF WalkInv, ScannedIsDone
<1>14. OnlyTheCascadeIsMarked'
  <2>1. CASE n = 1
    <3>1. Idle'
      BY <1>4, <2>1, EmptySeq DEF Idle
    <3>. QED  BY <3>1 DEF OnlyTheCascadeIsMarked
  <2>2. CASE n # 1
    BY <1>1, <1>7, <2>2 DEF WalkInv, OnlyTheCascadeIsMarked
  <2>. QED  BY <2>1, <2>2
<1>. QED
  BY <1>4, <1>8, <1>9, <1>10, <1>11, <1>12, <1>13, <1>14 DEF WalkInv

\* Between calls the table has all of CapTable's invariant.
LEMMA IdleTable == WalkInv /\ Idle => IInv
<1>. SUFFICES ASSUME WalkInv, Idle PROVE NoOrphanAuthority
  BY DEF WalkInv, TableInv, IInv
<1>1. Calls = {}
  BY EmptySeq DEF Idle, Calls
<1>. QED  BY <1>1 DEF WalkInv, OrphansAreOwned, NoOrphanAuthority

\* The stack and the history variable when a call begins.
LEMMA EnterFacts ==
    ASSUME NEW f \in Frame, Enter(f), TypeOK, ActiveCountExact
    PROVE  /\ stack' \in Seq(Frame) /\ Len(stack') = 1 /\ stack'[1] = f
           /\ Calls' = {1} /\ ~Idle'
           /\ before'.entries = entries
           /\ before'.active_count = Cardinality(LiveIn(entries))
           /\ LiveIn(entries) = Live
           /\ Reach' = CascadeIn(entries, RootsIn(entries, f.test, f.key))
           /\ RootsIn(entries, f.test, f.key) \subseteq Reach'
<1>1. stack' = <<f>>
  BY DEF Enter
<1>2. stack' \in Seq(Frame) /\ Len(stack') = 1 /\ stack'[1] = f
  BY <1>1
<1>3. Calls' = {1}
  BY <1>2 DEF Calls
<1>4. ~Idle'
  BY <1>2, EmptySeq DEF Idle
<1>5. before'.entries = entries /\ before'.active_count = active_count
  BY DEF Enter
<1>6. LiveIn(entries) = Live
  BY DEF LiveIn, Live, Used
<1>7. Reach' = CascadeIn(entries, RootsIn(entries, f.test, f.key))
  BY <1>2, <1>5 DEF Reach
<1>8. RootsIn(entries, f.test, f.key) \subseteq LiveIn(entries)
  BY DEF RootsIn
<1>9. RootsIn(entries, f.test, f.key) \subseteq Reach'
  BY <1>7, <1>8, CascadeInProperties
<1>. QED
  BY <1>2, <1>3, <1>4, <1>5, <1>6, <1>7, <1>9 DEF ActiveCountExact

\* revoke is called on a live handle.
LEMMA CallRevokeStep ==
    ASSUME WalkInv, NEW h \in Handles, CallRevoke(h)
    PROVE  WalkInv'
<1>1. h \in Live /\ Mark(h) /\ Enter(Children(h)) /\ Idle /\ UNCHANGED tick
  BY DEF CallRevoke, Enter
<1>2. IInv /\ TableInv /\ TypeOK /\ ActiveCountExact /\ NoOrphanAuthority
  BY <1>1, IdleTable DEF WalkInv, TableInv, IInv
<1>3. h \in Slots /\ h \in Used
  BY <1>1 DEF Live, Used
<1>4. /\ Children(h) \in Frame
      /\ Children(h).test = "child"
      /\ Children(h).key = h
      /\ Children(h).next = 0
  BY <1>3, ChildrenFacts
<1>5. /\ stack' \in Seq(Frame) /\ Len(stack') = 1 /\ stack'[1] = Children(h)
      /\ Calls' = {1}
      /\ before'.entries = entries
      /\ before'.active_count = Cardinality(LiveIn(entries))
      /\ LiveIn(entries) = Live
      /\ RootsIn(entries, "child", h) \subseteq Reach'
  BY <1>1, <1>2, <1>4, EnterFacts
<1>6. h \in Reach'
  BY <1>1, <1>5 DEF RootsIn
<1>7. /\ entries' \in [Slots -> CapEntry \cup {None}]
      /\ \A i \in Slots \ {h} : entries'[i] = entries[i]
      /\ entries'[h] = [entries[h] EXCEPT !.revoked = TRUE]
      /\ \A i \in Used : entries'[i].parent = entries[i].parent
      /\ Used' = Used
      /\ Live' = Live \ {h}
  BY <1>1, <1>2, MarkEffect
<1>8. TableInv'
  BY <1>1, <1>2, MarkKeepsTable
<1>9. CallsDescend'
  BY <1>5 DEF CallsDescend
<1>10. KeysAreRevoked'
  BY <1>4, <1>5, <1>6, <1>7 DEF KeysAreRevoked
<1>11. GcSeesTheTick'
  BY <1>4, <1>5 DEF GcSeesTheTick
<1>12. OrphansAreOwned'
  <2>1. SUFFICES ASSUME NEW c \in Live \ {h}, entries[c].parent # None,
                        entries[c].parent \notin Live \ {h}
                 PROVE  entries[c].parent = h
    BY <1>4, <1>5, <1>7 DEF OrphansAreOwned, Live
  <2>. QED  BY <1>2, <2>1 DEF NoOrphanAuthority
<1>13. ScannedIsDone'
  <2>1. \A i \in Live' : i \in Nat
    BY DEF Live, Used, Slots
  <2>. QED  BY <1>4, <1>5, <2>1 DEF ScannedIsDone
<1>14. OnlyTheCascadeIsMarked'
  <2>1. \A i \in Slots :
           \/ entries'[i] = entries[i]
           \/ i \in Reach' /\ entries'[i] = [entries[i] EXCEPT !.revoked = TRUE]
    BY <1>6, <1>7
  <2>. QED  BY <1>2, <1>5, <2>1 DEF OnlyTheCascadeIsMarked, TypeOK
<1>. QED
  BY <1>5, <1>8, <1>9, <1>10, <1>11, <1>12, <1>13, <1>14 DEF WalkInv

\* A loop over the whole table begins; nothing is marked yet.
LEMMA CallLoopStep ==
    ASSUME WalkInv, NEW f \in Frame, Enter(f), UNCHANGED capVars,
           f.test # "child", f.test = "expired" => f.key = tick, f.next = 0
    PROVE  WalkInv'
<1>1. Idle /\ UNCHANGED <<entries, active_count, tick>>
  BY DEF Enter, capVars
<1>2. IInv /\ TableInv /\ TypeOK /\ ActiveCountExact /\ NoOrphanAuthority
  BY <1>1, IdleTable DEF WalkInv, TableInv, IInv
<1>3. /\ stack' \in Seq(Frame) /\ Len(stack') = 1 /\ stack'[1] = f
      /\ Calls' = {1}
      /\ before'.entries = entries
      /\ before'.active_count = Cardinality(LiveIn(entries))
  BY <1>2, EnterFacts
<1>4. Live' = Live /\ Used' = Used
  BY <1>1 DEF Live, Used
<1>5. TableInv'
  BY <1>1, <1>2, <1>4 DEF TableInv, TypeOK, ActiveCountExact, ParentBelowChild,
     SlotsFillFromBelow, DelegationAttenuates
<1>6. CallsDescend'
  BY <1>3 DEF CallsDescend
<1>7. KeysAreRevoked' /\ GcSeesTheTick'
  BY <1>1, <1>3 DEF KeysAreRevoked, GcSeesTheTick
<1>8. OrphansAreOwned'
  BY <1>1, <1>2, <1>4 DEF OrphansAreOwned, NoOrphanAuthority
<1>9. ScannedIsDone'
  <2>1. \A i \in Live' : i \in Nat
    BY DEF Live, Used, Slots
  <2>. QED  BY <1>3, <2>1 DEF ScannedIsDone
<1>10. OnlyTheCascadeIsMarked'
  BY <1>1, <1>2, <1>3 DEF OnlyTheCascadeIsMarked, TypeOK
<1>. QED
  BY <1>3, <1>5, <1>6, <1>7, <1>8, <1>9, <1>10 DEF WalkInv

\* With the lock free the other operations work on the table as in CapTable.
LEMMA OtherIsNext == Other => Next /\ UNCHANGED <<stack, before>> /\ Idle /\ Idle'
BY DEF Other, Next, Idle

\* A grant, a delegation or a tick, all outside a cascade, keeps the
\* invariant.
LEMMA OtherStep == WalkInv /\ Other => WalkInv'
<1>. SUFFICES ASSUME WalkInv, Other PROVE WalkInv'
  OBVIOUS
<1>1. Next /\ UNCHANGED <<stack, before>> /\ Idle /\ Idle'
  BY OtherIsNext
<1>2. IInv'
  BY <1>1, IdleTable, NextIInv
<1>3. Calls' = {} /\ Len(stack') = 0
  BY <1>1, EmptySeq DEF Idle, Calls
<1>4. TableInv'
  BY <1>2 DEF IInv, TableInv
<1>5. CallsDescend'
  BY <1>3 DEF CallsDescend
<1>6. KeysAreRevoked' /\ GcSeesTheTick' /\ ScannedIsDone'
  BY <1>3 DEF KeysAreRevoked, GcSeesTheTick, ScannedIsDone
<1>7. OrphansAreOwned'
  BY <1>2 DEF IInv, NoOrphanAuthority, OrphansAreOwned
<1>8. OnlyTheCascadeIsMarked'
  BY <1>1 DEF OnlyTheCascadeIsMarked
<1>9. stack' \in Seq(Frame)
  BY <1>1 DEF WalkInv
<1>. QED  BY <1>4, <1>5, <1>6, <1>7, <1>8, <1>9 DEF WalkInv

\* The invariant holds of an empty table with nothing to scan.
LEMMA WalkInitInv == WalkInit => WalkInv
<1>. SUFFICES ASSUME WalkInit PROVE WalkInv
  OBVIOUS
<1>1. IInv
  BY InitIInv DEF WalkInit
<1>2. Idle /\ Calls = {} /\ Len(stack) = 0 /\ stack \in Seq(Frame)
  BY EmptySeq DEF WalkInit, Idle, Calls
<1>3. TableInv
  BY <1>1 DEF IInv, TableInv
<1>4. CallsDescend
  BY <1>2 DEF CallsDescend
<1>5. KeysAreRevoked /\ GcSeesTheTick /\ ScannedIsDone
  BY <1>2 DEF KeysAreRevoked, GcSeesTheTick, ScannedIsDone
<1>6. OrphansAreOwned
  BY <1>1 DEF IInv, NoOrphanAuthority, OrphansAreOwned
<1>7. OnlyTheCascadeIsMarked
  BY <1>2 DEF OnlyTheCascadeIsMarked
<1>. QED  BY <1>2, <1>3, <1>4, <1>5, <1>6, <1>7 DEF WalkInv

\* Every step, of a cascade or between cascades, keeps the invariant.
LEMMA WalkNextInv == WalkInv /\ [WalkNext]_walkVars => WalkInv'
<1>. SUFFICES ASSUME WalkInv, [WalkNext]_walkVars PROVE WalkInv'
  OBVIOUS
<1>1. CASE Skip
  BY <1>1, SkipStep
<1>2. CASE Descend
  BY <1>2, DescendStep
<1>3. CASE Return
  BY <1>3, ReturnStep
<1>4. ASSUME NEW h \in Handles, CallRevoke(h) PROVE WalkInv'
  BY <1>4, CallRevokeStep
<1>5. ASSUME NEW a \in Agents, CallRevokeAll(a) PROVE WalkInv'
  <2>. DEFINE f == [test |-> "owner", key |-> a, next |-> 0]
  <2>1. f \in Frame /\ f.test = "owner" /\ f.next = 0
    BY MaxCapabilitiesAssumption DEF Frame
  <2>2. Enter(f) /\ UNCHANGED capVars
    BY <1>5 DEF CallRevokeAll
  <2>. HIDE DEF f
  <2>. QED  BY <2>1, <2>2, CallLoopStep
<1>6. CASE CallGc
  <2>. DEFINE f == [test |-> "expired", key |-> tick, next |-> 0]
  <2>1. tick \in Nat
    BY DEF WalkInv, TableInv, TypeOK
  <2>2. f \in Frame /\ f.test = "expired" /\ f.next = 0 /\ f.key = tick
    BY <2>1, MaxCapabilitiesAssumption DEF Frame
  <2>3. Enter(f) /\ UNCHANGED capVars
    BY <1>6 DEF CallGc
  <2>. HIDE DEF f
  <2>. QED  BY <2>2, <2>3, CallLoopStep
<1>7. CASE Other
  BY <1>7, OtherStep
<1>8. CASE UNCHANGED walkVars
  <2>1. /\ UNCHANGED <<entries, active_count, tick, stack, before>>
        /\ Live' = Live /\ Used' = Used
    BY <1>8 DEF walkVars, Live, Used
  <2>2. TableInv'
    BY <2>1 DEF WalkInv, TableInv, TypeOK, ActiveCountExact, ParentBelowChild,
       SlotsFillFromBelow, DelegationAttenuates
  <2>3. Calls' = Calls /\ Reach' = Reach /\ Idle' = Idle
    BY <2>1 DEF Calls, Reach, Idle
  <2>4. CallsDescend' /\ KeysAreRevoked' /\ GcSeesTheTick'
    BY <2>1, <2>3 DEF WalkInv, CallsDescend, KeysAreRevoked, GcSeesTheTick
  <2>5. OrphansAreOwned'
    BY <2>1, <2>3 DEF WalkInv, OrphansAreOwned
  <2>6. ScannedIsDone'
    BY <2>1, <2>3 DEF WalkInv, ScannedIsDone, Selects
  <2>7. OnlyTheCascadeIsMarked'
    BY <2>1, <2>3 DEF WalkInv, OnlyTheCascadeIsMarked
  <2>. QED  BY <2>1, <2>2, <2>4, <2>5, <2>6, <2>7 DEF WalkInv
<1>. QED
  BY <1>1, <1>2, <1>3, <1>4, <1>5, <1>6, <1>7, <1>8 DEF WalkNext, Walk

\* The invariant holds in every reachable state.
LEMMA WalkSpecInv == WalkSpec => []WalkInv
BY WalkInitInv, WalkNextInv, PTL DEF WalkSpec

-----------------------------------------------------------------------------
(* The theorems. *)

\* In the middle of a cascade the calls are a path down the delegation forest,
\* every live child of a revoked entry is still to be reached by a running
\* loop, and the count is exact.
THEOREM CascadeKeepsCount == WalkSpec => []CascadeInvariant
<1>1. WalkInv => CascadeInvariant
  <2>. SUFFICES ASSUME WalkInv PROVE UnreachedChildrenArePending
    BY DEF WalkInv, TableInv, CascadeInvariant
  <2>1. SUFFICES ASSUME NEW c \in Live, entries[c].parent # None,
                        entries[c].parent \notin Live
                 PROVE  \E k \in Calls :
                           /\ stack[k].test = "child"
                           /\ stack[k].key = entries[c].parent
                           /\ stack[k].next <= c
    BY DEF UnreachedChildrenArePending, Calls
  <2>2. PICK k \in Calls : stack[k].test = "child" /\ stack[k].key = entries[c].parent
    BY <2>1 DEF WalkInv, OrphansAreOwned
  <2>3. Selects(stack[k], c)
    BY <2>2 DEF Selects
  <2>. QED  BY <2>2, <2>3 DEF WalkInv, ScannedIsDone
<1>. QED  BY <1>1, WalkSpecInv, PTL

-----------------------------------------------------------------------------
(* The refinement: what the lock shows of the table. *)

\* Between calls it shows the table itself.
LEMMA IdleShows ==
    ASSUME Idle
    PROVE  /\ Abs!Used = Used /\ Abs!Live = Live
           /\ \A s : Abs!IsFirstFree(s) = IsFirstFree(s)
           /\ \A h, R : Abs!Check(h, R) = Check(h, R)
<1>1. Abs!Used = Used
  BY DEF Abs!Used, Used, Abs!Slots, Slots
<1>2. Abs!Live = Live
  BY <1>1 DEF Abs!Live, Live
<1>3. \A s : Abs!IsFirstFree(s) = IsFirstFree(s)
  BY DEF Abs!IsFirstFree, IsFirstFree, Abs!Slots, Slots
<1>4. \A h, R : Abs!Check(h, R) = Check(h, R)
  BY <1>1 DEF Abs!Check, Check, Abs!IsExpired, IsExpired
<1>. QED  BY <1>1, <1>2, <1>3, <1>4

\* A step that leaves what is shown alone.
LEMMA ShowsTheSame ==
    ASSUME tick' = tick,
           \/ Idle /\ ~Idle' /\ before'.entries = entries
                   /\ before'.active_count = active_count
           \/ ~Idle /\ ~Idle' /\ before' = before
    PROVE  UNCHANGED Abs!vars
BY DEF Abs!vars

\* With the lock free, an operation is the same operation of CapTable.
LEMMA OtherRefines == Other => Abs!Next
<1>. SUFFICES ASSUME Other PROVE Abs!Next
  OBVIOUS
<1>1. Idle /\ Idle'
  BY OtherIsNext
<1>2. ASSUME NEW s, NEW e, Insert(s, e)
      PROVE  Abs!Insert(s, e)
  BY <1>1, <1>2, IdleShows DEF Insert, Abs!Insert
<1>3. CASE GrantAny
  <2>1. PICK s \in Slots, a \in Agents, r \in Resources, R \in SUBSET Rights,
             t \in Timeouts : Grant(s, a, r, R, ExpiryOf(t)) /\ UNCHANGED tick
    BY <1>3 DEF GrantAny
  <2>2. Abs!Grant(s, a, r, R, Abs!ExpiryOf(t))
    BY <1>2, <2>1 DEF Grant, Abs!Grant, ExpiryOf, Abs!ExpiryOf
  <2>. QED  BY <2>1, <2>2 DEF Abs!Next, Abs!GrantAny, Abs!Slots, Slots
<1>4. CASE DelegateAny
  <2>1. PICK s \in Slots, p \in Handles, a \in Agents, R \in SUBSET Rights :
             Delegate(s, p, a, R) /\ UNCHANGED tick
    BY <1>4 DEF DelegateAny
  <2>2. Abs!Delegate(s, p, a, R)
    BY <1>1, <1>2, <2>1, IdleShows DEF Delegate, Abs!Delegate
  <2>. QED  BY <2>1, <2>2 DEF Abs!Next, Abs!DelegateAny, Abs!Slots, Slots,
       Abs!Handles, Handles
<1>5. CASE Tick
  BY <1>1, <1>5 DEF Tick, capVars, Abs!Next, Abs!Tick, Abs!capVars
<1>. QED  BY <1>3, <1>4, <1>5 DEF Other

\* While a call runs, the table as it was at the call is shown.
LEMMA WalkShows ==
    ASSUME ~Idle
    PROVE  /\ Abs!Live = LiveIn(before.entries)
           /\ \A H : Abs!Cascade(H) = CascadeIn(before.entries, H)
<1>1. Abs!Live = LiveIn(before.entries)
  BY DEF Abs!Live, Abs!Used, Abs!Slots, Slots, LiveIn
<1>2. \A S : Abs!ClosedUnderChildren(S) = ClosedIn(before.entries, S)
  BY <1>1 DEF Abs!ClosedUnderChildren, ClosedIn
<1>3. \A H : Abs!Cascade(H) = CascadeIn(before.entries, H)
  BY <1>1, <1>2 DEF Abs!Cascade, CascadeIn
<1>. QED  BY <1>1, <1>3

\* A cascade depends on the live handles that it starts from.
LEMMA CascadeOfLive ==
    ASSUME NEW T, NEW G, NEW H, G \cap LiveIn(T) = H \cap LiveIn(T)
    PROVE  CascadeIn(T, G) = CascadeIn(T, H)
BY DEF CascadeIn

\* When the outermost loop is at its end, what is marked is the whole cascade.
LEMMA AllIsMarked ==
    ASSUME WalkInv, ~Idle, Len(stack) = 1, Top.next = MaxCapabilities
    PROVE  Reach = LiveIn(before.entries) \ Live
<1>. DEFINE B == before.entries
            R == RootsIn(B, stack[1].test, stack[1].key)
            Marked == LiveIn(B) \ Live
<1>1. /\ OnlyTheCascadeIsMarked /\ TypeOK
      /\ KeysAreRevoked /\ OrphansAreOwned /\ ScannedIsDone
      /\ stack \in Seq(Frame)
  BY DEF WalkInv, TableInv
<1>2. /\ Reach \subseteq LiveIn(B)
      /\ Marked \subseteq Reach
      /\ \A i \in Live : entries[i] = B[i]
  BY <1>1, SinceTheCall
<1>3. R \subseteq LiveIn(B) /\ LiveIn(B) \subseteq Slots
  BY DEF RootsIn, LiveIn
<1>4. Calls = {1} /\ 1 \in Calls /\ Top = stack[1] /\ Top \in Frame
  <2>1. Calls = {1}
    BY DEF Calls
  <2>. QED  BY <1>1, <2>1, TopFacts
<1>5. \A i \in Live : ~Selects(stack[1], i)
  <2>1. SUFFICES ASSUME NEW i \in Live, Selects(stack[1], i) PROVE FALSE
    OBVIOUS
  <2>2. stack[1].next <= i
    BY <1>1, <1>4, <2>1 DEF ScannedIsDone
  <2>3. i \in Slots
    BY DEF Live, Used
  <2>. QED  BY <1>4, <2>2, <2>3, MaxCapabilitiesAssumption DEF Slots
<1>6. R \subseteq Marked
  <2>1. SUFFICES ASSUME NEW i \in R, i \in Live PROVE FALSE
    BY <1>3
  <2>2. entries[i] = B[i]
    BY <1>2, <2>1
  <2>3. stack[1].test # "child"
    BY <1>1, <1>4, <2>1 DEF KeysAreRevoked, RootsIn
  <2>4. Selects(stack[1], i)
    BY <2>1, <2>2, <2>3 DEF Selects, RootsIn
  <2>. QED  BY <1>5, <2>1, <2>4
<1>7. ClosedIn(B, Marked)
  <2>1. SUFFICES ASSUME NEW c \in LiveIn(B), B[c].parent \in Marked, c \in Live
                 PROVE  FALSE
    BY DEF ClosedIn
  <2>2. entries[c].parent = B[c].parent
    BY <1>2, <2>1
  <2>3. B[c].parent \in Slots /\ B[c].parent # None
    BY <1>3, <2>1, NoneAssumption DEF Slots
  <2>4. stack[1].test = "child" /\ stack[1].key = entries[c].parent
    BY <1>1, <1>4, <2>1, <2>2, <2>3 DEF OrphansAreOwned
  <2>5. Selects(stack[1], c)
    BY <2>1, <2>4 DEF Selects
  <2>. QED  BY <1>5, <2>1, <2>5
<1>8. Reach \subseteq Marked
  <2>. DEFINE S == {c \in Marked : B[c].parent # None}
  <2>1. S \in SUBSET {c \in LiveIn(B) : B[c].parent # None}
    OBVIOUS
  <2>2. ClosedIn(B, (R \cap LiveIn(B)) \cup S)
    <3>1. SUFFICES ASSUME NEW c \in LiveIn(B),
                          B[c].parent \in (R \cap LiveIn(B)) \cup S
                   PROVE  c \in S
      BY DEF ClosedIn
    <3>2. B[c].parent \in Marked /\ B[c].parent \in Slots
      BY <1>3, <1>6, <3>1
    <3>3. B[c].parent # None
      BY <3>2, NoneAssumption DEF Slots
    <3>4. c \in Marked
      BY <1>7, <3>1, <3>2 DEF ClosedIn
    <3>. QED  BY <3>3, <3>4
  <2>3. (R \cap LiveIn(B)) \cup S \subseteq Marked
    BY <1>6
  <2>4. Reach = CascadeIn(B, R)
    BY DEF Reach
  <2>. HIDE DEF S, R, Marked, B
  <2>5. CascadeIn(B, R) \subseteq (R \cap LiveIn(B)) \cup S
    BY <2>1, <2>2 DEF CascadeIn
  <2>. QED  BY <2>3, <2>4, <2>5
<1>. QED  BY <1>2, <1>8

\* The table then is the table at the call with its cascade marked at once.
LEMMA LastReturnMarks ==
    ASSUME WalkInv, Return, Len(stack) = 1
    PROVE  Abs!MarkRevoked(Reach)
<1>. DEFINE B == before.entries
<1>1. /\ ~Idle /\ Top.next = MaxCapabilities /\ stack' = Below
      /\ UNCHANGED <<entries, active_count, tick>>
      /\ TypeOK /\ OnlyTheCascadeIsMarked /\ ActiveCountExact
      /\ stack \in Seq(Frame)
  BY DEF Return, WalkInv, TableInv
<1>2. Idle'
  <2>1. Len(stack') = 0 /\ stack' \in Seq(Frame)
    BY <1>1, BelowFacts
  <2>. QED  BY <2>1, EmptySeq DEF Idle
<1>3. Reach = LiveIn(B) \ Live /\ Live \subseteq LiveIn(B)
  BY <1>1, AllIsMarked, SinceTheCall
<1>4. /\ B \in [Slots -> CapEntry \cup {None}]
      /\ before.active_count = Cardinality(LiveIn(B))
      /\ \A i \in Slots : \/ entries[i] = B[i]
                          \/ /\ i \in Reach
                             /\ entries[i] = [B[i] EXCEPT !.revoked = TRUE]
  BY <1>1 DEF OnlyTheCascadeIsMarked
<1>5. \A i \in Slots : entries[i] = IF i \in Reach THEN [B[i] EXCEPT !.revoked = TRUE]
                                    ELSE B[i]
  <2>1. SUFFICES ASSUME NEW i \in Slots, i \in Reach, entries[i] = B[i] PROVE FALSE
    BY <1>4
  <2>. QED  BY <1>3, <2>1 DEF LiveIn, Live, Used
<1>6. entries = [i \in Slots |-> IF i \in Reach THEN [B[i] EXCEPT !.revoked = TRUE]
                                 ELSE B[i]]
  <2>1. entries \in [Slots -> CapEntry \cup {None}]
    BY <1>1 DEF TypeOK
  <2>2. entries = [i \in Slots |-> entries[i]]
    BY <2>1
  <2>. QED  BY <1>5, <2>2
<1>7. active_count = SaturatingSub(Cardinality(LiveIn(B)), Cardinality(Reach))
  <2>1. LiveIn(B) \in SUBSET Slots /\ Reach \in SUBSET Slots
    BY <1>3 DEF LiveIn
  <2>2. /\ IsFiniteSet(LiveIn(B)) /\ Cardinality(LiveIn(B)) \in Nat
        /\ Cardinality(Reach) \in Nat
    BY <2>1, SlotSetsFinite
  <2>3. LiveIn(B) \cap Reach = Reach /\ Live = LiveIn(B) \ Reach /\ Reach \subseteq LiveIn(B)
    BY <1>3
  <2>4. Cardinality(Reach) <= Cardinality(LiveIn(B))
    BY <2>2, <2>3, FS_Subset
  <2>5. Cardinality(Live) = Cardinality(LiveIn(B)) - Cardinality(Reach)
    BY <2>2, <2>3, FS_Difference
  <2>. QED  BY <1>1, <2>4, <2>5 DEF SaturatingSub, ActiveCountExact
<1>. HIDE DEF B
<1>8. Abs!SaturatingSub(Cardinality(LiveIn(B)), Cardinality(Reach))
        = SaturatingSub(Cardinality(LiveIn(B)), Cardinality(Reach))
  BY DEF Abs!SaturatingSub, SaturatingSub
<1>9. /\ (IF Idle THEN entries ELSE before.entries) = B
      /\ (IF Idle THEN active_count ELSE before.active_count) = before.active_count
  BY <1>1 DEF B
<1>10. /\ (IF Idle THEN entries ELSE before.entries)' = entries
       /\ (IF Idle THEN active_count ELSE before.active_count)' = active_count
  BY <1>1, <1>2
<1>11. (IF Idle THEN entries ELSE before.entries)'
          = [i \in Abs!Slots |->
               IF i \in Reach
               THEN [(IF Idle THEN entries ELSE before.entries)[i]
                       EXCEPT !.revoked = TRUE]
               ELSE (IF Idle THEN entries ELSE before.entries)[i]]
  BY <1>6, <1>9, <1>10 DEF Abs!Slots, Slots
<1>12. (IF Idle THEN active_count ELSE before.active_count)'
          = Abs!SaturatingSub(IF Idle THEN active_count ELSE before.active_count,
                              Cardinality(Reach))
  BY <1>4, <1>7, <1>8, <1>9, <1>10
<1>13. Abs!Cardinality(Reach) = Cardinality(Reach)
  BY DEF Abs!Cardinality, Cardinality
<1>. QED  BY <1>11, <1>12, <1>13 DEF Abs!MarkRevoked

\* The end of the outermost loop is the abstract operation.
LEMMA LastReturnRefines ==
    ASSUME WalkInv, Return, Len(stack) = 1
    PROVE  Abs!Next
<1>1. /\ ~Idle /\ UNCHANGED tick /\ stack \in Seq(Frame)
      /\ KeysAreRevoked /\ GcSeesTheTick
  BY DEF Return, WalkInv
<1>2. Abs!MarkRevoked(Reach)
  BY LastReturnMarks
<1>3. stack[1] \in Frame /\ 1 \in Calls
  BY <1>1, TopFacts
<1>4. /\ Abs!Live = LiveIn(before.entries)
      /\ \A H : Abs!Cascade(H) = CascadeIn(before.entries, H)
  BY <1>1, WalkShows
<1>5. ASSUME NEW H, H \cap LiveIn(before.entries)
                      = RootsIn(before.entries, stack[1].test, stack[1].key)
                          \cap LiveIn(before.entries)
      PROVE  Abs!RevokeEach(H)
  <2>1. Abs!Cascade(H) = Reach
    BY <1>4, <1>5, CascadeOfLive DEF Reach
  <2>. QED  BY <1>2, <2>1 DEF Abs!RevokeEach
<1>6. CASE stack[1].test = "child"
  <2>1. stack[1].key \in Slots
    BY <1>3, <1>6, FrameFacts
  <2>2. stack[1].key \in Abs!Handles
    BY <2>1, MaxCapabilitiesAssumption DEF Slots, Abs!Handles
  <2>3. Abs!RevokeEach({stack[1].key})
    BY <1>5, <1>6 DEF RootsIn
  <2>. QED  BY <1>1, <2>2, <2>3 DEF Abs!Next, Abs!RevokeAny, Abs!Revoke
<1>7. CASE stack[1].test = "owner"
  <2>1. stack[1].key \in Agents
    BY <1>3, <1>7 DEF Frame
  <2>2. {i \in Abs!Live : (IF Idle THEN entries ELSE before.entries)[i].owner = stack[1].key}
           = RootsIn(before.entries, stack[1].test, stack[1].key)
    BY <1>1, <1>4, <1>7 DEF RootsIn
  <2>3. Abs!RevokeAllForAgent(stack[1].key)
    BY <1>5, <2>2 DEF Abs!RevokeAllForAgent
  <2>. QED  BY <1>1, <2>1, <2>3 DEF Abs!Next, Abs!RevokeAllAny
<1>8. CASE stack[1].test = "expired"
  <2>1. stack[1].key = tick
    BY <1>1, <1>3, <1>8 DEF GcSeesTheTick
  <2>2. {i \in Abs!Live : Abs!IsExpired((IF Idle THEN entries ELSE before.entries)[i])}
           = RootsIn(before.entries, stack[1].test, stack[1].key)
    BY <1>1, <1>4, <1>8, <2>1 DEF RootsIn, Abs!IsExpired
  <2>3. Abs!GcExpired
    BY <1>5, <2>2 DEF Abs!GcExpired
  <2>. QED  BY <1>1, <2>3 DEF Abs!Next, Abs!GcAny
<1>. QED  BY <1>3, <1>6, <1>7, <1>8, FrameFacts

\* Every other step of a walk shows nothing.
LEMMA StepRefines ==
    ASSUME WalkInv, [WalkNext]_walkVars
    PROVE  [Abs!Next]_(Abs!vars)
<1>1. stack \in Seq(Frame)
  BY DEF WalkInv
<1>2. CASE Skip \/ Descend
  <2>1. ~Idle /\ before' = before /\ tick' = tick
    BY <1>2 DEF Skip, Descend
  <2>2. Top \in Frame /\ Top.next < MaxCapabilities
    BY <1>1, <1>2, <2>1, TopFacts DEF Skip, Descend
  <2>3. Advanced(Top) \in Frame /\ Children(Top.next) \in Frame
    BY <2>2, FrameFacts, ChildrenFacts
  <2>4. Append(Below, Advanced(Top)) \in Seq(Frame)
    BY <1>1, <2>1, <2>3, RetopFacts
  <2>5. ~Idle'
    <3>1. CASE Skip
      BY <1>1, <2>1, <2>3, <3>1, RetopFacts, TopFacts DEF Idle, Skip
    <3>2. CASE Descend
      <4>1. /\ Len(stack') = Len(Append(Below, Advanced(Top))) + 1
            /\ Len(Append(Below, Advanced(Top))) \in Nat
        BY <2>3, <2>4, <3>2, PushFacts, LenProperties DEF Descend
      <4>. QED  BY <4>1 DEF Idle
    <3>. QED  BY <1>2, <3>1, <3>2
  <2>. QED  BY <2>1, <2>5, ShowsTheSame
<1>3. CASE Return
  <2>1. CASE Len(stack) = 1
    BY <1>3, <2>1, LastReturnRefines
  <2>2. CASE Len(stack) # 1
    <3>1. ~Idle /\ before' = before /\ tick' = tick /\ stack' = Below
      BY <1>3, <2>2 DEF Return
    <3>2. ~Idle'
      BY <1>1, <2>2, <3>1, BelowFacts, TopFacts DEF Idle
    <3>. QED  BY <3>1, <3>2, ShowsTheSame
  <2>. QED  BY <2>1, <2>2
<1>4. ASSUME NEW f, Enter(f)
      PROVE  UNCHANGED Abs!vars
  <2>1. Idle /\ stack' = <<f>> /\ tick' = tick
        /\ before'.entries = entries /\ before'.active_count = active_count
    BY <1>4 DEF Enter
  <2>2. ~Idle'
    BY <2>1 DEF Idle
  <2>. QED  BY <2>1, <2>2, ShowsTheSame
<1>5. ASSUME NEW h \in Handles, CallRevoke(h) PROVE UNCHANGED Abs!vars
  BY <1>4, <1>5 DEF CallRevoke
<1>6. ASSUME NEW a \in Agents, CallRevokeAll(a) PROVE UNCHANGED Abs!vars
  BY <1>4, <1>6 DEF CallRevokeAll
<1>7. CASE CallGc
  BY <1>4, <1>7 DEF CallGc
<1>8. CASE Other
  BY <1>8, OtherRefines
<1>9. CASE UNCHANGED walkVars
  BY <1>9 DEF walkVars, Abs!vars, Idle
<1>. QED
  BY <1>2, <1>3, <1>5, <1>6, <1>7, <1>8, <1>9 DEF WalkNext, Walk

\* The recursive scan implements the table with one-step cascades: nobody who
\* waits for the lock can tell revoke's loops and calls from one atomic step.
THEOREM ScanIsAtomic == WalkSpec => RefinesAtomicRevoke
<1>1. WalkInit => Abs!Init
  BY DEF WalkInit, Init, Abs!Init, Idle, Abs!Slots, Slots
<1>2. WalkInv /\ [WalkNext]_walkVars => [Abs!Next]_(Abs!vars)
  BY StepRefines
<1>. QED
  BY <1>1, <1>2, WalkSpecInv, PTL DEF WalkSpec, RefinesAtomicRevoke, Abs!Spec
=============================================================================
