-------------------------- MODULE StructureProofs ---------------------------
(***************************************************************************)
(* What the kernel's passive structures promise for every size of them:    *)
(* the physical frame allocator, the two named stores, the history and the *)
(* aliases of the shell, its search for the command that was meant, and    *)
(* the locks that all of them are behind.                                  *)
(***************************************************************************)
EXTENDS Stores, FrameAlloc, Shell, Suggest, Locks, FiniteSetTheorems, SequenceTheorems,
        WellFoundedInduction, TLAPS

-----------------------------------------------------------------------------
(* Least and greatest elements. *)

\* A nonempty set of natural numbers has a least element.
LEMMA LeastElement ==
    ASSUME NEW S \in SUBSET Nat, S # {}
    PROVE  \E x \in S : \A y \in S : x <= y
<1>1. IsWellFoundedOn({ss \in Nat \X Nat : ss[1] < ss[2]}, Nat)
  BY NatLessThanWellFounded DEF OpToRel
<1>2. PICK x \in S :
        \A y \in S : <<y, x>> \notin {ss \in Nat \X Nat : ss[1] < ss[2]}
  BY <1>1, WFMin
<1>3. ASSUME NEW y \in S PROVE x <= y
  <2>1. x \in Nat /\ y \in Nat /\ <<y, x>> \in Nat \X Nat
    OBVIOUS
  <2>2. ~(y < x)
    BY <1>2, <2>1
  <2>. QED  BY <2>1, <2>2
<1>. QED  BY <1>3

\* So it has a minimum, and if it is bounded a maximum.
LEMMA MinIs ==
    ASSUME NEW S \in SUBSET Nat, S # {}
    PROVE  Min(S) \in S /\ \A y \in S : Min(S) <= y
BY LeastElement DEF Min

\* The greatest element of a set that has a bound.
LEMMA MaxIs ==
    ASSUME NEW n \in Nat, NEW S \in SUBSET (0 .. n), S # {}
    PROVE  Max(S) \in S /\ \A y \in S : y <= Max(S)
<1>. DEFINE T == {n - x : x \in S}
<1>1. T \in SUBSET Nat /\ T # {}
  <2>1. ASSUME NEW x \in S PROVE n - x \in Nat
    OBVIOUS
  <2>. QED  BY <2>1
<1>2. PICK t \in T : \A y \in T : t <= y
  BY <1>1, LeastElement
<1>3. PICK x \in S : t = n - x
  BY <1>2
<1>4. \A y \in S : x >= y
  <2>1. SUFFICES ASSUME NEW y \in S PROVE x >= y
    OBVIOUS
  <2>2. n - x <= n - y
    BY <1>2, <1>3
  <2>3. x \in Nat /\ y \in Nat
    OBVIOUS
  <2>. QED  BY <2>2, <2>3
<1>5. Max(S) \in S /\ \A y \in S : Max(S) >= y
  BY <1>4 DEF Max
<1>6. \A y \in S : y \in Nat
  OBVIOUS
<1>. QED  BY <1>5, <1>6

-----------------------------------------------------------------------------
(* The frame allocator. *)

\* The inductive invariant.  The two bounds are those of the usable frames and
\* never change, so alloc's scan misses no free frame; while nobody has freed
\* what it did not hold, the usable frames are the free and the held ones.
FrameInv ==
    /\ free \in SUBSET Frames /\ held \in SUBSET Frames /\ usable \in SUBSET Frames
    /\ ~initialized => held = {} /\ usable = {} /\ (~halted => free = {})
    /\ initialized /\ ~strayed =>
          free \cap held = {} /\ free \cup held = usable \ LowReserved
    /\ usable # {} => min_frame = Min(usable) /\ max_frame = Max(usable)
    /\ used_frames \in Nat
    /\ UsedCountIsExact

\* Every set of frames is finite.
LEMMA FrameSetsFinite ==
    ASSUME NEW S \in SUBSET Frames
    PROVE  IsFiniteSet(S) /\ Cardinality(S) \in Nat
<1>1. IsFiniteSet(Frames)
  BY FrameAssumption, FS_Interval DEF Frames
<1>. QED  BY <1>1, FS_Subset, FS_CardinalityType

\* alloc's scan, from the byte of the first usable frame to the last one,
\* comes across every free frame.
LEMMA ScanSeesAll ==
    ASSUME FrameInv, initialized, ~strayed
    PROVE  Scanned = free
<1>1. SUFFICES ASSUME NEW f \in free
               PROVE  (min_frame \div ByteWidth) * ByteWidth <= f /\ f <= max_frame
  BY DEF Scanned
<1>2. /\ f \in usable /\ usable # {} /\ usable \in SUBSET Frames
      /\ min_frame = Min(usable) /\ max_frame = Max(usable)
  BY DEF FrameInv
<1>3. MaxFrames \in Nat \ {0} /\ ByteWidth \in Nat \ {0}
  BY FrameAssumption
<1>4. usable \in SUBSET Nat /\ usable \in SUBSET (0 .. MaxFrames - 1)
  BY <1>2, <1>3 DEF Frames
<1>5. min_frame \in usable /\ min_frame <= f
  BY <1>2, <1>4, MinIs
<1>6. f <= max_frame
  <2>1. MaxFrames - 1 \in Nat
    BY <1>3
  <2>2. \A y \in usable : y <= Max(usable)
    BY <1>2, <1>4, <2>1, MaxIs
  <2>. QED  BY <1>2, <2>2
<1>7. min_frame \in Nat /\ f \in Nat
  BY <1>4, <1>5, <1>2
<1>8. /\ (min_frame \div ByteWidth) * ByteWidth <= min_frame
      /\ (min_frame \div ByteWidth) * ByteWidth \in Nat
  <2>1. ASSUME NEW a \in Nat, NEW b \in Nat \ {0}
        PROVE  (a \div b) * b <= a /\ (a \div b) * b \in Nat
    OBVIOUS
  <2>. QED  BY <1>3, <1>7, <2>1
<1>. QED  BY <1>5, <1>6, <1>7, <1>8

\* The count that goes with the reserved frames.
Reserved(frames) == IF frames = {} THEN 0 ELSE LowFrames

\* The counter in terms of cardinalities, which are numbers.
LEMMA CountMeans ==
    ASSUME FrameInv
    PROVE  /\ IsFiniteSet(free) /\ Cardinality(free) \in Nat
           /\ Cardinality(usable \ LowReserved) \in Nat /\ Reserved(usable) \in Nat
           /\ ~halted => used_frames + Cardinality(free)
                           = Cardinality(usable \ LowReserved) + Reserved(usable)
<1>1. free \in SUBSET Frames /\ usable \ LowReserved \in SUBSET Frames
  BY DEF FrameInv
<1>2. Reserved(usable) \in Nat
  BY FrameAssumption DEF Reserved
<1>. QED  BY <1>1, <1>2, FrameSetsFinite DEF FrameInv, UsedCountIsExact, Reserved

\* The invariant holds before the memory map is read.
LEMMA FrameInitInv == FrameInit => FrameInv
<1>. SUFFICES ASSUME FrameInit PROVE FrameInv
  OBVIOUS
<1>1. Cardinality({}) = 0 /\ {} \ LowReserved = {}
  BY FS_EmptySet
<1>2. UsedCountIsExact
  BY <1>1 DEF FrameInit, UsedCountIsExact
<1>. QED  BY <1>2 DEF FrameInit, FrameInv

\* The firmware's map is read: nothing is handed out yet.
LEMMA InitFromMemmapStep ==
    ASSUME FrameInv, ~halted, NEW map \in MemoryMaps, InitFromMemmap(map)
    PROVE  FrameInv'
<1>1. MarkedFree(map) \in SUBSET Frames /\ held = {} /\ held' = {}
  BY DEF FrameInv, InitFromMemmap, MarkedFree
<1>2. /\ initialized' = TRUE /\ halted' = halted
      /\ free' = MarkedFree(map) \ LowReserved
      /\ usable' = MarkedFree(map)
      /\ used_frames' = Reserved(usable')
      /\ usable' # {} => min_frame' = Min(usable') /\ max_frame' = Max(usable')
  BY DEF InitFromMemmap, Reserved
<1>3. free' = usable' \ LowReserved /\ free' \in SUBSET Frames
  BY <1>1, <1>2
<1>4. Reserved(usable') \in Nat /\ Cardinality(free') \in Nat
  BY <1>3, FrameSetsFinite, FrameAssumption DEF Reserved
<1>5. used_frames' + Cardinality(free')
        = Cardinality(usable' \ LowReserved) + Reserved(usable')
  BY <1>2, <1>3, <1>4
<1>6. UsedCountIsExact'
  BY <1>2, <1>5 DEF UsedCountIsExact, Reserved
<1>. QED  BY <1>1, <1>2, <1>3, <1>4, <1>6 DEF FrameInv, LowReserved

\* The first free frame is handed out.
LEMMA AllocStep == FrameInv /\ ~halted /\ AllocFrame => FrameInv'
<1>. SUFFICES ASSUME FrameInv, ~halted, AllocFrame PROVE FrameInv'
  OBVIOUS
<1>1. PICK frame : frame = Min(Scanned)
  OBVIOUS
<1>2. /\ initialized /\ Scanned # {} /\ initialized' = initialized
      /\ free' = free \ {frame} /\ held' = held \cup {frame}
      /\ used_frames' = used_frames + 1
      /\ usable' = usable /\ min_frame' = min_frame /\ max_frame' = max_frame
      /\ strayed' = strayed /\ halted' = halted
  BY <1>1 DEF AllocFrame
<1>3. free \in SUBSET Frames /\ held \in SUBSET Frames /\ usable \in SUBSET Frames
  BY DEF FrameInv
<1>4. Scanned \in SUBSET Nat /\ Scanned \subseteq free
  <2>1. Scanned \subseteq free
    BY DEF Scanned
  <2>2. free \in SUBSET Nat
    BY <1>3, FrameAssumption DEF Frames
  <2>. QED  BY <2>1, <2>2
<1>5. frame \in free
  BY <1>1, <1>2, <1>4, MinIs
<1>6. Cardinality(free \ {frame}) = Cardinality(free) - 1
  BY <1>5, CountMeans, FS_RemoveElement
<1>7. used_frames' + Cardinality(free')
        = Cardinality(usable' \ LowReserved) + Reserved(usable')
  <2>1. used_frames \in Nat
    BY DEF FrameInv
  <2>2. Reserved(usable') = Reserved(usable)
    BY <1>2
  <2>. QED  BY <1>2, <1>6, <2>1, <2>2, CountMeans
<1>8. UsedCountIsExact'
  BY <1>2, <1>7 DEF UsedCountIsExact, Reserved
<1>9. ~strayed => frame \notin held
  BY <1>2, <1>5 DEF FrameInv
<1>10. used_frames' \in Nat
  BY <1>2 DEF FrameInv
<1>. QED  BY <1>2, <1>3, <1>5, <1>8, <1>9, <1>10 DEF FrameInv, LowReserved

\* What a free does to the counter and the bitmap, for any frame.
LEMMA FreeMeans ==
    ASSUME FrameInv, ~halted, NEW frame, FreeFrame(frame)
    PROVE  /\ free' \in SUBSET Frames /\ free \subseteq free'
           /\ used_frames' \in Nat
           /\ UNCHANGED <<min_frame, max_frame, initialized, usable>>
           /\ ~halted' => used_frames' + Cardinality(free')
                            = Cardinality(usable' \ LowReserved) + Reserved(usable')
           /\ ~initialized /\ ~halted' => free' = {}
           /\ frame \in Frames \ free => free' = free \cup {frame}
           /\ halted' => frame \in Frames \ free /\ used_frames = 0
<1>1. /\ free \in SUBSET Frames /\ used_frames \in Nat
      /\ UNCHANGED <<min_frame, max_frame, initialized, usable>>
      /\ Reserved(usable') = Reserved(usable)
  BY DEF FrameInv, FreeFrame
<1>2. CASE Refused(frame)
  <2>1. UNCHANGED <<free, used_frames, halted>>
    BY <1>2 DEF FreeFrame
  <2>2. ~(frame \in Frames \ free)
    BY <1>2 DEF Refused
  <2>3. ~initialized => free = {}
    BY DEF FrameInv
  <2>. QED  BY <1>1, <2>1, <2>2, <2>3, CountMeans
<1>3. CASE ~Refused(frame)
  <2>1. /\ frame \in Frames \ free /\ free' = free \cup {frame}
        /\ used_frames' = IF used_frames = 0 THEN 0 ELSE used_frames - 1
        /\ halted' = (used_frames = 0)
    BY <1>3 DEF FreeFrame, Refused
  <2>2. Cardinality(free') = Cardinality(free) + 1
    BY <2>1, CountMeans, FS_AddElement
  <2>3. used_frames' \in Nat /\ (used_frames # 0 => used_frames' = used_frames - 1)
    BY <1>1, <2>1
  <2>4. used_frames # 0 =>
           used_frames' + Cardinality(free')
             = Cardinality(usable' \ LowReserved) + Reserved(usable')
    BY <1>1, <2>2, <2>3, CountMeans
  <2>5. ~initialized => used_frames = 0
    <3>. SUFFICES ASSUME ~initialized PROVE used_frames = 0
      OBVIOUS
    <3>1. usable = {} /\ free = {}
      BY DEF FrameInv
    <3>2. Cardinality(free) = 0 /\ Cardinality(usable \ LowReserved) = 0
          /\ Reserved(usable) = 0
      <4>1. usable \ LowReserved = {}
        BY <3>1
      <4>. QED  BY <3>1, <4>1, FS_EmptySet DEF Reserved
    <3>. QED  BY <1>1, <3>2, CountMeans
  <2>. QED  BY <1>1, <2>1, <2>3, <2>4, <2>5
<1>. QED  BY <1>2, <1>3

\* A holder gives back a frame; the count, which has the frame in it, is not
\* at zero unless frames were freed astray.
LEMMA GiveBackStep ==
    ASSUME FrameInv, ~halted, NEW frame \in Frames, GiveBack(frame)
    PROVE  FrameInv'
<1>1. /\ frame \in held /\ held' = held \ {frame} /\ strayed' = strayed
      /\ FreeFrame(frame)
  BY DEF GiveBack
<1>2. /\ free' \in SUBSET Frames /\ used_frames' \in Nat
      /\ UNCHANGED <<min_frame, max_frame, initialized, usable>>
      /\ ~halted' => used_frames' + Cardinality(free')
                       = Cardinality(usable' \ LowReserved) + Reserved(usable')
      /\ frame \in Frames \ free => free' = free \cup {frame}
      /\ halted' => frame \in Frames \ free /\ used_frames = 0
  BY <1>1, FreeMeans
<1>3. initialized /\ held \in SUBSET Frames /\ usable \in SUBSET Frames
  BY <1>1 DEF FrameInv
<1>4. ~strayed => /\ frame \notin free
                  /\ free \cap held = {} /\ free \cup held = usable \ LowReserved
  BY <1>1, <1>3 DEF FrameInv
<1>5. ASSUME ~strayed PROVE used_frames # 0
  <2>. DEFINE S == usable \ LowReserved
  <2>1. S \in SUBSET Frames /\ frame \in S /\ free \in SUBSET (S \ {frame})
    BY <1>1, <1>3, <1>4, <1>5
  <2>2. IsFiniteSet(S)
    BY <2>1, FrameSetsFinite
  <2>3. IsFiniteSet(S \ {frame}) /\ Cardinality(S \ {frame}) = Cardinality(S) - 1
    BY <2>1, <2>2, FS_RemoveElement
  <2>4. Cardinality(free) <= Cardinality(S \ {frame})
    BY <2>1, <2>3, FS_Subset
  <2>. HIDE DEF S
  <2>5. Cardinality(S) \in Nat
    BY <2>2, FS_CardinalityType
  <2>6. used_frames + Cardinality(free) = Cardinality(S) + Reserved(usable)
        /\ Cardinality(free) \in Nat /\ Reserved(usable) \in Nat
    BY CountMeans DEF S
  <2>7. used_frames \in Nat
    BY DEF FrameInv
  <2>. QED  BY <2>3, <2>4, <2>5, <2>6, <2>7
<1>6. UsedCountIsExact'
  BY <1>1, <1>2, <1>5 DEF UsedCountIsExact, Reserved
<1>7. ~strayed =>
         free' \cap held' = {} /\ free' \cup held' = usable' \ LowReserved
  BY <1>1, <1>2, <1>4
<1>8. usable' # {} => min_frame' = Min(usable') /\ max_frame' = Max(usable')
  BY <1>2 DEF FrameInv
<1>. QED  BY <1>1, <1>2, <1>3, <1>6, <1>7, <1>8 DEF FrameInv, LowReserved

\* A frame is freed by a caller that does not hold it.
LEMMA FreeAstrayStep ==
    ASSUME FrameInv, ~halted, NEW frame, FreeAstray(frame)
    PROVE  FrameInv'
<1>1. FreeFrame(frame) /\ strayed' = TRUE /\ held' = held
  BY DEF FreeAstray
<1>2. /\ free' \in SUBSET Frames /\ used_frames' \in Nat
      /\ UNCHANGED <<min_frame, max_frame, initialized, usable>>
      /\ ~halted' => used_frames' + Cardinality(free')
                       = Cardinality(usable' \ LowReserved) + Reserved(usable')
      /\ ~initialized /\ ~halted' => free' = {}
  BY <1>1, FreeMeans
<1>3. UsedCountIsExact'
  BY <1>1, <1>2 DEF UsedCountIsExact, Reserved
<1>4. usable' # {} => min_frame' = Min(usable') /\ max_frame' = Max(usable')
  BY <1>2 DEF FrameInv
<1>. QED  BY <1>1, <1>2, <1>3, <1>4 DEF FrameInv

\* Reading the map, allocating and freeing keep the invariant.
LEMMA FrameNextInv == FrameInv /\ [FrameNext]_frameVars => FrameInv'
<1>. SUFFICES ASSUME FrameInv, [FrameNext]_frameVars PROVE FrameInv'
  OBVIOUS
<1>1. CASE FrameNext
  BY <1>1, InitFromMemmapStep, AllocStep, GiveBackStep, FreeAstrayStep DEF FrameNext
<1>2. CASE UNCHANGED frameVars
  BY <1>2 DEF frameVars, FrameInv, UsedCountIsExact
<1>. QED  BY <1>1, <1>2

\* The invariant holds in every reachable state.
LEMMA FrameSpecInv == FrameSpec => []FrameInv
BY FrameInitInv, FrameNextInv, PTL DEF FrameSpec

\* While callers free only what they hold, no frame is handed out twice or lost,
\* and the allocator reports that memory
\* has run out only when every usable frame is held.
THEOREM FramesHaveOneOwner == FrameSpec => []FramesAreExclusive
<1>1. FrameInv => FramesAreExclusive
  BY ScanSeesAll DEF FrameInv, FramesAreExclusive
<1>. QED  BY <1>1, FrameSpecInv, PTL

\* Whatever is freed, the counter of used frames and the bitmap never drift
\* apart, and only a free of a frame that the caller did not hold takes the
\* counter below zero.
THEOREM FrameCountIsExact == FrameSpec => []UsedCountIsExact
<1>1. FrameInv => UsedCountIsExact
  BY DEF FrameInv
<1>. QED  BY <1>1, FrameSpecInv, PTL

-----------------------------------------------------------------------------
(* Sequences of entries that are maps. *)

Entries(K, V) == [name : K, size : V]

\* Both stores as the map that they stand for.
SizeMap(seq) ==
    [name \in {seq[i].name : i \in Indices(seq)} |-> seq[Find(seq, name)].size]

\* The map with a value put, and with a key deleted.
Updated(m, n, v) == [k \in DOMAIN m \cup {n} |-> IF k = n THEN v ELSE m[k]]
Without(m, n) == [k \in DOMAIN m \ {n} |-> m[k]]

\* No name is stored twice.
UniqueNames(seq) ==
    \A i, j \in Indices(seq) : seq[i].name = seq[j].name => i = j

\* Entries have the fields of the set that they are from.
LEMMA EntryFacts ==
    ASSUME NEW K, NEW V, NEW seq \in Seq(Entries(K, V))
    PROVE  /\ Len(seq) \in Nat
           /\ \A i \in Indices(seq) : /\ i \in Nat /\ i >= 1 /\ i <= Len(seq)
                                      /\ seq[i] \in Entries(K, V)
                                      /\ seq[i].name \in K
                                      /\ seq[i].size \in V
<1>1. Len(seq) \in Nat
  BY LenProperties
<1>2. \A i \in Indices(seq) : seq[i] \in Entries(K, V)
  BY ElementOfSeq DEF Indices
<1>. QED  BY <1>1, <1>2 DEF Indices, Entries

\* The search finds an entry with the name if there is one.
LEMMA FindIs ==
    ASSUME NEW K, NEW V, NEW seq \in Seq(Entries(K, V)), NEW name
    PROVE  \/ /\ Find(seq, name) = 0
              /\ \A i \in Indices(seq) : seq[i].name # name
           \/ /\ Find(seq, name) \in Indices(seq)
              /\ Find(seq, name) # 0
              /\ seq[Find(seq, name)].name = name
<1>. DEFINE hits == {i \in Indices(seq) : seq[i].name = name}
<1>1. Len(seq) \in Nat
  BY LenProperties
<1>2. hits \in SUBSET Nat
  BY <1>1 DEF Indices
<1>3. CASE hits = {}
  BY <1>3 DEF Find
<1>4. CASE hits # {}
  <2>1. \E i \in hits : \A j \in hits : i <= j
    BY <1>2, <1>4, LeastElement
  <2>2. Find(seq, name) = CHOOSE i \in hits : \A j \in hits : i <= j
    BY <1>4 DEF Find
  <2>3. Find(seq, name) \in hits
    BY <2>1, <2>2
  <2>. QED  BY <1>1, <2>3 DEF Indices
<1>. QED  BY <1>3, <1>4

\* A sequence without duplicates stands for the map with its pairs.
LEMMA SizeMapIs ==
    ASSUME NEW K, NEW V, NEW seq \in Seq(Entries(K, V)), UniqueNames(seq)
    PROVE  /\ \A i \in Indices(seq) : /\ seq[i].name \in DOMAIN SizeMap(seq)
                                      /\ SizeMap(seq)[seq[i].name] = seq[i].size
           /\ \A k \in DOMAIN SizeMap(seq) : \E i \in Indices(seq) : seq[i].name = k
           /\ SizeMap(seq) \in [DOMAIN SizeMap(seq) -> V]
<1>1. DOMAIN SizeMap(seq) = {seq[i].name : i \in Indices(seq)}
  BY DEF SizeMap
<1>2. ASSUME NEW i \in Indices(seq)
      PROVE  SizeMap(seq)[seq[i].name] = seq[i].size
  <2>1. Find(seq, seq[i].name) = i
    BY FindIs DEF UniqueNames
  <2>. QED  BY <2>1 DEF SizeMap
<1>3. \A k \in DOMAIN SizeMap(seq) : \E i \in Indices(seq) : seq[i].name = k
  BY <1>1
<1>4. ASSUME NEW k \in DOMAIN SizeMap(seq) PROVE SizeMap(seq)[k] \in V
  <2>1. PICK i \in Indices(seq) : seq[i].name = k
    BY <1>3
  <2>. QED  BY <1>2, <2>1, EntryFacts
<1>5. SizeMap(seq) \in [DOMAIN SizeMap(seq) -> V]
  BY <1>4 DEF SizeMap
<1>. QED  BY <1>1, <1>2, <1>3, <1>5

\* Two ways to write the same map.
LEMMA SizeMapEquals ==
    ASSUME NEW K, NEW V, NEW seq \in Seq(Entries(K, V)), UniqueNames(seq),
           NEW D, NEW f \in [D -> V],
           \A i \in Indices(seq) : seq[i].name \in D /\ f[seq[i].name] = seq[i].size,
           \A k \in D : \E i \in Indices(seq) : seq[i].name = k
    PROVE  SizeMap(seq) = f
<1>1. /\ \A i \in Indices(seq) : /\ seq[i].name \in DOMAIN SizeMap(seq)
                                 /\ SizeMap(seq)[seq[i].name] = seq[i].size
      /\ \A k \in DOMAIN SizeMap(seq) : \E i \in Indices(seq) : seq[i].name = k
      /\ SizeMap(seq) \in [DOMAIN SizeMap(seq) -> V]
  BY SizeMapIs
<1>2. DOMAIN SizeMap(seq) = D
  BY <1>1
<1>3. ASSUME NEW k \in D PROVE SizeMap(seq)[k] = f[k]
  <2>1. PICK i \in Indices(seq) : seq[i].name = k
    OBVIOUS
  <2>2. SizeMap(seq)[seq[i].name] = seq[i].size
    BY <1>1
  <2>3. f[seq[i].name] = seq[i].size
    OBVIOUS
  <2>. QED  BY <2>1, <2>2, <2>3
<1>. HIDE DEF SizeMap
<1>. QED  BY <1>1, <1>2, <1>3

\* It has as many keys as the sequence has entries.
LEMMA SizeMapSize ==
    ASSUME NEW K, NEW V, NEW seq \in Seq(Entries(K, V)), UniqueNames(seq)
    PROVE  Cardinality(DOMAIN SizeMap(seq)) = Len(seq)
<1>. DEFINE g == [i \in 1 .. Len(seq) |-> seq[i].name]
            D == DOMAIN SizeMap(seq)
<1>1. Len(seq) \in Nat
  BY LenProperties
<1>2. D = {seq[i].name : i \in 1 .. Len(seq)}
  BY DEF SizeMap, Indices
<1>3. g \in Bijection(1 .. Len(seq), D)
  BY <1>2 DEF Bijection, Injection, Surjection, IsInjective, UniqueNames, Indices
<1>4. IsFiniteSet(1 .. Len(seq)) /\ Cardinality(1 .. Len(seq)) = Len(seq)
  BY <1>1, FS_Interval
<1>. HIDE DEF g, D
<1>5. Cardinality(D) = Cardinality(1 .. Len(seq))
  BY <1>3, <1>4, FS_Bijection DEF ExistsBijection
<1>. QED  BY <1>4, <1>5 DEF D

\* Writing to an entry that is there.
LEMMA Overwrite ==
    ASSUME NEW K, NEW V, NEW seq \in Seq(Entries(K, V)), UniqueNames(seq),
           NEW ix \in Indices(seq), NEW v \in V,
           NEW t \in Seq(Entries(K, V)), Len(t) = Len(seq),
           t[ix] = [name |-> seq[ix].name, size |-> v],
           \A i \in Indices(seq) : i # ix => t[i] = seq[i]
    PROVE  UniqueNames(t) /\ SizeMap(t) = Updated(SizeMap(seq), seq[ix].name, v)
<1>. DEFINE D == DOMAIN SizeMap(seq) \cup {seq[ix].name}
            f == [k \in D |-> IF k = seq[ix].name THEN v ELSE SizeMap(seq)[k]]
<1>5. Indices(t) = Indices(seq)
  BY DEF Indices
<1>6. /\ t[ix].name = seq[ix].name /\ t[ix].size = v
      /\ \A i \in Indices(seq) : i # ix => t[i] = seq[i]
  OBVIOUS
<1>7. \A i \in Indices(seq) : t[i].name = seq[i].name
  BY <1>6
<1>8. UniqueNames(t)
  BY <1>5, <1>7 DEF UniqueNames
<1>9. /\ \A i \in Indices(seq) : /\ seq[i].name \in DOMAIN SizeMap(seq)
                                 /\ SizeMap(seq)[seq[i].name] = seq[i].size
      /\ \A k \in DOMAIN SizeMap(seq) : \E i \in Indices(seq) : seq[i].name = k
      /\ SizeMap(seq) \in [DOMAIN SizeMap(seq) -> V]
  BY SizeMapIs
<1>10. ASSUME NEW i \in Indices(t)
       PROVE  t[i].name \in D /\ f[t[i].name] = t[i].size
  <2>1. t[i].name = seq[i].name /\ t[i].name \in D
    BY <1>5, <1>7, <1>9
  <2>2. CASE i = ix
    BY <1>6, <2>1, <2>2
  <2>3. CASE i # ix
    <3>1. seq[i].name # seq[ix].name
      BY <1>5, <2>3 DEF UniqueNames
    <3>. QED  BY <1>5, <1>6, <1>9, <2>1, <2>3, <3>1
  <2>. QED  BY <2>1, <2>2, <2>3
<1>11. ASSUME NEW k \in D
       PROVE  \E i \in Indices(t) : t[i].name = k
  BY <1>5, <1>7, <1>9
<1>12. f \in [D -> V]
  BY <1>9
<1>. HIDE DEF f, D
<1>13. SizeMap(t) = f
  BY <1>8, <1>10, <1>11, <1>12, SizeMapEquals
<1>. QED  BY <1>8, <1>13 DEF f, D, Updated

\* Adding an entry with a new name.
LEMMA AddNew ==
    ASSUME NEW K, NEW V, NEW seq \in Seq(Entries(K, V)), UniqueNames(seq),
           NEW n \in K, NEW v \in V, \A i \in Indices(seq) : seq[i].name # n,
           NEW t \in Seq(Entries(K, V)), Len(t) = Len(seq) + 1,
           t[Len(seq) + 1] = [name |-> n, size |-> v],
           \A i \in Indices(seq) : t[i] = seq[i]
    PROVE  UniqueNames(t) /\ SizeMap(t) = Updated(SizeMap(seq), n, v)
<1>. DEFINE D == DOMAIN SizeMap(seq) \cup {n}
            f == [k \in D |-> IF k = n THEN v ELSE SizeMap(seq)[k]]
<1>1. Len(seq) \in Nat
  BY EntryFacts
<1>3. /\ \A i \in Indices(t) : i \in Indices(seq) \/ i = Len(seq) + 1
      /\ \A i \in Indices(seq) : i \in Indices(t) /\ t[i] = seq[i]
      /\ Len(seq) + 1 \in Indices(t)
  BY <1>1 DEF Indices
<1>4. t[Len(seq) + 1].name = n /\ t[Len(seq) + 1].size = v
  OBVIOUS
<1>5. UniqueNames(t)
  <2>1. SUFFICES ASSUME NEW i \in Indices(t), NEW j \in Indices(t),
                        t[i].name = t[j].name
                 PROVE  i = j
    BY DEF UniqueNames
  <2>. QED  BY <1>3, <1>4, <2>1 DEF UniqueNames
<1>6. /\ \A i \in Indices(seq) : /\ seq[i].name \in DOMAIN SizeMap(seq)
                                 /\ SizeMap(seq)[seq[i].name] = seq[i].size
      /\ \A k \in DOMAIN SizeMap(seq) : \E i \in Indices(seq) : seq[i].name = k
      /\ SizeMap(seq) \in [DOMAIN SizeMap(seq) -> V]
  BY SizeMapIs
<1>7. ASSUME NEW i \in Indices(t)
      PROVE  t[i].name \in D /\ f[t[i].name] = t[i].size
  <2>1. CASE i = Len(seq) + 1
    BY <1>4, <2>1
  <2>2. CASE i \in Indices(seq)
    <3>1. t[i] = seq[i] /\ seq[i].name # n /\ seq[i].name \in DOMAIN SizeMap(seq)
      BY <1>3, <1>6, <2>2
    <3>. QED  BY <1>6, <2>2, <3>1
  <2>. QED  BY <1>3, <2>1, <2>2
<1>8. ASSUME NEW k \in D
      PROVE  \E i \in Indices(t) : t[i].name = k
  BY <1>3, <1>4, <1>6
<1>9. f \in [D -> V]
  BY <1>6
<1>. HIDE DEF f, D
<1>10. SizeMap(t) = f
  BY <1>5, <1>7, <1>8, <1>9, SizeMapEquals
<1>. QED  BY <1>5, <1>10 DEF f, D, Updated

\* What is left when the entry at one place is gone and the rest closes up.
LEMMA TakenOut ==
    ASSUME NEW K, NEW V, NEW seq \in Seq(Entries(K, V)), UniqueNames(seq),
           NEW ix \in Indices(seq),
           NEW t \in Seq(Entries(K, V)), Len(t) = Len(seq) - 1,
           \A i \in 1 .. ix - 1 : t[i] = seq[i],
           \A i \in ix .. Len(seq) - 1 : t[i] = seq[i + 1]
    PROVE  /\ UniqueNames(t)
           /\ SizeMap(t) = Without(SizeMap(seq), seq[ix].name)
<1>. DEFINE D == DOMAIN SizeMap(seq) \ {seq[ix].name}
            f == [k \in D |-> SizeMap(seq)[k]]
            from(i) == IF i < ix THEN i ELSE i + 1
<1>1. Len(seq) \in Nat /\ ix \in Nat /\ ix >= 1 /\ ix <= Len(seq)
  BY EntryFacts
<1>2. ASSUME NEW i \in Indices(t)
      PROVE  from(i) \in Indices(seq) /\ from(i) # ix /\ t[i] = seq[from(i)]
  <2>1. i \in Nat /\ i >= 1 /\ i <= Len(seq) - 1
    BY <1>1 DEF Indices
  <2>2. CASE i < ix
    <3>1. i \in 1 .. ix - 1
      BY <1>1, <2>1, <2>2
    <3>. QED  BY <1>1, <2>1, <2>2, <3>1 DEF Indices
  <2>3. CASE ~(i < ix)
    <3>1. i \in ix .. Len(seq) - 1
      BY <1>1, <2>1, <2>3
    <3>. QED  BY <1>1, <2>1, <2>3, <3>1 DEF Indices
  <2>. QED  BY <2>2, <2>3
<1>3. ASSUME NEW i \in Indices(t), NEW j \in Indices(t), from(i) = from(j)
      PROVE  i = j
  <2>1. i \in Nat /\ j \in Nat
    BY <1>1 DEF Indices
  <2>. QED  BY <1>1, <1>3, <2>1
<1>4. ASSUME NEW m \in Indices(seq), m # ix
      PROVE  \E i \in Indices(t) : from(i) = m
  <2>1. m \in Nat /\ m >= 1 /\ m <= Len(seq)
    BY EntryFacts
  <2>2. CASE m < ix
    <3>1. m \in Indices(t) /\ from(m) = m
      BY <1>1, <2>1, <2>2 DEF Indices
    <3>. QED  BY <3>1
  <2>3. CASE m > ix
    <3>1. m - 1 \in Indices(t) /\ from(m - 1) = m
      BY <1>1, <2>1, <2>3 DEF Indices
    <3>. QED  BY <3>1
  <2>. QED  BY <1>1, <1>4, <2>1, <2>2, <2>3
<1>. HIDE DEF from
<1>5. UniqueNames(t)
  <2>1. SUFFICES ASSUME NEW i \in Indices(t), NEW j \in Indices(t),
                        t[i].name = t[j].name
                 PROVE  i = j
    BY DEF UniqueNames
  <2>2. from(i) = from(j)
    BY <1>2, <2>1 DEF UniqueNames
  <2>. QED  BY <1>3, <2>2
<1>6. /\ \A i \in Indices(seq) : /\ seq[i].name \in DOMAIN SizeMap(seq)
                                 /\ SizeMap(seq)[seq[i].name] = seq[i].size
      /\ \A k \in DOMAIN SizeMap(seq) : \E i \in Indices(seq) : seq[i].name = k
      /\ SizeMap(seq) \in [DOMAIN SizeMap(seq) -> V]
  BY SizeMapIs
<1>7. ASSUME NEW i \in Indices(t)
      PROVE  t[i].name \in D /\ f[t[i].name] = t[i].size
  <2>1. /\ from(i) \in Indices(seq) /\ from(i) # ix /\ t[i] = seq[from(i)]
        /\ seq[from(i)].name # seq[ix].name
    BY <1>2 DEF UniqueNames
  <2>2. t[i].name \in D
    BY <1>6, <2>1
  <2>. QED  BY <1>6, <2>1, <2>2
<1>8. ASSUME NEW k \in D
      PROVE  \E i \in Indices(t) : t[i].name = k
  <2>1. PICK m \in Indices(seq) : seq[m].name = k
    BY <1>6
  <2>2. m # ix
    BY <2>1
  <2>3. PICK i \in Indices(t) : from(i) = m
    BY <1>4, <2>2
  <2>. QED  BY <1>2, <2>1, <2>3
<1>9. f \in [D -> V]
  BY <1>6
<1>. HIDE DEF f, D
<1>10. SizeMap(t) = f
  BY <1>5, <1>7, <1>8, <1>9, SizeMapEquals
<1>. QED  BY <1>5, <1>10 DEF f, D, Without

\* RemoveAt takes the entry at one place out.
LEMMA RemoveAtTakesOut ==
    ASSUME NEW S, NEW seq \in Seq(S), NEW ix \in Indices(seq)
    PROVE  LET t == RemoveAt(seq, ix) IN
           /\ t \in Seq(S) /\ Len(t) = Len(seq) - 1
           /\ \A i \in 1 .. ix - 1 : t[i] = seq[i]
           /\ \A i \in ix .. Len(seq) - 1 : t[i] = seq[i + 1]
<1>. DEFINE a == SubSeq(seq, 1, ix - 1)
            b == SubSeq(seq, ix + 1, Len(seq))
            t == RemoveAt(seq, ix)
<1>1. /\ Len(seq) \in Nat /\ ix \in Nat /\ ix >= 1 /\ ix <= Len(seq)
      /\ \A i \in 1 .. Len(seq) : seq[i] \in S
  BY LenProperties, ElementOfSeq DEF Indices
<1>2. a \in Seq(S) /\ Len(a) = ix - 1 /\ \A i \in 1 .. ix - 1 : a[i] = seq[i]
  <2>1. \A i \in 1 .. ix - 1 : seq[i] \in S
    BY <1>1
  <2>2. /\ a \in Seq(S)
        /\ Len(a) = IF 1 <= ix - 1 THEN ix - 1 - 1 + 1 ELSE 0
        /\ \A i \in 1 .. ix - 1 - 1 + 1 : a[i] = seq[1 + i - 1]
    BY <1>1, <2>1, SubSeqProperties
  <2>3. (IF 1 <= ix - 1 THEN ix - 1 - 1 + 1 ELSE 0) = ix - 1
    BY <1>1
  <2>4. \A i \in 1 .. ix - 1 : i \in 1 .. ix - 1 - 1 + 1 /\ 1 + i - 1 = i
    BY <1>1
  <2>. HIDE DEF a
  <2>. QED  BY <2>2, <2>3, <2>4
<1>3. /\ b \in Seq(S) /\ Len(b) = Len(seq) - ix
      /\ \A i \in 1 .. Len(seq) - ix : b[i] = seq[ix + i]
  <2>1. \A i \in ix + 1 .. Len(seq) : seq[i] \in S
    BY <1>1
  <2>2. /\ b \in Seq(S)
        /\ Len(b) = IF ix + 1 <= Len(seq) THEN Len(seq) - (ix + 1) + 1 ELSE 0
        /\ \A i \in 1 .. Len(seq) - (ix + 1) + 1 : b[i] = seq[ix + 1 + i - 1]
    BY <1>1, <2>1, SubSeqProperties
  <2>3. (IF ix + 1 <= Len(seq) THEN Len(seq) - (ix + 1) + 1 ELSE 0) = Len(seq) - ix
    BY <1>1
  <2>4. \A i \in 1 .. Len(seq) - ix : /\ i \in 1 .. Len(seq) - (ix + 1) + 1
                                      /\ ix + 1 + i - 1 = ix + i
    BY <1>1
  <2>. HIDE DEF b
  <2>. QED  BY <2>2, <2>3, <2>4
<1>4. t = a \o b
  BY DEF RemoveAt
<1>. HIDE DEF a, b, t
<1>5. /\ t \in Seq(S) /\ Len(t) = Len(a) + Len(b)
      /\ \A i \in 1 .. Len(a) + Len(b) :
            t[i] = IF i <= Len(a) THEN a[i] ELSE b[i - Len(a)]
  BY <1>2, <1>3, <1>4, ConcatProperties
<1>6. Len(t) = Len(seq) - 1
  BY <1>1, <1>2, <1>3, <1>5
<1>7. ASSUME NEW i \in 1 .. ix - 1 PROVE t[i] = seq[i]
  <2>1. i \in 1 .. Len(a) + Len(b) /\ i <= Len(a)
    BY <1>1, <1>2, <1>3
  <2>. QED  BY <1>2, <1>5, <2>1
<1>8. ASSUME NEW i \in ix .. Len(seq) - 1 PROVE t[i] = seq[i + 1]
  <2>1. /\ i \in 1 .. Len(a) + Len(b) /\ ~(i <= Len(a))
        /\ i - Len(a) = i - ix + 1
        /\ i - ix + 1 \in 1 .. Len(seq) - ix /\ ix + (i - ix + 1) = i + 1
    BY <1>1, <1>2, <1>3
  <2>2. t[i] = b[i - ix + 1]
    BY <1>5, <2>1
  <2>3. b[i - ix + 1] = seq[ix + (i - ix + 1)]
    BY <1>3, <2>1
  <2>. QED  BY <2>1, <2>2, <2>3
<1>. QED  BY <1>5, <1>6, <1>7, <1>8 DEF t

\* Without duplicates, retain drops one entry, or none.
LEMMA KeptTakesOut ==
    ASSUME NEW K, NEW V, NEW seq \in Seq(Entries(K, V)), UniqueNames(seq), NEW key
    PROVE  LET t == EntriesKept(seq, key)
               ix == Find(seq, key) IN
           /\ t \in Seq(Entries(K, V))
           /\ ix = 0 => t = seq
           /\ ix # 0 => /\ Len(t) = Len(seq) - 1
                        /\ \A i \in 1 .. ix - 1 : t[i] = seq[i]
                        /\ \A i \in ix .. Len(seq) - 1 : t[i] = seq[i + 1]
<1>. DEFINE E == Entries(K, V)
            ix == Find(seq, key)
            t == EntriesKept(seq, key)
            kept == {i \in Indices(seq) : seq[i].name # key}
            upto(i) == {j \in kept : j <= i}
            nth(n) == CHOOSE i \in kept : Cardinality(upto(i)) = n
<1>1. /\ Len(seq) \in Nat
      /\ \A i \in Indices(seq) : i \in Nat /\ i >= 1 /\ i <= Len(seq) /\ seq[i] \in E
      /\ Indices(seq) = 1 .. Len(seq)
  BY EntryFacts DEF Indices
<1>2. t = [n \in 1 .. Cardinality(kept) |-> seq[nth(n)]]
  BY DEF EntriesKept
<1>. HIDE DEF t
<1>3. \A n \in Nat : IsFiniteSet(1 .. n) /\ Cardinality(1 .. n) = n
  BY FS_Interval
<1>4. CASE ix = 0
  <2>1. kept = 1 .. Len(seq)
    BY <1>1, <1>4, FindIs
  <2>2. Cardinality(kept) = Len(seq)
    BY <1>1, <1>3, <2>1
  <2>3. ASSUME NEW i \in kept PROVE Cardinality(upto(i)) = i
    <3>1. i \in Nat /\ upto(i) = 1 .. i
      BY <1>1, <2>1
    <3>. QED  BY <1>3, <3>1
  <2>4. ASSUME NEW n \in 1 .. Len(seq) PROVE nth(n) = n
    BY <2>1, <2>3
  <2>. HIDE DEF kept, nth
  <2>5. t = [n \in 1 .. Len(seq) |-> seq[n]]
    BY <1>2, <2>2, <2>4
  <2>6. seq = [n \in 1 .. Len(seq) |-> seq[n]]
    BY LenProperties
  <2>7. t = seq
    BY <2>5, <2>6
  <2>. QED  BY <1>4, <2>7 DEF t
<1>5. CASE ix # 0
  <2>1. ix \in Indices(seq) /\ seq[ix].name = key /\ ix \in 1 .. Len(seq) /\ ix \in Nat
    BY <1>1, <1>5, FindIs
  <2>2. kept = (1 .. Len(seq)) \ {ix}
    BY <1>1, <2>1 DEF UniqueNames
  <2>3. Cardinality(kept) = Len(seq) - 1
    BY <1>1, <1>3, <2>1, <2>2, FS_RemoveElement
  <2>4. ASSUME NEW i \in kept, i < ix PROVE Cardinality(upto(i)) = i
    <3>1. i \in Nat /\ upto(i) = 1 .. i
      BY <1>1, <2>1, <2>2, <2>4
    <3>. QED  BY <1>3, <3>1
  <2>5. ASSUME NEW i \in kept, ix < i PROVE Cardinality(upto(i)) = i - 1
    <3>1. i \in Nat /\ upto(i) = (1 .. i) \ {ix} /\ ix \in 1 .. i
      BY <1>1, <2>1, <2>2, <2>5
    <3>. QED  BY <1>3, <3>1, FS_RemoveElement
  <2>6. \A i \in kept : i \in Nat /\ (i < ix \/ ix < i)
    BY <1>1, <2>1, <2>2
  <2>. HIDE DEF upto
  <2>7. ASSUME NEW n \in 1 .. ix - 1 PROVE nth(n) = n
    <3>1. n \in kept /\ n < ix /\ n \in Nat
      BY <1>1, <2>1, <2>2
    <3>2. \A i \in kept : Cardinality(upto(i)) = n => i = n
      <4>1. SUFFICES ASSUME NEW i \in kept, Cardinality(upto(i)) = n PROVE i = n
        OBVIOUS
      <4>2. CASE i < ix
        BY <2>4, <4>1, <4>2
      <4>3. CASE ix < i
        BY <2>1, <2>5, <2>6, <3>1, <4>1, <4>3
      <4>. QED  BY <2>6, <4>2, <4>3
    <3>. QED  BY <2>4, <3>1, <3>2
  <2>8. ASSUME NEW n \in ix .. Len(seq) - 1 PROVE nth(n) = n + 1
    <3>1. n + 1 \in kept /\ ix < n + 1 /\ n \in Nat /\ (n + 1) - 1 = n
      BY <1>1, <2>1, <2>2
    <3>2. \A i \in kept : Cardinality(upto(i)) = n => i = n + 1
      <4>1. SUFFICES ASSUME NEW i \in kept, Cardinality(upto(i)) = n PROVE i = n + 1
        OBVIOUS
      <4>2. CASE i < ix
        <5>1. i = n
          BY <2>4, <4>1, <4>2
        <5>. QED  BY <2>1, <3>1, <4>2, <5>1
      <4>3. CASE ix < i
        <5>1. i - 1 = n /\ i \in Nat
          BY <2>5, <2>6, <4>1, <4>3
        <5>. QED  BY <3>1, <5>1
      <4>. QED  BY <2>6, <4>2, <4>3
    <3>3. Cardinality(upto(n + 1)) = n
      BY <2>5, <3>1
    <3>. QED  BY <3>1, <3>2, <3>3
  <2>. HIDE DEF kept, nth
  <2>9. t = [n \in 1 .. Len(seq) - 1 |-> seq[nth(n)]]
    BY <1>2, <2>3
  <2>10. ASSUME NEW n \in 1 .. Len(seq) - 1 PROVE n \in 1 .. ix - 1 \/ n \in ix .. Len(seq) - 1
    BY <1>1, <2>1
  <2>11. ASSUME NEW n \in 1 .. Len(seq) - 1
         PROVE  seq[nth(n)] \in E
    <3>1. nth(n) = n \/ nth(n) = n + 1
      BY <2>7, <2>8, <2>10
    <3>2. n \in Indices(seq) /\ n + 1 \in Indices(seq)
      BY <1>1
    <3>. QED  BY <1>1, <3>1, <3>2
  <2>12. Len(seq) - 1 \in Nat
    BY <1>1, <2>1
  <2>13. t \in Seq(E) /\ Len(t) = Len(seq) - 1
    <3>. DEFINE m == Len(seq) - 1
    <3>1. m \in Nat /\ t \in [1 .. m -> E]
      BY <2>9, <2>11, <2>12
    <3>. HIDE DEF m
    <3>2. t \in Seq(E) /\ Len(t) = m
      BY <3>1
    <3>. QED  BY <3>2 DEF m
  <2>14. ASSUME NEW i \in 1 .. ix - 1 PROVE t[i] = seq[i]
    <3>1. i \in 1 .. Len(seq) - 1
      BY <1>1, <2>1
    <3>. QED  BY <2>7, <2>9, <3>1
  <2>15. ASSUME NEW i \in ix .. Len(seq) - 1 PROVE t[i] = seq[i + 1]
    <3>1. i \in 1 .. Len(seq) - 1
      BY <1>1, <2>1
    <3>. QED  BY <2>8, <2>9, <3>1
  <2>. QED  BY <1>5, <2>13, <2>14, <2>15 DEF t
<1>. HIDE DEF ix
<1>. QED  BY <1>4, <1>5 DEF ix

\* A name is found just when the map has it, and with the value the map has.
LEMMA FoundIsKnown ==
    ASSUME NEW K, NEW V, NEW seq \in Seq(Entries(K, V)), UniqueNames(seq), NEW k
    PROVE  /\ k \in DOMAIN SizeMap(seq) <=> Find(seq, k) # 0
           /\ Find(seq, k) # 0 => /\ Find(seq, k) \in Indices(seq)
                                  /\ seq[Find(seq, k)].name = k
                                  /\ seq[Find(seq, k)].size = SizeMap(seq)[k]
<1>1. /\ \A i \in Indices(seq) : /\ seq[i].name \in DOMAIN SizeMap(seq)
                                 /\ SizeMap(seq)[seq[i].name] = seq[i].size
      /\ \A j \in DOMAIN SizeMap(seq) : \E i \in Indices(seq) : seq[i].name = j
  BY SizeMapIs
<1>2. PICK ix : ix = Find(seq, k)
  OBVIOUS
<1>3. \/ ix = 0 /\ \A i \in Indices(seq) : seq[i].name # k
      \/ ix # 0 /\ ix \in Indices(seq) /\ seq[ix].name = k
  BY <1>2, FindIs
<1>. QED  BY <1>1, <1>2, <1>3

\* What a put that is accepted makes of the sequence, and so of the map.
LEMMA PutIs ==
    ASSUME NEW K, NEW V, NEW seq \in Seq(Entries(K, V)), UniqueNames(seq),
           NEW n \in K, NEW v \in V, NEW t,
           Find(seq, n) # 0 => t = [seq EXCEPT ![Find(seq, n)].size = v],
           Find(seq, n) = 0 => t = Append(seq, [name |-> n, size |-> v])
    PROVE  /\ t \in Seq(Entries(K, V)) /\ UniqueNames(t)
           /\ SizeMap(t) = Updated(SizeMap(seq), n, v)
<1>. DEFINE E == Entries(K, V)
            e == [name |-> n, size |-> v]
<1>1. e \in E /\ Indices(seq) = 1 .. Len(seq) /\ Len(seq) \in Nat
  BY EntryFacts DEF Entries, Indices
<1>2. CASE Find(seq, n) # 0
  <2>1. PICK ix \in Indices(seq) : ix = Find(seq, n) /\ seq[ix].name = n
    BY <1>2, FoundIsKnown
  <2>2. seq[ix] \in E
    BY EntryFacts
  <2>3. [seq[ix] EXCEPT !.size = v] = e
    BY <2>1, <2>2 DEF Entries
  <2>4. t = [seq EXCEPT ![ix] = e]
    BY <1>2, <2>1, <2>3
  <2>. HIDE DEF e, E
  <2>5. /\ t \in Seq(E) /\ Len(t) = Len(seq) /\ t[ix] = e
        /\ \A i \in Indices(seq) : i # ix => t[i] = seq[i]
    BY <1>1, <2>1, <2>4, ExceptSeq DEF E
  <2>6. UniqueNames(t) /\ SizeMap(t) = Updated(SizeMap(seq), seq[ix].name, v)
    BY ONLY seq \in Seq(Entries(K, V)), UniqueNames(seq), v \in V, <2>1, <2>5, Overwrite DEF e, E
  <2>7. seq[ix].name = n
    BY <2>1
  <2>. QED  BY ONLY <2>5, <2>6, <2>7 DEF E
<1>3. CASE Find(seq, n) = 0
  <2>1. \A i \in Indices(seq) : seq[i].name # n
    BY <1>3, FoundIsKnown, SizeMapIs
  <2>2. t = Append(seq, e)
    BY <1>3
  <2>. HIDE DEF e, E
  <2>3. /\ t \in Seq(E) /\ Len(t) = Len(seq) + 1 /\ t[Len(seq) + 1] = e
        /\ \A i \in Indices(seq) : t[i] = seq[i]
    BY <1>1, <2>2, AppendProperties DEF E
  <2>4. UniqueNames(t) /\ SizeMap(t) = Updated(SizeMap(seq), n, v)
    BY ONLY seq \in Seq(Entries(K, V)), UniqueNames(seq), n \in K, v \in V, <2>1, <2>3, AddNew DEF e, E
  <2>. QED  BY ONLY <2>3, <2>4 DEF E
<1>. QED  BY <1>2, <1>3

\* What the maps of BoundedMap are here.
LEMMA AsMapIs ==
    ASSUME NEW seq
    PROVE  /\ AsMap(seq, LAMBDA file : file.size) = SizeMap(seq)
           /\ AsMap(seq, LAMBDA entry : entry.size) = SizeMap(seq)
BY DEF AsMap, SizeMap

\* The empty store.
LEMMA EmptyMap ==
    ASSUME NEW K, NEW V
    PROVE  /\ <<>> \in Seq(Entries(K, V)) /\ UniqueNames(<<>>)
           /\ SizeMap(<<>>) = [k \in {} |-> 0]
<1>1. Indices(<<>>) = {} /\ <<>> \in Seq(Entries(K, V))
  BY DEF Indices
<1>2. {<<>>[i].name : i \in Indices(<<>>)} = {}
  BY <1>1
<1>. QED  BY <1>1, <1>2 DEF UniqueNames, SizeMap

\* The inductive invariant of VirtFS: sizes within the limit, no name twice.
FsInv ==
    /\ files \in Seq(Entries(FileNames, 0 .. MaxFileSize))
    /\ UniqueNames(files)

\* A write is a put, refused or not.
LEMMA FsWriteIsPut ==
    ASSUME FsInv, NEW name \in FileNames, NEW size \in Nat, FsWrite(name, size)
    PROVE  FsInv' /\ FsMap!PutKey(name, size)
<1>. DEFINE K == FileNames
            V == 0 .. MaxFileSize
            m == SizeMap(files)
<1>1. files \in Seq(Entries(K, V)) /\ UniqueNames(files) /\ MaxFileSize \in Nat
  BY StoresAssumption DEF FsInv
<1>2. Cardinality(DOMAIN m) = Len(files) /\ Len(files) \in Nat
  BY <1>1, SizeMapSize, EntryFacts
<1>3. PICK ix : ix = Find(files, name)
  OBVIOUS
<1>4. /\ name \in DOMAIN m <=> ix # 0
      /\ ix # 0 => ix \in Indices(files) /\ files[ix].name = name
  BY <1>1, <1>3, FoundIsKnown
<1>5. size \in V <=> ~(size > MaxFileSize)
  BY <1>1
<1>6. FsMap!Acceptable(name, size)
        <=> size \in V /\ (ix # 0 \/ Cardinality(DOMAIN m) < MaxFiles)
  <2>1. AsMap(files, LAMBDA file : file.size) = m
    BY AsMapIs
  <2>. HIDE DEF m, V
  <2>2. FsMap!Cardinality(DOMAIN m) = Cardinality(DOMAIN m)
    BY DEF FsMap!Cardinality, Cardinality
  <2>. QED  BY <1>4, <2>1, <2>2 DEF FsMap!Acceptable, V
<1>7. MaxFiles \in Nat
  BY StoresAssumption
<1>8. FsMap!Acceptable(name, size)
        <=> ~(size > MaxFileSize) /\ (ix # 0 \/ ~(Len(files) >= MaxFiles))
  BY <1>2, <1>5, <1>6, <1>7
<1>9. AsMap(files, LAMBDA file : file.size) = m
      /\ AsMap(files, LAMBDA file : file.size)' = SizeMap(files')
  BY DEF AsMap, SizeMap
<1>10. CASE ~FsMap!Acceptable(name, size)
  <2>1. fs_call' = <<"put", name, size>> /\ FsRefuses
    BY <1>3, <1>8, <1>10 DEF FsWrite
  <2>2. files' = files
    BY <2>1 DEF FsRefuses
  <2>3. FsInv'
    BY <1>1, <2>2 DEF FsInv
  <2>4. AsMap(files, LAMBDA file : file.size)' = AsMap(files, LAMBDA file : file.size)
    BY <1>9, <2>2
  <2>. QED  BY <1>10, <2>1, <2>3, <2>4 DEF FsRefuses, FsMap!PutKey, FsMap!Refuse
<1>11. CASE FsMap!Acceptable(name, size)
  <2>1. size \in V
    BY <1>6, <1>11
  <2>2. /\ files' \in Seq(Entries(K, V)) /\ UniqueNames(files')
        /\ SizeMap(files') = Updated(m, name, size)
        /\ fs_call' = <<"put", name, size>> /\ FsAccepts
    <3>1. PICK s, t : s = files /\ t = files'
      OBVIOUS
    <3>2. /\ fs_call' = <<"put", name, size>> /\ FsAccepts
          /\ Find(s, name) # 0 => t = [s EXCEPT ![Find(s, name)].size = size]
          /\ Find(s, name) = 0 => t = Append(s, [name |-> name, size |-> size])
      BY <1>3, <1>8, <1>11, <3>1 DEF FsWrite
    <3>3. s \in Seq(Entries(K, V)) /\ UniqueNames(s) /\ name \in K
      BY <1>1, <3>1
    <3>. HIDE DEF K, V
    <3>4. /\ t \in Seq(Entries(K, V)) /\ UniqueNames(t)
          /\ SizeMap(t) = Updated(SizeMap(s), name, size)
      BY <2>1, <3>2, <3>3, PutIs
    <3>. QED  BY <3>1, <3>2, <3>4
  <2>3. AsMap(files, LAMBDA file : file.size)'
          = [j \in DOMAIN AsMap(files, LAMBDA file : file.size) \cup {name} |->
               IF j = name THEN size ELSE AsMap(files, LAMBDA file : file.size)[j]]
    BY <1>9, <2>2 DEF Updated
  <2>4. FsInv'
    BY <2>2 DEF FsInv
  <2>. QED  BY <1>11, <2>2, <2>3, <2>4 DEF FsAccepts, FsMap!PutKey
<1>. QED  BY <1>10, <1>11

\* Reading gets the value that the map has.
LEMMA FsReadIsGet ==
    ASSUME FsInv, NEW name \in FileNames, FsRead(name)
    PROVE  FsInv' /\ FsMap!GetKey(name)
<1>. DEFINE m == SizeMap(files)
<1>1. files \in Seq(Entries(FileNames, 0 .. MaxFileSize)) /\ UniqueNames(files)
  BY DEF FsInv
<1>2. PICK ix : ix = Find(files, name)
  OBVIOUS
<1>3. /\ name \in DOMAIN m <=> ix # 0
      /\ ix # 0 => files[ix].size = m[name]
  BY <1>1, <1>2, FoundIsKnown
<1>4. fs_call' = <<"get", name>> /\ files' = files
  BY DEF FsRead, FsRefuses
<1>5. /\ AsMap(files, LAMBDA file : file.size) = m
      /\ AsMap(files, LAMBDA file : file.size)' = m
  BY <1>4 DEF AsMap, SizeMap
<1>6. FsInv'
  BY <1>1, <1>4 DEF FsInv
<1>. HIDE DEF m
<1>7. CASE ix = 0
  <2>1. fs_answer' = <<"refused">>
    BY <1>2, <1>7 DEF FsRead, FsRefuses
  <2>. QED  BY <1>3, <1>4, <1>5, <1>6, <1>7, <2>1 DEF FsMap!GetKey, FsMap!Refuse
<1>8. CASE ix # 0
  <2>1. fs_answer' = <<"got", files[ix].size>>
    BY <1>2, <1>8 DEF FsRead
  <2>. QED  BY <1>3, <1>4, <1>5, <1>6, <1>8, <2>1 DEF FsMap!GetKey
<1>. QED  BY <1>7, <1>8

\* Removing is deleting.
LEMMA FsRemoveIsDelete ==
    ASSUME FsInv, NEW name \in FileNames, FsRemove(name)
    PROVE  FsInv' /\ FsMap!DeleteKey(name)
<1>. DEFINE m == SizeMap(files)
            K == FileNames
            V == 0 .. MaxFileSize
<1>1. files \in Seq(Entries(K, V)) /\ UniqueNames(files)
  BY DEF FsInv
<1>2. PICK ix : ix = Find(files, name)
  OBVIOUS
<1>3. /\ name \in DOMAIN m <=> ix # 0
      /\ ix # 0 => ix \in Indices(files) /\ files[ix].name = name
  BY <1>1, <1>2, FoundIsKnown
<1>4. fs_call' = <<"delete", name>>
  BY DEF FsRemove
<1>5. /\ AsMap(files, LAMBDA file : file.size) = m
      /\ AsMap(files, LAMBDA file : file.size)' = SizeMap(files')
  BY DEF AsMap, SizeMap
<1>6. CASE ix = 0
  <2>1. fs_answer' = <<"refused">> /\ files' = files
    BY <1>2, <1>6 DEF FsRemove, FsRefuses
  <2>2. FsInv'
    BY <1>1, <2>1 DEF FsInv
  <2>3. AsMap(files, LAMBDA file : file.size)' = AsMap(files, LAMBDA file : file.size)
    BY <1>5, <2>1
  <2>. HIDE DEF m
  <2>. QED  BY <1>3, <1>4, <1>5, <1>6, <2>1, <2>2, <2>3 DEF FsMap!DeleteKey, FsMap!Refuse
<1>7. CASE ix # 0
  <2>1. fs_answer' = <<"ok">> /\ files' = RemoveAt(files, ix)
    BY <1>2, <1>7 DEF FsRemove, FsAccepts
  <2>2. PICK s, t : s = files /\ t = files'
    OBVIOUS
  <2>3. s \in Seq(Entries(K, V)) /\ UniqueNames(s) /\ ix \in Indices(s)
    BY <1>1, <1>3, <1>7, <2>2
  <2>4. /\ t \in Seq(Entries(K, V)) /\ Len(t) = Len(s) - 1
        /\ \A i \in 1 .. ix - 1 : t[i] = s[i]
        /\ \A i \in ix .. Len(s) - 1 : t[i] = s[i + 1]
    <3>. DEFINE r == RemoveAt(s, ix)
    <3>1. /\ r \in Seq(Entries(K, V)) /\ Len(r) = Len(s) - 1
          /\ \A i \in 1 .. ix - 1 : r[i] = s[i]
          /\ \A i \in ix .. Len(s) - 1 : r[i] = s[i + 1]
      BY <2>3, RemoveAtTakesOut
    <3>2. t = r
      BY <2>1, <2>2
    <3>. HIDE DEF r
    <3>. QED  BY <3>1, <3>2
  <2>5. UniqueNames(t) /\ SizeMap(t) = Without(SizeMap(s), s[ix].name)
    BY ONLY <2>3, <2>4, TakenOut
  <2>6. FsInv'
    BY <2>2, <2>4, <2>5 DEF FsInv
  <2>7. SizeMap(files') = Without(m, name)
    BY <1>3, <1>7, <2>2, <2>5
  <2>8. AsMap(files, LAMBDA file : file.size)'
          = [j \in DOMAIN AsMap(files, LAMBDA file : file.size) \ {name} |->
               AsMap(files, LAMBDA file : file.size)[j]]
    BY <1>5, <2>7 DEF Without
  <2>9. name \in DOMAIN AsMap(files, LAMBDA file : file.size)
    BY <1>3, <1>5, <1>7
  <2>. QED  BY <1>4, <2>1, <2>6, <2>8, <2>9 DEF FsMap!DeleteKey
<1>. QED  BY <1>6, <1>7

\* Touching a file that exists writes the size it has; appending to it writes
\* the sum.
LEMMA TouchAndAppendAreWrites ==
    ASSUME FsInv, NEW name \in FileNames
    PROVE  /\ FsTouch(name) => \E v \in 0 .. MaxFileSize : FsWrite(name, v)
           /\ \A size \in FileSizes : FsAppend(name, size) =>
                 \E v \in 0 .. 2 * MaxFileSize + 1 : FsWrite(name, v)
<1>1. /\ files \in Seq(Entries(FileNames, 0 .. MaxFileSize))
      /\ UniqueNames(files) /\ MaxFileSize \in Nat
  BY StoresAssumption DEF FsInv
<1>2. PICK ix : ix = Find(files, name)
  OBVIOUS
<1>3. ix # 0 => ix \in Indices(files)
  BY <1>1, <1>2, FoundIsKnown
<1>4. ASSUME FsTouch(name) PROVE \E v \in 0 .. MaxFileSize : FsWrite(name, v)
  <2>1. CASE ix = 0
    BY <1>1, <1>2, <1>4, <2>1 DEF FsTouch
  <2>2. CASE ix # 0
    <3>1. PICK v \in 0 .. MaxFileSize : v = files[ix].size
      BY <1>1, <1>3, <2>2, EntryFacts
    <3>2. [files EXCEPT ![ix].size = v] = files
      <4>1. files[ix] \in Entries(FileNames, 0 .. MaxFileSize)
        BY <1>1, <1>3, <2>2, EntryFacts
      <4>2. [files[ix] EXCEPT !.size = v] = files[ix]
        BY <3>1, <4>1 DEF Entries
      <4>3. files = [i \in 1 .. Len(files) |-> files[i]]
        BY <1>1, LenProperties
      <4>. QED  BY <4>2, <4>3
    <3>3. ~(v > MaxFileSize)
      BY <1>1, <3>1
    <3>4. fs_call' = <<"put", name, v>> /\ FsAccepts /\ files' = files
      BY <1>2, <1>4, <2>2, <3>1 DEF FsTouch
    <3>. QED  BY <1>2, <2>2, <3>1, <3>2, <3>3, <3>4 DEF FsWrite
  <2>. QED  BY <2>1, <2>2
<1>5. ASSUME NEW size \in FileSizes, FsAppend(name, size)
      PROVE  \E v \in 0 .. 2 * MaxFileSize + 1 : FsWrite(name, v)
  <2>1. CASE ix = 0
    <3>1. size \in 0 .. 2 * MaxFileSize + 1
      BY <1>1 DEF FileSizes
    <3>. QED  BY <1>2, <1>5, <2>1, <3>1 DEF FsAppend
  <2>2. CASE ix # 0
    <3>1. PICK v : v = files[ix].size + size
      OBVIOUS
    <3>2. v \in 0 .. 2 * MaxFileSize + 1
      <4>1. files[ix].size \in 0 .. MaxFileSize
        BY <1>1, <1>3, <2>2, EntryFacts
      <4>. QED  BY <1>1, <3>1, <4>1 DEF FileSizes
    <3>3. /\ fs_call' = <<"put", name, v>>
          /\ IF v > MaxFileSize THEN FsRefuses
             ELSE files' = [files EXCEPT ![ix].size = v] /\ FsAccepts
      BY <1>2, <1>5, <2>2, <3>1 DEF FsAppend
    <3>4. FsWrite(name, v)
      BY <1>2, <2>2, <3>3 DEF FsWrite
    <3>. QED  BY <3>2, <3>4
  <2>. QED  BY <2>1, <2>2
<1>. QED  BY <1>4, <1>5

\* VirtFS implements the map, step by step.
LEMMA FsStep ==
    ASSUME FsInv, [FsNext]_fsVars
    PROVE  /\ FsInv'
           /\ [FsMap!MapNext]_<<AsMap(files, LAMBDA file : file.size), fs_call, fs_answer>>
<1>1. CASE FsNext
  <2>1. MaxFileSize \in Nat /\ HostBuffer \in Nat
    BY StoresAssumption
  <2>2. ASSUME NEW name \in FileNames, NEW v \in 0 .. 2 * MaxFileSize + 1,
               FsWrite(name, v)
        PROVE  FsInv' /\ FsMap!MapNext
    <3>1. v \in Nat
      BY <2>1
    <3>2. FsInv' /\ FsMap!PutKey(name, v)
      BY <2>2, <3>1, FsWriteIsPut
    <3>. QED  BY <3>2 DEF FsMap!MapNext
  <2>3. PICK name \in FileNames :
          \/ \E size \in FileSizes :
                FsWrite(name, size) \/ HostFsWrite(name, size) \/ FsAppend(name, size)
          \/ FsRead(name)
          \/ FsTouch(name)
          \/ FsRemove(name)
    BY <1>1 DEF FsNext
  <2>4. ASSUME NEW size \in FileSizes, FsWrite(name, size)
        PROVE  FsInv' /\ FsMap!MapNext
    <3>1. size \in 0 .. 2 * MaxFileSize + 1
      BY <2>1 DEF FileSizes
    <3>. QED  BY <2>2, <2>4, <3>1
  <2>5. ASSUME NEW size \in FileSizes, HostFsWrite(name, size)
        PROVE  FsInv' /\ FsMap!MapNext
    <3>1. PICK v : v = IF size <= HostBuffer THEN size ELSE HostBuffer
      OBVIOUS
    <3>2. v \in 0 .. 2 * MaxFileSize + 1
      BY <2>1, <3>1 DEF FileSizes
    <3>3. FsWrite(name, v)
      BY <2>5, <3>1 DEF HostFsWrite
    <3>. QED  BY <2>2, <3>2, <3>3
  <2>6. ASSUME NEW size \in FileSizes, FsAppend(name, size)
        PROVE  FsInv' /\ FsMap!MapNext
    BY <2>2, <2>6, TouchAndAppendAreWrites
  <2>7. CASE FsRead(name)
    BY <2>7, FsReadIsGet DEF FsMap!MapNext
  <2>8. CASE FsTouch(name)
    <3>1. PICK v \in 0 .. MaxFileSize : FsWrite(name, v)
      BY <2>8, TouchAndAppendAreWrites
    <3>2. v \in 0 .. 2 * MaxFileSize + 1
      BY <2>1
    <3>. QED  BY <2>2, <3>1, <3>2
  <2>9. CASE FsRemove(name)
    BY <2>9, FsRemoveIsDelete DEF FsMap!MapNext
  <2>. QED  BY <2>3, <2>4, <2>5, <2>6, <2>7, <2>8, <2>9
<1>2. CASE UNCHANGED fsVars
  <2>1. files' = files /\ fs_call' = fs_call /\ fs_answer' = fs_answer
    BY <1>2 DEF fsVars
  <2>2. FsInv'
    BY <2>1 DEF FsInv
  <2>3. AsMap(files, LAMBDA file : file.size)' = AsMap(files, LAMBDA file : file.size)
    BY <2>1 DEF AsMap, Find, Indices
  <2>. QED  BY <2>1, <2>2, <2>3
<1>. QED  BY <1>1, <1>2

\* The empty store is the empty map.
LEMMA FsStart ==
    ASSUME FsInit
    PROVE  FsInv /\ FsMap!MapInit
<1>1. files = <<>> /\ fs_call = <<>> /\ fs_answer = <<"ok">>
  BY DEF FsInit
<1>2. FsInv
  BY <1>1, EmptyMap DEF FsInv
<1>3. AsMap(files, LAMBDA file : file.size) = SizeMap(files)
  BY DEF AsMap, SizeMap
<1>4. SizeMap(files) = [k \in {} |-> 0]
  BY <1>1, EmptyMap
<1>. QED  BY <1>1, <1>2, <1>3, <1>4 DEF FsMap!MapInit

\* The inductive invariant of the environment: keys that are not too long, sizes
\* within the limit, no key twice.
EnvInv ==
    /\ env_entries \in Seq(Entries(EnvKeys \ LongKeys, 0 .. MaxVal))
    /\ UniqueNames(env_entries)

\* Setting is a put, refused or not.
LEMMA EnvSetIsPut ==
    ASSUME EnvInv, NEW key \in EnvKeys, NEW size \in Nat, EnvSet(key, size)
    PROVE  EnvInv' /\ EnvMap!PutKey(key, size)
<1>. DEFINE K == EnvKeys \ LongKeys
            V == 0 .. MaxVal
            m == SizeMap(env_entries)
<1>1. /\ env_entries \in Seq(Entries(K, V)) /\ UniqueNames(env_entries)
      /\ MaxVal \in Nat /\ MaxEntries \in Nat
  BY StoresAssumption DEF EnvInv
<1>2. Cardinality(DOMAIN m) = Len(env_entries) /\ Len(env_entries) \in Nat
  BY <1>1, SizeMapSize, EntryFacts
<1>3. PICK ix : ix = Find(env_entries, key)
  OBVIOUS
<1>4. key \in DOMAIN m <=> ix # 0
  BY <1>1, <1>3, FoundIsKnown
<1>5. size \in V <=> ~(size > MaxVal)
  BY <1>1
<1>6. EnvMap!Acceptable(key, size)
        <=> key \in K /\ size \in V /\ (ix # 0 \/ Cardinality(DOMAIN m) < MaxEntries)
  <2>1. AsMap(env_entries, LAMBDA entry : entry.size) = m
    BY AsMapIs
  <2>. HIDE DEF m, V, K
  <2>2. EnvMap!Cardinality(DOMAIN m) = Cardinality(DOMAIN m)
    BY DEF EnvMap!Cardinality, Cardinality
  <2>. QED  BY <1>4, <2>1, <2>2 DEF EnvMap!Acceptable, V, K
<1>7. EnvMap!Acceptable(key, size)
        <=> /\ ~(key \in LongKeys) /\ ~(size > MaxVal)
            /\ ix # 0 \/ ~(Len(env_entries) >= MaxEntries)
  BY <1>1, <1>2, <1>5, <1>6
<1>8. /\ AsMap(env_entries, LAMBDA entry : entry.size) = m
      /\ AsMap(env_entries, LAMBDA entry : entry.size)' = SizeMap(env_entries')
  BY DEF AsMap, SizeMap
<1>9. CASE ~EnvMap!Acceptable(key, size)
  <2>1. env_call' = <<"put", key, size>> /\ EnvRefuses
    BY <1>3, <1>7, <1>9 DEF EnvSet
  <2>2. env_entries' = env_entries
    BY <2>1 DEF EnvRefuses
  <2>3. EnvInv'
    BY <1>1, <2>2 DEF EnvInv
  <2>4. AsMap(env_entries, LAMBDA entry : entry.size)'
          = AsMap(env_entries, LAMBDA entry : entry.size)
    BY <1>8, <2>2
  <2>. QED  BY <1>9, <2>1, <2>3, <2>4 DEF EnvRefuses, EnvMap!PutKey, EnvMap!Refuse
<1>10. CASE EnvMap!Acceptable(key, size)
  <2>1. size \in V /\ key \in K
    BY <1>6, <1>10
  <2>2. /\ env_entries' \in Seq(Entries(K, V)) /\ UniqueNames(env_entries')
        /\ SizeMap(env_entries') = Updated(m, key, size)
        /\ env_call' = <<"put", key, size>> /\ EnvAccepts
    <3>1. PICK s, t : s = env_entries /\ t = env_entries'
      OBVIOUS
    <3>2. /\ env_call' = <<"put", key, size>> /\ EnvAccepts
          /\ Find(s, key) # 0 => t = [s EXCEPT ![Find(s, key)].size = size]
          /\ Find(s, key) = 0 => t = Append(s, [name |-> key, size |-> size])
      BY <1>3, <1>7, <1>10, <3>1 DEF EnvSet
    <3>3. s \in Seq(Entries(K, V)) /\ UniqueNames(s)
      BY <1>1, <3>1
    <3>. HIDE DEF K, V
    <3>4. /\ t \in Seq(Entries(K, V)) /\ UniqueNames(t)
          /\ SizeMap(t) = Updated(SizeMap(s), key, size)
      BY <2>1, <3>2, <3>3, PutIs
    <3>. QED  BY <3>1, <3>2, <3>4
  <2>3. AsMap(env_entries, LAMBDA entry : entry.size)'
          = [j \in DOMAIN AsMap(env_entries, LAMBDA entry : entry.size) \cup {key} |->
               IF j = key THEN size ELSE AsMap(env_entries, LAMBDA entry : entry.size)[j]]
    BY <1>8, <2>2 DEF Updated
  <2>4. EnvInv'
    BY <2>2 DEF EnvInv
  <2>. QED  BY <1>10, <2>2, <2>3, <2>4 DEF EnvAccepts, EnvMap!PutKey
<1>. QED  BY <1>9, <1>10

\* Getting gets the value that the map has.
LEMMA EnvGetIsGet ==
    ASSUME EnvInv, NEW key \in EnvKeys, EnvGet(key)
    PROVE  EnvInv' /\ EnvMap!GetKey(key)
<1>. DEFINE m == SizeMap(env_entries)
<1>1. /\ env_entries \in Seq(Entries(EnvKeys \ LongKeys, 0 .. MaxVal))
      /\ UniqueNames(env_entries)
  BY DEF EnvInv
<1>2. PICK ix : ix = Find(env_entries, key)
  OBVIOUS
<1>3. /\ key \in DOMAIN m <=> ix # 0
      /\ ix # 0 => env_entries[ix].size = m[key]
  BY <1>1, <1>2, FoundIsKnown
<1>4. env_call' = <<"get", key>> /\ env_entries' = env_entries
  BY DEF EnvGet, EnvRefuses
<1>5. /\ AsMap(env_entries, LAMBDA entry : entry.size) = m
      /\ AsMap(env_entries, LAMBDA entry : entry.size)' = m
  BY <1>4 DEF AsMap, SizeMap
<1>6. EnvInv'
  BY <1>1, <1>4 DEF EnvInv
<1>. HIDE DEF m
<1>7. CASE ix = 0
  <2>1. env_answer' = <<"refused">>
    BY <1>2, <1>7 DEF EnvGet, EnvRefuses
  <2>. QED  BY <1>3, <1>4, <1>5, <1>6, <1>7, <2>1 DEF EnvMap!GetKey, EnvMap!Refuse
<1>8. CASE ix # 0
  <2>1. env_answer' = <<"got", env_entries[ix].size>>
    BY <1>2, <1>8 DEF EnvGet
  <2>. QED  BY <1>3, <1>4, <1>5, <1>6, <1>8, <2>1 DEF EnvMap!GetKey
<1>. QED  BY <1>7, <1>8

\* Unsetting is deleting: what retain keeps is one entry shorter just when the
\* key was there.
LEMMA EnvUnsetIsDelete ==
    ASSUME EnvInv, NEW key \in EnvKeys, EnvUnset(key)
    PROVE  EnvInv' /\ EnvMap!DeleteKey(key)
<1>. DEFINE m == SizeMap(env_entries)
            K == EnvKeys \ LongKeys
            V == 0 .. MaxVal
<1>1. PICK s, t, ix : s = env_entries /\ t = env_entries' /\ ix = Find(s, key)
  OBVIOUS
<1>2. s \in Seq(Entries(K, V)) /\ UniqueNames(s) /\ Len(s) \in Nat
  <2>1. s \in Seq(Entries(K, V)) /\ UniqueNames(s)
    BY <1>1 DEF EnvInv
  <2>. QED  BY <2>1, EntryFacts
<1>3. /\ key \in DOMAIN SizeMap(s) <=> ix # 0
      /\ ix # 0 => ix \in Indices(s) /\ s[ix].name = key
  BY <1>1, <1>2, FoundIsKnown
<1>4. /\ env_call' = <<"delete", key>> /\ t = EntriesKept(s, key)
      /\ Len(t) < Len(s) => env_answer' = <<"ok">>
      /\ ~(Len(t) < Len(s)) => env_answer' = <<"refused">>
  BY <1>1 DEF EnvUnset
<1>5. /\ t \in Seq(Entries(K, V))
      /\ ix = 0 => t = s
      /\ ix # 0 => /\ Len(t) = Len(s) - 1
                   /\ \A i \in 1 .. ix - 1 : t[i] = s[i]
                   /\ \A i \in ix .. Len(s) - 1 : t[i] = s[i + 1]
  <2>. DEFINE r == EntriesKept(s, key)
              f == Find(s, key)
  <2>. HIDE DEF K, V
  <2>1. /\ r \in Seq(Entries(K, V))
        /\ f = 0 => r = s
        /\ f # 0 => /\ Len(r) = Len(s) - 1
                    /\ \A i \in 1 .. f - 1 : r[i] = s[i]
                    /\ \A i \in f .. Len(s) - 1 : r[i] = s[i + 1]
    BY <1>2, KeptTakesOut
  <2>2. t = r /\ ix = f
    BY <1>1, <1>4
  <2>. HIDE DEF r, f
  <2>. QED  BY <2>1, <2>2
<1>6. /\ AsMap(env_entries, LAMBDA entry : entry.size) = SizeMap(s)
      /\ AsMap(env_entries, LAMBDA entry : entry.size)' = SizeMap(t)
  BY <1>1 DEF AsMap, SizeMap
<1>7. CASE ix = 0
  <2>1. t = s /\ ~(Len(t) < Len(s))
    BY <1>2, <1>5, <1>7
  <2>2. EnvInv'
    BY <1>1, <1>2, <2>1 DEF EnvInv
  <2>3. AsMap(env_entries, LAMBDA entry : entry.size)'
          = AsMap(env_entries, LAMBDA entry : entry.size)
    BY <1>6, <2>1
  <2>. QED  BY <1>3, <1>4, <1>6, <1>7, <2>1, <2>2, <2>3
            DEF EnvMap!DeleteKey, EnvMap!Refuse
<1>8. CASE ix # 0
  <2>1. Len(t) < Len(s) /\ ix \in Indices(s)
    BY <1>2, <1>3, <1>5, <1>8
  <2>2. UniqueNames(t) /\ SizeMap(t) = Without(SizeMap(s), s[ix].name)
    BY <1>2, <1>5, <1>8, <2>1, TakenOut
  <2>3. EnvInv'
    BY <1>1, <1>5, <2>2 DEF EnvInv
  <2>4. SizeMap(t) = Without(SizeMap(s), key)
    BY <1>3, <1>8, <2>2
  <2>5. AsMap(env_entries, LAMBDA entry : entry.size)'
          = [j \in DOMAIN AsMap(env_entries, LAMBDA entry : entry.size) \ {key} |->
               AsMap(env_entries, LAMBDA entry : entry.size)[j]]
    BY <1>6, <2>4 DEF Without
  <2>6. key \in DOMAIN AsMap(env_entries, LAMBDA entry : entry.size)
    BY <1>3, <1>6, <1>8
  <2>. QED  BY <1>4, <2>1, <2>3, <2>5, <2>6 DEF EnvMap!DeleteKey
<1>. QED  BY <1>7, <1>8

\* The environment implements the map, step by step.
LEMMA EnvStep ==
    ASSUME EnvInv, [EnvNext]_envVars
    PROVE  /\ EnvInv'
           /\ [EnvMap!MapNext]_<<AsMap(env_entries, LAMBDA entry : entry.size),
                                 env_call, env_answer>>
<1>1. CASE EnvNext
  <2>1. PICK key \in EnvKeys :
          \/ \E size \in ValueSizes : EnvSet(key, size)
          \/ EnvGet(key)
          \/ EnvUnset(key)
    BY <1>1 DEF EnvNext
  <2>2. ASSUME NEW size \in ValueSizes, EnvSet(key, size)
        PROVE  EnvInv' /\ EnvMap!MapNext
    <3>1. size \in Nat
      BY StoresAssumption DEF ValueSizes
    <3>2. EnvInv' /\ EnvMap!PutKey(key, size)
      BY <2>2, <3>1, EnvSetIsPut
    <3>. QED  BY <3>2 DEF EnvMap!MapNext
  <2>3. CASE EnvGet(key)
    BY <2>3, EnvGetIsGet DEF EnvMap!MapNext
  <2>4. CASE EnvUnset(key)
    BY <2>4, EnvUnsetIsDelete DEF EnvMap!MapNext
  <2>. QED  BY <2>1, <2>2, <2>3, <2>4
<1>2. CASE UNCHANGED envVars
  <2>1. /\ env_entries' = env_entries /\ env_call' = env_call
        /\ env_answer' = env_answer
    BY <1>2 DEF envVars
  <2>2. EnvInv'
    BY <2>1 DEF EnvInv
  <2>3. AsMap(env_entries, LAMBDA entry : entry.size)'
          = AsMap(env_entries, LAMBDA entry : entry.size)
    BY <2>1 DEF AsMap, Find, Indices
  <2>. QED  BY <2>1, <2>2, <2>3
<1>. QED  BY <1>1, <1>2

\* The empty environment is the empty map.
LEMMA EnvStart ==
    ASSUME EnvInit
    PROVE  EnvInv /\ EnvMap!MapInit
<1>1. env_entries = <<>> /\ env_call = <<>> /\ env_answer = <<"ok">>
  BY DEF EnvInit
<1>2. EnvInv
  BY <1>1, EmptyMap DEF EnvInv
<1>3. AsMap(env_entries, LAMBDA entry : entry.size) = SizeMap(env_entries)
  BY DEF AsMap, SizeMap
<1>4. SizeMap(env_entries) = [k \in {} |-> 0]
  BY <1>1, EmptyMap
<1>. QED  BY <1>1, <1>2, <1>3, <1>4 DEF EnvMap!MapInit

\* StoresAreMaps for stores of any size: VirtFS and the environment are maps from
\* names to contents (virtfs.rs, env.rs), whatever is written, read, appended,
\* touched or removed, and in whatever order.
THEOREM StoresStayMaps == FsSpec /\ EnvSpec => StoresAreMaps
<1>1. FsSpec => FsMap!MapSpec
  BY FsStart, FsStep, PTL DEF FsSpec, FsMap!MapSpec
<1>2. EnvSpec => EnvMap!MapSpec
  BY EnvStart, EnvStep, PTL DEF EnvSpec, EnvMap!MapSpec
<1>. QED  BY <1>1, <1>2 DEF StoresAreMaps

-----------------------------------------------------------------------------
(* The shell's history. *)

\* The provers do not know of these that they are strings.
Tokens == STRING \cup {"!!", "history", "h", "alias", "unalias", "arg", Blanks}

Lines == Seq(Tokens) \ {<<>>}
Places == 0 .. HistorySize - 1

\* The slot i places back from the head h.
Back(h, i) == IF h >= i THEN h - i ELSE h + HistorySize - i

\* e, h and c are a ring of the last of the lines r.
RingOf(e, h, c, r) ==
    /\ e \in [Places -> Seq(Tokens)] /\ h \in Places
    /\ r \in Seq(Lines)
    /\ c = LesserOf(Len(r), HistorySize)
    /\ \A i \in 1 .. c : e[Back(h, i)] = r[Len(r) - i + 1]

\* The lines that may be executed again are no empty ones, and an expansion is
\* more than blanks.
ShellInv ==
    /\ RingOf(history_entries, history_head, history_count, recorded)
    /\ \A n \in DOMAIN aliases : aliases[n] \in Lines /\ Filled(aliases[n]) # {}
    /\ status = "executing" => current \in Lines

\* A slot of the ring: one further on, and seen from there.
LEMMA SlotsBack ==
    ASSUME NEW h \in Places
    PROVE  /\ (h + 1) % HistorySize \in Places
           /\ \A i \in 1 .. HistorySize : Back(h, i) \in Places
           /\ Back((h + 1) % HistorySize, 1) = h
           /\ \A i \in 2 .. HistorySize :
                Back((h + 1) % HistorySize, i) = Back(h, i - 1) /\ Back(h, i - 1) # h
<1>1. HistorySize \in Nat \ {0} /\ h \in Nat /\ h < HistorySize
  BY ShellAssumption DEF Places
<1>2. (h + 1) % HistorySize = IF h + 1 = HistorySize THEN 0 ELSE h + 1
  <2>1. CASE h + 1 = HistorySize
    <3>1. HistorySize % HistorySize = 0
      BY <1>1
    <3>. QED  BY <2>1, <3>1
  <2>2. CASE h + 1 # HistorySize
    <3>1. h + 1 \in 0 .. HistorySize - 1
      BY <1>1, <2>2
    <3>. QED  BY <1>1, <2>2, <3>1
  <2>. QED  BY <2>1, <2>2
<1>. QED  BY <1>1, <1>2 DEF Back, Places

\* The lines of a ring are the latest that were recorded.
LEMMA RingShows ==
    ASSUME NEW e, NEW h, NEW c, NEW r, RingOf(e, h, c, r)
    PROVE  /\ c \in Nat /\ c <= HistorySize /\ c <= Len(r) /\ Len(r) \in Nat
           /\ \A i \in 1 .. c : e[Back(h, i)] = r[Len(r) - i + 1] /\ r[Len(r) - i + 1] \in Lines
<1>1. Len(r) \in Nat /\ r \in Seq(Lines)
  BY LenProperties DEF RingOf
<1>2. HistorySize \in Nat
  BY ShellAssumption
<1>3. c \in Nat /\ c <= HistorySize /\ c <= Len(r)
  BY <1>1, <1>2 DEF RingOf, LesserOf
<1>4. ASSUME NEW i \in 1 .. c PROVE r[Len(r) - i + 1] \in Lines
  <2>1. Len(r) - i + 1 \in 1 .. Len(r)
    BY <1>1, <1>3
  <2>. QED  BY <1>1, <2>1, ElementOfSeq
<1>. QED  BY <1>1, <1>3, <1>4 DEF RingOf

\* A line that is pushed becomes the latest.
LEMMA PushStep ==
    ASSUME RingOf(history_entries, history_head, history_count, recorded),
           NEW line \in Lines, HistoryPush(line)
    PROVE  RingOf(history_entries', history_head', history_count', recorded')
<1>. DEFINE m == LesserOf(Len(line), EntryWords)
            entry == SubSeq(line, 1, m)
<1>1. /\ history_entries' = [history_entries EXCEPT ![history_head] = entry]
      /\ history_head' = (history_head + 1) % HistorySize
      /\ history_count' = LesserOf(history_count + 1, HistorySize)
      /\ recorded' = Append(recorded, entry)
  BY DEF HistoryPush
<1>2. line \in Seq(Tokens) /\ Len(line) \in Nat \ {0} /\ EntryWords \in Nat \ {0}
  BY ShellAssumption, LenProperties, EmptySeq DEF Lines
<1>3. m \in 1 .. Len(line)
  BY <1>2 DEF LesserOf
<1>4. entry \in Seq(Tokens) /\ Len(entry) = m /\ \A i \in 1 .. m : entry[i] = line[i]
  BY <1>2, <1>3, SubSeqProperties
<1>. HIDE DEF m, entry
<1>5. entry # <<>>
  BY <1>3, <1>4
<1>7. entry \in Lines
  BY <1>4, <1>5 DEF Lines
<1>8. /\ history_entries \in [Places -> Seq(Tokens)] /\ history_head \in Places
      /\ recorded \in Seq(Lines)
      /\ \A i \in 1 .. history_count :
            history_entries[Back(history_head, i)] = recorded[Len(recorded) - i + 1]
      /\ history_count = LesserOf(Len(recorded), HistorySize)
  BY DEF RingOf
<1>9. /\ history_count \in Nat /\ history_count <= HistorySize /\ Len(recorded) \in Nat
      /\ HistorySize \in Nat \ {0}
  BY RingShows, ShellAssumption
<1>10. /\ recorded' \in Seq(Lines) /\ Len(recorded') = Len(recorded) + 1
       /\ recorded'[Len(recorded) + 1] = entry
       /\ \A k \in 1 .. Len(recorded) : recorded'[k] = recorded[k]
  BY <1>1, <1>7, <1>8, AppendProperties
<1>12. history_count' = LesserOf(Len(recorded'), HistorySize)
  BY <1>1, <1>8, <1>9, <1>10 DEF LesserOf
<1>13. /\ history_entries' \in [Places -> Seq(Tokens)] /\ history_entries'[history_head] = entry
       /\ \A p \in Places : p # history_head => history_entries'[p] = history_entries[p]
  BY <1>1, <1>4, <1>8
<1>14. ASSUME NEW i \in 1 .. history_count'
       PROVE  history_entries'[Back(history_head', i)] = recorded'[Len(recorded') - i + 1]
  <2>1. /\ history_count' \in Nat /\ history_count' <= HistorySize
        /\ history_count' <= history_count + 1 /\ i \in 1 .. HistorySize
    BY <1>1, <1>9 DEF LesserOf
  <2>2. CASE i = 1
    <3>1. Back(history_head', 1) = history_head /\ Len(recorded') - 1 + 1 = Len(recorded) + 1
      BY <1>1, <1>8, <1>9, <1>10, SlotsBack
    <3>. QED  BY <1>10, <1>13, <2>2, <3>1
  <2>3. CASE i # 1
    <3>1. i \in 2 .. HistorySize /\ i - 1 \in 1 .. history_count /\ i - 1 \in 1 .. HistorySize
      BY <1>9, <2>1, <2>3
    <3>2. /\ Back(history_head', i) = Back(history_head, i - 1) /\ Back(history_head, i - 1) # history_head
          /\ Back(history_head, i - 1) \in Places
      BY <1>1, <1>8, <3>1, SlotsBack
    <3>3. history_entries'[Back(history_head', i)] = recorded[Len(recorded) - (i - 1) + 1]
      BY <1>8, <1>13, <3>1, <3>2
    <3>4. /\ Len(recorded) - (i - 1) + 1 \in 1 .. Len(recorded)
          /\ Len(recorded') - i + 1 = Len(recorded) - (i - 1) + 1
      BY <1>8, <1>9, <1>10, <3>1 DEF LesserOf
    <3>. QED  BY <1>10, <3>3, <3>4
  <2>. QED  BY <2>2, <2>3
<1>15. history_head' \in Places
  BY <1>1, <1>8, SlotsBack
<1>. QED  BY <1>10, <1>12, <1>13, <1>14, <1>15 DEF RingOf

\* Recording a line, or not, keeps the ring.
LEMMA RecordStep ==
    ASSUME RingOf(history_entries, history_head, history_count, recorded),
           current \in Lines, Record
    PROVE  RingOf(history_entries', history_head', history_count', recorded')
<1>1. CASE HistoryPush(current)
  BY <1>1, PushStep
<1>2. CASE UNCHANGED historyRing
  BY <1>2 DEF historyRing
<1>. QED  BY <1>1, <1>2 DEF Record

\* What is left of a line begins with its first word and ends with its last.
LEMMA TrimIs ==
    ASSUME NEW line \in Seq(Tokens)
    PROVE  /\ Filled(line) = {} => Trim(line) = <<>>
           /\ Filled(line) # {} =>
                /\ {Min(Filled(line)), Max(Filled(line))} \subseteq Filled(line)
                /\ \A i \in Filled(line) : Min(Filled(line)) <= i /\ i <= Max(Filled(line))
                /\ Trim(line) \in Lines
                /\ Len(Trim(line)) = Max(Filled(line)) - Min(Filled(line)) + 1
                /\ Trim(line)[1] = line[Min(Filled(line))]
                /\ Trim(line)[Len(Trim(line))] # Blanks
<1>. SUFFICES ASSUME Filled(line) # {}
     PROVE  /\ {Min(Filled(line)), Max(Filled(line))} \subseteq Filled(line)
            /\ \A i \in Filled(line) : Min(Filled(line)) <= i /\ i <= Max(Filled(line))
            /\ Trim(line) \in Lines
            /\ Len(Trim(line)) = Max(Filled(line)) - Min(Filled(line)) + 1
            /\ Trim(line)[1] = line[Min(Filled(line))]
            /\ Trim(line)[Len(Trim(line))] # Blanks
  BY DEF Trim
<1>1. Len(line) \in Nat /\ DOMAIN line = 1 .. Len(line)
  BY LenProperties
<1>2. Filled(line) \in SUBSET (0 .. Len(line)) /\ Filled(line) \in SUBSET Nat
  BY <1>1 DEF Filled
<1>3. PICK f, l : f = Min(Filled(line)) /\ l = Max(Filled(line))
  OBVIOUS
<1>4. f \in Filled(line) /\ l \in Filled(line) /\ \A i \in Filled(line) : f <= i /\ i <= l
  BY <1>1, <1>2, <1>3, MinIs, MaxIs
<1>5. f \in 1 .. Len(line) /\ l \in 1 .. Len(line) /\ f <= l /\ line[l] # Blanks
  BY <1>1, <1>2, <1>4 DEF Filled
<1>6. Trim(line) = SubSeq(line, f, l)
  BY <1>3 DEF Trim
<1>7. \A i \in f .. l : i \in 1 .. Len(line)
  BY <1>1, <1>5
<1>8. /\ SubSeq(line, f, l) \in Seq(Tokens) /\ Len(SubSeq(line, f, l)) = l - f + 1
      /\ \A i \in 1 .. l - f + 1 : SubSeq(line, f, l)[i] = line[f + i - 1]
  BY <1>1, <1>5, <1>7, SubSeqProperties
<1>9. l - f + 1 \in Nat \ {0} /\ f + 1 - 1 = f /\ f + (l - f + 1) - 1 = l
  BY <1>1, <1>5
<1>10. 1 \in 1 .. l - f + 1 /\ l - f + 1 \in 1 .. l - f + 1
  BY <1>9
<1>11. SubSeq(line, f, l)[1] = line[f] /\ SubSeq(line, f, l)[l - f + 1] = line[l]
  BY <1>8, <1>9, <1>10
<1>12. SubSeq(line, f, l) # <<>>
  BY <1>8, <1>9, EmptySeq
<1>. QED  BY <1>3, <1>4, <1>5, <1>6, <1>8, <1>11, <1>12 DEF Lines

\* Arguments, trimmed themselves, do not change where an expansion begins, and
\* make no "!!" of one that is none.
LEMMA TrimJoined ==
    ASSUME NEW a \in Seq(Tokens), Filled(a) # {},
           NEW t \in Seq(Tokens), t = <<>> \/ t[Len(t)] # Blanks
    PROVE  /\ Filled(a \o t) # {} /\ Head(Trim(a \o t)) = Head(Trim(a))
           /\ Trim(a \o t) = Bang => Trim(a) = Bang
<1>1. Len(a) \in Nat /\ DOMAIN a = 1 .. Len(a) /\ Len(t) \in Nat
  BY LenProperties
<1>2. PICK w : w = a \o t
  OBVIOUS
<1>3. /\ w \in Seq(Tokens) /\ Len(w) = Len(a) + Len(t)
      /\ \A i \in 1 .. Len(a) + Len(t) : w[i] = IF i <= Len(a) THEN a[i] ELSE t[i - Len(a)]
  BY <1>2, ConcatProperties
<1>4. DOMAIN w = 1 .. Len(a) + Len(t)
  BY <1>3, LenProperties
<1>5. \A i \in 1 .. Len(a) : i \in 1 .. Len(a) + Len(t) /\ i <= Len(a)
  BY <1>1
<1>6. \A i \in 1 .. Len(a) : w[i] = a[i]
  BY <1>3, <1>5
<1>7. \A i \in Filled(a) : i \in Filled(w) /\ w[i] = a[i]
  BY <1>1, <1>4, <1>5, <1>6 DEF Filled
<1>8. \A i \in Filled(w) : i \in 1 .. Len(a) + Len(t) /\ (i \in Filled(a) \/ i > Len(a))
  BY <1>1, <1>4, <1>6 DEF Filled
<1>9. Filled(w) # {}
  BY <1>7
<1>10. PICK f, g, l :
         /\ f = Min(Filled(a)) /\ g = Min(Filled(w)) /\ l = Max(Filled(w))
         /\ f \in Filled(a) /\ \A i \in Filled(a) : f <= i
         /\ g \in Filled(w) /\ \A i \in Filled(w) : g <= i /\ i <= l
         /\ Trim(a) \in Lines /\ Trim(a)[1] = a[f]
         /\ Trim(w) \in Lines /\ Trim(w)[1] = w[g] /\ Len(Trim(w)) = l - g + 1
         /\ l \in Filled(w)
  BY <1>3, <1>9, TrimIs
<1>11. f \in 1 .. Len(a) /\ g <= f
  BY <1>1, <1>7, <1>10 DEF Filled
<1>12. g \in 1 .. Len(a) + Len(t) /\ l \in 1 .. Len(a) + Len(t)
  BY <1>8, <1>10
<1>13. g = f
  <2>1. g \in Filled(a) \/ g > Len(a)
    BY <1>8, <1>10
  <2>2. g \in Filled(a) => f <= g
    BY <1>10
  <2>3. f \in Nat /\ g \in Nat /\ f <= Len(a) /\ g <= f
    BY <1>1, <1>11, <1>12
  <2>. QED  BY <1>1, <2>1, <2>2, <2>3
<1>14. Head(Trim(w)) = Head(Trim(a))
  BY <1>7, <1>10, <1>13
<1>15. ASSUME Trim(w) = Bang PROVE Trim(a) = Bang
  <2>1. l = g
    <3>1. Len(Trim(w)) = 1
      BY <1>15 DEF Bang
    <3>2. l - g + 1 = 1
      BY <1>10, <3>1
    <3>3. g \in Nat /\ l \in Nat
      BY <1>1, <1>12
    <3>. QED  BY <3>2, <3>3
  <2>2. t = <<>>
    <3>. SUFFICES ASSUME t # <<>> PROVE FALSE
      OBVIOUS
    <3>1. Len(t) \in Nat \ {0} /\ t[Len(t)] # Blanks
      BY <1>1, EmptySeq
    <3>2. /\ Len(a) + Len(t) \in 1 .. Len(a) + Len(t)
          /\ ~(Len(a) + Len(t) <= Len(a)) /\ Len(a) + Len(t) - Len(a) = Len(t)
      BY <1>1, <3>1
    <3>3. w[Len(a) + Len(t)] = t[Len(t)]
      BY <1>3, <3>2
    <3>4. Len(a) + Len(t) \in Filled(w)
      BY <1>4, <3>1, <3>2, <3>3 DEF Filled
    <3>. QED  BY <1>1, <1>10, <1>11, <1>13, <2>1, <3>1, <3>4
  <2>3. Len(t) = 0 /\ Len(w) = Len(a)
    BY <1>1, <1>3, <2>2
  <2>4. a = [i \in 1 .. Len(a) |-> a[i]] /\ w = [i \in 1 .. Len(w) |-> w[i]]
    BY <1>3, LenProperties
  <2>5. w = a
    BY <1>6, <2>3, <2>4
  <2>. QED  BY <1>15, <2>5
<1>. QED  BY <1>2, <1>9, <1>14, <1>15

\* What is executed again is no empty line.
LEMMA AgainStep ==
    ASSUME NEW line \in Seq(Tokens), Again(line)
    PROVE  status' = "executing" => current' \in Lines
<1>1. Trim(line) # <<>> => Trim(line) \in Lines
  BY TrimIs
<1>. QED  BY <1>1 DEF Again, Finished

\* The arguments of a line.
LEMMA ArgsAre ==
    ASSUME NEW line \in Lines
    PROVE  /\ Args(line) \in Seq(Tokens)
           /\ Args(line) = <<>> \/ Args(line)[Len(Args(line))] # Blanks
<1>1. Tail(line) \in Seq(Tokens)
  BY HeadTailProperties DEF Lines
<1>2. <<>> \in Seq(Tokens)
  BY EmptySeq
<1>. QED  BY <1>1, <1>2, TrimIs DEF Args, Lines

\* The lines that can be typed.
LEMMA TypableLines == \A line \in Typable : line \in Lines /\ line[1] # Blanks
<1>1. Names \subseteq Tokens \ {Blanks} /\ Targets \subseteq Seq(Tokens)
  <2>1. \A t \in Seq(STRING) : t \in Seq(Tokens)
    BY DEF Tokens
  <2>. QED  BY <2>1, ShellAssumption DEF Tokens, Blanks
<1>2. /\ {"alias", "unalias", "arg", "!!"} \cup HistoryWords \subseteq Tokens \ {Blanks}
      /\ Blanks \in Tokens
  BY DEF Tokens, HistoryWords, Blanks
<1>3. ASSUME NEW w \in Tokens \ {Blanks}
      PROVE  \A line \in {<<w>>, <<w, "arg">>, <<w, Blanks, "arg">>} :
                line \in Lines /\ line[1] # Blanks
  <2>1. "arg" \in Tokens /\ Blanks \in Tokens
    BY <1>2
  <2>2. <<w>> \in Lines /\ <<w>>[1] # Blanks
    BY <1>3 DEF Lines
  <2>3. <<w, "arg">> \in Lines /\ <<w, "arg">>[1] # Blanks
    BY <1>3, <2>1 DEF Lines
  <2>4. <<w, Blanks, "arg">> \in Lines /\ <<w, Blanks, "arg">>[1] # Blanks
    BY <1>3, <2>1 DEF Lines
  <2>. QED  BY <2>2, <2>3, <2>4
<1>4. ASSUME NEW n \in Names, NEW t \in Targets
      PROVE  <<"alias", n>> \o t \in Lines /\ (<<"alias", n>> \o t)[1] # Blanks
  <2>1. PICK a, w : a = <<"alias", n>> /\ w = a \o t
    OBVIOUS
  <2>2. a \in Seq(Tokens) /\ t \in Seq(Tokens) /\ Len(a) = 2 /\ a[1] = "alias"
    BY <1>1, <1>2, <2>1
  <2>3. Len(t) \in Nat
    BY <2>2, LenProperties
  <2>4. /\ w \in Seq(Tokens) /\ Len(w) = Len(a) + Len(t)
        /\ \A i \in 1 .. Len(a) + Len(t) : w[i] = IF i <= Len(a) THEN a[i] ELSE t[i - Len(a)]
    BY <2>1, <2>2, ConcatProperties
  <2>5. 1 \in 1 .. Len(a) + Len(t) /\ 1 <= Len(a) /\ Len(a) + Len(t) # 0
    BY <2>2, <2>3
  <2>6. w[1] = "alias" /\ w # <<>>
    BY <2>2, <2>4, <2>5
  <2>. QED  BY <1>2, <2>1, <2>4, <2>6 DEF Lines
<1>5. ASSUME NEW n \in Names
      PROVE  <<"unalias", n>> \in Lines /\ <<"unalias", n>>[1] # Blanks
  BY <1>1, <1>2 DEF Lines
<1>6. SUFFICES ASSUME NEW line \in Typable PROVE line \in Lines /\ line[1] # Blanks
  OBVIOUS
<1>. DEFINE A == {<<w>> : w \in Names \cup HistoryWords \cup {"!!"}}
            B == {<<w, "arg">> : w \in Names}
            C == UNION {{<<"alias", n>> \o target : target \in Targets} : n \in Names}
            D == {<<"unalias", n>> : n \in Names}
            E == {<<w, Blanks, "arg">> : w \in Names \cup {"!!"}}
<1>7. CASE line \in A \cup B \cup E
  <2>1. PICK w \in Names \cup HistoryWords \cup {"!!"} :
          line \in {<<w>>, <<w, "arg">>, <<w, Blanks, "arg">>}
    BY <1>7
  <2>2. w \in Tokens \ {Blanks}
    BY <1>1, <1>2
  <2>. QED  BY <1>3, <2>1, <2>2
<1>8. CASE line \in C
  <2>1. PICK n \in Names, t \in Targets : line = <<"alias", n>> \o t
    BY <1>8
  <2>. QED  BY <1>4, <2>1
<1>9. CASE line \in D
  BY <1>5, <1>9
<1>10. Typable = A \cup B \cup C \cup D \cup E
  BY DEF Typable
<1>. HIDE DEF A, B, C, D, E
<1>. QED  BY <1>6, <1>7, <1>8, <1>9, <1>10

\* The history is empty at the start.
LEMMA ShellStarts == ShellInit => ShellInv
<1>. SUFFICES ASSUME ShellInit PROVE ShellInv
  OBVIOUS
<1>1. HistorySize \in Nat \ {0} /\ 0 \in Places
  BY ShellAssumption DEF Places
<1>2. /\ history_entries = [i \in Places |-> <<>>]
      /\ history_head = 0 /\ history_count = 0 /\ recorded = <<>>
      /\ DOMAIN aliases = {} /\ status = "prompt"
  BY DEF ShellInit, Places
<1>3. <<>> \in Seq(Tokens) /\ <<>> \in Seq(Lines) /\ Len(<<>>) = 0
  BY EmptySeq
<1>4. history_entries \in [Places -> Seq(Tokens)] /\ LesserOf(0, HistorySize) = 0
  BY <1>1, <1>2, <1>3 DEF LesserOf
<1>. QED  BY <1>1, <1>2, <1>3, <1>4 DEF ShellInv, RingOf

\* Every step keeps the invariant.
LEMMA ShellStep == ShellInv /\ [ShellNext]_shellVars => ShellInv'
<1>. SUFFICES ASSUME ShellInv, [ShellNext]_shellVars PROVE ShellInv'
  OBVIOUS
<1>1. /\ RingOf(history_entries, history_head, history_count, recorded)
      /\ \A n \in DOMAIN aliases : aliases[n] \in Lines /\ Filled(aliases[n]) # {}
      /\ status = "executing" => current \in Lines
  BY DEF ShellInv
<1>2. CASE TypeLine
  <2>1. PICK line \in Typable : current' = Trim(line)
    BY <1>2 DEF TypeLine
  <2>2. line \in Seq(Tokens) /\ line # <<>> /\ line[1] # Blanks
    BY TypableLines DEF Lines
  <2>3. 1 \in DOMAIN line
    BY <2>2, LenProperties, EmptySeq
  <2>4. Filled(line) # {}
    BY <2>2, <2>3 DEF Filled
  <2>5. current' \in Lines
    BY <2>1, <2>2, <2>4, TrimIs
  <2>. QED  BY <1>1, <1>2, <2>5 DEF TypeLine, historyRing, ShellInv
<1>3. CASE StackOverflow \/ Rest \/ UNCHANGED shellVars
  BY <1>1, <1>3 DEF StackOverflow, Rest, shellVars, historyRing, call, ShellInv
<1>4. CASE Repeat
  <2>1. CASE history_count = 0
    BY <1>1, <1>4, <2>1 DEF Repeat, Finished, historyRing, ShellInv
  <2>2. CASE history_count # 0
    <3>1. history_head \in Places /\ HistorySize \in Nat \ {0} /\ history_count \in Nat
      BY <1>1, ShellAssumption, RingShows DEF RingOf
    <3>2. LastEntry = history_entries[Back(history_head, 1)]
      BY <3>1 DEF LastEntry, Back, Places
    <3>3. 1 \in 1 .. history_count
      BY <2>2, <3>1
    <3>4. LastEntry \in Seq(Tokens)
      BY <1>1, <3>2, <3>3, RingShows DEF Lines
    <3>5. Again(LastEntry)
      BY <1>4, <2>2 DEF Repeat
    <3>6. status' = "executing" => current' \in Lines
      BY <3>4, <3>5, AgainStep
    <3>. QED  BY <1>1, <1>4, <3>6 DEF Repeat, historyRing, ShellInv
  <2>. QED  BY <2>1, <2>2
<1>5. CASE Expand
  <2>1. /\ current \in Lines /\ Record /\ aliases' = aliases
        /\ aliases[Head(current)] \in Seq(Tokens) /\ Again(Expansion(current))
    BY <1>1, <1>5 DEF Expand, Executing, Lines
  <2>2. Expansion(current) \in Seq(Tokens)
    BY <2>1, ArgsAre, ConcatProperties DEF Expansion
  <2>3. status' = "executing" => current' \in Lines
    BY <2>1, <2>2, AgainStep
  <2>. QED  BY <1>1, <2>1, <2>3, RecordStep DEF ShellInv
<1>6. CASE DefineAlias
  <2>1. current \in Lines /\ Record /\ status' # "executing"
    BY <1>1, <1>6 DEF DefineAlias, IsCommand, Executing, Finished
  <2>2. PICK args : args = Args(current)
    OBVIOUS
  <2>3. args \in Seq(Tokens) /\ (args = <<>> \/ args[Len(args)] # Blanks)
    BY <2>1, <2>2, ArgsAre
  <2>4. \A n \in DOMAIN aliases' : aliases'[n] \in Lines /\ Filled(aliases'[n]) # {}
    <3>1. CASE args = <<>>
      BY <1>1, <1>6, <2>2, <3>1 DEF DefineAlias
    <3>2. CASE args # <<>>
      <4>1. PICK t : t = Tail(args)
        OBVIOUS
      <4>2. /\ t \in Seq(Tokens) /\ Len(t) = Len(args) - 1 /\ Len(args) \in Nat \ {0}
            /\ \A i \in 1 .. Len(t) : t[i] = args[i + 1]
        BY <2>3, <3>2, <4>1, HeadTailProperties, LenProperties, EmptySeq
      <4>3. ASSUME t # <<>> PROVE t \in Lines /\ Filled(t) # {}
        <5>1. Len(t) \in Nat \ {0} /\ DOMAIN t = 1 .. Len(t)
          BY <4>2, <4>3, LenProperties, EmptySeq
        <5>2. Len(t) \in 1 .. Len(t) /\ Len(t) + 1 = Len(args)
          BY <4>2, <5>1
        <5>3. t[Len(t)] # Blanks
          BY <2>3, <3>2, <4>2, <5>2
        <5>. QED  BY <4>2, <4>3, <5>1, <5>2, <5>3 DEF Lines, Filled
      <4>4. aliases' = Defined(Head(args), t)
        BY <1>6, <2>2, <3>2, <4>1 DEF DefineAlias
      <4>. QED  BY <1>1, <4>3, <4>4 DEF Defined
    <3>. QED  BY <3>1, <3>2
  <2>. QED  BY <1>1, <2>1, <2>4, RecordStep DEF ShellInv
<1>7. CASE RemoveAlias
  <2>1. current \in Lines /\ Record /\ status' # "executing"
    BY <1>1, <1>7 DEF RemoveAlias, IsCommand, Executing, Finished
  <2>2. \A n \in DOMAIN aliases' : aliases'[n] \in Lines /\ Filled(aliases'[n]) # {}
    BY <1>1, <1>7 DEF RemoveAlias, Removed
  <2>. QED  BY <1>1, <2>1, <2>2, RecordStep DEF ShellInv
<1>8. CASE ListHistory
  <2>1. current \in Lines /\ Record /\ status' # "executing"
    BY <1>1, <1>8 DEF ListHistory, IsCommand, Executing, Finished
  <2>2. aliases' = aliases
    BY <1>8 DEF ListHistory
  <2>. QED  BY <1>1, <2>1, <2>2, RecordStep DEF ShellInv
<1>9. CASE OtherCommand
  <2>1. current \in Lines /\ Record /\ status' # "executing"
    BY <1>1, <1>9 DEF OtherCommand, IsCommand, Executing, Finished
  <2>2. aliases' = aliases
    BY <1>9 DEF OtherCommand
  <2>. QED  BY <1>1, <2>1, <2>2, RecordStep DEF ShellInv
<1>. QED  BY <1>2, <1>3, <1>4, <1>5, <1>6, <1>7, <1>8, <1>9 DEF ShellNext

\* HistoryIsTheLatest for a history of any size (CommandHistory of intent.rs).
THEOREM HistoryIsRight == ShellSpec => []HistoryIsTheLatest
<1>1. ASSUME ShellInv PROVE HistoryIsTheLatest
  <2>1. RingOf(history_entries, history_head, history_count, recorded)
    BY <1>1 DEF ShellInv
  <2>2. /\ history_head \in Places /\ HistorySize \in Nat \ {0} /\ history_count \in Nat
        /\ Len(recorded) \in Nat /\ history_count <= Len(recorded) /\ history_count <= HistorySize
        /\ recorded \in Seq(Lines)
        /\ history_count = LesserOf(Len(recorded), HistorySize)
        /\ \A i \in 1 .. history_count :
            history_entries[Back(history_head, i)] = recorded[Len(recorded) - i + 1]
    BY <2>1, ShellAssumption, RingShows DEF RingOf
  <2>4. history_count > 0 => LastEntry = Last(recorded)
    <3>1. LastEntry = history_entries[Back(history_head, 1)]
      BY <2>2 DEF LastEntry, Back, Places
    <3>2. history_count > 0 => 1 \in 1 .. history_count /\ Len(recorded) - 1 + 1 = Len(recorded)
      BY <2>2
    <3>. QED  BY <2>2, <3>1, <3>2 DEF Last
  <2>5. ASSUME NEW n \in 0 .. HistorySize + 1 PROVE IterRecent(n) = Latest(Shown(n))
    <3>1. PICK s : s = Shown(n)
      OBVIOUS
    <3>2. s \in Nat /\ s <= history_count
      BY <2>2, <3>1 DEF Shown, LesserOf
    <3>3. ASSUME NEW i \in 1 .. s
          PROVE  history_entries[SlotOf(n, i - 1)] = recorded[Len(recorded) - s + i]
      <4>1. SlotOf(n, i - 1) = Back(history_head, s - i + 1)
        BY <2>2, <3>1, <3>2 DEF SlotOf, Back, Places
      <4>2. s - i + 1 \in 1 .. history_count /\ Len(recorded) - (s - i + 1) + 1 = Len(recorded) - s + i
        BY <2>2, <3>2
      <4>. QED  BY <2>2, <4>1, <4>2
    <3>4. IterRecent(n) = [i \in 1 .. s |-> recorded[Len(recorded) - s + i]]
      BY <3>1, <3>3 DEF IterRecent
    <3>5. Latest(s) = [i \in 1 .. s |-> recorded[Len(recorded) - s + i]]
      <4>. DEFINE L == Len(recorded)
                  sub == SubSeq(recorded, L - s + 1, L)
      <4>1. \A i \in L - s + 1 .. L : i \in 1 .. L
        BY <2>2, <3>2
      <4>2. L \in Nat /\ L - s + 1 \in Int /\ L - s + 1 <= L + 1
        BY <2>2, <3>2
      <4>3. /\ sub \in Seq(Lines) /\ Len(sub) = L - (L - s + 1) + 1
            /\ \A i \in 1 .. Len(sub) : sub[i] = recorded[(L - s + 1) + i - 1]
        BY <2>2, <4>1, <4>2, SubSeqProperties
      <4>4. Len(sub) = s /\ DOMAIN sub = 1 .. s
        BY <2>2, <3>2, <4>3, LenProperties
      <4>5. \A i \in 1 .. s : (L - s + 1) + i - 1 = L - s + i
        BY <2>2, <3>2
      <4>6. sub = [i \in 1 .. s |-> recorded[L - s + i]]
        BY <4>3, <4>4, <4>5
      <4>. QED  BY <4>6 DEF Latest
    <3>. QED  BY <3>1, <3>4, <3>5
  <2>. QED  BY <2>2, <2>4, <2>5 DEF HistoryIsTheLatest
<1>. QED  BY <1>1, ShellStarts, ShellStep, PTL DEF ShellSpec

-----------------------------------------------------------------------------
(* How deep the shell's execute is nested. *)

\* The aliases that were expanded on the way to a line: one after the other, so
\* that each leads to another of them or to that line.
WayTo(line, V) ==
    /\ V \in SUBSET DOMAIN aliases
    /\ \A n \in V : Head(Trim(aliases[n])) \in V \cup {Head(line)}

AliasesFit == IsFiniteSet(DOMAIN aliases) /\ Cardinality(DOMAIN aliases) <= MaxAliases

\* Without a circle "!!" comes first or not at all, and each call but the first
\* two expands an alias of its own; or "!!" has got to itself.
BangIsFirst == current = Bang => depth = 1
AtItself == current = Bang /\ BangRepeatsItself
IsChain == \E V : WayTo(current, V) /\ depth <= Cardinality(V) + 2

ChainInv ==
    /\ AliasesFit /\ depth \in Nat
    /\ status = "stack overflow" => depth > StackDepth
    /\ Circle \/ AtItself \/ depth <= MaxAliases + 2
    /\ status = "executing" /\ ~Circle => AtItself \/ (BangIsFirst /\ IsChain)

\* A set of aliases is no bigger than their table.
LEMMA ChainIsShort ==
    ASSUME AliasesFit, NEW V, V \in SUBSET DOMAIN aliases
    PROVE  IsFiniteSet(V) /\ Cardinality(V) \in Nat /\ Cardinality(V) <= MaxAliases
<1>1. IsFiniteSet(DOMAIN aliases)
  BY DEF AliasesFit
<1>2. IsFiniteSet(V) /\ Cardinality(V) <= Cardinality(DOMAIN aliases)
  BY <1>1, FS_Subset
<1>3. Cardinality(V) \in Nat /\ Cardinality(DOMAIN aliases) \in Nat
  BY <1>1, <1>2, FS_CardinalityType
<1>4. Cardinality(DOMAIN aliases) <= MaxAliases /\ MaxAliases \in Nat
  BY ShellAssumption DEF AliasesFit
<1>. QED  BY <1>2, <1>3, <1>4

\* A command ends the chain, and the table keeps its limit.
LEMMA TableFits ==
    ASSUME AliasesFit, NEW name, NEW expansion
    PROVE  /\ aliases' = Defined(name, expansion) => AliasesFit'
           /\ aliases' = Removed(name) => AliasesFit'
<1>1. IsFiniteSet(DOMAIN aliases) /\ Cardinality(DOMAIN aliases) <= MaxAliases
  BY DEF AliasesFit
<1>2. Cardinality(DOMAIN aliases) \in Nat /\ MaxAliases \in Nat
  BY <1>1, FS_CardinalityType, ShellAssumption
<1>3. ASSUME aliases' = Defined(name, expansion) PROVE AliasesFit'
  <2>1. CASE aliases' = aliases
    BY <1>1, <2>1 DEF AliasesFit
  <2>2. CASE aliases' # aliases
    <3>1. /\ name \in DOMAIN aliases \/ Cardinality(DOMAIN aliases) < MaxAliases
          /\ DOMAIN aliases' = DOMAIN aliases \cup {name}
      BY <1>3, <2>2 DEF Defined
    <3>2. /\ IsFiniteSet(DOMAIN aliases \cup {name})
          /\ Cardinality(DOMAIN aliases \cup {name}) =
               IF name \in DOMAIN aliases THEN Cardinality(DOMAIN aliases)
               ELSE Cardinality(DOMAIN aliases) + 1
      BY <1>1, FS_AddElement
    <3>3. Cardinality(DOMAIN aliases \cup {name}) <= MaxAliases
      BY <1>1, <1>2, <3>1, <3>2
    <3>. QED  BY <3>1, <3>2, <3>3 DEF AliasesFit
  <2>. QED  BY <2>1, <2>2
<1>4. ASSUME aliases' = Removed(name) PROVE AliasesFit'
  <2>1. DOMAIN aliases' = DOMAIN aliases \ {name}
    BY <1>4 DEF Removed
  <2>2. /\ IsFiniteSet(DOMAIN aliases')
        /\ Cardinality(DOMAIN aliases') <= MaxAliases
    BY <2>1, ChainIsShort
  <2>. QED  BY <2>2 DEF AliasesFit
<1>. QED  BY <1>3, <1>4

\* A line that is typed expands no alias yet.
LEMMA TypeStep == ChainInv /\ TypeLine => ChainInv'
<1>. SUFFICES ASSUME ChainInv, TypeLine PROVE ChainInv'
  OBVIOUS
<1>1. /\ aliases' = aliases /\ status' = "executing" /\ depth' = 1
  BY DEF TypeLine
<1>2. AliasesFit' /\ MaxAliases \in Nat
  BY <1>1, ShellAssumption DEF ChainInv, AliasesFit
<1>3. BangIsFirst' /\ IsChain'
  <2>1. WayTo(current, {})' /\ 1 <= Cardinality({}) + 2
    BY FS_EmptySet DEF WayTo
  <2>. QED  BY <1>1, <2>1 DEF BangIsFirst, IsChain
<1>4. depth' \in Nat /\ depth' <= MaxAliases + 2
  BY <1>1, <1>2
<1>. QED  BY <1>1, <1>2, <1>3, <1>4 DEF ChainInv

\* "!!" gets a line that is no "!!", and that by the first call only, or it gets
\* itself.
LEMMA RepeatStep == ChainInv /\ Repeat => ChainInv'
<1>. SUFFICES ASSUME ChainInv, Repeat PROVE ChainInv'
  OBVIOUS
<1>1. /\ aliases' = aliases /\ status = "executing" /\ current = Bang /\ depth \in Nat
      /\ historyRing' = historyRing /\ IF history_count = 0 THEN Finished ELSE Again(LastEntry)
  BY DEF Repeat, Executing, ChainInv
<1>2. /\ AliasesFit' /\ MaxAliases \in Nat /\ (Circle <=> Circle')
      /\ (BangRepeatsItself <=> BangRepeatsItself')
  BY <1>1, ShellAssumption DEF ChainInv, AliasesFit, Circle, BangRepeatsItself, LastEntry, historyRing
<1>3. CASE Finished
  <2>1. depth' = 0 /\ status' = "prompt"
    BY <1>3 DEF Finished
  <2>2. depth' \in Nat /\ depth' <= MaxAliases + 2
    BY <1>2, <2>1
  <2>. QED  BY <1>2, <2>1, <2>2 DEF ChainInv
<1>4. CASE ~Finished
  <2>1. /\ current' = Trim(LastEntry) /\ depth' = depth + 1 /\ status' = status
        /\ history_count # 0
    BY <1>1, <1>4 DEF Again
  <2>2. CASE Circle
    BY <1>1, <1>2, <2>1, <2>2 DEF ChainInv
  <2>3. CASE BangRepeatsItself
    <3>1. AtItself'
      BY <1>2, <2>1, <2>3 DEF AtItself, BangRepeatsItself
    <3>. QED  BY <1>1, <1>2, <2>1, <3>1 DEF ChainInv
  <2>4. CASE ~Circle /\ ~BangRepeatsItself
    <3>1. depth = 1
      BY <1>1, <2>4 DEF ChainInv, BangIsFirst, AtItself
    <3>2. WayTo(current, {})' /\ 2 <= Cardinality({}) + 2
      BY FS_EmptySet DEF WayTo
    <3>3. depth' = 2 /\ depth' <= MaxAliases + 2
      BY <1>2, <2>1, <3>1
    <3>4. current' # Bang
      BY <2>1, <2>4 DEF BangRepeatsItself
    <3>5. BangIsFirst' /\ IsChain'
      BY <2>1, <2>4, <3>2, <3>3, <3>4 DEF BangIsFirst, IsChain
    <3>. QED  BY <1>1, <1>2, <2>1, <3>3, <3>5 DEF ChainInv
  <2>. QED  BY <2>2, <2>3, <2>4
<1>. QED  BY <1>3, <1>4

\* An alias that was not expanded yet, or there is a circle.
LEMMA ExpandStep == ChainInv /\ ShellInv /\ Expand => ChainInv'
<1>. SUFFICES ASSUME ChainInv, ShellInv, Expand PROVE ChainInv'
  OBVIOUS
<1>1. /\ aliases' = aliases /\ status = "executing" /\ depth \in Nat
      /\ current # Bang /\ Head(current) \in DOMAIN aliases
      /\ Again(Expansion(current))
  BY DEF Expand, Executing, ChainInv
<1>2. AliasesFit' /\ AliasesFit /\ MaxAliases \in Nat /\ (Circle <=> Circle')
  BY <1>1, ShellAssumption DEF ChainInv, AliasesFit, Circle
<1>3. CASE Finished
  <2>1. depth' = 0 /\ status' = "prompt"
    BY <1>3 DEF Finished
  <2>2. depth' \in Nat /\ depth' <= MaxAliases + 2
    BY <1>2, <2>1
  <2>. QED  BY <1>2, <2>1, <2>2 DEF ChainInv
<1>4. ASSUME ~Finished
      PROVE  current' = Trim(Expansion(current)) /\ depth' = depth + 1 /\ status' = status
  BY <1>1, <1>4 DEF Again
<1>5. CASE ~Finished /\ Circle
  BY <1>1, <1>2, <1>4, <1>5 DEF ChainInv
<1>6. CASE ~Finished /\ ~Circle
  <2>0. current' = Trim(Expansion(current)) /\ depth' = depth + 1 /\ status' = status
    BY <1>4, <1>6
  <2>1. PICK V : WayTo(current, V) /\ depth <= Cardinality(V) + 2
    BY <1>1, <1>6 DEF ChainInv, IsChain, AtItself
  <2>2. PICK n : n = Head(current)
    OBVIOUS
  <2>3. PICK W : W = V \cup {n}
    OBVIOUS
  <2>4. n \notin V
    <3>. SUFFICES ASSUME n \in V PROVE Circle
      BY <1>6
    <3>1. /\ V \in (SUBSET DOMAIN aliases) \ {{}}
          /\ \A m \in V : Head(Trim(aliases[m])) \in V
      BY <2>1, <2>2 DEF WayTo
    <3>. QED  BY <3>1 DEF Circle
  <2>5. /\ IsFiniteSet(V) /\ Cardinality(V) \in Nat
        /\ W \in SUBSET DOMAIN aliases
    BY <1>1, <1>2, <2>1, <2>2, <2>3, ChainIsShort DEF WayTo
  <2>6. Cardinality(W) = Cardinality(V) + 1
    BY <2>3, <2>4, <2>5, FS_AddElement
  <2>7. Cardinality(W) <= MaxAliases
    BY <1>2, <2>5, ChainIsShort
  <2>8. PICK a, t : a = aliases[n] /\ t = Args(current)
    OBVIOUS
  <2>9. /\ a \in Seq(Tokens) /\ Filled(a) # {}
        /\ t \in Seq(Tokens) /\ (t = <<>> \/ t[Len(t)] # Blanks)
    <3>1. aliases[n] \in Lines /\ Filled(aliases[n]) # {} /\ current \in Lines
      BY <1>1, <2>2 DEF ShellInv
    <3>. QED  BY <2>8, <3>1, ArgsAre DEF Lines
  <2>10. current' = Trim(a \o t)
    BY <2>0, <2>2, <2>8 DEF Expansion
  <2>11. Head(current') = Head(Trim(a)) /\ (current' = Bang => Trim(a) = Bang)
    BY <2>9, <2>10, TrimJoined
  <2>12. WayTo(current, W)'
    <3>1. \A m \in W : Head(Trim(aliases[m])) \in W \cup {Head(current')}
      BY <2>1, <2>2, <2>3, <2>8, <2>11 DEF WayTo
    <3>. QED  BY <1>1, <2>5, <3>1 DEF WayTo
  <2>13. current' # Bang
    <3>. SUFFICES ASSUME current' = Bang PROVE Circle
      BY <1>6
    <3>1. {n} \in (SUBSET DOMAIN aliases) \ {{}} /\ \A m \in {n} : Trim(aliases[m]) = Bang
      BY <1>1, <2>2, <2>8, <2>11
    <3>. QED  BY <3>1 DEF Circle
  <2>14. depth' <= Cardinality(W) + 2 /\ depth' <= MaxAliases + 2
    BY <1>1, <1>2, <2>0, <2>1, <2>5, <2>6, <2>7
  <2>15. BangIsFirst' /\ IsChain'
    BY <2>12, <2>13, <2>14 DEF BangIsFirst, IsChain
  <2>. QED  BY <1>1, <1>2, <2>0, <2>14, <2>15 DEF ChainInv
<1>. QED  BY <1>3, <1>5, <1>6

\* Every step keeps the chains short.
LEMMA ChainStep == ChainInv /\ ShellInv /\ [ShellNext]_shellVars => ChainInv'
<1>. SUFFICES ASSUME ChainInv, ShellInv, [ShellNext]_shellVars PROVE ChainInv'
  OBVIOUS
<1>1. CASE StackOverflow \/ Rest \/ UNCHANGED shellVars \/ ListHistory \/ OtherCommand
  <2>1. aliases' = aliases
    BY <1>1 DEF StackOverflow, Rest, shellVars, call, ListHistory, OtherCommand
  <2>2. AliasesFit' /\ (Circle <=> Circle')
    BY <2>1 DEF ChainInv, AliasesFit, Circle
  <2>3. CASE StackOverflow
    <3>1. /\ status' = "stack overflow" /\ depth' = depth /\ depth > StackDepth
          /\ current' = current /\ historyRing' = historyRing
      BY <2>3 DEF StackOverflow
    <3>2. AtItself <=> AtItself'
      BY <3>1 DEF AtItself, BangRepeatsItself, LastEntry, historyRing
    <3>. QED  BY <2>2, <3>1, <3>2 DEF ChainInv
  <2>4. CASE Rest \/ UNCHANGED shellVars
    <3>1. /\ status' = status /\ depth' = depth /\ current' = current
          /\ historyRing' = historyRing
      BY <2>4 DEF Rest, shellVars, call
    <3>2. (BangIsFirst <=> BangIsFirst') /\ (IsChain <=> IsChain')
      BY <2>1, <3>1 DEF BangIsFirst, IsChain, WayTo
    <3>3. AtItself <=> AtItself'
      BY <3>1 DEF AtItself, BangRepeatsItself, LastEntry, historyRing
    <3>. QED  BY <2>2, <3>1, <3>2, <3>3 DEF ChainInv
  <2>5. CASE ListHistory \/ OtherCommand
    <3>1. \/ status' = "prompt" /\ depth' = 0
          \/ status' = "panic" /\ depth' = depth /\ ~AtItself
      BY <2>5 DEF ListHistory, OtherCommand, Finished, IsCommand, AtItself
    <3>2. MaxAliases \in Nat /\ 0 \in Nat /\ 0 <= MaxAliases + 2
      BY ShellAssumption
    <3>. QED  BY <2>2, <3>1, <3>2 DEF ChainInv
  <2>. QED  BY <1>1, <2>3, <2>4, <2>5
<1>2. CASE DefineAlias \/ RemoveAlias
  <2>1. status' = "prompt" /\ depth' = 0
    BY <1>2 DEF DefineAlias, RemoveAlias, Finished
  <2>2. AliasesFit' /\ MaxAliases \in Nat
    <3>1. PICK args : args = Args(current)
      OBVIOUS
    <3>2. \/ aliases' = aliases
          \/ aliases' = Defined(Head(args), Tail(args))
          \/ aliases' = Removed(args[1])
      BY <1>2, <3>1 DEF DefineAlias, RemoveAlias
    <3>3. AliasesFit /\ (aliases' = aliases => AliasesFit')
      BY DEF ChainInv, AliasesFit
    <3>. QED  BY <3>2, <3>3, TableFits, ShellAssumption
  <2>3. depth' \in Nat /\ depth' <= MaxAliases + 2
    BY <2>1, <2>2
  <2>. QED  BY <2>1, <2>2, <2>3 DEF ChainInv
<1>. QED  BY <1>1, <1>2, TypeStep, RepeatStep, ExpandStep DEF ShellNext

\* The chains of calls, together with the history that "!!" repeats from.
LEMMA ChainsStayShort == ShellSpec => [](ShellInv /\ ChainInv)
<1>1. ShellInit => ChainInv
  <2>. SUFFICES ASSUME ShellInit PROVE ChainInv
    OBVIOUS
  <2>1. DOMAIN aliases = {} /\ depth = 0 /\ status = "prompt" /\ MaxAliases \in Nat
    BY ShellAssumption DEF ShellInit
  <2>2. AliasesFit
    BY <2>1, FS_EmptySet DEF AliasesFit
  <2>. QED  BY <2>1, <2>2 DEF ChainInv
<1>. QED  BY <1>1, ShellStarts, ShellStep, ChainStep, PTL DEF ShellSpec

\* However the aliases are chained, and also when a line of them is repeated with
\* "!!", execute is nested no deeper than MAX_ALIASES + 2 unless the aliases run
\* in a circle or "!!" repeats itself (intent.rs execute, alias.rs).
THEOREM NestingIsBounded ==
    ShellSpec => [](Circle \/ BangRepeatsItself \/ depth <= MaxAliases + 2)
<1>1. ChainInv => Circle \/ BangRepeatsItself \/ depth <= MaxAliases + 2
  BY DEF ChainInv, AtItself
<1>. QED  BY <1>1, ChainsStayShort, PTL

\* So a stack that holds that many calls of execute overflows in one of these two
\* ways only.
THEOREM OnlyCirclesRunAway ==
    ASSUME StackDepth >= MaxAliases + 2
    PROVE  ShellSpec => []RunawayNeedsALoop
<1>1. ChainInv /\ depth > StackDepth => Circle \/ BangRepeatsItself
  <2>. SUFFICES ASSUME ChainInv, depth > StackDepth PROVE Circle \/ BangRepeatsItself
    OBVIOUS
  <2>1. depth \in Nat /\ StackDepth \in Nat /\ MaxAliases \in Nat
    BY ShellAssumption DEF ChainInv
  <2>2. ~(depth <= MaxAliases + 2)
    BY <2>1
  <2>. QED  BY <2>2 DEF ChainInv, AtItself
<1>2. ChainInv => RunawayNeedsALoop
  BY <1>1 DEF RunawayNeedsALoop, ChainInv
<1>. QED  BY <1>2, ChainsStayShort, PTL

-----------------------------------------------------------------------------
(* The locks. *)

LockNames ==
    {"SERIAL", "KLOG", "CAP_TABLE", "AGENT_TABLE", "AUDIT_LOG", "CHANNELS", "FS",
     "ENV", "ALIASES", "HISTORY", "CHAT", "KEY_BUFFER", "FRAME_ALLOC"}

CallNames ==
    {"execute", "execute_agent", "agent", "cap_grant", "resource_read",
     "resource_write", "loop"}

Instructions ==
    ({"lock", "unlock"} \X LockNames) \cup ({"call"} \X CallNames)
      \cup {<<"iret", "thread">>}

\* What may be locked when f is called: interactive_loop calls execute from
\* inside the chat, and nothing else under a lock.
Under(f) == IF f \in {"execute", "execute_agent", "agent"} THEN {"CHAT"} ELSE {}

\* The instruction i can be executed when H is locked, and leaves LockedAfter(i, H).
Fits(i, H) ==
    /\ i[1] = "lock" => i[2] \notin H
    /\ i[1] = "call" => H \subseteq Under(i[2])
LockedAfter(i, H) ==
    CASE i[1] = "lock" -> H \cup {i[2]}
      [] i[1] = "unlock" -> H \ {i[2]}
      [] OTHER -> H

\* h says what is locked after each instruction of the path p.
Walk(p, h) ==
    \A i \in 1 .. Len(p) :
        Fits(p[i], h[i - 1]) /\ h[i] = LockedAfter(p[i], h[i - 1])

\* The path p, with the handlers of its calls left out, leads from H to K.
Leads(p, H, K) ==
    /\ p \in Seq(Instructions)
    /\ \E h : h[0] = H /\ h[Len(p)] = K /\ Walk(p, h)

\* The paths that give back what they take.
Neutral(H) == {p \in Seq(Instructions) : Leads(p, H, H)}

\* The thread, or a key in it, has a path ahead that never takes a lock twice,
\* but for a key that found the key ring locked.
CanGoOn == \E K : Leads(ahead, locked, K)
KeyIsStuck ==
    ahead # <<>> /\ Head(ahead) = <<"lock", "KEY_BUFFER">> /\ "KEY_BUFFER" \in locked
LocksInv ==
    /\ handler = "thread" => CanGoOn
    /\ handler = "keyboard" => CanGoOn \/ KeyIsStuck
    /\ handler = "fault" => ahead \in Seq({<<"lock", "SERIAL">>, <<"unlock", "SERIAL">>})
    /\ handler \in {"thread", "keyboard", "fault"}

\* A path after another.
LEMMA LeadsOn ==
    ASSUME NEW p, NEW q, NEW H, NEW K, NEW M, Leads(p, H, K), Leads(q, K, M)
    PROVE  Leads(p \o q, H, M)
<1>1. PICK g : g[0] = H /\ g[Len(p)] = K /\ Walk(p, g)
  BY DEF Leads
<1>2. PICK h : h[0] = K /\ h[Len(q)] = M /\ Walk(q, h)
  BY DEF Leads
<1>3. /\ p \in Seq(Instructions) /\ q \in Seq(Instructions)
      /\ p \o q \in Seq(Instructions) /\ Len(p \o q) = Len(p) + Len(q)
      /\ \A i \in 1 .. Len(p) + Len(q) :
           (p \o q)[i] = IF i <= Len(p) THEN p[i] ELSE q[i - Len(p)]
  BY ConcatProperties DEF Leads
<1>4. PICK m, n : m = Len(p) /\ n = Len(q) /\ m \in Nat /\ n \in Nat
  BY <1>3, LenProperties
<1>5. PICK r : r = p \o q
  OBVIOUS
<1>6. PICK f : f = [i \in 0 .. m + n |-> IF i <= m THEN g[i] ELSE h[i - m]]
  OBVIOUS
<1>7. f[0] = H
  BY <1>1, <1>4, <1>6
<1>8. f[m + n] = M
  <2>1. CASE n = 0
    BY <1>1, <1>2, <1>4, <1>6, <2>1
  <2>2. CASE n > 0
    <3>1. m + n \in 0 .. m + n /\ ~(m + n <= m) /\ (m + n) - m = n
      BY <1>4, <2>2
    <3>. QED  BY <1>2, <1>4, <1>6, <3>1
  <2>. QED  BY <1>4, <2>1, <2>2
<1>9. Walk(r, f)
  <2>. SUFFICES ASSUME NEW i \in 1 .. m + n
                PROVE  Fits(r[i], f[i - 1]) /\ f[i] = LockedAfter(r[i], f[i - 1])
    BY <1>3, <1>4, <1>5 DEF Walk
  <2>1. CASE i <= m
    <3>1. i \in 1 .. m /\ i - 1 \in 0 .. m + n /\ i \in 0 .. m + n /\ i - 1 <= m
      BY <1>4, <2>1
    <3>2. f[i - 1] = g[i - 1] /\ f[i] = g[i] /\ r[i] = p[i]
      BY <1>3, <1>4, <1>5, <1>6, <2>1, <3>1
    <3>3. Fits(p[i], g[i - 1]) /\ g[i] = LockedAfter(p[i], g[i - 1])
      BY <1>1, <1>4, <3>1 DEF Walk
    <3>. QED  BY <3>2, <3>3
  <2>2. CASE i > m
    <3>1. PICK j : j = i - m
      OBVIOUS
    <3>2. j \in 1 .. n /\ i \in 0 .. m + n /\ i - 1 \in 0 .. m + n /\ ~(i <= m)
      BY <1>4, <2>2, <3>1
    <3>3. f[i] = h[j] /\ r[i] = q[j]
      BY <1>3, <1>4, <1>5, <1>6, <3>1, <3>2
    <3>4. f[i - 1] = h[j - 1]
      <4>1. CASE j = 1
        <5>1. i - 1 = m /\ j - 1 = 0
          BY <1>4, <3>1, <3>2, <4>1
        <5>2. f[m] = g[m]
          BY <1>4, <1>6
        <5>. QED  BY <1>1, <1>2, <1>4, <5>1, <5>2
      <4>2. CASE j > 1
        <5>1. ~(i - 1 <= m) /\ (i - 1) - m = j - 1
          BY <1>4, <3>1, <3>2, <4>2
        <5>. QED  BY <1>6, <3>2, <5>1
      <4>. QED  BY <1>4, <3>2, <4>1, <4>2
    <3>5. Fits(q[j], h[j - 1]) /\ h[j] = LockedAfter(q[j], h[j - 1])
      BY <1>2, <1>4, <3>2 DEF Walk
    <3>. QED  BY <3>3, <3>4, <3>5
  <2>. QED  BY <1>4, <2>1, <2>2
<1>. QED  BY <1>3, <1>4, <1>5, <1>7, <1>8, <1>9 DEF Leads

\* One instruction.
LEMMA LeadsOne ==
    ASSUME NEW i \in Instructions, NEW H, Fits(i, H)
    PROVE  Leads(<<i>>, H, LockedAfter(i, H))
<1>1. PICK K : K = LockedAfter(i, H)
  OBVIOUS
<1>2. PICK h : h = [j \in 0 .. 1 |-> IF j = 0 THEN H ELSE K]
  OBVIOUS
<1>3. <<i>> \in Seq(Instructions) /\ Len(<<i>>) = 1 /\ <<i>>[1] = i
  OBVIOUS
<1>4. h[0] = H /\ h[1] = K
  BY <1>2
<1>5. PICK p : p = <<i>>
  OBVIOUS
<1>6. Walk(p, h)
  <2>. SUFFICES ASSUME NEW j \in 1 .. Len(p)
                PROVE  Fits(p[j], h[j - 1]) /\ h[j] = LockedAfter(p[j], h[j - 1])
    BY DEF Walk
  <2>1. j = 1 /\ j - 1 = 0
    BY <1>3, <1>5
  <2>. QED  BY <1>1, <1>3, <1>4, <1>5, <2>1
<1>. QED  BY <1>1, <1>3, <1>4, <1>5, <1>6 DEF Leads

\* The next instruction of a path.
LEMMA LeadsFrom ==
    ASSUME NEW p, NEW H, NEW K, Leads(p, H, K), p # <<>>
    PROVE  /\ Head(p) \in Instructions /\ Fits(Head(p), H)
           /\ Tail(p) \in Seq(Instructions)
           /\ Leads(Tail(p), LockedAfter(Head(p), H), K)
<1>1. PICK h : h[0] = H /\ h[Len(p)] = K /\ Walk(p, h)
  BY DEF Leads
<1>2. p \in Seq(Instructions)
  BY DEF Leads
<1>3. PICK t, n : t = Tail(p) /\ n = Len(t)
  OBVIOUS
<1>4. /\ Head(p) \in Instructions /\ Head(p) = p[1]
      /\ t \in Seq(Instructions) /\ n \in Nat /\ Len(p) = n + 1
      /\ \A i \in 1 .. n : t[i] = p[i + 1]
  <2>1. /\ Head(p) \in Instructions /\ t \in Seq(Instructions) /\ Len(t) = Len(p) - 1
        /\ \A i \in 1 .. Len(t) : t[i] = p[i + 1]
    BY <1>2, <1>3, HeadTailProperties
  <2>2. Len(t) \in Nat /\ Len(p) \in Nat
    BY <1>2, <2>1, LenProperties
  <2>. QED  BY <1>2, <1>3, <2>1, <2>2
<1>5. PICK f : f = [i \in 0 .. n |-> h[i + 1]]
  OBVIOUS
<1>6. Fits(p[1], h[0]) /\ h[1] = LockedAfter(p[1], h[0])
  <2>1. 1 \in 1 .. Len(p) /\ 1 - 1 = 0
    BY <1>4
  <2>. QED  BY <1>1, <2>1 DEF Walk
<1>7. f[0] = LockedAfter(p[1], H) /\ f[n] = K
  <2>1. f[0] = h[1] /\ f[n] = h[n + 1]
    BY <1>4, <1>5
  <2>. QED  BY <1>1, <1>4, <1>6, <2>1
<1>8. Walk(t, f)
  <2>. SUFFICES ASSUME NEW i \in 1 .. n
                PROVE  Fits(t[i], f[i - 1]) /\ f[i] = LockedAfter(t[i], f[i - 1])
    BY <1>3 DEF Walk
  <2>1. i + 1 \in 1 .. Len(p) /\ (i + 1) - 1 = i /\ i - 1 \in 0 .. n /\ i \in 0 .. n
        /\ (i - 1) + 1 = i
    BY <1>4
  <2>2. f[i - 1] = h[i] /\ f[i] = h[i + 1] /\ t[i] = p[i + 1]
    BY <1>4, <1>5, <2>1
  <2>3. Fits(p[i + 1], h[(i + 1) - 1]) /\ h[i + 1] = LockedAfter(p[i + 1], h[(i + 1) - 1])
    BY <1>1, <2>1 DEF Walk
  <2>. QED  BY <2>1, <2>2, <2>3
<1>. QED  BY <1>1, <1>3, <1>4, <1>6, <1>7, <1>8 DEF Leads

\* What gives back what it takes: nothing, ...
LEMMA NeutralNothing == \A H : <<>> \in Neutral(H)
<1>. SUFFICES ASSUME NEW H PROVE <<>> \in Neutral(H)
  OBVIOUS
<1>1. PICK p : p = <<>>
  OBVIOUS
<1>2. p \in Seq(Instructions) /\ Len(p) = 0
  BY <1>1, EmptySeq
<1>3. PICK h : h = [i \in {0} |-> H]
  OBVIOUS
<1>4. h[0] = H /\ Walk(p, h)
  BY <1>2, <1>3 DEF Walk
<1>. QED  BY <1>1, <1>2, <1>4 DEF Neutral, Leads

\* ... a path after another, ...
LEMMA NeutralConcat == \A H : \A p, q \in Neutral(H) : p \o q \in Neutral(H)
<1>. SUFFICES ASSUME NEW H, NEW p \in Neutral(H), NEW q \in Neutral(H)
              PROVE  p \o q \in Neutral(H)
  OBVIOUS
<1>1. Leads(p, H, H) /\ Leads(q, H, H)
  BY DEF Neutral
<1>2. Leads(p \o q, H, H)
  BY <1>1, LeadsOn
<1>. QED  BY <1>2 DEF Neutral, Leads

\* ... one of some paths after one of others, ...
LEMMA NeutralJoined ==
    ASSUME NEW H, NEW A \in SUBSET Neutral(H), NEW B \in SUBSET Neutral(H)
    PROVE  Joined(A, B) \subseteq Neutral(H)
<1>. SUFFICES ASSUME NEW path \in Joined(A, B) PROVE path \in Neutral(H)
  OBVIOUS
<1>1. PICK a \in A, b \in B : path = a \o b
  BY SMT DEF Joined
<1>. QED  BY <1>1, NeutralConcat

\* ... a body under a lock that is free, ...
LEMMA NeutralHold ==
    ASSUME NEW H, NEW l \in LockNames \ H, NEW p \in Neutral(H \cup {l})
    PROVE  Hold(l, p) \in Neutral(H)
<1>1. PICK i, j, K : i = <<"lock", l>> /\ j = <<"unlock", l>> /\ K = H \cup {l}
  OBVIOUS
<1>2. i \in Instructions /\ j \in Instructions
  BY <1>1 DEF Instructions
<1>3. Fits(i, H) /\ LockedAfter(i, H) = K /\ Fits(j, K) /\ LockedAfter(j, K) = K \ {l}
  BY <1>1 DEF Fits, LockedAfter
<1>4. K \ {l} = H
  BY <1>1
<1>5. Leads(<<i>>, H, K) /\ Leads(p, K, K) /\ Leads(<<j>>, K, H)
  <2>1. Leads(<<i>>, H, LockedAfter(i, H))
    BY <1>2, <1>3, LeadsOne
  <2>2. Leads(<<j>>, K, LockedAfter(j, K))
    BY <1>2, <1>3, LeadsOne
  <2>3. Leads(p, K, K)
    BY <1>1 DEF Neutral
  <2>. QED  BY <1>3, <1>4, <2>1, <2>2, <2>3
<1>6. Leads(<<i>> \o p, H, K)
  BY <1>5, LeadsOn
<1>7. Leads((<<i>> \o p) \o <<j>>, H, H)
  BY <1>5, <1>6, LeadsOn
<1>8. Hold(l, p) = (<<i>> \o p) \o <<j>>
  BY <1>1 DEF Hold
<1>. QED  BY <1>7, <1>8 DEF Neutral, Leads

\* ... a lock that is free for one expression, ...
LEMMA NeutralTake == \A H : \A l \in LockNames \ H : Take(l) \in Neutral(H)
  BY NeutralNothing, NeutralHold DEF Take

\* ... and a call, in whose stead any of its paths may come.
LEMMA NeutralCall ==
    \A H : \A f \in CallNames : H \subseteq Under(f) => Call(f) \in Neutral(H)
<1>. SUFFICES ASSUME NEW H, NEW f \in CallNames, H \subseteq Under(f)
              PROVE  Call(f) \in Neutral(H)
  OBVIOUS
<1>1. PICK i : i = <<"call", f>>
  OBVIOUS
<1>2. i \in Instructions /\ Fits(i, H) /\ LockedAfter(i, H) = H
  BY <1>1 DEF Instructions, Fits, LockedAfter
<1>3. Leads(<<i>>, H, H)
  BY <1>2, LeadsOne
<1>. QED  BY <1>1, <1>3 DEF Call, Neutral, Leads

-----------------------------------------------------------------------------
\* A command may have been typed into the chat, which is locked meanwhile: no
\* command takes CHAT.
CommandLocks == LockNames \ {"CHAT"}

\* What the commands are made of.
LEMMA Bricks ==
    ASSUME NEW H \in SUBSET {"CHAT"}
    PROVE  /\ <<>> \in Neutral(H) /\ Println \in Neutral(H) /\ Klog \in Neutral(H)
           /\ \A p, q \in Neutral(H) : p \o q \in Neutral(H)
           /\ \A l \in CommandLocks : Take(l) \in Neutral(H)
           /\ \A l \in CommandLocks \ {"SERIAL"} : Hold(l, Println) \in Neutral(H)
           /\ \A l, m \in CommandLocks : l # m => Hold(l, Take(m)) \in Neutral(H)
           /\ \A f \in {"execute", "execute_agent", "agent"} : Call(f) \in Neutral(H)
<1>1. \A l \in CommandLocks : l \in LockNames \ H /\ Take(l) \in Neutral(H)
  BY NeutralTake DEF CommandLocks
<1>2. \A l, m \in CommandLocks : l # m => Take(m) \in Neutral(H \cup {l})
  BY NeutralTake DEF CommandLocks
<1>3. \A l, m \in CommandLocks : l # m => Hold(l, Take(m)) \in Neutral(H)
  BY <1>1, <1>2, NeutralHold
<1>4. "SERIAL" \in CommandLocks /\ "KLOG" \in CommandLocks
  BY DEF CommandLocks, LockNames
<1>5. \A f \in {"execute", "execute_agent", "agent"} : f \in CallNames /\ H \subseteq Under(f)
  BY DEF CallNames, Under
<1>6. \A f \in {"execute", "execute_agent", "agent"} : Call(f) \in Neutral(H)
  BY <1>5, NeutralCall
<1>. QED  BY <1>1, <1>3, <1>4, <1>6, NeutralNothing, NeutralConcat DEF Println, Klog

\* Every command gives back the locks it takes, whether it was typed into the
\* chat or on the serial line.
LEMMA CommandsAreNeutral ==
    ASSUME NEW H \in SUBSET {"CHAT"}
    PROVE  CommandPaths \subseteq Neutral(H)
<1>1. PICK G : G = Neutral(H)
  OBVIOUS
<1>2. /\ <<>> \in G /\ Println \in G /\ Klog \in G
      /\ \A p, q \in G : p \o q \in G
      /\ \A l \in CommandLocks : Take(l) \in G
      /\ \A l \in CommandLocks \ {"SERIAL"} : Hold(l, Println) \in G
      /\ Call("execute_agent") \in G
  BY <1>1, Bricks
<1>3. /\ Take("CAP_TABLE") \in G /\ Take("AGENT_TABLE") \in G /\ Take("AUDIT_LOG") \in G
      /\ Take("FS") \in G /\ Take("CHANNELS") \in G /\ Take("FRAME_ALLOC") \in G
      /\ Take("ENV") \in G /\ Take("ALIASES") \in G /\ Take("HISTORY") \in G
      /\ Take("SERIAL") \in G
  BY <1>2 DEF CommandLocks, LockNames
<1>4. /\ Hold("AGENT_TABLE", Println) \in G /\ Hold("CAP_TABLE", Println) \in G
      /\ Hold("AUDIT_LOG", Println) \in G /\ Hold("CHANNELS", Println) \in G
      /\ Hold("FS", Println) \in G /\ Hold("ENV", Println) \in G
      /\ Hold("ALIASES", Println) \in G /\ Hold("HISTORY", Println) \in G
      /\ Hold("KLOG", Println) \in G
  BY <1>2 DEF CommandLocks, LockNames
<1>5. InfoPaths \subseteq G /\ AgentsPaths \subseteq G /\ CapsPaths \subseteq G
      /\ AuditPaths \subseteq G /\ HistoryPaths \subseteq G /\ DmesgPaths \subseteq G
      /\ FilePaths \subseteq G
  BY <1>2, <1>4 DEF InfoPaths, AgentsPaths, CapsPaths, AuditPaths, HistoryPaths, DmesgPaths, FilePaths
<1>6. StatusPaths \subseteq G
  BY <1>2, <1>3 DEF StatusPaths
<1>7. KillPaths \subseteq G
  <2>1. Hold("AGENT_TABLE", Take("CAP_TABLE") \o Println) \in G
    <3>1. PICK K : K = H \cup {"AGENT_TABLE"}
      OBVIOUS
    <3>2. "CAP_TABLE" \in LockNames \ K /\ "SERIAL" \in LockNames \ K /\ "AGENT_TABLE" \in LockNames \ H
      BY <3>1 DEF LockNames
    <3>3. Take("CAP_TABLE") \in Neutral(K) /\ Println \in Neutral(K)
      BY <3>2, NeutralTake DEF Println
    <3>4. Take("CAP_TABLE") \o Println \in Neutral(H \cup {"AGENT_TABLE"})
      BY <3>1, <3>3, NeutralConcat
    <3>. QED  BY <1>1, <3>2, <3>4, NeutralHold
  <2>. QED  BY <1>2, <1>4, <2>1 DEF KillPaths
<1>8. DeployPaths \subseteq G
  BY <1>2, <1>3 DEF DeployPaths, Channel0
<1>9. SendPaths \subseteq G /\ MemPaths \subseteq G
  BY <1>2, <1>3, <1>4 DEF SendPaths, MemPaths, Channel0
<1>10. PipePaths \subseteq G
  BY <1>2, <1>3, <1>4 DEF PipePaths
<1>11. TopPaths \subseteq G /\ GcPaths \subseteq G
  BY <1>2, <1>3 DEF TopPaths, GcPaths
<1>12. EnvPaths \subseteq G /\ RunPaths \subseteq G /\ AliasPaths \subseteq G
  BY <1>2, <1>3, <1>4 DEF EnvPaths, RunPaths, AliasPaths
<1>13. SysinfoPaths \subseteq G
  <2>1. PICK a \in G :
          a = Println \o Take("ENV") \o Println \o Take("FRAME_ALLOC") \o Println \o Take("FS")
                \o Println \o Take("AGENT_TABLE")
    BY <1>2, <1>3
  <2>2. PICK b \in G :
          b = a \o Println \o Take("CAP_TABLE") \o Println \o Take("AUDIT_LOG") \o Println
                \o Take("ALIASES") \o Take("HISTORY") \o Println
    BY <1>2, <1>3
  <2>3. SysinfoPaths = {b}
    BY ONLY <2>1, <2>2 DEF SysinfoPaths
  <2>. QED  BY <2>3
<1>14. AskPaths \subseteq G
  BY <1>2, <1>3 DEF AskPaths, Query
<1>. QED  BY <1>1, <1>5, <1>6, <1>7, <1>8, <1>9, <1>10, <1>11, <1>12, <1>13, <1>14 DEF CommandPaths

\* So does a line, however it is executed.
LEMMA LinesAreNeutral ==
    ASSUME NEW H \in SUBSET {"CHAT"}
    PROVE  ExecutePaths \subseteq Neutral(H)
<1>1. PICK G : G = Neutral(H)
  OBVIOUS
<1>2. /\ <<>> \in G /\ Println \in G /\ \A p, q \in G : p \o q \in G
      /\ \A l \in CommandLocks : Take(l) \in G
      /\ \A l \in CommandLocks \ {"SERIAL"} : Hold(l, Println) \in G
      /\ Call("execute") \in G
  BY <1>1, Bricks
<1>3. Take("HISTORY") \in G /\ Take("ALIASES") \in G /\ Hold("HISTORY", Println) \in G
  BY <1>2 DEF CommandLocks, LockNames
<1>4. CommandPaths \subseteq G
  BY <1>1, CommandsAreNeutral
<1>5. {Println \o Call("execute")} \cup CommandPaths \subseteq G
  BY <1>2, <1>4
<1>6. {Take("ALIASES"), Take("HISTORY") \o Take("ALIASES")} \subseteq G
  BY <1>2, <1>3
<1>7. Joined({Take("ALIASES"), Take("HISTORY") \o Take("ALIASES")},
             {Println \o Call("execute")} \cup CommandPaths) \subseteq G
  BY <1>1, <1>5, <1>6, NeutralJoined
<1>8. Take("HISTORY") \o Println \o Call("execute") \in G
  BY <1>2, <1>3
<1>. QED  BY <1>1, <1>2, <1>3, <1>7, <1>8 DEF ExecutePaths

\* The run of an agent, and every call it makes of the host.
LEMMA RunsAreNeutral ==
    ASSUME NEW H \in SUBSET {"CHAT"}
    PROVE  /\ ExecuteAgentPaths \subseteq Neutral(H)
           /\ {<<>>} \cup {path \o Call("agent") : path \in HostPaths} \subseteq Neutral(H)
<1>1. PICK G : G = Neutral(H)
  OBVIOUS
<1>2. /\ <<>> \in G /\ Println \in G /\ Klog \in G /\ \A p, q \in G : p \o q \in G
      /\ \A l \in CommandLocks : Take(l) \in G
      /\ \A l \in CommandLocks \ {"SERIAL"} : Hold(l, Println) \in G
      /\ \A l, m \in CommandLocks : l # m => Hold(l, Take(m)) \in G
      /\ Call("agent") \in G
  BY <1>1, Bricks
<1>3. /\ Take("CAP_TABLE") \in G /\ Take("AGENT_TABLE") \in G /\ Take("AUDIT_LOG") \in G
      /\ Take("FS") \in G /\ Take("CHANNELS") \in G /\ Take("ENV") \in G
      /\ Hold("CAP_TABLE", Println) \in G /\ Hold("FS", Println) \in G
  BY <1>2 DEF CommandLocks, LockNames
<1>4. Hold("AGENT_TABLE", Take("CAP_TABLE")) \in G
  BY <1>2 DEF CommandLocks, LockNames
<1>5. PICK spawned \in G :
        spawned = Println \o Klog \o Take("AGENT_TABLE") \o Take("AUDIT_LOG")
  BY <1>2, <1>3
<1>6. PICK granted \in G :
        granted = Take("CAP_TABLE") \o Hold("CAP_TABLE", Println)
                     \o Take("CAP_TABLE") \o Take("CAP_TABLE")
  BY <1>2, <1>3
<1>7. PICK a \in G :
        a = spawned \o granted \o Call("agent") \o Take("AGENT_TABLE") \o Println
  BY <1>2, <1>3, <1>5, <1>6
<1>8. PICK b \in G :
        b = a \o Call("agent") \o Println \o Hold("AGENT_TABLE", Take("CAP_TABLE"))
              \o Take("AUDIT_LOG")
  BY <1>2, <1>3, <1>4, <1>7
<1>9. PICK c \in G : c = spawned \o granted \o Call("agent")
  BY <1>2, <1>5, <1>6
<1>10. PICK d \in G : d = Println \o Klog \o Take("AGENT_TABLE")
  BY <1>2, <1>3
<1>11. ExecuteAgentPaths = {d, c, b}
  BY ONLY <1>5, <1>6, <1>7, <1>8, <1>9, <1>10 DEF ExecuteAgentPaths
<1>12. HostPaths \subseteq G
  BY <1>2, <1>3 DEF HostPaths
<1>13. \A path \in HostPaths : path \o Call("agent") \in G
  BY <1>2, <1>12
<1>. QED  BY <1>1, <1>2, <1>11, <1>13

\* The guardian calls the rest with nothing locked.
LEMMA GuardianIsNeutral ==
    /\ GrantPaths \subseteq Neutral({}) /\ ReadPaths \subseteq Neutral({})
    /\ WritePaths \subseteq Neutral({}) /\ LoopPaths \subseteq Neutral({})
    /\ KmainScript \in Neutral({})
<1>1. PICK G : G = Neutral({})
  OBVIOUS
<1>2. /\ <<>> \in G /\ Println \in G /\ Klog \in G /\ \A p, q \in G : p \o q \in G
      /\ \A l \in CommandLocks : Take(l) \in G
      /\ \A l \in CommandLocks \ {"SERIAL"} : Hold(l, Println) \in G
      /\ \A l, m \in CommandLocks : l # m => Hold(l, Take(m)) \in G
      /\ \A f \in {"execute", "execute_agent", "agent"} : Call(f) \in G
  BY <1>1, Bricks
<1>3. /\ Take("CAP_TABLE") \in G /\ Take("AGENT_TABLE") \in G /\ Take("AUDIT_LOG") \in G
      /\ Take("CHANNELS") \in G /\ Take("ENV") \in G
      /\ Take("KEY_BUFFER") \in G /\ Take("SERIAL") \in G
      /\ Hold("CAP_TABLE", Println) \in G /\ Hold("CHANNELS", Println) \in G
      /\ Hold("FRAME_ALLOC", Println) \in G
  BY <1>2 DEF CommandLocks, LockNames
<1>4. /\ Hold("CAP_TABLE", Take("AUDIT_LOG")) \in G
      /\ Hold("AGENT_TABLE", Take("AUDIT_LOG")) \in G
  BY <1>2 DEF CommandLocks, LockNames
<1>5. /\ Call("cap_grant") \in G /\ Call("resource_read") \in G
      /\ Call("resource_write") \in G /\ Call("loop") \in G
  <2>1. \A f \in CallNames : Call(f) \in G
    BY <1>1, NeutralCall
  <2>. QED  BY <2>1 DEF CallNames
<1>6. /\ Take("CHAT") \in G /\ Hold("CHAT", <<>>) \in G
      /\ Hold("CHAT", Call("execute")) \in G
  <2>1. "CHAT" \in LockNames \ {}
    BY DEF LockNames
  <2>2. Call("execute") \in Neutral({} \cup {"CHAT"}) /\ <<>> \in Neutral({} \cup {"CHAT"})
    BY NeutralCall, NeutralNothing DEF CallNames, Under
  <2>3. Hold("CHAT", Call("execute")) \in Neutral({})
    BY <2>1, <2>2, NeutralHold
  <2>4. Hold("CHAT", <<>>) \in Neutral({})
    BY <2>1, <2>2, NeutralHold
  <2>. QED  BY <1>1, <2>3, <2>4 DEF Take
<1>7. GrantPaths \subseteq G /\ ReadPaths \subseteq G
  BY <1>2, <1>3, <1>4 DEF GrantPaths, ReadPaths
<1>8. WritePaths \subseteq G
  BY <1>2, <1>3, <1>4 DEF WritePaths
<1>9. GuardianScript \in G
  <2>1. PICK a \in G :
          a = Println \o Take("AGENT_TABLE") \o Println \o Call("cap_grant") \o Println
                \o Call("resource_read")
    BY <1>2, <1>3, <1>5
  <2>2. PICK b \in G :
          b = a \o Call("resource_write") \o Println \o Hold("CAP_TABLE", Println)
                \o Take("CAP_TABLE") \o Take("AGENT_TABLE") \o Take("AUDIT_LOG")
    BY <1>2, <1>3, <1>5
  <2>3. PICK c \in G :
          c = b \o Println \o Call("execute_agent") \o Take("CHANNELS") \o Println
                \o Hold("CHANNELS", Println)
    BY <1>2, <1>3
  <2>4. PICK d \in G :
          d = c \o Println \o Take("CHAT") \o Take("CHAT") \o Println \o Call("loop")
    BY <1>2, <1>5, <1>6
  <2>5. GuardianScript = d
    BY ONLY <2>1, <2>2, <2>3, <2>4 DEF GuardianScript
  <2>. QED  BY <2>5
<1>10. KmainScript \in G
  <2>1. PICK a \in G :
          a = Println \o Klog \o Hold("FRAME_ALLOC", Println) \o Klog \o Take("AUDIT_LOG")
    BY <1>2, <1>3
  <2>2. a \o Println \o Take("ENV") \o Println \o GuardianScript \in G
    BY <1>2, <1>3, <1>9
  <2>3. KmainScript = a \o Println \o Take("ENV") \o Println \o GuardianScript
    BY ONLY <2>1 DEF KmainScript
  <2>. QED  BY <2>2, <2>3
<1>11. LoopPaths \subseteq G
  <2>1. PICK key \in G : key = Take("KEY_BUFFER") \o Hold("CHAT", <<>>)
    BY <1>2, <1>3, <1>6
  <2>2. PICK keyRun \in G : keyRun = Take("KEY_BUFFER") \o Hold("CHAT", Call("execute"))
    BY <1>2, <1>3, <1>6
  <2>3. PICK byte \in G : byte = Take("KEY_BUFFER") \o Take("SERIAL")
    BY <1>2, <1>3
  <2>4. PICK echo :
          echo = {<<>>, Take("SERIAL"), Println \o Println,
                  Println \o Call("execute") \o Println}
    OBVIOUS
  <2>5. PICK shown :
          shown = {<<>>, Take("SERIAL"), Println \o Println,
                   Println \o Take("CHAT") \o Call("execute") \o Println}
    OBVIOUS
  <2>0. echo \subseteq G /\ shown \subseteq G
    BY <1>2, <1>3, <1>6, <2>4, <2>5
  <2>6. Joined({key, keyRun}, echo) \subseteq G /\ Joined({byte}, shown) \subseteq G
    <3>1. {key, keyRun} \subseteq G /\ {byte} \subseteq G
      OBVIOUS
    <3>. QED  BY <1>1, <2>0, <3>1, NeutralJoined
  <2>7. Joined(Joined({key, keyRun}, echo) \cup Joined({byte}, shown), {Call("loop")})
          \subseteq G
    <3>1. PICK turns, again :
            /\ turns = Joined({key, keyRun}, echo) \cup Joined({byte}, shown)
            /\ again = {Call("loop")}
      OBVIOUS
    <3>2. turns \subseteq G /\ again \subseteq G
      BY <1>5, <2>6, <3>1
    <3>. QED  BY <1>1, <3>1, <3>2, NeutralJoined
  <2>8. LoopPaths =
          Joined(Joined({key, keyRun}, echo) \cup Joined({byte}, shown), {Call("loop")})
    BY ONLY <2>1, <2>2, <2>3, <2>4, <2>5 DEF LoopPaths
  <2>. QED  BY <2>7, <2>8
<1>. QED  BY <1>1, <1>7, <1>8, <1>10, <1>11

\* Whatever a call may find locked, its paths leave it as they found it.
LEMMA CallsAreNeutral ==
    ASSUME NEW f \in CallNames, NEW H, H \subseteq Under(f)
    PROVE  PathsOf(f) \subseteq Neutral(H)
<1>1. CASE f = "execute"
  <2>1. H \in SUBSET {"CHAT"} /\ PathsOf(f) = ExecutePaths
    BY <1>1 DEF Under, PathsOf
  <2>. QED  BY <2>1, LinesAreNeutral
<1>2. CASE f = "execute_agent"
  <2>1. H \in SUBSET {"CHAT"} /\ PathsOf(f) = ExecuteAgentPaths
    BY <1>2 DEF Under, PathsOf
  <2>. QED  BY <2>1, RunsAreNeutral
<1>3. CASE f = "agent"
  <2>1. H \in SUBSET {"CHAT"} /\ PathsOf(f) = {<<>>} \cup {path \o Call("agent") : path \in HostPaths}
    BY <1>3 DEF Under, PathsOf
  <2>2. {<<>>} \cup {path \o Call("agent") : path \in HostPaths} \subseteq Neutral(H)
    BY <2>1, RunsAreNeutral
  <2>. QED  BY <2>1, <2>2
<1>4. CASE f \in {"cap_grant", "resource_read", "resource_write", "loop"}
  <2>1. H = {}
    BY <1>4 DEF Under
  <2>2. PathsOf(f) \in {GrantPaths, ReadPaths, WritePaths, LoopPaths}
    BY <1>4 DEF PathsOf
  <2>. QED  BY <2>1, <2>2, GuardianIsNeutral
<1>. QED  BY <1>1, <1>2, <1>3, <1>4 DEF CallNames

-----------------------------------------------------------------------------
\* Before anything runs nothing is locked.
LEMMA LocksStart == LockInit => LocksInv
<1>. SUFFICES ASSUME LockInit PROVE LocksInv
  OBVIOUS
<1>1. Leads(ahead, locked, locked)
  BY GuardianIsNeutral DEF LockInit, Neutral
<1>. QED  BY <1>1 DEF LockInit, LocksInv, CanGoOn

\* The handler of a fault takes and drops SERIAL only.
FaultSteps == {<<"lock", "SERIAL">>, <<"unlock", "SERIAL">>}

\* What is next, whoever runs.
LEMMA GoesOn ==
    ASSUME LocksInv, ahead # <<>>, handler # "fault", ~KeyIsStuck
    PROVE  /\ Head(ahead) \in Instructions /\ Fits(Head(ahead), locked)
           /\ \E K : Leads(Tail(ahead), LockedAfter(Head(ahead), locked), K)
<1>1. PICK K : Leads(ahead, locked, K)
  BY DEF LocksInv, CanGoOn
<1>. QED  BY <1>1, LeadsFrom

\* A step along the path, but for a call.
LEMMA WalkStep == LocksInv /\ (Lock \/ Unlock \/ Iret) => LocksInv'
<1>. SUFFICES ASSUME LocksInv, Lock \/ Unlock \/ Iret PROVE LocksInv'
  OBVIOUS
<1>1. ahead # <<>> /\ ahead' = Tail(ahead) /\ Head(ahead)[1] \in {"lock", "unlock", "iret"}
  BY DEF Lock, Unlock, Iret, NextIs
<1>2. CASE handler = "fault"
  <2>1. Head(ahead) \in FaultSteps /\ Tail(ahead) \in Seq(FaultSteps)
    BY <1>1, <1>2, HeadTailProperties DEF LocksInv, FaultSteps
  <2>2. Head(ahead)[1] # "iret"
    BY <2>1 DEF FaultSteps
  <2>3. handler' = handler
    BY <2>2 DEF Lock, Unlock, Iret, NextIs
  <2>. QED  BY <1>1, <1>2, <2>1, <2>3 DEF LocksInv, FaultSteps
<1>3. CASE handler # "fault"
  <2>1. ~KeyIsStuck
    <3>. SUFFICES ASSUME KeyIsStuck PROVE FALSE
      OBVIOUS
    <3>1. Head(ahead)[1] = "lock" /\ Head(ahead)[2] \in locked
      BY DEF KeyIsStuck
    <3>. QED  BY <3>1 DEF Lock, Unlock, Iret, NextIs
  <2>2. /\ Head(ahead) \in Instructions
        /\ \E K : Leads(Tail(ahead), LockedAfter(Head(ahead), locked), K)
    BY <1>1, <1>3, <2>1, GoesOn
  <2>3. locked' = LockedAfter(Head(ahead), locked)
    BY DEF Lock, Unlock, Iret, NextIs, LockedAfter
  <2>4. CanGoOn'
    BY <1>1, <2>2, <2>3 DEF CanGoOn
  <2>5. handler' \in {handler, "thread"}
    <3>1. CASE Iret
      <4>1. Head(ahead)[1] = "iret" /\ handler' = Head(ahead)[2]
        BY <3>1 DEF Iret, NextIs
      <4>2. Head(ahead) = <<"iret", "thread">>
        BY <2>2, <4>1 DEF Instructions
      <4>. QED  BY <4>1, <4>2
    <3>. QED  BY <3>1 DEF Lock, Unlock
  <2>. QED  BY <1>3, <2>4, <2>5 DEF LocksInv
<1>. QED  BY <1>2, <1>3

\* A call, by any of its paths.
LEMMA ChooseStep == LocksInv /\ Choose => LocksInv'
<1>. SUFFICES ASSUME LocksInv, Choose PROVE LocksInv'
  OBVIOUS
<1>1. ahead # <<>> /\ Head(ahead)[1] = "call" /\ locked' = locked /\ handler' = handler
  BY DEF Choose, NextIs
<1>2. handler # "fault"
  <2>. SUFFICES ASSUME handler = "fault" PROVE FALSE
    OBVIOUS
  <2>1. Head(ahead) \in FaultSteps
    BY <1>1, HeadTailProperties DEF LocksInv, FaultSteps
  <2>. QED  BY <1>1, <2>1 DEF FaultSteps
<1>3. ~KeyIsStuck
  BY <1>1 DEF KeyIsStuck
<1>4. PICK K :
        /\ Head(ahead) \in Instructions /\ Fits(Head(ahead), locked)
        /\ Leads(Tail(ahead), LockedAfter(Head(ahead), locked), K)
  BY <1>1, <1>2, <1>3, GoesOn
<1>5. PICK f : f = Head(ahead)[2]
  OBVIOUS
<1>6. f \in CallNames /\ locked \subseteq Under(f) /\ LockedAfter(Head(ahead), locked) = locked
  BY <1>1, <1>4, <1>5 DEF Instructions, Fits, LockedAfter
<1>7. PICK path \in PathsOf(f) : ahead' = path \o Tail(ahead)
  BY <1>5 DEF Choose
<1>8. Leads(path, locked, locked) /\ Leads(Tail(ahead), locked, K)
  BY <1>4, <1>6, <1>7, CallsAreNeutral DEF Neutral
<1>9. Leads(path \o Tail(ahead), locked, K)
  BY <1>8, LeadsOn
<1>10. CanGoOn'
  BY <1>1, <1>7, <1>9 DEF CanGoOn
<1>. QED  BY <1>1, <1>2, <1>10 DEF LocksInv

\* A key comes at any moment: it finds the key ring locked, or it comes and goes.
LEMMA KeyStep == LocksInv /\ KeyboardIrq => LocksInv'
<1>. SUFFICES ASSUME LocksInv, KeyboardIrq PROVE LocksInv'
  OBVIOUS
<1>1. /\ handler = "thread" /\ handler' = "keyboard" /\ locked' = locked
      /\ ahead' = Take("KEY_BUFFER") \o << <<"iret", "thread">> >> \o ahead
  BY DEF KeyboardIrq
<1>2. PICK K : Leads(ahead, locked, K)
  BY <1>1 DEF LocksInv, CanGoOn
<1>3. PICK i, j, u : i = <<"iret", "thread">> /\ j = <<"lock", "KEY_BUFFER">>
                       /\ u = <<"unlock", "KEY_BUFFER">>
  OBVIOUS
<1>4. i \in Instructions /\ j \in Instructions /\ u \in Instructions
      /\ "KEY_BUFFER" \in LockNames
  BY <1>3 DEF Instructions, LockNames
<1>5. CASE "KEY_BUFFER" \in locked
  <2>1. Take("KEY_BUFFER") = (<<j>> \o <<>>) \o <<u>>
    BY <1>3 DEF Take, Hold
  <2>2. ahead \in Seq(Instructions)
    BY <1>2 DEF Leads
  <2>3. PICK t : t = Take("KEY_BUFFER")
    OBVIOUS
  <2>4. t \in Seq(Instructions) /\ Len(t) = 2 /\ t[1] = j
    <3>1. <<j>> \o <<>> = <<j>>
      BY <1>4, ConcatEmptySeq
    <3>2. t = <<j>> \o <<u>>
      BY <2>1, <2>3, <3>1
    <3>3. PICK a, b : a = <<j>> /\ b = <<u>>
      OBVIOUS
    <3>4. /\ a \in Seq(Instructions) /\ b \in Seq(Instructions)
          /\ Len(a) = 1 /\ Len(b) = 1 /\ a[1] = j
      BY <1>4, <3>3
    <3>5. /\ a \o b \in Seq(Instructions) /\ Len(a \o b) = Len(a) + Len(b)
          /\ \A k \in 1 .. Len(a) + Len(b) :
               (a \o b)[k] = IF k <= Len(a) THEN a[k] ELSE b[k - Len(a)]
      BY <3>4, ConcatProperties
    <3>. QED  BY <3>2, <3>3, <3>4, <3>5
  <2>5. PICK v : v = t \o <<i>>
    OBVIOUS
  <2>6. v \in Seq(Instructions) /\ Len(v) = 3 /\ v[1] = j
    <3>1. <<i>> \in Seq(Instructions) /\ Len(<<i>>) = 1
      BY <1>4
    <3>. QED  BY <2>4, <2>5, <3>1, ConcatProperties
  <2>7. ahead' = v \o ahead
    BY <1>1, <1>3, <2>3, <2>5
  <2>8. ahead' # <<>> /\ Head(ahead') = j
    <3>1. /\ v \o ahead \in Seq(Instructions) /\ Len(v \o ahead) = 3 + Len(ahead)
          /\ (v \o ahead)[1] = v[1]
      <4>1. Len(ahead) \in Nat
        BY <2>2, LenProperties
      <4>2. /\ v \o ahead \in Seq(Instructions)
            /\ Len(v \o ahead) = Len(v) + Len(ahead)
            /\ \A k \in 1 .. Len(v) + Len(ahead) :
                 (v \o ahead)[k] = IF k <= Len(v) THEN v[k] ELSE ahead[k - Len(v)]
        BY <2>2, <2>6, ConcatProperties
      <4>3. PICK n : n = Len(ahead) /\ n \in Nat
        BY <4>1
      <4>4. 1 \in 1 .. 3 + n
        BY <4>3
      <4>. QED  BY <2>6, <4>2, <4>3, <4>4
    <3>2. Len(ahead) \in Nat
      BY <2>2, LenProperties
    <3>. QED  BY <2>6, <2>7, <3>1, <3>2
  <2>9. KeyIsStuck'
    BY <1>1, <1>3, <1>5, <2>8 DEF KeyIsStuck
  <2>. QED  BY <1>1, <2>9 DEF LocksInv
<1>6. CASE "KEY_BUFFER" \notin locked
  <2>1. Leads(Take("KEY_BUFFER"), locked, locked)
    BY <1>4, <1>6, NeutralTake DEF Neutral
  <2>2. Leads(<<i>>, locked, locked)
    <3>1. Fits(i, locked) /\ LockedAfter(i, locked) = locked
      BY <1>3 DEF Fits, LockedAfter
    <3>2. Leads(<<i>>, locked, LockedAfter(i, locked))
      BY <1>4, <3>1, LeadsOne
    <3>. QED  BY <3>1, <3>2
  <2>3. Leads(Take("KEY_BUFFER") \o <<i>>, locked, locked)
    BY <2>1, <2>2, LeadsOn
  <2>4. Leads((Take("KEY_BUFFER") \o <<i>>) \o ahead, locked, K)
    BY <1>2, <2>3, LeadsOn
  <2>5. CanGoOn'
    BY <1>1, <1>3, <2>4 DEF CanGoOn
  <2>. QED  BY <1>1, <2>5 DEF LocksInv
<1>. QED  BY <1>5, <1>6

\* A fault forgets the path of the thread, and keeps its locks.
LEMMA FaultStep == LocksInv /\ Fault => LocksInv'
<1>. SUFFICES ASSUME LocksInv, Fault PROVE LocksInv'
  OBVIOUS
<1>1. handler' = "fault" /\ ahead' = Println \o Println
  BY DEF Fault
<1>2. PICK j, u : j = <<"lock", "SERIAL">> /\ u = <<"unlock", "SERIAL">>
  OBVIOUS
<1>3. <<j>> \in Seq(FaultSteps) /\ <<u>> \in Seq(FaultSteps) /\ <<>> \in Seq(FaultSteps)
  BY <1>2, EmptySeq DEF FaultSteps
<1>4. (<<j>> \o <<>>) \o <<u>> \in Seq(FaultSteps)
  BY <1>3, ConcatProperties
<1>5. Println \in Seq(FaultSteps)
  BY <1>2, <1>4 DEF Println, Take, Hold
<1>6. Println \o Println \in Seq(FaultSteps)
  BY <1>5, ConcatProperties
<1>. QED  BY <1>1, <1>6 DEF LocksInv, FaultSteps

\* The thread never waits for a lock that it holds, on no path of the boot, the
\* loop, the commands and the agents, to any length.  A key can, while read_key
\* holds the key ring, and the report of a fault, while a line is printed.
THEOREM OnlyHandlersWait ==
    LockInit /\ [][LockNext]_lockVars => []OnlyHandlersHang
<1>1. LocksInv /\ [LockNext]_lockVars => LocksInv'
  <2>. SUFFICES ASSUME LocksInv, [LockNext]_lockVars PROVE LocksInv'
    OBVIOUS
  <2>1. CASE UNCHANGED lockVars
    <3>1. ahead' = ahead /\ locked' = locked /\ handler' = handler
      BY <2>1 DEF lockVars
    <3>. QED  BY <3>1 DEF LocksInv, CanGoOn, KeyIsStuck
  <2>. QED  BY <2>1, WalkStep, ChooseStep, KeyStep, FaultStep DEF LockNext
<1>2. LocksInv => OnlyHandlersHang
  <2>. SUFFICES ASSUME LocksInv, Spinning
                PROVE  <<handler, Head(ahead)[2]>> \in
                         {<<"keyboard", "KEY_BUFFER">>, <<"fault", "SERIAL">>}
    BY DEF OnlyHandlersHang
  <2>1. ahead # <<>> /\ Head(ahead)[1] = "lock" /\ Head(ahead)[2] \in locked
    BY DEF Spinning, NextIs
  <2>2. CASE handler = "fault"
    <3>1. Head(ahead) \in FaultSteps
      BY <2>1, <2>2, HeadTailProperties DEF LocksInv, FaultSteps
    <3>2. Head(ahead)[2] = "SERIAL"
      BY <3>1 DEF FaultSteps
    <3>. QED  BY <2>2, <3>2
  <2>3. CASE handler # "fault"
    <3>1. KeyIsStuck
      <4>. SUFFICES ASSUME ~KeyIsStuck PROVE FALSE
        OBVIOUS
      <4>1. Fits(Head(ahead), locked)
        BY <2>1, <2>3, GoesOn
      <4>. QED  BY <2>1, <4>1 DEF Fits
    <3>2. Head(ahead)[2] = "KEY_BUFFER"
      BY <3>1 DEF KeyIsStuck
    <3>3. handler = "keyboard"
      <4>. SUFFICES ASSUME handler = "thread" PROVE FALSE
        BY <2>3 DEF LocksInv
      <4>1. PICK K : Leads(ahead, locked, K)
        BY DEF LocksInv, CanGoOn
      <4>2. Fits(Head(ahead), locked)
        BY <2>1, <4>1, LeadsFrom
      <4>. QED  BY <2>1, <4>2 DEF Fits
    <3>. QED  BY <3>2, <3>3
  <2>. QED  BY <2>2, <2>3
<1>. QED  BY <1>1, <1>2, LocksStart, PTL

-----------------------------------------------------------------------------
(* The search for a suggestion: edits, and the table that counts them. *)

\* v is w without the letter i.
Leaves(w, v, i) ==
    /\ i \in 1 .. Len(w) /\ Len(w) = Len(v) + 1
    /\ \A j \in 1 .. Len(v) : v[j] = IF j < i THEN w[j] ELSE w[j + 1]

\* v is w but for the letter i.
Differs(w, v, i) ==
    /\ i \in 1 .. Len(w) /\ Len(v) = Len(w)
    /\ \A j \in 1 .. Len(w) : j # i => v[j] = w[j]

\* v is one edit of w.
OneEdit(w, v) == \E i \in Nat : Leaves(w, v, i) \/ Leaves(v, w, i) \/ Differs(w, v, i)

\* What is left of w without the letter i.
LEMMA Removing ==
    ASSUME NEW w \in Seq(Letters), NEW i \in 1 .. Len(w)
    PROVE  /\ RemoveAt(w, i) \in Seq(Letters) /\ Len(RemoveAt(w, i)) = Len(w) - 1
           /\ \A j \in 1 .. Len(w) - 1 :
                 RemoveAt(w, i)[j] = IF j < i THEN w[j] ELSE w[j + 1]
<1>1. PICK n : n = Len(w) /\ n \in Nat
  BY LenProperties
<1>2. \A j \in 1 .. n : w[j] \in Letters
  BY <1>1, LenProperties, ElementOfSeq
<1>3. PICK a, b : a = SubSeq(w, 1, i - 1) /\ b = SubSeq(w, i + 1, n)
  OBVIOUS
<1>4. /\ a \in Seq(Letters) /\ Len(a) = i - 1
      /\ \A j \in 1 .. i - 1 : a[j] = w[j]
  <2>1. 1 \in Int /\ i - 1 \in Int /\ \A j \in 1 .. i - 1 : w[j] \in Letters
    BY <1>1, <1>2
  <2>2. /\ SubSeq(w, 1, i - 1) \in Seq(Letters)
        /\ Len(SubSeq(w, 1, i - 1)) = IF 1 <= i - 1 THEN (i - 1) - 1 + 1 ELSE 0
        /\ \A j \in 1 .. (i - 1) - 1 + 1 : SubSeq(w, 1, i - 1)[j] = w[1 + j - 1]
    BY <2>1, SubSeqProperties
  <2>. QED  BY <1>1, <1>3, <2>2
<1>5. /\ b \in Seq(Letters) /\ Len(b) = n - i
      /\ \A j \in 1 .. n - i : b[j] = w[j + i]
  <2>1. i + 1 \in Int /\ n \in Int /\ \A j \in i + 1 .. n : w[j] \in Letters
    BY <1>1, <1>2
  <2>2. /\ SubSeq(w, i + 1, n) \in Seq(Letters)
        /\ Len(SubSeq(w, i + 1, n)) = IF i + 1 <= n THEN n - (i + 1) + 1 ELSE 0
        /\ \A j \in 1 .. n - (i + 1) + 1 : SubSeq(w, i + 1, n)[j] = w[(i + 1) + j - 1]
    BY <2>1, SubSeqProperties
  <2>. QED  BY <1>1, <1>3, <2>2
<1>6. /\ a \o b \in Seq(Letters) /\ Len(a \o b) = Len(a) + Len(b)
      /\ \A j \in 1 .. Len(a) + Len(b) :
           (a \o b)[j] = IF j <= Len(a) THEN a[j] ELSE b[j - Len(a)]
  BY <1>4, <1>5, ConcatProperties
<1>7. PICK r : r = a \o b
  OBVIOUS
<1>8. RemoveAt(w, i) = r
  BY <1>1, <1>3, <1>7 DEF RemoveAt
<1>9. r \in Seq(Letters) /\ Len(r) = n - 1
  <2>1. i \in Nat /\ (i - 1) + (n - i) = n - 1
    BY <1>1
  <2>. QED  BY <1>4, <1>5, <1>6, <1>7, <2>1
<1>10. ASSUME NEW j \in 1 .. n - 1 PROVE r[j] = IF j < i THEN w[j] ELSE w[j + 1]
  <2>1. j \in 1 .. Len(a) + Len(b)
    BY <1>1, <1>4, <1>5
  <2>2. CASE j < i
    <3>1. j <= Len(a) /\ j \in 1 .. i - 1
      BY <1>1, <1>4, <2>2
    <3>. QED  BY <1>4, <1>6, <1>7, <2>1, <2>2, <3>1
  <2>3. CASE ~(j < i)
    <3>1. ~(j <= Len(a)) /\ j - Len(a) \in 1 .. n - i /\ (j - Len(a)) + i = j + 1
      BY <1>1, <1>4, <2>3
    <3>. QED  BY <1>5, <1>6, <1>7, <2>1, <2>3, <3>1
  <2>. QED  BY <2>2, <2>3
<1>. QED  BY <1>1, <1>8, <1>9, <1>10

\* What becomes of w with the letter c put in as letter i.
LEMMA Inserting ==
    ASSUME NEW w \in Seq(Letters), NEW i \in 1 .. Len(w) + 1, NEW c \in Letters
    PROVE  /\ InsertAt(w, i, c) \in Seq(Letters) /\ Len(InsertAt(w, i, c)) = Len(w) + 1
           /\ \A j \in 1 .. Len(w) + 1 :
                 InsertAt(w, i, c)[j] = IF j < i THEN w[j] ELSE IF j = i THEN c ELSE w[j - 1]
<1>1. PICK n : n = Len(w) /\ n \in Nat
  BY LenProperties
<1>2. \A j \in 1 .. n : w[j] \in Letters
  BY <1>1, LenProperties, ElementOfSeq
<1>3. PICK a, b, m : a = SubSeq(w, 1, i - 1) /\ b = SubSeq(w, i, n) /\ m = <<c>>
  OBVIOUS
<1>4. /\ a \in Seq(Letters) /\ Len(a) = i - 1
      /\ \A j \in 1 .. i - 1 : a[j] = w[j]
  <2>1. 1 \in Int /\ i - 1 \in Int /\ \A j \in 1 .. i - 1 : w[j] \in Letters
    BY <1>1, <1>2
  <2>2. /\ SubSeq(w, 1, i - 1) \in Seq(Letters)
        /\ Len(SubSeq(w, 1, i - 1)) = IF 1 <= i - 1 THEN (i - 1) - 1 + 1 ELSE 0
        /\ \A j \in 1 .. (i - 1) - 1 + 1 : SubSeq(w, 1, i - 1)[j] = w[1 + j - 1]
    BY <2>1, SubSeqProperties
  <2>. QED  BY <1>1, <1>3, <2>2
<1>5. /\ b \in Seq(Letters) /\ Len(b) = n - i + 1
      /\ \A j \in 1 .. n - i + 1 : b[j] = w[j + i - 1]
  <2>1. i \in Int /\ n \in Int /\ \A j \in i .. n : w[j] \in Letters
    BY <1>1, <1>2
  <2>2. /\ SubSeq(w, i, n) \in Seq(Letters)
        /\ Len(SubSeq(w, i, n)) = IF i <= n THEN n - i + 1 ELSE 0
        /\ \A j \in 1 .. n - i + 1 : SubSeq(w, i, n)[j] = w[i + j - 1]
    BY <2>1, SubSeqProperties
  <2>. QED  BY <1>1, <1>3, <2>2
<1>6. m \in Seq(Letters) /\ Len(m) = 1 /\ m[1] = c
  BY <1>3
<1>7. PICK p, r : p = a \o m /\ r = p \o b
  OBVIOUS
<1>8. /\ p \in Seq(Letters) /\ Len(p) = i
      /\ \A j \in 1 .. i : p[j] = IF j < i THEN w[j] ELSE c
  <2>1. /\ a \o m \in Seq(Letters) /\ Len(a \o m) = Len(a) + Len(m)
        /\ \A j \in 1 .. Len(a) + Len(m) :
             (a \o m)[j] = IF j <= Len(a) THEN a[j] ELSE m[j - Len(a)]
    BY <1>4, <1>6, ConcatProperties
  <2>2. ASSUME NEW j \in 1 .. i PROVE p[j] = IF j < i THEN w[j] ELSE c
    <3>1. j \in 1 .. Len(a) + Len(m)
      BY <1>1, <1>4, <1>6
    <3>2. CASE j < i
      <4>1. j <= Len(a) /\ j \in 1 .. i - 1
        BY <1>1, <1>4, <3>2
      <4>. QED  BY <1>4, <1>7, <2>1, <3>1, <3>2, <4>1
    <3>3. CASE ~(j < i)
      <4>1. ~(j <= Len(a)) /\ j - Len(a) = 1
        BY <1>1, <1>4, <3>3
      <4>. QED  BY <1>6, <1>7, <2>1, <3>1, <3>3, <4>1
    <3>. QED  BY <3>2, <3>3
  <2>. QED  BY <1>1, <1>4, <1>6, <1>7, <2>1, <2>2
<1>9. /\ p \o b \in Seq(Letters) /\ Len(p \o b) = Len(p) + Len(b)
      /\ \A j \in 1 .. Len(p) + Len(b) :
           (p \o b)[j] = IF j <= Len(p) THEN p[j] ELSE b[j - Len(p)]
  BY <1>5, <1>8, ConcatProperties
<1>10. r \in Seq(Letters) /\ Len(r) = n + 1
  BY <1>1, <1>5, <1>7, <1>8, <1>9
<1>11. ASSUME NEW j \in 1 .. n + 1
       PROVE  r[j] = IF j < i THEN w[j] ELSE IF j = i THEN c ELSE w[j - 1]
  <2>1. j \in 1 .. Len(p) + Len(b)
    BY <1>1, <1>5, <1>8
  <2>2. CASE j <= i
    <3>1. j \in 1 .. i /\ j <= Len(p)
      BY <1>1, <1>8, <2>2
    <3>2. r[j] = IF j < i THEN w[j] ELSE c
      BY <1>7, <1>8, <1>9, <2>1, <3>1
    <3>. QED  BY <1>1, <2>2, <3>2
  <2>3. CASE ~(j <= i)
    <3>1. ~(j <= Len(p)) /\ j - Len(p) \in 1 .. n - i + 1 /\ (j - Len(p)) + i - 1 = j - 1
      BY <1>1, <1>8, <2>3
    <3>2. r[j] = w[j - 1]
      BY <1>5, <1>7, <1>9, <2>1, <3>1
    <3>. QED  BY <1>1, <2>3, <3>2
  <2>. QED  BY <2>2, <2>3
<1>12. InsertAt(w, i, c) = r
  BY <1>1, <1>3, <1>7 DEF InsertAt
<1>. QED  BY <1>1, <1>10, <1>11, <1>12

\* The words one edit away, letter by letter.
LEMMA EditsAre ==
    ASSUME NEW w \in Seq(Letters), NEW v
    PROVE  v \in Edits(w) <=> v \in Seq(Letters) /\ OneEdit(w, v)
<1>1. PICK n : n = Len(w) /\ n \in Nat /\ DOMAIN w = 1 .. n
  BY LenProperties
<1>2. \A j \in 1 .. n : w[j] \in Letters
  BY <1>1, LenProperties, ElementOfSeq
<1>3. v \in Edits(w) <=>
        \/ \E i \in 1 .. n : v = RemoveAt(w, i)
        \/ \E i \in 1 .. n + 1, c \in Letters : v = InsertAt(w, i, c)
        \/ \E i \in 1 .. n, c \in Letters : v = ReplaceAt(w, i, c)
  BY <1>1 DEF Edits
<1>4. ASSUME NEW i \in 1 .. n, v = RemoveAt(w, i)
      PROVE  v \in Seq(Letters) /\ OneEdit(w, v)
  <2>1. /\ v \in Seq(Letters) /\ Len(v) = n - 1
        /\ \A j \in 1 .. n - 1 : v[j] = IF j < i THEN w[j] ELSE w[j + 1]
    BY <1>1, <1>4, Removing
  <2>2. Leaves(w, v, i) /\ i \in Nat
    BY <1>1, <2>1 DEF Leaves
  <2>. QED  BY <2>1, <2>2 DEF OneEdit
<1>5. ASSUME NEW i \in 1 .. n + 1, NEW c \in Letters, v = InsertAt(w, i, c)
      PROVE  v \in Seq(Letters) /\ OneEdit(w, v)
  <2>1. /\ v \in Seq(Letters) /\ Len(v) = n + 1
        /\ \A j \in 1 .. n + 1 : v[j] = IF j < i THEN w[j] ELSE IF j = i THEN c ELSE w[j - 1]
    BY <1>1, <1>5, Inserting
  <2>2. \A j \in 1 .. n : w[j] = IF j < i THEN v[j] ELSE v[j + 1]
    <3>. SUFFICES ASSUME NEW j \in 1 .. n PROVE w[j] = IF j < i THEN v[j] ELSE v[j + 1]
      OBVIOUS
    <3>1. j \in 1 .. n + 1 /\ j + 1 \in 1 .. n + 1 /\ (j + 1) - 1 = j
      BY <1>1
    <3>2. CASE j < i
      BY <2>1, <3>1, <3>2
    <3>3. CASE ~(j < i)
      <4>1. ~(j + 1 < i) /\ j + 1 # i
        BY <1>1, <3>3
      <4>. QED  BY <2>1, <3>1, <3>3, <4>1
    <3>. QED  BY <3>2, <3>3
  <2>3. Leaves(v, w, i) /\ i \in Nat
    BY <1>1, <2>1, <2>2 DEF Leaves
  <2>. QED  BY <2>1, <2>3 DEF OneEdit
<1>6. ASSUME NEW i \in 1 .. n, NEW c \in Letters, v = ReplaceAt(w, i, c)
      PROVE  v \in Seq(Letters) /\ OneEdit(w, v)
  <2>1. v = [w EXCEPT ![i] = c]
    BY <1>6 DEF ReplaceAt
  <2>2. v \in Seq(Letters) /\ Len(v) = n /\ \A j \in 1 .. n : j # i => v[j] = w[j]
    BY <1>1, <2>1, ExceptSeq
  <2>3. Differs(w, v, i) /\ i \in Nat
    BY <1>1, <2>2 DEF Differs
  <2>. QED  BY <2>2, <2>3 DEF OneEdit
<1>7. ASSUME v \in Seq(Letters), OneEdit(w, v) PROVE v \in Edits(w)
  <2>1. PICK i \in Nat : Leaves(w, v, i) \/ Leaves(v, w, i) \/ Differs(w, v, i)
    BY <1>7 DEF OneEdit
  <2>2. PICK m : m = Len(v) /\ m \in Nat /\ \A j \in 1 .. m : v[j] \in Letters
    BY <1>7, LenProperties, ElementOfSeq
  <2>3. CASE Leaves(w, v, i)
    <3>1. /\ i \in 1 .. n /\ n = m + 1
          /\ \A j \in 1 .. m : v[j] = IF j < i THEN w[j] ELSE w[j + 1]
      BY <1>1, <2>2, <2>3 DEF Leaves
    <3>2. PICK r : r = RemoveAt(w, i)
      OBVIOUS
    <3>3. /\ r \in Seq(Letters) /\ Len(r) = n - 1
          /\ \A j \in 1 .. n - 1 : r[j] = IF j < i THEN w[j] ELSE w[j + 1]
      BY <1>1, <3>1, <3>2, Removing
    <3>4. Len(r) = Len(v) /\ \A j \in 1 .. Len(r) : r[j] = v[j]
      <4>1. n - 1 = m
        BY <2>2, <3>1
      <4>2. Len(r) = m /\ \A j \in 1 .. m : r[j] = v[j]
        BY <3>1, <3>3, <4>1
      <4>. QED  BY <2>2, <4>2
    <3>5. r = v
      BY <1>7, <3>3, <3>4, SeqEqual
    <3>6. v = RemoveAt(w, i)
      BY <3>2, <3>5
    <3>7. \E j \in 1 .. n : v = RemoveAt(w, j)
      BY <3>1, <3>6
    <3>. QED  BY <1>3, <3>7
  <2>4. CASE Leaves(v, w, i)
    <3>1. /\ i \in 1 .. n + 1 /\ m = n + 1
          /\ \A j \in 1 .. n : w[j] = IF j < i THEN v[j] ELSE v[j + 1]
      BY <1>1, <2>2, <2>4 DEF Leaves
    <3>2. PICK c \in Letters : c = v[i]
      BY <2>2, <3>1
    <3>3. PICK r : r = InsertAt(w, i, c)
      OBVIOUS
    <3>4. /\ r \in Seq(Letters) /\ Len(r) = n + 1
          /\ \A j \in 1 .. n + 1 : r[j] = IF j < i THEN w[j] ELSE IF j = i THEN c ELSE w[j - 1]
      <4>1. i \in 1 .. Len(w) + 1
        BY <1>1, <3>1
      <4>2. /\ InsertAt(w, i, c) \in Seq(Letters) /\ Len(InsertAt(w, i, c)) = Len(w) + 1
            /\ \A j \in 1 .. Len(w) + 1 :
                 InsertAt(w, i, c)[j] = IF j < i THEN w[j] ELSE IF j = i THEN c ELSE w[j - 1]
        BY <4>1, Inserting
      <4>. QED  BY <1>1, <3>3, <4>2
    <3>5. ASSUME NEW j \in 1 .. n + 1 PROVE r[j] = v[j]
      <4>1. CASE j < i
        <5>1. j \in 1 .. n
          BY <1>1, <3>1, <4>1
        <5>. QED  BY <3>1, <3>4, <4>1, <5>1
      <4>2. CASE j = i
        BY <3>1, <3>2, <3>4, <4>2
      <4>3. CASE j > i
        <5>1. j - 1 \in 1 .. n /\ ~(j - 1 < i) /\ (j - 1) + 1 = j /\ ~(j < i) /\ j # i
          BY <1>1, <3>1, <4>3
        <5>. QED  BY <3>1, <3>4, <5>1
      <4>. QED  BY <1>1, <3>1, <4>1, <4>2, <4>3
    <3>6. r = v
      BY <1>1, <1>7, <2>2, <3>1, <3>4, <3>5, SeqEqual
    <3>7. v = InsertAt(w, i, c)
      BY <3>3, <3>6
    <3>8. \E j \in 1 .. n + 1, d \in Letters : v = InsertAt(w, j, d)
      BY <3>1, <3>7
    <3>. QED  BY <1>3, <3>8
  <2>5. CASE Differs(w, v, i)
    <3>1. i \in 1 .. n /\ m = n /\ \A j \in 1 .. n : j # i => v[j] = w[j]
      BY <1>1, <2>2, <2>5 DEF Differs
    <3>2. PICK c \in Letters : c = v[i]
      BY <2>2, <3>1
    <3>3. PICK r : r = [w EXCEPT ![i] = c]
      OBVIOUS
    <3>4. /\ r \in Seq(Letters) /\ Len(r) = n
          /\ \A j \in 1 .. n : r[j] = IF j = i THEN c ELSE w[j]
      BY <1>1, <3>1, <3>3, ExceptSeq
    <3>5. Len(r) = Len(v) /\ \A j \in 1 .. Len(r) : r[j] = v[j]
      BY <2>2, <3>1, <3>2, <3>4
    <3>6. r = v
      BY <1>7, <3>4, <3>5, SeqEqual
    <3>7. v = ReplaceAt(w, i, c)
      BY <3>3, <3>6 DEF ReplaceAt
    <3>8. \E j \in 1 .. n, d \in Letters : v = ReplaceAt(w, j, d)
      BY <3>1, <3>7
    <3>. QED  BY <1>3, <3>8
  <2>. QED  BY <2>1, <2>3, <2>4, <2>5
<1>. QED  BY <1>3, <1>4, <1>5, <1>6, <1>7

-----------------------------------------------------------------------------
\* What one letter more at the end is.
LEMMA Longer ==
    ASSUME NEW w \in Seq(Letters), NEW c \in Letters
    PROVE  /\ Append(w, c) \in Seq(Letters) /\ Len(Append(w, c)) = Len(w) + 1
           /\ Len(w) \in Nat /\ Append(w, c)[Len(w) + 1] = c
           /\ \A j \in 1 .. Len(w) : Append(w, c)[j] = w[j]
  BY LenProperties, AppendProperties

\* A word with letters is one letter more than another.
LEMMA Shorter ==
    ASSUME NEW w \in Seq(Letters), w # <<>>
    PROVE  \E x \in Seq(Letters), a \in Letters : w = Append(x, a)
<1>1. Len(w) \in Nat \ {0} /\ w[Len(w)] \in Letters
  BY LenProperties, EmptySeq, ElementOfSeq
<1>2. PICK n : n = Len(w)
  OBVIOUS
<1>3. PICK x : x = SubSeq(w, 1, n - 1)
  OBVIOUS
<1>4. x \in Seq(Letters) /\ Len(x) = n - 1 /\ \A j \in 1 .. n - 1 : x[j] = w[j]
  <2>1. 1 \in Int /\ n - 1 \in Int /\ \A j \in 1 .. n - 1 : w[j] \in Letters
    BY <1>1, <1>2, LenProperties, ElementOfSeq
  <2>2. /\ SubSeq(w, 1, n - 1) \in Seq(Letters)
        /\ Len(SubSeq(w, 1, n - 1)) = IF 1 <= n - 1 THEN (n - 1) - 1 + 1 ELSE 0
        /\ \A j \in 1 .. (n - 1) - 1 + 1 : SubSeq(w, 1, n - 1)[j] = w[1 + j - 1]
    BY <2>1, SubSeqProperties
  <2>. QED  BY <1>1, <1>2, <1>3, <2>2
<1>5. PICK a \in Letters : a = w[n]
  BY <1>1, <1>2
<1>6. PICK r : r = Append(x, a)
  OBVIOUS
<1>7. /\ r \in Seq(Letters) /\ Len(r) = (n - 1) + 1 /\ r[(n - 1) + 1] = a
      /\ \A j \in 1 .. n - 1 : r[j] = x[j]
  BY <1>4, <1>6, Longer
<1>8. ASSUME NEW j \in 1 .. n PROVE r[j] = w[j]
  <2>1. CASE j = n
    BY <1>1, <1>2, <1>5, <1>7, <2>1
  <2>2. CASE j # n
    <3>1. j \in 1 .. n - 1
      BY <1>1, <1>2, <2>2
    <3>. QED  BY <1>4, <1>7, <3>1
  <2>. QED  BY <2>1, <2>2
<1>9. r = w
  <2>1. Len(r) = n
    BY <1>1, <1>2, <1>7
  <2>. QED  BY <1>2, <1>7, <1>8, <2>1, SeqEqual
<1>. QED  BY <1>4, <1>6, <1>9

\* The edits at the end of a word, and an edit before the end.
LEMMA EditsOnTheRight ==
    ASSUME NEW w \in Seq(Letters), NEW v \in Seq(Letters), NEW c \in Letters, NEW d \in Letters
    PROVE  /\ Append(w, c) \in Edits(w) /\ w \in Edits(Append(w, c))
           /\ Append(w, d) \in Edits(Append(w, c))
           /\ v \in Edits(w) => Append(v, c) \in Edits(Append(w, c))
<1>1. PICK n, p, q : n = Len(w) /\ p = Append(w, c) /\ q = Append(w, d)
  OBVIOUS
<1>2. /\ n \in Nat /\ p \in Seq(Letters) /\ Len(p) = n + 1 /\ q \in Seq(Letters)
      /\ Len(q) = n + 1
      /\ \A j \in 1 .. n : p[j] = w[j] /\ q[j] = w[j]
  BY <1>1, Longer
<1>3. Leaves(p, w, n + 1)
  <2>1. n + 1 \in 1 .. n + 1 /\ \A j \in 1 .. n : j < n + 1
    BY <1>2
  <2>. QED  BY <1>1, <1>2, <2>1 DEF Leaves
<1>4. Differs(p, q, n + 1)
  <2>1. n + 1 \in 1 .. n + 1 /\ \A j \in 1 .. n + 1 : j # n + 1 => j \in 1 .. n
    BY <1>2
  <2>. QED  BY <1>2, <2>1 DEF Differs
<1>5. n + 1 \in Nat
  BY <1>2
<1>6. OneEdit(w, p) /\ OneEdit(p, w) /\ OneEdit(p, q)
  BY <1>3, <1>4, <1>5 DEF OneEdit
<1>7. p \in Edits(w) /\ w \in Edits(p) /\ q \in Edits(p)
  BY <1>2, <1>6, EditsAre
<1>8. ASSUME v \in Edits(w) PROVE Append(v, c) \in Edits(p)
  <2>1. PICK i \in Nat : Leaves(w, v, i) \/ Leaves(v, w, i) \/ Differs(w, v, i)
    BY <1>8, EditsAre DEF OneEdit
  <2>2. PICK m, r : m = Len(v) /\ r = Append(v, c)
    OBVIOUS
  <2>3. /\ m \in Nat /\ r \in Seq(Letters) /\ Len(r) = m + 1 /\ r[m + 1] = c
        /\ \A j \in 1 .. m : r[j] = v[j]
    BY <2>2, Longer
  <2>4. p[n + 1] = c
    BY <1>1, Longer
  <2>5. CASE Leaves(w, v, i)
    <3>1. /\ i \in 1 .. n /\ n = m + 1
          /\ \A j \in 1 .. m : v[j] = IF j < i THEN w[j] ELSE w[j + 1]
      BY <1>1, <2>2, <2>5 DEF Leaves
    <3>2. ASSUME NEW j \in 1 .. m + 1 PROVE r[j] = IF j < i THEN p[j] ELSE p[j + 1]
      <4>1. CASE j = m + 1
        <5>1. ~(j < i) /\ j + 1 = n + 1
          BY <1>2, <2>3, <3>1, <4>1
        <5>. QED  BY <2>3, <2>4, <4>1, <5>1
      <4>2. CASE j # m + 1
        <5>1. j \in 1 .. m /\ j \in 1 .. n /\ j + 1 \in 1 .. n
          BY <1>2, <2>3, <3>1, <4>2
        <5>. QED  BY <1>2, <2>3, <3>1, <5>1
      <4>. QED  BY <4>1, <4>2
    <3>3. Leaves(p, r, i)
      <4>1. i \in 1 .. n + 1 /\ n + 1 = (m + 1) + 1
        BY <1>2, <2>3, <3>1
      <4>. QED  BY <1>2, <2>3, <3>2, <4>1 DEF Leaves
    <3>. QED  BY <1>2, <2>2, <2>3, <3>3, EditsAre DEF OneEdit
  <2>6. CASE Leaves(v, w, i)
    <3>1. /\ i \in 1 .. m /\ m = n + 1
          /\ \A j \in 1 .. n : w[j] = IF j < i THEN v[j] ELSE v[j + 1]
      BY <1>1, <2>2, <2>6 DEF Leaves
    <3>2. ASSUME NEW j \in 1 .. n + 1 PROVE p[j] = IF j < i THEN r[j] ELSE r[j + 1]
      <4>1. CASE j = n + 1
        <5>1. ~(j < i) /\ j + 1 = m + 1
          BY <1>2, <2>3, <3>1, <4>1
        <5>. QED  BY <2>3, <2>4, <4>1, <5>1
      <4>2. CASE j # n + 1
        <5>1. j \in 1 .. n /\ j \in 1 .. m /\ j + 1 \in 1 .. m
          BY <1>2, <2>3, <3>1, <4>2
        <5>. QED  BY <1>2, <2>3, <3>1, <5>1
      <4>. QED  BY <4>1, <4>2
    <3>3. Leaves(r, p, i)
      <4>1. i \in 1 .. m + 1 /\ m + 1 = (n + 1) + 1
        BY <1>2, <2>3, <3>1
      <4>. QED  BY <1>2, <2>3, <3>2, <4>1 DEF Leaves
    <3>. QED  BY <1>2, <2>2, <2>3, <3>3, EditsAre DEF OneEdit
  <2>7. CASE Differs(w, v, i)
    <3>1. i \in 1 .. n /\ m = n /\ \A j \in 1 .. n : j # i => v[j] = w[j]
      BY <1>1, <2>2, <2>7 DEF Differs
    <3>2. ASSUME NEW j \in 1 .. n + 1, j # i PROVE r[j] = p[j]
      <4>1. CASE j = n + 1
        BY <2>3, <2>4, <3>1, <4>1
      <4>2. CASE j # n + 1
        <5>1. j \in 1 .. n
          BY <1>2, <4>2
        <5>. QED  BY <1>2, <2>3, <3>1, <3>2, <5>1
      <4>. QED  BY <4>1, <4>2
    <3>3. Differs(p, r, i)
      <4>1. i \in 1 .. n + 1 /\ Len(r) = Len(p)
        BY <1>2, <2>3, <3>1
      <4>. QED  BY <1>2, <3>2, <4>1 DEF Differs
    <3>. QED  BY <1>2, <2>2, <2>3, <3>3, EditsAre DEF OneEdit
  <2>. QED  BY <2>1, <2>5, <2>6, <2>7
<1>. QED  BY <1>1, <1>7, <1>8

\* An edit changes the length by one at most.
LEMMA EditLength ==
    ASSUME NEW w \in Seq(Letters), NEW v \in Edits(w)
    PROVE  /\ v \in Seq(Letters) /\ Len(v) \in Nat /\ Len(w) \in Nat
           /\ Len(v) <= Len(w) + 1 /\ Len(w) <= Len(v) + 1
<1>1. v \in Seq(Letters) /\ OneEdit(w, v)
  BY EditsAre
<1>2. Len(v) \in Nat /\ Len(w) \in Nat
  BY <1>1, LenProperties
<1>3. Len(w) = Len(v) + 1 \/ Len(v) = Len(w) + 1 \/ Len(v) = Len(w)
  BY <1>1 DEF OneEdit, Leaves, Differs
<1>. QED  BY <1>1, <1>2, <1>3

\* What an edit may have been that led to a word with the last letter c.
LEMMA EditsFromTheRight ==
    ASSUME NEW w \in Seq(Letters), NEW v \in Seq(Letters), NEW c \in Letters,
           Append(v, c) \in Edits(w)
    PROVE  \/ w = v
           \/ \E b \in Letters : w = Append(v, b)
           \/ \E b \in Letters : w = Append(Append(v, c), b)
           \/ \E x \in Seq(Letters) : w = Append(x, c) /\ v \in Edits(x)
<1>1. PICK r, n, m : r = Append(v, c) /\ n = Len(w) /\ m = Len(v)
  OBVIOUS
<1>2. /\ n \in Nat /\ m \in Nat /\ r \in Seq(Letters) /\ Len(r) = m + 1 /\ r[m + 1] = c
      /\ \A j \in 1 .. m : r[j] = v[j]
  BY <1>1, Longer, LenProperties
<1>3. \A j \in 1 .. n : w[j] \in Letters
  BY <1>1, ElementOfSeq
<1>4. PICK i \in Nat : Leaves(w, r, i) \/ Leaves(r, w, i) \/ Differs(w, r, i)
  BY <1>1, EditsAre DEF OneEdit
<1>5. ASSUME n # 0
      PROVE  /\ w[n] \in Letters
             /\ \E x \in Seq(Letters) :
                  /\ w = Append(x, w[n]) /\ Len(x) = n - 1 /\ n - 1 \in Nat
                  /\ \A j \in 1 .. n - 1 : x[j] = w[j]
  <2>1. w # <<>>
    BY <1>1, <1>5, EmptySeq
  <2>2. PICK x \in Seq(Letters), b \in Letters : w = Append(x, b)
    BY <2>1, Shorter
  <2>3. /\ Len(w) = Len(x) + 1 /\ Len(x) \in Nat /\ w[Len(x) + 1] = b
        /\ \A j \in 1 .. Len(x) : w[j] = x[j]
    BY <2>2, Longer
  <2>4. Len(x) = n - 1 /\ Len(x) + 1 = n
    BY <1>1, <1>2, <2>3
  <2>. QED  BY <2>2, <2>3, <2>4
<1>6. CASE Leaves(w, r, i)
  <2>1. /\ i \in 1 .. n /\ n = (m + 1) + 1
        /\ \A j \in 1 .. m + 1 : r[j] = IF j < i THEN w[j] ELSE w[j + 1]
    BY <1>1, <1>2, <1>6 DEF Leaves
  <2>2. PICK x \in Seq(Letters) :
          /\ w[n] \in Letters /\ w = Append(x, w[n]) /\ Len(x) = n - 1 /\ n - 1 \in Nat
          /\ \A j \in 1 .. n - 1 : x[j] = w[j]
    BY <1>2, <1>5, <2>1
  <2>3. CASE i = n
    <3>1. \A j \in 1 .. m + 1 : j < i /\ j \in 1 .. n - 1
      BY <1>2, <2>1, <2>3
    <3>2. Len(x) = Len(r) /\ \A j \in 1 .. Len(x) : x[j] = r[j]
      <4>1. Len(x) = m + 1 /\ \A j \in 1 .. m + 1 : x[j] = w[j]
        BY <1>2, <2>1, <2>2
      <4>2. \A j \in 1 .. m + 1 : r[j] = w[j]
        BY <2>1, <3>1
      <4>. QED  BY <1>2, <4>1, <4>2
    <3>3. x = r
      BY <1>2, <3>2, SeqEqual
    <3>. QED  BY <1>1, <2>2, <3>3
  <2>4. CASE i # n
    <3>1. w[n] = c
      <4>1. m + 1 \in 1 .. m + 1 /\ ~(m + 1 < i)
        BY <1>2, <2>1, <2>4
      <4>. QED  BY <1>2, <2>1, <4>1
    <3>2. \A j \in 1 .. m : v[j] = IF j < i THEN x[j] ELSE x[j + 1]
      <4>. SUFFICES ASSUME NEW j \in 1 .. m PROVE v[j] = IF j < i THEN x[j] ELSE x[j + 1]
        OBVIOUS
      <4>1. j \in 1 .. m + 1 /\ j \in 1 .. n - 1 /\ j + 1 \in 1 .. n - 1
        BY <1>2, <2>1
      <4>. QED  BY <1>2, <2>1, <2>2, <4>1
    <3>3. Leaves(x, v, i)
      <4>1. i \in 1 .. n - 1 /\ n - 1 = m + 1
        BY <1>2, <2>1, <2>4
      <4>. QED  BY <1>1, <2>2, <3>2, <4>1 DEF Leaves
    <3>4. v \in Edits(x)
      BY <2>2, <3>3, EditsAre DEF OneEdit
    <3>. QED  BY <2>2, <3>1, <3>4
  <2>. QED  BY <2>3, <2>4
<1>7. CASE Leaves(r, w, i)
  <2>1. /\ i \in 1 .. m + 1 /\ n = m
        /\ \A j \in 1 .. n : w[j] = IF j < i THEN r[j] ELSE r[j + 1]
    <3>1. /\ i \in 1 .. m + 1 /\ m + 1 = n + 1
          /\ \A j \in 1 .. n : w[j] = IF j < i THEN r[j] ELSE r[j + 1]
      BY <1>1, <1>2, <1>7 DEF Leaves
    <3>. QED  BY <1>2, <3>1
  <2>2. CASE i = m + 1
    <3>1. \A j \in 1 .. n : j < i /\ j \in 1 .. m
      BY <1>2, <2>1, <2>2
    <3>2. Len(w) = Len(v) /\ \A j \in 1 .. Len(w) : w[j] = v[j]
      BY <1>1, <1>2, <2>1, <3>1
    <3>3. w = v
      BY <3>2, SeqEqual
    <3>. QED  BY <3>3
  <2>3. CASE i # m + 1
    <3>1. n # 0 /\ i \in 1 .. m
      BY <1>2, <2>1, <2>3
    <3>2. PICK x \in Seq(Letters) :
            /\ w[n] \in Letters /\ w = Append(x, w[n]) /\ Len(x) = n - 1 /\ n - 1 \in Nat
            /\ \A j \in 1 .. n - 1 : x[j] = w[j]
      BY <1>5, <3>1
    <3>3. w[n] = c
      <4>1. n \in 1 .. n /\ ~(n < i) /\ n + 1 = m + 1
        BY <1>2, <2>1, <3>1
      <4>. QED  BY <1>2, <2>1, <4>1
    <3>4. \A j \in 1 .. n - 1 : x[j] = IF j < i THEN v[j] ELSE v[j + 1]
      <4>. SUFFICES ASSUME NEW j \in 1 .. n - 1 PROVE x[j] = IF j < i THEN v[j] ELSE v[j + 1]
        OBVIOUS
      <4>1. j \in 1 .. n /\ j \in 1 .. m /\ j + 1 \in 1 .. m
        BY <1>2, <2>1
      <4>. QED  BY <1>2, <2>1, <3>2, <4>1
    <3>5. Leaves(v, x, i)
      <4>1. m = (n - 1) + 1
        BY <1>2, <2>1
      <4>. QED  BY <1>1, <3>1, <3>2, <3>4, <4>1 DEF Leaves
    <3>6. v \in Edits(x)
      BY <3>2, <3>5, EditsAre DEF OneEdit
    <3>. QED  BY <3>2, <3>3, <3>6
  <2>. QED  BY <2>2, <2>3
<1>8. CASE Differs(w, r, i)
  <2>1. /\ i \in 1 .. n /\ n = m + 1 /\ n # 0
        /\ \A j \in 1 .. n : j # i => r[j] = w[j]
    BY <1>1, <1>2, <1>8 DEF Differs
  <2>2. PICK x \in Seq(Letters) :
          /\ w[n] \in Letters /\ w = Append(x, w[n]) /\ Len(x) = n - 1 /\ n - 1 \in Nat
          /\ \A j \in 1 .. n - 1 : x[j] = w[j]
    BY <1>5, <2>1
  <2>3. n - 1 = m
    BY <1>2, <2>1
  <2>4. CASE i = n
    <3>1. \A j \in 1 .. m : j # i /\ j \in 1 .. n
      BY <1>2, <2>1, <2>4
    <3>2. Len(x) = Len(v) /\ \A j \in 1 .. Len(x) : x[j] = v[j]
      BY <1>1, <1>2, <2>1, <2>2, <2>3, <3>1
    <3>3. x = v
      BY <3>2, SeqEqual
    <3>. QED  BY <2>2, <3>3
  <2>5. CASE i # n
    <3>1. w[n] = c
      <4>1. n \in 1 .. n
        BY <1>2, <2>1
      <4>. QED  BY <1>2, <2>1, <2>5, <4>1
    <3>2. Differs(x, v, i)
      <4>1. i \in 1 .. m /\ \A j \in 1 .. m : j \in 1 .. n
        BY <1>2, <2>1, <2>5
      <4>2. \A j \in 1 .. m : j # i => v[j] = x[j]
        BY <1>2, <2>1, <2>2, <2>3, <4>1
      <4>. QED  BY <1>1, <2>2, <2>3, <4>1, <4>2 DEF Differs
    <3>3. v \in Edits(x)
      BY <2>2, <3>2, EditsAre DEF OneEdit
    <3>. QED  BY <2>2, <3>1, <3>3
  <2>. QED  BY <2>4, <2>5
<1>. QED  BY <1>4, <1>6, <1>7, <1>8

-----------------------------------------------------------------------------
\* The words within no edit, one and two.
LEMMA WithinIs ==
    ASSUME NEW w \in Seq(Letters)
    PROVE  /\ \A v : v \in Within(w, 0) <=> v = w
           /\ \A k \in 0 .. 1 : \A v : v \in Within(w, k + 1) <=>
                 v \in Within(w, k) \/ \E u \in Within(w, k) : v \in Edits(u)
<1>1. Within(w, 0) = {w}
  BY DEF Within
<1>2. Within(w, 1) = OneMore({w})
  BY DEF Within
<1>3. Within(w, 2) = OneMore(OneMore({w}))
  BY DEF Within
<1>4. \A S : \A v : v \in OneMore(S) <=> v \in S \/ \E u \in S : v \in Edits(u)
  BY DEF OneMore
<1>5. ASSUME NEW k \in 0 .. 1 PROVE Within(w, k + 1) = OneMore(Within(w, k))
  <2>1. CASE k = 0
    <3>1. k + 1 = 1
      BY <2>1
    <3>. QED  BY <1>1, <1>2, <2>1, <3>1
  <2>2. CASE k = 1
    <3>1. k + 1 = 2
      BY <2>2
    <3>. QED  BY <1>2, <1>3, <2>2, <3>1
  <2>. QED  BY <2>1, <2>2
<1>. QED  BY <1>1, <1>4, <1>5

\* They are words, and more edits lead to more of them.
LEMMA WithinGrows ==
    ASSUME NEW w \in Seq(Letters)
    PROVE  /\ \A k \in 0 .. 2 : Within(w, k) \subseteq Seq(Letters)
           /\ \A k \in 0 .. 1 : Within(w, k) \subseteq Within(w, k + 1)
           /\ \A k \in 0 .. 1 : \A u \in Within(w, k) : Edits(u) \subseteq Within(w, k + 1)
<1>1. \A k \in 0 .. 1 : \A v : v \in Within(w, k + 1) <=>
         v \in Within(w, k) \/ \E u \in Within(w, k) : v \in Edits(u)
  BY WithinIs
<1>2. \A u \in Seq(Letters) : \A v \in Edits(u) : v \in Seq(Letters)
  BY EditsAre
<1>3. Within(w, 0) \subseteq Seq(Letters)
  BY WithinIs
<1>4. Within(w, 0 + 1) \subseteq Seq(Letters)
  <2>1. 0 \in 0 .. 1
    OBVIOUS
  <2>. QED  BY <1>1, <1>2, <1>3, <2>1
<1>5. Within(w, 1 + 1) \subseteq Seq(Letters)
  <2>1. 1 \in 0 .. 1 /\ 0 + 1 = 1
    OBVIOUS
  <2>. QED  BY <1>1, <1>2, <1>4, <2>1
<1>6. \A k \in 0 .. 2 : k = 0 \/ k = 0 + 1 \/ k = 1 + 1
  OBVIOUS
<1>. QED  BY <1>1, <1>3, <1>4, <1>5, <1>6

\* Edits of what comes before a common last letter.
LEMMA WithinBeforeTheEnd ==
    ASSUME NEW x \in Seq(Letters), NEW c \in Letters
    PROVE  \A k \in 0 .. 2 : \A y \in Within(x, k) : Append(y, c) \in Within(Append(x, c), k)
<1>1. PICK u : u = Append(x, c) /\ u \in Seq(Letters)
  BY Longer
<1>2. \A y \in Within(x, 0) : Append(y, c) \in Within(u, 0)
  BY <1>1, WithinIs
<1>3. ASSUME NEW k \in 0 .. 1, \A y \in Within(x, k) : Append(y, c) \in Within(u, k)
      PROVE  \A y \in Within(x, k + 1) : Append(y, c) \in Within(u, k + 1)
  <2>. SUFFICES ASSUME NEW y \in Within(x, k + 1) PROVE Append(y, c) \in Within(u, k + 1)
    OBVIOUS
  <2>1. CASE y \in Within(x, k)
    BY <1>1, <1>3, <2>1, WithinGrows
  <2>2. CASE \E z \in Within(x, k) : y \in Edits(z)
    <3>1. PICK z \in Within(x, k) : y \in Edits(z)
      BY <2>2
    <3>2. z \in Seq(Letters)
      BY WithinGrows
    <3>3. y \in Seq(Letters)
      BY <3>1, <3>2, EditsAre
    <3>4. Append(y, c) \in Edits(Append(z, c))
      BY <3>1, <3>2, <3>3, EditsOnTheRight
    <3>5. Append(z, c) \in Within(u, k)
      BY <1>3
    <3>. QED  BY <1>1, <3>4, <3>5, WithinGrows
  <2>. QED  BY <2>1, <2>2, WithinIs
<1>4. \A y \in Within(x, 0 + 1) : Append(y, c) \in Within(u, 0 + 1)
  BY <1>2, <1>3
<1>5. \A y \in Within(x, 1 + 1) : Append(y, c) \in Within(u, 1 + 1)
  <2>1. 1 \in 0 .. 1 /\ 0 + 1 = 1
    OBVIOUS
  <2>. QED  BY <1>3, <1>4, <2>1
<1>6. \A k \in 0 .. 2 : k = 0 \/ k = 0 + 1 \/ k = 1 + 1
  OBVIOUS
<1>. QED  BY <1>1, <1>2, <1>4, <1>5, <1>6

\* The last letter left out first, and then the edits of the rest.
LEMMA WithinTheRest ==
    ASSUME NEW x \in Seq(Letters), NEW a \in Letters
    PROVE  \A k \in 0 .. 1 : Within(x, k) \subseteq Within(Append(x, a), k + 1)
<1>1. PICK u : u = Append(x, a) /\ u \in Seq(Letters)
  BY Longer
<1>2. x \in Edits(u)
  BY <1>1, EditsOnTheRight
<1>3. x \in Within(u, 0 + 1)
  <2>1. 0 \in 0 .. 1
    OBVIOUS
  <2>2. u \in Within(u, 0)
    BY <1>1, WithinIs
  <2>. QED  BY <1>1, <1>2, <2>1, <2>2, WithinGrows
<1>4. Within(x, 0) \subseteq Within(u, 0 + 1)
  BY <1>3, WithinIs
<1>5. Within(x, 1) \subseteq Within(u, 1 + 1)
  <2>. SUFFICES ASSUME NEW v \in Within(x, 0 + 1) PROVE v \in Within(u, 1 + 1)
    OBVIOUS
  <2>1. v \in Within(x, 0) \/ \E z \in Within(x, 0) : v \in Edits(z)
    BY WithinIs
  <2>2. v = x \/ v \in Edits(x)
    BY <2>1, WithinIs
  <2>3. 1 \in 0 .. 1 /\ 0 + 1 = 1
    OBVIOUS
  <2>. QED  BY <1>1, <1>3, <2>2, <2>3, WithinGrows
<1>. QED  BY <1>1, <1>4, <1>5

\* So what the table computes leads from word to word ...
LEMMA WithinFromParts ==
    ASSUME NEW x \in Seq(Letters), NEW y \in Seq(Letters), NEW a \in Letters, NEW b \in Letters
    PROVE  /\ a = b => \A k \in 0 .. 2 : y \in Within(x, k) =>
                          Append(y, b) \in Within(Append(x, a), k)
           /\ \A k \in 0 .. 1 :
                (\/ y \in Within(Append(x, a), k)
                 \/ Append(y, b) \in Within(x, k)
                 \/ y \in Within(x, k)) => Append(y, b) \in Within(Append(x, a), k + 1)
<1>1. PICK u, v : u = Append(x, a) /\ v = Append(y, b) /\ u \in Seq(Letters) /\ v \in Seq(Letters)
  BY Longer
<1>2. a = b => \A k \in 0 .. 2 : y \in Within(x, k) => v \in Within(u, k)
  BY <1>1, WithinBeforeTheEnd
<1>3. ASSUME NEW k \in 0 .. 1, y \in Within(u, k) PROVE v \in Within(u, k + 1)
  BY <1>1, <1>3, EditsOnTheRight, WithinGrows
<1>4. ASSUME NEW k \in 0 .. 1, v \in Within(x, k) PROVE v \in Within(u, k + 1)
  BY <1>1, <1>4, WithinTheRest
<1>5. ASSUME NEW k \in 0 .. 1, y \in Within(x, k) PROVE v \in Within(u, k + 1)
  <2>1. k \in 0 .. 2
    OBVIOUS
  <2>2. Append(y, a) \in Within(u, k)
    BY <1>1, <1>5, <2>1, WithinBeforeTheEnd
  <2>3. v \in Edits(Append(y, a))
    BY <1>1, EditsOnTheRight
  <2>. QED  BY <1>1, <2>2, <2>3, WithinGrows
<1>. QED  BY <1>1, <1>2, <1>3, <1>4, <1>5

\* ... and nothing else does: the last edits can always be put off.
Parts(x, a, y, b, k) ==
    \/ a = b /\ y \in Within(x, k)
    \/ k # 0 /\ \/ y \in Within(Append(x, a), k - 1)
                \/ Append(y, b) \in Within(x, k - 1)
                \/ y \in Within(x, k - 1)

\* An edit more can only help.
LEMMA PartsGrow ==
    ASSUME NEW x \in Seq(Letters), NEW a \in Letters, NEW y \in Seq(Letters), NEW b \in Letters,
           NEW k \in 0 .. 1, Parts(x, a, y, b, k)
    PROVE  Parts(x, a, y, b, k + 1)
<1>1. PICK u, v : u = Append(x, a) /\ v = Append(y, b) /\ u \in Seq(Letters)
  BY Longer
<1>2. k + 1 # 0 /\ (k + 1) - 1 = k
  OBVIOUS
<1>3. Within(x, k) \subseteq Within(x, k + 1)
  BY WithinGrows
<1>4. CASE a = b /\ y \in Within(x, k)
  BY <1>3, <1>4 DEF Parts
<1>5. CASE k # 0 /\ (y \in Within(u, k - 1) \/ v \in Within(x, k - 1) \/ y \in Within(x, k - 1))
  <2>1. k - 1 \in 0 .. 1 /\ (k - 1) + 1 = k
    BY <1>5
  <2>2. Within(u, k - 1) \subseteq Within(u, k) /\ Within(x, k - 1) \subseteq Within(x, k)
    BY <1>1, <2>1, WithinGrows
  <2>3. y \in Within(u, k) \/ v \in Within(x, k) \/ y \in Within(x, k)
    BY <1>5, <2>2
  <2>. QED  BY <1>1, <1>2, <2>3 DEF Parts
<1>. QED  BY <1>1, <1>4, <1>5 DEF Parts

\* A name within k edits of a word is so by its last letter, or by the rest.
LEMMA WithinToParts ==
    ASSUME NEW x \in Seq(Letters), NEW a \in Letters
    PROVE  \A k \in 0 .. 2 : \A y \in Seq(Letters), b \in Letters :
              Append(y, b) \in Within(Append(x, a), k) => Parts(x, a, y, b, k)
<1>1. PICK u : u = Append(x, a) /\ u \in Seq(Letters)
  BY Longer
<1>. DEFINE Splits(k) ==
       \A y \in Seq(Letters), b \in Letters : Append(y, b) \in Within(u, k) => Parts(x, a, y, b, k)
<1>2. Splits(0)
  <2>. SUFFICES ASSUME NEW y \in Seq(Letters), NEW b \in Letters, Append(y, b) \in Within(u, 0)
                PROVE  Parts(x, a, y, b, 0)
    OBVIOUS
  <2>1. Append(y, b) = Append(x, a)
    BY <1>1, WithinIs
  <2>2. y = x /\ b = a
    BY <2>1, AppendProperties
  <2>. QED  BY <2>2, WithinIs DEF Parts
<1>3. ASSUME NEW k \in 0 .. 1, Splits(k), k # 0 => Splits(k - 1) PROVE Splits(k + 1)
  <2>. SUFFICES ASSUME NEW y \in Seq(Letters), NEW b \in Letters, Append(y, b) \in Within(u, k + 1)
                PROVE  Parts(x, a, y, b, k + 1)
    OBVIOUS
  <2>1. PICK v : v = Append(y, b) /\ v \in Seq(Letters)
    BY Longer
  <2>2. k + 1 # 0 /\ (k + 1) - 1 = k
    OBVIOUS
  <2>3. /\ \A z \in Within(x, k) : Edits(z) \subseteq Within(x, k + 1)
        /\ k # 0 => \A z \in Within(x, k - 1) : Edits(z) \subseteq Within(x, k)
        /\ k # 0 => \A z \in Within(u, k - 1) : Edits(z) \subseteq Within(u, k)
        /\ k # 0 => Within(x, k - 1) \subseteq Within(x, k) /\ Within(u, k - 1) \subseteq Within(u, k)
    <3>1. \A z \in Within(x, k) : Edits(z) \subseteq Within(x, k + 1)
      BY WithinGrows
    <3>2. ASSUME k # 0
          PROVE  /\ \A z \in Within(x, k - 1) : Edits(z) \subseteq Within(x, k)
                 /\ \A z \in Within(u, k - 1) : Edits(z) \subseteq Within(u, k)
                 /\ Within(x, k - 1) \subseteq Within(x, k) /\ Within(u, k - 1) \subseteq Within(u, k)
      <4>1. k - 1 \in 0 .. 1 /\ (k - 1) + 1 = k
        BY <3>2
      <4>2. /\ \A z \in Within(x, k - 1) : Edits(z) \subseteq Within(x, (k - 1) + 1)
            /\ \A z \in Within(u, k - 1) : Edits(z) \subseteq Within(u, (k - 1) + 1)
            /\ Within(x, k - 1) \subseteq Within(x, (k - 1) + 1)
            /\ Within(u, k - 1) \subseteq Within(u, (k - 1) + 1)
        BY <1>1, <4>1, WithinGrows
      <4>. QED  BY <4>1, <4>2
    <3>. QED  BY <3>1, <3>2
  \* It is enough to find one of the parts.
  <2>4. (\/ y \in Within(u, k) \/ v \in Within(x, k) \/ y \in Within(x, k)
         \/ a = b /\ y \in Within(x, k + 1)) => Parts(x, a, y, b, k + 1)
    BY <1>1, <2>1, <2>2 DEF Parts
  <2>5. CASE v \in Within(u, k)
    <3>1. Parts(x, a, y, b, k)
      BY <1>3, <2>1, <2>5
    <3>. QED  BY <3>1, PartsGrow
  <2>6. CASE \E w \in Within(u, k) : v \in Edits(w)
    <3>1. PICK w \in Within(u, k) : v \in Edits(w)
      BY <2>6
    <3>2. w \in Seq(Letters)
      <4>1. k \in 0 .. 2
        OBVIOUS
      <4>. QED  BY <1>1, <3>1, <4>1, WithinGrows
    <3>3. \/ w = y
          \/ \E c \in Letters : w = Append(y, c)
          \/ \E c \in Letters : w = Append(v, c)
          \/ \E z \in Seq(Letters) : w = Append(z, b) /\ y \in Edits(z)
      BY <2>1, <3>1, <3>2, EditsFromTheRight
    <3>4. CASE w = y
      BY <2>4, <3>1, <3>4
    <3>5. ASSUME NEW c \in Letters, w = Append(y, c) PROVE Parts(x, a, y, b, k + 1)
      <4>1. Parts(x, a, y, c, k)
        BY <1>3, <3>1, <3>5
      <4>2. \/ y \in Within(x, k)
            \/ k # 0 /\ (y \in Within(u, k - 1) \/ w \in Within(x, k - 1) \/ y \in Within(x, k - 1))
        BY <1>1, <3>5, <4>1 DEF Parts
      <4>3. y \in Within(x, k) \/ y \in Within(u, k) \/ v \in Within(x, k)
        BY <2>3, <3>1, <4>2
      <4>. QED  BY <2>4, <4>3
    <3>6. ASSUME NEW c \in Letters, w = Append(v, c) PROVE Parts(x, a, y, b, k + 1)
      <4>1. Parts(x, a, v, c, k)
        BY <1>3, <2>1, <3>1, <3>6
      <4>2. \/ v \in Within(x, k)
            \/ k # 0 /\ (v \in Within(u, k - 1) \/ w \in Within(x, k - 1) \/ v \in Within(x, k - 1))
        BY <1>1, <3>6, <4>1 DEF Parts
      <4>3. v \in Within(x, k) \/ (k # 0 /\ v \in Within(u, k - 1))
        BY <2>3, <3>1, <4>2
      <4>4. CASE k # 0 /\ v \in Within(u, k - 1)
        <5>1. k - 1 \in 0 .. 1 /\ (k - 1) + 1 = k
          BY <4>4
        <5>2. Parts(x, a, y, b, k - 1)
          BY <1>3, <2>1, <4>4
        <5>3. Parts(x, a, y, b, (k - 1) + 1)
          BY <5>1, <5>2, PartsGrow
        <5>4. Parts(x, a, y, b, k)
          BY <5>1, <5>3
        <5>. QED  BY <5>4, PartsGrow
      <4>. QED  BY <2>4, <4>3, <4>4
    <3>7. ASSUME NEW z \in Seq(Letters), w = Append(z, b), y \in Edits(z)
          PROVE  Parts(x, a, y, b, k + 1)
      <4>1. Parts(x, a, z, b, k)
        BY <1>3, <3>1, <3>7
      <4>2. \/ a = b /\ z \in Within(x, k)
            \/ k # 0 /\ (z \in Within(u, k - 1) \/ w \in Within(x, k - 1) \/ z \in Within(x, k - 1))
        BY <1>1, <3>7, <4>1 DEF Parts
      <4>3. \/ a = b /\ y \in Within(x, k + 1)
            \/ y \in Within(u, k) \/ v \in Within(x, k) \/ y \in Within(x, k)
        BY <2>3, <3>1, <3>7, <4>2
      <4>. QED  BY <2>4, <4>3
    <3>. QED  BY <3>3, <3>4, <3>5, <3>6, <3>7
  <2>7. v \in Within(u, k) \/ \E w \in Within(u, k) : v \in Edits(w)
    <3>1. \A j \in 0 .. 1 : \A z : z \in Within(u, j + 1) <=>
             z \in Within(u, j) \/ \E w \in Within(u, j) : z \in Edits(w)
      BY <1>1, WithinIs
    <3>2. v \in Within(u, k + 1)
      BY <2>1
    <3>. QED  BY <3>1, <3>2
  <2>. QED  BY <2>5, <2>6, <2>7
<1>. HIDE DEF Splits
<1>4. Splits(0 + 1)
  <2>1. 0 \in 0 .. 1
    OBVIOUS
  <2>. QED  BY <1>2, <1>3, <2>1
<1>5. Splits(1 + 1)
  <2>1. 1 \in 0 .. 1 /\ 0 + 1 = 1 /\ 1 - 1 = 0
    OBVIOUS
  <2>. QED  BY <1>2, <1>3, <1>4, <2>1
<1>6. \A k \in 0 .. 2 : k = 0 \/ k = 0 + 1 \/ k = 1 + 1
  OBVIOUS
<1>7. \A k \in 0 .. 2 : Splits(k)
  BY <1>2, <1>4, <1>5, <1>6
<1>. QED  BY <1>1, <1>7 DEF Splits

-----------------------------------------------------------------------------
\* Each edit changes the length by one at most.
LEMMA WithinLength ==
    ASSUME NEW w \in Seq(Letters)
    PROVE  \A k \in 0 .. 2 : \A v \in Within(w, k) :
              Len(v) <= Len(w) + k /\ Len(w) <= Len(v) + k
<1>. DEFINE Close(k) == \A v \in Within(w, k) : Len(v) <= Len(w) + k /\ Len(w) <= Len(v) + k
<1>1. Len(w) \in Nat
  BY LenProperties
<1>2. Close(0)
  BY <1>1, WithinIs
<1>3. ASSUME NEW k \in 0 .. 1, Close(k) PROVE Close(k + 1)
  <2>. SUFFICES ASSUME NEW v \in Within(w, k + 1)
                PROVE  Len(v) <= Len(w) + (k + 1) /\ Len(w) <= Len(v) + (k + 1)
    OBVIOUS
  <2>0. \A j \in 0 .. 2 : Within(w, j) \subseteq Seq(Letters)
    BY WithinGrows
  <2>1. v \in Seq(Letters) /\ Len(v) \in Nat
    <3>1. k + 1 \in 0 .. 2
      OBVIOUS
    <3>2. v \in Seq(Letters)
      BY <2>0, <3>1
    <3>. QED  BY <3>2, LenProperties
  <2>2. CASE v \in Within(w, k)
    <3>1. Len(v) <= Len(w) + k /\ Len(w) <= Len(v) + k
      BY <1>3, <2>2
    <3>. QED  BY <1>1, <2>1, <3>1
  <2>3. CASE \E u \in Within(w, k) : v \in Edits(u)
    <3>1. PICK u \in Within(w, k) : v \in Edits(u)
      BY <2>3
    <3>2. Len(u) <= Len(w) + k /\ Len(w) <= Len(u) + k
      BY <1>3
    <3>3. u \in Seq(Letters)
      <4>1. k \in 0 .. 2
        OBVIOUS
      <4>. QED  BY <2>0, <4>1
    <3>4. Len(u) \in Nat /\ Len(v) <= Len(u) + 1 /\ Len(u) <= Len(v) + 1
      BY <3>1, <3>3, EditLength
    <3>. QED  BY <1>1, <2>1, <3>2, <3>4
  <2>4. \A j \in 0 .. 1 : \A z : z \in Within(w, j + 1) <=>
           z \in Within(w, j) \/ \E u \in Within(w, j) : z \in Edits(u)
    BY WithinIs
  <2>. QED  BY <2>2, <2>3, <2>4
<1>. HIDE DEF Close
<1>4. Close(0 + 1)
  <2>1. 0 \in 0 .. 1
    OBVIOUS
  <2>. QED  BY <1>2, <1>3, <2>1
<1>5. Close(1 + 1)
  <2>1. 1 \in 0 .. 1 /\ 0 + 1 = 1
    OBVIOUS
  <2>. QED  BY <1>3, <1>4, <2>1
<1>6. \A k \in 0 .. 2 : k = 0 \/ k = 0 + 1 \/ k = 1 + 1
  OBVIOUS
<1>7. \A k \in 0 .. 2 : Close(k)
  BY <1>2, <1>4, <1>5, <1>6
<1>. QED  BY <1>7 DEF Close

\* From nothing to a word, and back, it is as many edits as it has letters.
LEMMA WithinOfNothing ==
    \A k \in 0 .. 2 : \A w \in Seq(Letters) :
       /\ w \in Within(<<>>, k) <=> Len(w) <= k
       /\ <<>> \in Within(w, k) <=> Len(w) <= k
<1>1. PICK e \in Seq(Letters) : e = <<>> /\ Len(e) = 0
  BY EmptySeq
<1>. DEFINE Reached(k) ==
       \A w \in Seq(Letters) : Len(w) <= k => w \in Within(e, k) /\ e \in Within(w, k)
<1>2. Reached(0)
  <2>. SUFFICES ASSUME NEW w \in Seq(Letters), Len(w) <= 0
                PROVE  w \in Within(e, 0) /\ e \in Within(w, 0)
    OBVIOUS
  <2>1. Len(w) = 0
    BY LenProperties
  <2>2. w = e
    BY <1>1, <2>1, EmptySeq
  <2>. QED  BY <2>2, WithinIs
<1>3. ASSUME NEW k \in 0 .. 1, Reached(k) PROVE Reached(k + 1)
  <2>. SUFFICES ASSUME NEW w \in Seq(Letters), Len(w) <= k + 1
                PROVE  w \in Within(e, k + 1) /\ e \in Within(w, k + 1)
    OBVIOUS
  <2>1. CASE w = e
    <3>0. e \in Seq(Letters) /\ Len(e) <= k
      BY <1>1
    <3>1. e \in Within(e, k)
      BY <1>3, <3>0
    <3>2. \A j \in 0 .. 1 : Within(e, j) \subseteq Within(e, j + 1)
      BY WithinGrows
    <3>. QED  BY <2>1, <3>1, <3>2
  <2>2. CASE w # e
    <3>1. PICK x \in Seq(Letters), a \in Letters : w = Append(x, a)
      BY <1>1, <2>2, Shorter
    <3>2. Len(x) <= k
      <4>1. Len(w) = Len(x) + 1 /\ Len(x) \in Nat
        BY <3>1, Longer
      <4>. QED  BY <4>1
    <3>3. x \in Within(e, k) /\ e \in Within(x, k)
      BY <1>3, <3>2
    <3>4. w \in Edits(x)
      BY <3>1, EditsOnTheRight
    <3>5. w \in Within(e, k + 1)
      BY <3>3, <3>4, WithinGrows
    <3>6. \A j \in 0 .. 1 : Within(x, j) \subseteq Within(w, j + 1)
      BY <3>1, WithinTheRest
    <3>. QED  BY <3>3, <3>5, <3>6
  <2>. QED  BY <2>1, <2>2
<1>. HIDE DEF Reached
<1>4. Reached(0 + 1)
  <2>1. 0 \in 0 .. 1
    OBVIOUS
  <2>. QED  BY <1>2, <1>3, <2>1
<1>5. Reached(1 + 1)
  <2>1. 1 \in 0 .. 1 /\ 0 + 1 = 1
    OBVIOUS
  <2>. QED  BY <1>3, <1>4, <2>1
<1>6. \A k \in 0 .. 2 : k = 0 \/ k = 0 + 1 \/ k = 1 + 1
  OBVIOUS
<1>7. \A k \in 0 .. 2 : Reached(k)
  BY <1>2, <1>4, <1>5, <1>6
<1>8. ASSUME NEW k \in 0 .. 2, NEW w \in Seq(Letters)
      PROVE  /\ w \in Within(e, k) => Len(w) <= k
             /\ e \in Within(w, k) => Len(w) <= k
  <2>1. Len(w) \in Nat
    BY LenProperties
  <2>2. w \in Within(e, k) => Len(w) <= Len(e) + k
    BY WithinLength
  <2>3. e \in Within(w, k) => Len(w) <= Len(e) + k
    BY WithinLength
  <2>. QED  BY <1>1, <2>1, <2>2, <2>3
<1>. QED  BY <1>1, <1>7, <1>8 DEF Reached

\* The cell c of the table tells how near v is to u, if it is near.
Cell(u, v, c) == c \in Nat /\ \A k \in 0 .. 2 : c <= k <=> v \in Within(u, k)

\* A cell from the cells above it, before it, and above that.
LEMMA CellStep ==
    ASSUME NEW x \in Seq(Letters), NEW y \in Seq(Letters), NEW a \in Letters, NEW b \in Letters,
           NEW above, NEW before, NEW corner,
           Cell(x, Append(y, b), above), Cell(Append(x, a), y, before), Cell(x, y, corner)
    PROVE  Cell(Append(x, a), Append(y, b),
                LeastOf(above + 1, before + 1, corner + IF a = b THEN 0 ELSE 1))
<1>1. PICK u, v : u = Append(x, a) /\ v = Append(y, b)
  OBVIOUS
<1>2. PICK cost : cost = (IF a = b THEN 0 ELSE 1) /\ cost \in 0 .. 1
  OBVIOUS
<1>3. above \in Nat /\ before \in Nat /\ corner \in Nat
  BY DEF Cell
<1>4. PICK c : c = LeastOf(above + 1, before + 1, corner + cost)
  OBVIOUS
<1>5. c \in Nat /\ \A k \in 0 .. 2 : c <= k <=> above + 1 <= k \/ before + 1 <= k \/ corner + cost <= k
  BY <1>2, <1>3, <1>4 DEF LeastOf
<1>6. ASSUME NEW k \in 0 .. 2 PROVE c <= k <=> v \in Within(u, k)
  <2>1. v \in Within(u, k) => Parts(x, a, y, b, k)
    BY <1>1, WithinToParts
  <2>2. CASE k = 0
    <3>1. c <= k <=> a = b /\ corner <= k
      BY <1>2, <1>3, <1>5, <2>2
    <3>2. corner <= k <=> y \in Within(x, k)
      BY DEF Cell
    <3>3. Parts(x, a, y, b, k) => a = b /\ y \in Within(x, k)
      BY <2>2 DEF Parts
    <3>4. a = b /\ y \in Within(x, k) => v \in Within(u, k)
      BY <1>1, WithinFromParts
    <3>. QED  BY <2>1, <3>1, <3>2, <3>3, <3>4
  <2>3. CASE k # 0
    <3>1. PICK j \in 0 .. 1 : j = k - 1 /\ j + 1 = k /\ j \in 0 .. 2
      BY <2>3
    <3>2. c <= k <=> above <= j \/ before <= j \/ corner <= j \/ (a = b /\ corner <= k)
      BY <1>2, <1>3, <1>5, <3>1
    <3>3. /\ above <= j <=> v \in Within(x, j)
          /\ before <= j <=> y \in Within(u, j)
          /\ corner <= j <=> y \in Within(x, j)
          /\ corner <= k <=> y \in Within(x, k)
      BY <1>1, <3>1 DEF Cell
    <3>4. Parts(x, a, y, b, k) =>
            \/ a = b /\ y \in Within(x, k)
            \/ y \in Within(u, j) \/ v \in Within(x, j) \/ y \in Within(x, j)
      BY <1>1, <3>1 DEF Parts
    <3>5. a = b /\ y \in Within(x, k) => v \in Within(u, k)
      BY <1>1, WithinFromParts
    <3>6. (y \in Within(u, j) \/ v \in Within(x, j) \/ y \in Within(x, j)) => v \in Within(u, k)
      BY <1>1, <3>1, WithinFromParts
    <3>. QED  BY <2>1, <3>2, <3>3, <3>4, <3>5, <3>6
  <2>. QED  BY <2>2, <2>3
<1>. QED  BY <1>1, <1>2, <1>4, <1>5, <1>6 DEF Cell

\* The first i letters of a word.
Start(w, i) == SubSeq(w, 1, i)

\* The starts of a word are its starts with one letter more, up to the word.
LEMMA Starts ==
    ASSUME NEW w \in Seq(Letters)
    PROVE  /\ Start(w, 0) = <<>> /\ Start(w, Len(w)) = w /\ Len(w) \in Nat
           /\ \A i \in 0 .. Len(w) : Start(w, i) \in Seq(Letters) /\ Len(Start(w, i)) = i
           /\ \A i \in 1 .. Len(w) :
                 w[i] \in Letters /\ Start(w, i) = Append(Start(w, i - 1), w[i])
<1>1. PICK n : n = Len(w) /\ n \in Nat
  BY LenProperties
<1>2. \A j \in 1 .. n : w[j] \in Letters
  BY <1>1, LenProperties, ElementOfSeq
<1>3. ASSUME NEW i \in 0 .. n
      PROVE  /\ Start(w, i) \in Seq(Letters) /\ Len(Start(w, i)) = i
             /\ \A j \in 1 .. i : Start(w, i)[j] = w[j]
  <2>1. 1 \in Int /\ i \in Int /\ \A j \in 1 .. i : w[j] \in Letters
    BY <1>1, <1>2
  <2>2. /\ SubSeq(w, 1, i) \in Seq(Letters)
        /\ Len(SubSeq(w, 1, i)) = IF 1 <= i THEN i - 1 + 1 ELSE 0
        /\ \A j \in 1 .. i - 1 + 1 : SubSeq(w, 1, i)[j] = w[1 + j - 1]
    BY <2>1, SubSeqProperties
  <2>3. PICK s : s = Start(w, i) /\ s = SubSeq(w, 1, i)
    BY DEF Start
  <2>. QED  BY <1>1, <2>2, <2>3
<1>4. Start(w, 0) = <<>>
  <2>1. 0 \in 0 .. n
    BY <1>1
  <2>. QED  BY <1>3, <2>1, EmptySeq
<1>5. Start(w, n) = w
  <2>1. n \in 0 .. n
    BY <1>1
  <2>2. PICK s : s = Start(w, n)
    OBVIOUS
  <2>3. s \in Seq(Letters) /\ Len(s) = n /\ \A j \in 1 .. n : s[j] = w[j]
    BY <1>3, <2>1, <2>2
  <2>4. s = w
    BY <1>1, <2>3, SeqEqual
  <2>. QED  BY <2>2, <2>4
<1>6. ASSUME NEW i \in 1 .. n PROVE Start(w, i) = Append(Start(w, i - 1), w[i])
  <2>1. i \in 0 .. n /\ i - 1 \in 0 .. n /\ (i - 1) + 1 = i
    BY <1>1
  <2>2. PICK s, t, a : s = Start(w, i) /\ t = Start(w, i - 1) /\ a = w[i] /\ a \in Letters
    BY <1>2
  <2>3. s \in Seq(Letters) /\ Len(s) = i /\ \A j \in 1 .. i : s[j] = w[j]
    BY <1>3, <2>1, <2>2
  <2>4. t \in Seq(Letters) /\ Len(t) = i - 1 /\ \A j \in 1 .. i - 1 : t[j] = w[j]
    BY <1>3, <2>1, <2>2
  <2>5. PICK r : r = Append(t, a)
    OBVIOUS
  <2>6. /\ r \in Seq(Letters) /\ Len(r) = (i - 1) + 1 /\ r[(i - 1) + 1] = a
        /\ \A j \in 1 .. i - 1 : r[j] = t[j]
    BY <2>2, <2>4, <2>5, Longer
  <2>7. ASSUME NEW j \in 1 .. i PROVE r[j] = s[j]
    <3>1. CASE j = i
      BY <2>1, <2>2, <2>3, <2>6, <3>1
    <3>2. CASE j # i
      <4>1. j \in 1 .. i - 1
        BY <2>1, <3>2
      <4>. QED  BY <2>3, <2>4, <2>6, <4>1
    <3>. QED  BY <3>1, <3>2
  <2>8. r = s
    BY <2>1, <2>3, <2>6, <2>7, SeqEqual
  <2>. QED  BY <2>2, <2>5, <2>8
<1>. QED  BY <1>1, <1>2, <1>3, <1>4, <1>5, <1>6

\* What a row has to be, from the row p before it: the letter w[i] of the word
\* against the letters of the name n.
RowOf(w, i, n, p, m, f) ==
    f = [j \in 0 .. m |->
           IF j = 0 THEN i
           ELSE LeastOf(p[j] + 1, f[j - 1] + 1,
                        p[j - 1] + IF w[i] = n[j] THEN 0 ELSE 1)]

\* There is such a row, however many cells it has.
LEMMA RowExists ==
    ASSUME NEW w, NEW i, NEW n, NEW p, NEW m \in Nat
    PROVE  \E f : RowOf(w, i, n, p, m, f)
<1>. DEFINE Cost(j) == IF w[i] = n[j] THEN 0 ELSE 1
            Then(j, c) == LeastOf(p[j] + 1, c + 1, p[j - 1] + Cost(j))
            IsRow(k, f) == f = [j \in 0 .. k |-> IF j = 0 THEN i ELSE Then(j, f[j - 1])]
            Missing == {k \in Nat : ~\E f : IsRow(k, f)}
<1>1. 0 \notin Missing
  <2>1. PICK f : f = [j \in 0 .. 0 |-> i]
    OBVIOUS
  <2>. HIDE DEF Then
  <2>2. \A j \in 0 .. 0 : j = 0
    OBVIOUS
  <2>3. [j \in 0 .. 0 |-> IF j = 0 THEN i ELSE Then(j, f[j - 1])] = [j \in 0 .. 0 |-> i]
    BY <2>2
  <2>. QED  BY <2>1, <2>3
<1>2. ASSUME NEW k \in Nat, \E f : IsRow(k, f) PROVE \E f : IsRow(k + 1, f)
  <2>. HIDE DEF Then
  <2>1. PICK f : f = [j \in 0 .. k |-> IF j = 0 THEN i ELSE Then(j, f[j - 1])]
    BY <1>2
  <2>2. PICK g : g = [j \in 0 .. k + 1 |-> IF j <= k THEN f[j] ELSE Then(j, f[j - 1])]
    OBVIOUS
  <2>3. \A j \in 0 .. k : g[j] = f[j]
    BY <2>2
  <2>4. ASSUME NEW j \in 0 .. k + 1
        PROVE  (IF j <= k THEN f[j] ELSE Then(j, f[j - 1]))
                 = (IF j = 0 THEN i ELSE Then(j, g[j - 1]))
    <3>1. CASE j = 0
      <4>1. f[0] = i /\ j <= k
        BY <2>1, <3>1
      <4>. QED  BY <3>1, <4>1
    <3>2. CASE j # 0
      <4>1. j - 1 \in 0 .. k
        BY <3>2
      <4>2. g[j - 1] = f[j - 1]
        BY <2>3, <4>1
      <4>3. j <= k => f[j] = Then(j, f[j - 1])
        BY <2>1, <3>2
      <4>. QED  BY <3>2, <4>2, <4>3
    <3>. QED  BY <3>1, <3>2
  <2>5. [j \in 0 .. k + 1 |-> IF j <= k THEN f[j] ELSE Then(j, f[j - 1])]
          = [j \in 0 .. k + 1 |-> IF j = 0 THEN i ELSE Then(j, g[j - 1])]
    BY <2>4
  <2>. QED  BY <2>2, <2>5
<1>3. Missing = {}
  <2>. HIDE DEF IsRow
  <2>. SUFFICES ASSUME Missing # {} PROVE FALSE
    OBVIOUS
  <2>1. Missing \in SUBSET Nat
    OBVIOUS
  <2>2. PICK k \in Missing : \A l \in Missing : k <= l
    BY <2>1, LeastElement
  <2>3. k # 0 /\ k \in Nat
    BY <1>1, <2>2
  <2>4. k - 1 \in Nat /\ (k - 1) + 1 = k /\ ~(k <= k - 1)
    BY <2>3
  <2>5. k - 1 \notin Missing
    BY <2>2, <2>4
  <2>6. \E f : IsRow((k - 1) + 1, f)
    BY <1>2, <2>4, <2>5
  <2>. QED  BY <2>2, <2>4, <2>6
<1>4. PICK f : IsRow(m, f)
  BY <1>3
<1>5. RowOf(w, i, n, p, m, f)
  BY <1>4 DEF RowOf
<1>. QED  BY <1>5

\* Such a row's cells tell how near the starts of the name are to the start of
\* the word, if those of the row before it do.
LEMMA RowTells ==
    ASSUME NEW w \in Seq(Letters), NEW n \in Seq(Letters), NEW i \in 1 .. Len(w), NEW p, NEW f,
           \A j \in 0 .. Len(n) : Cell(Start(w, i - 1), Start(n, j), p[j]),
           RowOf(w, i, n, p, Len(n), f)
    PROVE  \A j \in 0 .. Len(n) : Cell(Start(w, i), Start(n, j), f[j])
<1>1. PICK m : m = Len(n) /\ m \in Nat
  BY Starts
<1>2. Len(w) \in Nat /\ i \in 0 .. Len(w) /\ i - 1 \in 0 .. Len(w)
  BY Starts
<1>3. PICK u, x, a : u = Start(w, i) /\ x = Start(w, i - 1) /\ a = w[i]
  OBVIOUS
<1>4. /\ u \in Seq(Letters) /\ Len(u) = i /\ x \in Seq(Letters) /\ a \in Letters
      /\ u = Append(x, a)
  BY <1>2, <1>3, Starts
<1>. DEFINE Tells(j) == Cell(u, Start(n, j), f[j])
            Wrong == {j \in Nat : j <= m /\ ~Tells(j)}
<1>5. Tells(0)
  <2>1. f[0] = i
    <3>1. 0 \in 0 .. m
      BY <1>1
    <3>. QED  BY <1>1, <3>1 DEF RowOf
  <2>2. Start(n, 0) = <<>>
    BY Starts
  <2>3. \A k \in 0 .. 2 : i <= k <=> <<>> \in Within(u, k)
    BY <1>4, WithinOfNothing
  <2>4. i \in Nat
    BY <1>2
  <2>. QED  BY <2>1, <2>2, <2>3, <2>4 DEF Cell
<1>6. ASSUME NEW j \in 1 .. m, Tells(j - 1) PROVE Tells(j)
  <2>1. j \in 0 .. m /\ j - 1 \in 0 .. m /\ j # 0
    BY <1>1
  <2>2. PICK v, y, b : v = Start(n, j) /\ y = Start(n, j - 1) /\ b = n[j]
    OBVIOUS
  <2>3. y \in Seq(Letters) /\ b \in Letters /\ v = Append(y, b)
    BY <1>1, <2>1, <2>2, Starts
  <2>4. Cell(x, v, p[j]) /\ Cell(x, y, p[j - 1]) /\ Cell(u, y, f[j - 1])
    BY <1>1, <1>3, <1>6, <2>1, <2>2
  <2>5. f[j] = LeastOf(p[j] + 1, f[j - 1] + 1, p[j - 1] + IF a = b THEN 0 ELSE 1)
    BY <1>1, <1>3, <2>1, <2>2 DEF RowOf
  <2>6. Cell(Append(x, a), Append(y, b),
             LeastOf(p[j] + 1, f[j - 1] + 1, p[j - 1] + IF a = b THEN 0 ELSE 1))
    BY <1>4, <2>3, <2>4, CellStep
  <2>. QED  BY <1>4, <2>2, <2>3, <2>5, <2>6
<1>. HIDE DEF Tells
<1>7. Wrong = {}
  <2>. SUFFICES ASSUME Wrong # {} PROVE FALSE
    OBVIOUS
  <2>1. Wrong \in SUBSET Nat
    OBVIOUS
  <2>2. PICK j \in Wrong : \A l \in Wrong : j <= l
    BY <2>1, LeastElement
  <2>3. j \in Nat /\ j <= m /\ ~Tells(j)
    BY <2>2
  <2>4. j # 0
    BY <1>5, <2>3
  <2>5. j \in 1 .. m /\ j - 1 \in Nat /\ j - 1 <= m /\ ~(j <= j - 1)
    BY <1>1, <2>3, <2>4
  <2>6. Tells(j - 1)
    BY <2>2, <2>5
  <2>. QED  BY <1>6, <2>3, <2>5, <2>6
<1>8. ASSUME NEW j \in 0 .. m PROVE Tells(j)
  <2>1. j \in Nat /\ j <= m
    BY <1>1
  <2>. QED  BY <1>7, <2>1
<1>. QED  BY <1>1, <1>3, <1>8 DEF Tells

-----------------------------------------------------------------------------
\* Name b, d edits away, is the first of the nearest of the first n names.
BestOf(w, n, b, d) ==
    /\ b \in 0 .. n /\ (b = 0 <=> n = 0)
    /\ b # 0 =>
         /\ d \in Nat
         /\ \A k \in 0 .. 2 : d <= k <=> \E i \in 1 .. n : Commands[i] \in Within(w, k)
         /\ d \in 0 .. 2 => /\ Commands[b] \in Within(w, d)
                            /\ \A i \in 1 .. n : Commands[i] \in Within(w, d) => b <= i

\* What suggest_command knows in its loop: the cells of the row it is at, and
\* the best of the names it has passed.
Searched ==
    outcome = <<"searching">> =>
      /\ word \in Seq(Letters) /\ at \in 1 .. Len(Commands) + 1
      /\ at <= Len(Commands) =>
           /\ row \in 0 .. Len(word)
           /\ \A j \in 0 .. Len(Name) : Cell(Start(word, row), Start(Name, j), prev[j])
      /\ BestOf(word, at - 1, best, best_dist)

\* The inductive invariant: the property says nothing before the answer, so
\* it needs what the loop has found up to then.
SuggestInv == Searched /\ SuggestionIsTheNearest

\* One name more, that is c edits away.
LEMMA NameCompared ==
    ASSUME NEW w, NEW n \in 0 .. Len(Commands) - 1, NEW b, NEW d, NEW c,
           BestOf(w, n, b, d), Cell(w, Commands[n + 1], c)
    PROVE  IF b = 0 \/ c < d THEN BestOf(w, n + 1, n + 1, c) ELSE BestOf(w, n + 1, b, d)
<1>1. n \in Nat /\ n + 1 \in 1 .. n + 1 /\ n + 1 # 0
  BY SuggestAssumption, LenProperties
<1>2. c \in Nat /\ \A k \in 0 .. 2 : c <= k <=> Commands[n + 1] \in Within(w, k)
  BY DEF Cell
<1>3. /\ b \in 0 .. n /\ (b = 0 <=> n = 0)
      /\ b # 0 =>
           /\ d \in Nat
           /\ \A k \in 0 .. 2 : d <= k <=> \E i \in 1 .. n : Commands[i] \in Within(w, k)
           /\ d \in 0 .. 2 => /\ Commands[b] \in Within(w, d)
                              /\ \A i \in 1 .. n : Commands[i] \in Within(w, d) => b <= i
  BY DEF BestOf
<1>. DEFINE Is(i, k) == Commands[i] \in Within(w, k)
<1>. HIDE DEF Is
<1>4. /\ \A k \in 0 .. 2 : c <= k <=> Is(n + 1, k)
      /\ b # 0 => /\ \A k \in 0 .. 2 : d <= k <=> \E i \in 1 .. n : Is(i, k)
                  /\ d \in 0 .. 2 => Is(b, d) /\ \A i \in 1 .. n : Is(i, d) => b <= i
  BY <1>2, <1>3 DEF Is
<1>5. \A k \in 0 .. 2 : (\E i \in 1 .. n + 1 : Is(i, k)) <=> Is(n + 1, k) \/ \E i \in 1 .. n : Is(i, k)
  <2>1. \A i \in 1 .. n + 1 : i = n + 1 \/ i \in 1 .. n
    BY <1>1
  <2>2. \A i \in 1 .. n : i \in 1 .. n + 1
    BY <1>1
  <2>. QED  BY <1>1, <2>1, <2>2
<1>6. CASE b = 0 \/ c < d
  <2>1. ASSUME NEW k \in 0 .. 2 PROVE c <= k <=> \E i \in 1 .. n + 1 : Is(i, k)
    <3>1. CASE b = 0
      <4>1. ~\E i \in 1 .. n : Is(i, k)
        BY <1>3, <3>1
      <4>. QED  BY <1>4, <1>5, <4>1
    <3>2. CASE b # 0 /\ c < d
      <4>1. d <= k => c <= k
        BY <1>2, <1>3, <3>2
      <4>. QED  BY <1>4, <1>5, <3>2, <4>1
    <3>. QED  BY <1>6, <3>1, <3>2
  <2>2. ASSUME c \in 0 .. 2
        PROVE  Is(n + 1, c) /\ \A i \in 1 .. n + 1 : Is(i, c) => n + 1 <= i
    <3>1. Is(n + 1, c)
      <4>1. c <= c
        BY <1>2
      <4>. QED  BY <1>4, <2>2, <4>1
    <3>2. ~\E i \in 1 .. n : Is(i, c)
      <4>1. CASE b = 0
        BY <1>3, <4>1
      <4>2. CASE b # 0 /\ c < d
        <5>1. ~(d <= c)
          BY <1>2, <1>3, <4>2
        <5>. QED  BY <1>4, <2>2, <4>2, <5>1
      <4>. QED  BY <1>6, <4>1, <4>2
    <3>3. ASSUME NEW i \in 1 .. n + 1, Is(i, c) PROVE n + 1 <= i
      <4>1. i \notin 1 .. n
        BY <3>2, <3>3
      <4>. QED  BY <1>1, <4>1
    <3>. QED  BY <3>1, <3>3
  <2>3. BestOf(w, n + 1, n + 1, c)
    BY <1>1, <1>2, <2>1, <2>2 DEF BestOf, Is
  <2>. QED  BY <1>6, <2>3
<1>7. CASE ~(b = 0 \/ c < d)
  <2>1. b # 0 /\ d \in Nat /\ d <= c
    BY <1>2, <1>3, <1>7
  <2>2. ASSUME NEW k \in 0 .. 2 PROVE d <= k <=> \E i \in 1 .. n + 1 : Is(i, k)
    <3>1. c <= k => d <= k
      BY <1>2, <2>1
    <3>. QED  BY <1>4, <1>5, <2>1, <3>1
  <2>3. ASSUME d \in 0 .. 2
        PROVE  Is(b, d) /\ \A i \in 1 .. n + 1 : Is(i, d) => b <= i
    <3>1. ASSUME NEW i \in 1 .. n + 1, Is(i, d) PROVE b <= i
      <4>1. CASE i \in 1 .. n
        BY <1>4, <2>1, <2>3, <3>1, <4>1
      <4>2. CASE i = n + 1
        BY <1>1, <1>3, <4>2
      <4>. QED  BY <1>1, <4>1, <4>2
    <3>. QED  BY <1>4, <2>1, <2>3, <3>1
  <2>4. b \in 0 .. n + 1 /\ (b = 0 <=> n + 1 = 0)
    BY <1>1, <1>3, <2>1
  <2>5. BestOf(w, n + 1, b, d)
    BY <2>1, <2>2, <2>3, <2>4 DEF BestOf, Is
  <2>. QED  BY <1>7, <2>5
<1>. QED  BY <1>6, <1>7

\* When the names are through, what is answered is what the property asks for.
LEMMA AnswerIsNearest ==
    ASSUME NEW w, NEW b, NEW d, NEW o, BestOf(w, Len(Commands), b, d),
           o = IF d \in 1 .. 2 THEN <<"suggest", b>> ELSE <<"ask">>
    PROVE  LET nearest == CHOOSE k \in 0 .. 3 :
                 /\ k < 3 => Near(w, k) # {}
                 /\ \A n \in 0 .. k - 1 : Near(w, n) = {} IN
           o = IF nearest \in 1 .. 2 THEN <<"suggest", Min(Near(w, nearest))>> ELSE <<"ask">>
<1>1. PICK m : m = Len(Commands) /\ m \in Nat /\ m # 0 /\ DOMAIN Commands = 1 .. m
  BY SuggestAssumption, LenProperties, EmptySeq
<1>2. /\ b \in 1 .. m /\ d \in Nat
      /\ \A k \in 0 .. 2 : d <= k <=> \E i \in 1 .. m : Commands[i] \in Within(w, k)
      /\ d \in 0 .. 2 => /\ Commands[b] \in Within(w, d)
                         /\ \A i \in 1 .. m : Commands[i] \in Within(w, d) => b <= i
  BY <1>1 DEF BestOf
<1>3. \A k : \A i : i \in Near(w, k) <=> i \in 1 .. m /\ Commands[i] \in Within(w, k)
  BY <1>1 DEF Near
<1>4. \A k \in 0 .. 2 : d <= k <=> Near(w, k) # {}
  BY <1>2, <1>3
<1>. DEFINE Least(k) == /\ k < 3 => Near(w, k) # {}
                        /\ \A n \in 0 .. k - 1 : Near(w, n) = {}
            nearest == CHOOSE k \in 0 .. 3 : Least(k)
<1>5. PICK e \in 0 .. 3 : e = IF d <= 2 THEN d ELSE 3
  BY <1>2
<1>6. ASSUME NEW k \in 0 .. 3 PROVE Least(k) <=> k = e
  <2>. DEFINE Some(j) == Near(w, j) # {}
  <2>1. \A j \in 0 .. 2 : d <= j <=> Some(j)
    BY <1>4
  <2>2. Least(k) <=> (k < 3 => Some(k)) /\ \A n \in 0 .. k - 1 : ~Some(n)
    OBVIOUS
  <2>. HIDE DEF Some, Least
  <2>3. CASE k = e
    <3>1. k < 3 => Some(k)
      BY <1>2, <1>5, <2>1, <2>3
    <3>2. ASSUME NEW n \in 0 .. k - 1 PROVE ~Some(n)
      BY <1>2, <1>5, <2>1, <2>3
    <3>. QED  BY <2>2, <2>3, <3>1, <3>2
  <2>4. CASE k < e
    <3>1. k < 3 /\ ~Some(k)
      BY <1>2, <1>5, <2>1, <2>4
    <3>. QED  BY <2>2, <2>4, <3>1
  <2>5. CASE k > e
    <3>1. e \in 0 .. k - 1 /\ Some(e)
      BY <1>2, <1>5, <2>1, <2>5
    <3>. QED  BY <2>2, <2>5, <3>1
  <2>. QED  BY <1>5, <2>3, <2>4, <2>5
<1>. HIDE DEF Least
<1>7. nearest = e
  BY <1>5, <1>6
<1>8. d \in 0 .. 2 => Min(Near(w, d)) = b
  <2>. SUFFICES ASSUME d \in 0 .. 2 PROVE Min(Near(w, d)) = b
    OBVIOUS
  <2>1. PICK N : N = Near(w, d)
    OBVIOUS
  <2>2. b \in N /\ \A i \in N : i \in Nat /\ b <= i
    BY <1>2, <1>3, <2>1
  <2>3. \A x \in N : (\A y \in N : x <= y) => x = b
    BY <1>2, <2>2
  <2>. QED  BY <2>1, <2>2, <2>3 DEF Min
<1>9. o = IF nearest \in 1 .. 2 THEN <<"suggest", Min(Near(w, nearest))>> ELSE <<"ask">>
  <2>1. CASE d \in 1 .. 2
    <3>1. e = d /\ d \in 0 .. 2
      BY <1>5, <2>1
    <3>. QED  BY <1>7, <1>8, <2>1, <3>1
  <2>2. CASE d \notin 1 .. 2
    <3>1. e \notin 1 .. 2
      BY <1>2, <1>5, <2>2
    <3>. QED  BY <1>7, <2>2, <3>1
  <2>. QED  BY <2>1, <2>2
<1>. QED  BY <1>9 DEF Least

\* The first row of a name is right for every word.
LEMMA FirstRowTells ==
    ASSUME NEW w \in Seq(Letters), NEW n \in Seq(Letters)
    PROVE  \A j \in 0 .. Len(n) : Cell(Start(w, 0), Start(n, j), FirstRow(n)[j])
<1>. SUFFICES ASSUME NEW j \in 0 .. Len(n) PROVE Cell(Start(w, 0), Start(n, j), FirstRow(n)[j])
  OBVIOUS
<1>1. Start(w, 0) = <<>> /\ FirstRow(n)[j] = j
  BY Starts DEF FirstRow
<1>2. Start(n, j) \in Seq(Letters) /\ Len(Start(n, j)) = j /\ j \in Nat
  BY Starts
<1>3. \A k \in 0 .. 2 : j <= k <=> Start(n, j) \in Within(<<>>, k)
  BY <1>2, WithinOfNothing
<1>. QED  BY <1>1, <1>2, <1>3 DEF Cell

\* The names are words.
LEMMA NamesAreWords ==
    /\ Len(Commands) \in Nat \ {0}
    /\ \A i \in 1 .. Len(Commands) : Commands[i] \in Seq(Letters)
  BY SuggestAssumption, LenProperties, EmptySeq, ElementOfSeq

\* Before the first line there is nothing to say.
LEMMA SuggestStarts ==
    SuggestInit => SuggestInv
<1>. SUFFICES ASSUME SuggestInit PROVE SuggestInv
  OBVIOUS
<1>1. outcome = <<"prompt">>
  BY DEF SuggestInit
<1>2. outcome # <<"searching">> /\ outcome[1] \notin {"suggest", "ask"}
  BY <1>1
<1>. QED  BY <1>2 DEF SuggestInv, Searched, SuggestionIsTheNearest

\* A search starts with no name compared and the first row of the first.
LEMMA FuzzyIntentStep ==
    ASSUME NEW w \in Words, NEW T, FuzzyIntent(w, T)
    PROVE  SuggestInv'
<1>1. /\ word' = w /\ at' = 1 /\ row' = 0 /\ prev' = FirstRow(Commands[1]) /\ best' = 0
      /\ outcome' = IF T = {} THEN <<"searching">>
                    ELSE <<"topic", SelectInSeq(Topics, LAMBDA t : t \in T)>>
  BY DEF FuzzyIntent
<1>2. outcome'[1] \notin {"suggest", "ask"}
  BY <1>1
<1>3. SuggestionIsTheNearest'
  BY <1>2 DEF SuggestionIsTheNearest
<1>4. w \in Seq(Letters)
  BY SuggestAssumption
<1>5. Commands[1] \in Seq(Letters) /\ 1 \in 1 .. Len(Commands) + 1
  BY NamesAreWords
<1>6. Name' = Commands[1]
  BY <1>1 DEF Name
<1>7. \A j \in 0 .. Len(Name') : Cell(Start(word', row'), Start(Name', j), prev'[j])
  BY <1>1, <1>4, <1>5, <1>6, FirstRowTells
<1>8. row' \in 0 .. Len(word')
  BY <1>1, <1>4, LenProperties
<1>9. BestOf(word', at' - 1, best', best_dist')
  <2>1. at' - 1 = 0 /\ best' = 0
    BY <1>1
  <2>. QED  BY <2>1 DEF BestOf
<1>10. Searched'
  BY <1>1, <1>4, <1>5, <1>7, <1>8, <1>9 DEF Searched
<1>. QED  BY <1>3, <1>10 DEF SuggestInv

\* The next row is right if the last one was.
LEMMA FillRowStep ==
    ASSUME SuggestInv, FillRow
    PROVE  SuggestInv'
<1>1. /\ outcome = <<"searching">> /\ at <= Len(Commands) /\ row < Len(word)
      /\ row' = row + 1 /\ prev' = NextRow(row + 1)
      /\ word' = word /\ at' = at /\ best' = best /\ best_dist' = best_dist /\ outcome' = outcome
  BY DEF FillRow, Searching
<1>2. /\ word \in Seq(Letters) /\ at \in 1 .. Len(Commands) + 1 /\ row \in 0 .. Len(word)
      /\ \A j \in 0 .. Len(Name) : Cell(Start(word, row), Start(Name, j), prev[j])
      /\ BestOf(word, at - 1, best, best_dist)
  BY <1>1 DEF SuggestInv, Searched
<1>3. Name \in Seq(Letters) /\ Name' = Name
  <2>1. at \in 1 .. Len(Commands)
    BY <1>1, <1>2, NamesAreWords
  <2>. QED  BY <1>1, <2>1, NamesAreWords DEF Name
<1>4. PICK i : i = row + 1 /\ i \in 1 .. Len(word) /\ i - 1 = row /\ i \in 0 .. Len(word)
  <2>1. Len(word) \in Nat
    BY <1>2, LenProperties
  <2>. QED  BY <1>1, <1>2, <2>1
<1>5. RowOf(word, i, Name, prev, Len(Name), NextRow(i))
  <2>1. Len(Name) \in Nat
    BY <1>3, LenProperties
  <2>2. \E f : RowOf(word, i, Name, prev, Len(Name), f)
    BY <2>1, RowExists
  <2>3. NextRow(i) = CHOOSE f : RowOf(word, i, Name, prev, Len(Name), f)
    BY DEF NextRow, RowOf
  <2>. QED  BY <2>2, <2>3
<1>6. \A j \in 0 .. Len(Name) : Cell(Start(word, i - 1), Start(Name, j), prev[j])
  BY <1>2, <1>4
<1>7. \A j \in 0 .. Len(Name) : Cell(Start(word, i), Start(Name, j), NextRow(i)[j])
  BY <1>2, <1>3, <1>4, <1>5, <1>6, RowTells
<1>8. Searched'
  BY <1>1, <1>2, <1>3, <1>4, <1>7 DEF Searched
<1>9. SuggestionIsTheNearest'
  <2>1. outcome'[1] \notin {"suggest", "ask"}
    BY <1>1
  <2>. QED  BY <2>1 DEF SuggestionIsTheNearest
<1>. QED  BY <1>8, <1>9 DEF SuggestInv

\* A name is compared by the last cell of its last row.
LEMMA CompareNameStep ==
    ASSUME SuggestInv, CompareName
    PROVE  SuggestInv'
<1>1. /\ outcome = <<"searching">> /\ at <= Len(Commands) /\ row = Len(word)
      /\ word' = word /\ at' = at + 1 /\ row' = 0 /\ outcome' = outcome
      /\ prev' = IF at < Len(Commands) THEN FirstRow(Commands[at + 1]) ELSE prev
      /\ IF best = 0 \/ prev[Len(Name)] < best_dist
           THEN best' = at /\ best_dist' = prev[Len(Name)]
           ELSE best' = best /\ best_dist' = best_dist
  BY DEF CompareName, Searching
<1>2. /\ word \in Seq(Letters) /\ at \in 1 .. Len(Commands) + 1
      /\ \A j \in 0 .. Len(Name) : Cell(Start(word, row), Start(Name, j), prev[j])
      /\ BestOf(word, at - 1, best, best_dist)
  BY <1>1 DEF SuggestInv, Searched
<1>3. at \in 1 .. Len(Commands) /\ Len(Commands) \in Nat
  BY <1>1, <1>2, NamesAreWords
<1>4. Name \in Seq(Letters) /\ Name = Commands[at]
  BY <1>3, NamesAreWords DEF Name
<1>5. PICK n, c : n = at - 1 /\ n + 1 = at /\ n \in 0 .. Len(Commands) - 1 /\ c = prev[Len(Name)]
  BY <1>3
<1>6. Cell(word, Commands[n + 1], c)
  <2>1. Start(word, row) = word /\ Start(Name, Len(Name)) = Name /\ Len(Name) \in Nat
    BY <1>1, <1>2, <1>4, Starts
  <2>2. Len(Name) \in 0 .. Len(Name)
    BY <2>1
  <2>. QED  BY <1>2, <1>4, <1>5, <2>1, <2>2
<1>7. BestOf(word, at, best', best_dist')
  <2>1. IF best = 0 \/ c < best_dist THEN BestOf(word, n + 1, n + 1, c)
                                     ELSE BestOf(word, n + 1, best, best_dist)
    BY <1>2, <1>5, <1>6, NameCompared
  <2>2. CASE best = 0 \/ c < best_dist
    BY <1>1, <1>5, <2>1, <2>2
  <2>3. CASE ~(best = 0 \/ c < best_dist)
    BY <1>1, <1>5, <2>1, <2>3
  <2>. QED  BY <2>2, <2>3
<1>8. BestOf(word', at' - 1, best', best_dist')
  <2>1. at' - 1 = at
    BY <1>1, <1>3
  <2>. QED  BY <1>1, <1>7, <2>1
<1>9. ASSUME at' <= Len(Commands)
      PROVE  /\ row' \in 0 .. Len(word')
             /\ \A j \in 0 .. Len(Name') : Cell(Start(word', row'), Start(Name', j), prev'[j])
  <2>1. at < Len(Commands) /\ at + 1 \in 1 .. Len(Commands)
    BY <1>1, <1>3, <1>9
  <2>2. Commands[at + 1] \in Seq(Letters) /\ Name' = Commands[at + 1]
    BY <1>1, <2>1, NamesAreWords DEF Name
  <2>3. prev' = FirstRow(Commands[at + 1])
    BY <1>1, <2>1
  <2>4. row' \in 0 .. Len(word')
    BY <1>1, <1>2, LenProperties
  <2>. QED  BY <1>1, <1>2, <2>2, <2>3, <2>4, FirstRowTells
<1>10. at' \in 1 .. Len(Commands) + 1
  BY <1>1, <1>3
<1>11. Searched'
  BY <1>1, <1>2, <1>8, <1>9, <1>10 DEF Searched
<1>12. SuggestionIsTheNearest'
  <2>1. outcome'[1] \notin {"suggest", "ask"}
    BY <1>1
  <2>. QED  BY <2>1 DEF SuggestionIsTheNearest
<1>. QED  BY <1>11, <1>12 DEF SuggestInv

\* The answer is the best of all the names.
LEMMA AnswerStep ==
    ASSUME SuggestInv, Answer
    PROVE  SuggestInv'
<1>1. /\ outcome = <<"searching">> /\ at > Len(Commands) /\ word' = word
      /\ outcome' = IF best_dist \in 1 .. 2 THEN <<"suggest", best>> ELSE <<"ask">>
  BY DEF Answer
<1>2. at \in 1 .. Len(Commands) + 1 /\ BestOf(word, at - 1, best, best_dist)
  BY <1>1 DEF SuggestInv, Searched
<1>3. at - 1 = Len(Commands)
  BY <1>1, <1>2, NamesAreWords
<1>4. BestOf(word, Len(Commands), best, best_dist)
  BY <1>2, <1>3
<1>5. LET nearest == CHOOSE k \in 0 .. 3 :
            /\ k < 3 => Near(word, k) # {}
            /\ \A n \in 0 .. k - 1 : Near(word, n) = {} IN
      outcome' = IF nearest \in 1 .. 2 THEN <<"suggest", Min(Near(word, nearest))>>
                                       ELSE <<"ask">>
  BY <1>1, <1>4, AnswerIsNearest
<1>6. SuggestionIsTheNearest'
  BY <1>1, <1>5 DEF SuggestionIsTheNearest
<1>7. outcome' # <<"searching">>
  BY <1>1
<1>. QED  BY <1>6, <1>7 DEF SuggestInv, Searched

\* Whatever the commands are called and whatever is typed, the shell suggests
\* the first of the commands that the fewest edits make of the word, if one or
\* two do, and asks the language model otherwise (suggest_command and
\* edit_distance in intent.rs).
THEOREM NearestIsSuggested ==
    SuggestInit /\ [][SuggestNext]_suggestVars => []SuggestionIsTheNearest
<1>1. ASSUME SuggestInv, [SuggestNext]_suggestVars PROVE SuggestInv'
  <2>1. ASSUME NEW w \in Words, NEW T \in SUBSET Range(Topics), FuzzyIntent(w, T)
        PROVE  SuggestInv'
    BY <2>1, FuzzyIntentStep
  <2>2. CASE FillRow
    BY <1>1, <2>2, FillRowStep
  <2>3. CASE CompareName
    BY <1>1, <2>3, CompareNameStep
  <2>4. CASE Answer
    BY <1>1, <2>4, AnswerStep
  <2>5. CASE UNCHANGED suggestVars
    BY <1>1, <2>5 DEF suggestVars, SuggestInv, Searched, SuggestionIsTheNearest, Name
  <2>. QED  BY <1>1, <2>1, <2>2, <2>3, <2>4, <2>5 DEF SuggestNext
<1>2. SuggestInv => SuggestionIsTheNearest
  BY DEF SuggestInv
<1>. QED  BY <1>1, <1>2, SuggestStarts, PTL
=============================================================================
