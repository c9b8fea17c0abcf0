----------------------------- MODULE FrameAlloc -----------------------------
(***************************************************************************)
(* The physical frame allocator (memory/page_alloc.rs): a bitmap over      *)
(* MAX_FRAMES frames, built once from the firmware's memory map, with the  *)
(* bounds min_frame and max_frame and two counters.  The bitmap is the set *)
(* free of clear bits, the bytes that alloc scans are ByteWidth frames     *)
(* each.  One mutex guards it, so a call is one step.                      *)
(*                                                                         *)
(* held is who owns the rest: the frames that alloc handed out and their   *)
(* holders did not give back.  free takes any frame, whoever asks: strayed *)
(* says that some caller freed one that was not its own to free.  (Nothing *)
(* in the kernel calls alloc or free yet.)                                 *)
(***************************************************************************)
EXTENDS Integers, FiniteSets, FiniteSetsExt

CONSTANTS
    MaxFrames,  \* MAX_FRAMES
    LowFrames,  \* the 256 frames of the first MiB
    ByteWidth   \* 8

ASSUME FrameAssumption ==
    {MaxFrames, LowFrames, ByteWidth} \subseteq Nat \ {0}

VARIABLES free, total_frames, used_frames, min_frame, max_frame, initialized,
          usable,  \* history: the frames the memory map called usable
          held,    \* history: the frames handed out
          strayed, \* history: a caller freed a frame that it did not hold
          halted   \* the kernel has panicked

frameVars == <<free, total_frames, used_frames, min_frame, max_frame,
               initialized, usable, held, strayed, halted>>

Frames == 0 .. MaxFrames - 1
Unbounded == MaxFrames + LowFrames  \* usize::MAX

FrameInit ==
    /\ free = {} /\ total_frames = 0 /\ used_frames = 0
    /\ min_frame = Unbounded /\ max_frame = 0 /\ initialized = FALSE
    /\ usable = {} /\ held = {} /\ strayed = FALSE /\ halted = FALSE

\* The memory map lists the usable regions, which do not overlap, in any
\* order; some of it may lie beyond MAX_FRAMES.
MemoryMaps == SUBSET (0 .. MaxFrames)

LowReserved == (0 .. LowFrames - 1) \cap Frames

\* mark_free on every region: frames beyond the bitmap are passed over.
MarkedFree(map) == map \cap Frames

\* init_from_memmap: mark_free for each region, then mark_used for each of
\* the LowFrames frames, usable or not.
InitFromMemmap(map) ==
    LET seen == MarkedFree(map) IN
    /\ ~initialized /\ initialized' = TRUE
    /\ free' = seen \ LowReserved
    /\ total_frames' = Cardinality(seen)
    /\ used_frames' = IF seen = {} THEN 0 ELSE LowFrames
    /\ min_frame' = IF seen = {} THEN Unbounded ELSE Min(seen)
    /\ max_frame' = IF seen = {} THEN 0 ELSE Max(seen)
    /\ usable' = seen
    /\ UNCHANGED <<held, strayed, halted>>

\* Mutant: the last frame is left out of the scan.
Scanned_OpenEnd ==
    {f \in free : (min_frame \div ByteWidth) * ByteWidth <= f /\ f < max_frame}

\* What alloc's loops over bytes and bits can come across.
Scanned ==
    {f \in free : (min_frame \div ByteWidth) * ByteWidth <= f /\ f <= max_frame}

AllocFrame ==
    /\ initialized /\ Scanned # {}
    /\ LET frame == Min(Scanned) IN
         /\ free' = free \ {frame}
         /\ held' = held \cup {frame}
    /\ used_frames' = used_frames + 1
    /\ UNCHANGED <<total_frames, min_frame, max_frame, initialized, usable,
                   strayed, halted>>

\* free passes over a frame that is free or beyond the bitmap.
Refused(frame) == frame \in free \/ frame \notin Frames

\* Mutant: the counter goes down for a frame that is passed over, too.
FreeFrame_CountsRefused(frame) ==
    /\ free' = free \cup ({frame} \cap Frames)
    /\ used_frames' = IF used_frames = 0 THEN 0 ELSE used_frames - 1
    /\ halted' = (used_frames = 0)
    /\ UNCHANGED <<total_frames, min_frame, max_frame, initialized, usable>>

\* free: the bit is cleared, then the frame is taken off the count, which
\* panics at zero (overflow checks).
FreeFrame(frame) ==
    /\ \/ Refused(frame) /\ UNCHANGED <<free, used_frames, halted>>
       \/ /\ ~Refused(frame)
          /\ free' = free \cup {frame}
          /\ used_frames' = IF used_frames = 0 THEN 0 ELSE used_frames - 1
          /\ halted' = (used_frames = 0)
    /\ UNCHANGED <<total_frames, min_frame, max_frame, initialized, usable>>

\* A holder gives back what it holds.
GiveBack(frame) ==
    /\ frame \in held /\ held' = held \ {frame}
    /\ FreeFrame(frame)
    /\ UNCHANGED strayed

\* Any other call: a second free, a reserved frame, another caller's frame, or
\* one that does not exist.
FreeAstray(frame) == FreeFrame(frame) /\ strayed' = TRUE /\ UNCHANGED held

FrameNext ==
    /\ ~halted
    /\ \/ \E map \in MemoryMaps : InitFromMemmap(map)
       \/ AllocFrame
       \/ \E frame \in Frames : GiveBack(frame)
       \/ \E frame \in 0 .. MaxFrames : FreeAstray(frame)

FrameSpec == FrameInit /\ [][FrameNext]_frameVars

-----------------------------------------------------------------------------
\* As long as callers free only what they hold, every usable frame above the
\* first MiB is either free or held by one caller, nothing else is either, and
\* alloc reports that memory has run out only when every such frame is held.
FramesAreExclusive ==
    initialized /\ ~strayed =>
        /\ free \cap held = {}
        /\ free \cup held = usable \ LowReserved
        /\ Scanned = free

\* Whatever callers free, frames twice, reserved ones or any number beyond the
\* bitmap, the counter and the bitmap move together; and the count goes below
\* zero, which panics, only after a free of a frame that was not the caller's.
UsedCountIsExact ==
    /\ ~halted =>
          used_frames + Cardinality(free)
            = Cardinality(usable \ LowReserved) + IF usable = {} THEN 0 ELSE LowFrames
    /\ halted => strayed
=============================================================================
