---------------------------- MODULE MachineProofs ----------------------------
(***************************************************************************)
(* What the kernel makes of the machine it finds, for every machine: the   *)
(* boot on any CPU, the shift flag under any keyboard, the chat window in  *)
(* a framebuffer of any size, and what comes over the serial line while a  *)
(* language model is asked, with buffers of any size.                      *)
(***************************************************************************)
EXTENDS Boot, Keyboard, ChatWindow, LlmBridge, SequenceTheorems, TLAPS

-----------------------------------------------------------------------------
(* The boot. *)

BootSteps ==
    {"detect", "gdt", "idt", "apic", "x2apic", "mode", "fallback", "sti", "heap",
     "pmm", "audit", "env", "display", "guardian"}

\* What each step of kmain may rely on, by the steps that come before it.
ReadyAt(step) ==
    {"serial"}
    \cup (IF step \in {"detect", "gdt"} THEN {} ELSE {"gdt"})
    \cup (IF step \in {"detect", "gdt", "idt"} THEN {} ELSE {"idt"})
    \cup (IF step \in {"pmm", "audit", "env", "display", "guardian"}
            THEN {"heap"} ELSE {})
    \cup (IF step \in {"display", "guardian"} THEN {"env"} ELSE {})

\* The CPU has the leaves of its features and the features of its vendor.
CpuOK ==
    \A f \in cpu.features : f \in Features /\ LeafOf[f] \in cpu.leaves
                              /\ (f \in DOMAIN VendorOf => cpu.vendor = VendorOf[f])

\* The mode of the APIC, step by step.
ApicOK ==
    /\ boot_pc \in {"detect", "gdt", "idt", "apic"} =>
          apic = IF "apic" \in cpu.features THEN "XApic" ELSE "off"
    /\ boot_pc = "apic" => "timer" \notin ready
    /\ boot_pc \in {"x2apic", "fallback"} => apic = "XApic"
    /\ boot_pc = "fallback" => "x2apic" \notin cpu.features
    /\ boot_pc = "mode" => apic = "X2Apic"
    /\ boot_pc \in {"x2apic", "fallback", "mode", "sti"} => "pic" \in ready
    /\ boot_pc \in {"detect", "gdt", "idt", "apic", "x2apic", "fallback", "mode"} =>
          ~if_flag /\ "timer" \notin ready
    /\ "timer" \in ready => apic_mode = apic
    /\ if_flag => {"idt", "pic"} \subseteq ready

BootInv ==
    /\ boot_pc \in BootSteps
    /\ CpuOK /\ ApicOK
    /\ ReadyAt(boot_pc) \subseteq ready
    /\ hw \subseteq cpu.features
    /\ in_service = {}
    /\ trap # "none" => trap \in {"x2apic", "mmio"} /\ "x2apic" \notin cpu.features

\* Before and after each step.
LEMMA BootStarts == BootInit => BootInv
BY DEF BootInit, BootInv, BootSteps, ReadyAt, CpuOK, ApicOK, Cpus, Features, LeafOf

\* Every step of kmain, and every interrupt, keeps the invariant.
LEMMA BootStep == BootInv /\ [BootNext]_bootVars => BootInv'
<1>. SUFFICES ASSUME BootInv, [BootNext]_bootVars PROVE BootInv'
  OBVIOUS
<1>. USE DEF BootInv, BootSteps, ReadyAt, CpuOK, ApicOK, Sets, Traps
<1>1. CASE Detect
  BY <1>1 DEF Detect, Detected, Reads
<1>2. CASE Plain
  <2>1. /\ cpu' = cpu /\ hw' = hw /\ apic' = apic /\ apic_mode' = apic_mode
        /\ if_flag' = if_flag /\ in_service' = in_service /\ trap' = trap
        /\ InitGdt \/ InitIdt \/ InitPic \/ NoApic \/ InitHeap \/ InitPageAlloc
             \/ LogBoot \/ InitDisplay
    BY <1>2 DEF Plain
  <2>2. CASE InitGdt
    BY <2>1, <2>2 DEF InitGdt
  <2>3. CASE InitIdt
    BY <2>1, <2>3 DEF InitIdt
  <2>4. CASE InitPic
    BY <2>1, <2>4 DEF InitPic
  <2>5. CASE NoApic
    BY <2>1, <2>5 DEF NoApic
  <2>6. CASE InitHeap \/ InitPageAlloc
    BY <2>1, <2>6 DEF InitHeap, InitPageAlloc
  <2>7. CASE LogBoot \/ InitDisplay
    BY <2>1, <2>7 DEF LogBoot, InitDisplay
  <2>. QED  BY <2>1, <2>2, <2>3, <2>4, <2>5, <2>6, <2>7
<1>3. CASE EnableX2apic
  BY <1>3 DEF EnableX2apic
<1>4. CASE X2apicRefused
  BY <1>4 DEF X2apicRefused
<1>5. CASE X2apicFaults
  BY <1>5 DEF X2apicFaults
<1>6. CASE SetX2apic
  BY <1>6 DEF SetX2apic
<1>7. CASE SetXapic
  BY <1>7 DEF SetXapic
<1>8. CASE XapicFaults
  BY <1>8 DEF XapicFaults
<1>9. CASE EnableInterrupts
  BY <1>9 DEF EnableInterrupts
<1>10. CASE InitEnv
  BY <1>10 DEF InitEnv
<1>11. CASE TimerIrq
  <2>1. "idt" \in ready /\ apic_mode = apic
    BY <1>11 DEF TimerIrq
  <2>2. /\ in_service' = in_service
        /\ UNCHANGED <<cpu, hw, boot_pc, ready, apic, apic_mode, if_flag, trap>>
    BY ONLY <1>11, <2>1 DEF TimerIrq
  <2>. QED  BY <2>2
<1>12. CASE KeyIrq
  BY <1>12 DEF KeyIrq, bootVars
<1>13. CASE UNCHANGED bootVars
  BY <1>13 DEF bootVars
<1>. QED
  BY <1>1, <1>2, <1>3, <1>4, <1>5, <1>6, <1>7, <1>8, <1>9, <1>10, <1>11, <1>12, <1>13
     DEF BootNext

\* BootOnlyTrapsWithoutX2apic for every CPU (kmain, interrupts.rs).
THEOREM BootIsOrdered == BootSpec => []BootOnlyTrapsWithoutX2apic
<1>1. BootInv => BootOnlyTrapsWithoutX2apic
  BY DEF BootInv, ReadyAt, BootOnlyTrapsWithoutX2apic
<1>. QED  BY <1>1, BootStarts, BootStep, PTL DEF BootSpec

-----------------------------------------------------------------------------
(* The shift flag. *)

Codes == {"2A", "36", "AA", "B6", "1E", "9E", "E0", "48", "C8"}
Meanings == [shift : BOOLEAN, sure : BOOLEAN]

\* The flag after a code.
FlagAfter(flag, code) == ShiftPressed(code) \/ (flag /\ ~ShiftReleased(code))

\* What the handler will do with the codes cs: the flag is f before and e after
\* them, and up after the first i just if i is in G; n[i] of the first i are
\* letters, each with its meaning, and get the case that is meant where it is sure.
Reading(cs, ms, f, e, G, n) ==
    /\ G \in SUBSET (0 .. Len(cs)) /\ n \in [0 .. Len(cs) -> 0 .. Len(ms)]
    /\ 0 \in G <=> f
    /\ Len(cs) \in G <=> e
    /\ n[0] = 0 /\ n[Len(cs)] = Len(ms)
    /\ \A i \in 0 .. Len(cs) : \A j \in 0 .. Len(cs) : i <= j => n[i] <= n[j]
    /\ \A i \in 1 .. Len(cs) :
         /\ i \in G <=> FlagAfter(i - 1 \in G, cs[i])
         /\ ~IsLetter(cs[i]) => n[i] = n[i - 1]
         /\ IsLetter(cs[i]) =>
              /\ n[i] = n[i - 1] + 1
              /\ ms[n[i]].sure => (i - 1 \in G <=> ms[n[i]].shift)
WillRead(cs, ms, f, e) == \E G, n : Reading(cs, ms, f, e, G, n)

\* Nothing to read.
LEMMA ReadsNothing ==
    ASSUME NEW f \in BOOLEAN, NEW e \in BOOLEAN
    PROVE  /\ WillRead(<<>>, <<>>, f, f)
           /\ \A ms : WillRead(<<>>, ms, f, e) => (e <=> f)
<1>1. Len(<<>>) = 0
  OBVIOUS
<1>2. ASSUME NEW ms, WillRead(<<>>, ms, f, e) PROVE e <=> f
  BY <1>1, <1>2 DEF WillRead, Reading
<1>3. WillRead(<<>>, <<>>, f, f)
  <2>. DEFINE G == IF f THEN {0} ELSE {}
              n == [i \in {0} |-> 0]
  <2>1. G \in SUBSET (0 .. 0) /\ n \in [0 .. 0 -> 0 .. 0] /\ n[0] = 0
    OBVIOUS
  <2>2. 0 \in G <=> f
    OBVIOUS
  <2>. HIDE DEF G, n
  <2>3. \A i \in 0 .. 0 : i = 0
    OBVIOUS
  <2>4. \A i \in 0 .. 0 : \A j \in 0 .. 0 : i <= j => n[i] <= n[j]
    BY <2>1, <2>3
  <2>5. Reading(<<>>, <<>>, f, f, G, n)
    BY <1>1, <2>1, <2>2, <2>4 DEF Reading
  <2>. QED  BY <2>5 DEF WillRead
<1>. QED  BY <1>2, <1>3

\* One more code that is no letter.
LEMMA ReadsCode ==
    ASSUME NEW cs \in Seq(Codes), NEW ms \in Seq(Meanings), NEW f \in BOOLEAN,
           NEW e \in BOOLEAN, NEW c \in Codes, ~IsLetter(c), WillRead(cs, ms, f, e)
    PROVE  WillRead(Append(cs, c), ms, f, FlagAfter(e, c))
<1>. DEFINE L == Len(cs)
            N == Len(ms)
            ds == Append(cs, c)
<1>1. PICK G \in SUBSET (0 .. L), n \in [0 .. L -> 0 .. N] :
        /\ 0 \in G <=> f
        /\ L \in G <=> e
        /\ n[0] = 0 /\ n[L] = N
        /\ \A i \in 0 .. L : \A j \in 0 .. L : i <= j => n[i] <= n[j]
        /\ \A i \in 1 .. L :
             /\ i \in G <=> FlagAfter(i - 1 \in G, cs[i])
             /\ ~IsLetter(cs[i]) => n[i] = n[i - 1]
             /\ IsLetter(cs[i]) =>
                  /\ n[i] = n[i - 1] + 1
                  /\ ms[n[i]].sure => (i - 1 \in G <=> ms[n[i]].shift)
  BY DEF WillRead, Reading
<1>2. /\ L \in Nat /\ N \in Nat /\ Len(ds) = L + 1 /\ ds[L + 1] = c
      /\ \A i \in 1 .. L : ds[i] = cs[i]
  BY AppendProperties, LenProperties
<1>. HIDE DEF L, N, ds
<1>. DEFINE H == G \cup (IF FlagAfter(e, c) THEN {L + 1} ELSE {})
            m == [i \in 0 .. L + 1 |-> IF i = L + 1 THEN N ELSE n[i]]
<1>3. /\ H \in SUBSET (0 .. L + 1)
      /\ \A i \in 0 .. L : i \in H <=> i \in G
      /\ L + 1 \in H <=> FlagAfter(e, c)
  BY <1>2
<1>4. /\ m \in [0 .. L + 1 -> 0 .. N]
      /\ \A i \in 0 .. L : m[i] = n[i]
      /\ m[L + 1] = N
  BY <1>2
<1>. HIDE DEF H, m
<1>5. /\ 0 \in 0 .. L /\ L \in 0 .. L
      /\ \A i \in 1 .. L : i \in 0 .. L /\ i - 1 \in 0 .. L
      /\ \A i \in 0 .. L + 1 : i \in 0 .. L \/ i = L + 1
      /\ \A i \in 1 .. L + 1 : i \in 1 .. L \/ i = L + 1
      /\ (L + 1) - 1 = L
  BY <1>2
<1>6. \A i \in 0 .. L + 1 : \A j \in 0 .. L + 1 : i <= j => m[i] <= m[j]
  <2>1. SUFFICES ASSUME NEW i \in 0 .. L + 1, NEW j \in 0 .. L + 1, i <= j
                 PROVE  m[i] <= m[j]
    OBVIOUS
  <2>2. m[i] \in 0 .. N
    BY <1>4
  <2>3. CASE j = L + 1
    BY <1>2, <1>4, <2>2, <2>3
  <2>4. CASE j \in 0 .. L
    <3>1. i \in 0 .. L
      BY <1>2, <2>1, <2>4
    <3>. QED  BY <1>1, <1>4, <2>1, <2>4, <3>1
  <2>. QED  BY <1>5, <2>3, <2>4
<1>7. ASSUME NEW i \in 1 .. L + 1
      PROVE  /\ i \in H <=> FlagAfter(i - 1 \in H, ds[i])
             /\ ~IsLetter(ds[i]) => m[i] = m[i - 1]
             /\ IsLetter(ds[i]) =>
                  /\ m[i] = m[i - 1] + 1
                  /\ ms[m[i]].sure => (i - 1 \in H <=> ms[m[i]].shift)
  <2>1. CASE i \in 1 .. L
    <3>1. /\ i \in H <=> i \in G
          /\ i - 1 \in H <=> i - 1 \in G
          /\ m[i] = n[i] /\ m[i - 1] = n[i - 1] /\ ds[i] = cs[i]
      BY <1>2, <1>3, <1>4, <1>5, <2>1
    <3>. QED  BY <1>1, <2>1, <3>1 DEF FlagAfter
  <2>2. CASE i = L + 1
    <3>1. /\ i - 1 \in H <=> e
          /\ m[i] = N /\ m[i - 1] = N /\ ds[i] = c
          /\ i \in H <=> FlagAfter(e, c)
      BY <1>1, <1>2, <1>3, <1>4, <1>5, <2>2
    <3>. QED  BY <3>1 DEF FlagAfter
  <2>. QED  BY <1>5, <2>1, <2>2
<1>8. 0 \in H <=> f
  BY <1>1, <1>3, <1>5
<1>9. m[0] = 0
  BY <1>1, <1>4, <1>5
<1>10. Reading(ds, ms, f, FlagAfter(e, c), H, m)
  <2>1. Len(ds) = L + 1 /\ Len(ms) = N
    BY <1>2 DEF N
  <2>. QED  BY <1>3, <1>4, <1>6, <1>7, <1>8, <1>9, <2>1 DEF Reading
<1>. QED  BY <1>10 DEF ds, WillRead

\* One more letter, with its meaning.
LEMMA ReadsLetter ==
    ASSUME NEW cs \in Seq(Codes), NEW ms \in Seq(Meanings), NEW f \in BOOLEAN,
           NEW e \in BOOLEAN, NEW c \in Codes, IsLetter(c),
           NEW a \in Meanings, a.sure => (e <=> a.shift), WillRead(cs, ms, f, e)
    PROVE  WillRead(Append(cs, c), Append(ms, a), f, e)
<1>. DEFINE L == Len(cs)
            N == Len(ms)
            ds == Append(cs, c)
            as == Append(ms, a)
<1>1. PICK G \in SUBSET (0 .. L), n \in [0 .. L -> 0 .. N] :
        /\ 0 \in G <=> f
        /\ L \in G <=> e
        /\ n[0] = 0 /\ n[L] = N
        /\ \A i \in 0 .. L : \A j \in 0 .. L : i <= j => n[i] <= n[j]
        /\ \A i \in 1 .. L :
             /\ i \in G <=> FlagAfter(i - 1 \in G, cs[i])
             /\ ~IsLetter(cs[i]) => n[i] = n[i - 1]
             /\ IsLetter(cs[i]) =>
                  /\ n[i] = n[i - 1] + 1
                  /\ ms[n[i]].sure => (i - 1 \in G <=> ms[n[i]].shift)
  BY DEF WillRead, Reading
<1>2. /\ L \in Nat /\ N \in Nat /\ Len(ds) = L + 1 /\ ds[L + 1] = c
      /\ \A i \in 1 .. L : ds[i] = cs[i]
      /\ Len(as) = N + 1 /\ as[N + 1] = a
      /\ \A i \in 1 .. N : as[i] = ms[i]
  BY AppendProperties, LenProperties
<1>. HIDE DEF L, N, ds, as
<1>. DEFINE H == G \cup (IF e THEN {L + 1} ELSE {})
            m == [i \in 0 .. L + 1 |-> IF i = L + 1 THEN N + 1 ELSE n[i]]
<1>3. /\ H \in SUBSET (0 .. L + 1)
      /\ \A i \in 0 .. L : i \in H <=> i \in G
      /\ L + 1 \in H <=> e
  BY <1>2
<1>4. /\ m \in [0 .. L + 1 -> 0 .. N + 1]
      /\ \A i \in 0 .. L : m[i] = n[i]
      /\ m[L + 1] = N + 1
  BY <1>2
<1>. HIDE DEF H, m
<1>5. /\ 0 \in 0 .. L /\ L \in 0 .. L
      /\ \A i \in 1 .. L : i \in 0 .. L /\ i - 1 \in 0 .. L
      /\ \A i \in 0 .. L + 1 : i \in 0 .. L \/ i = L + 1
      /\ \A i \in 1 .. L + 1 : i \in 1 .. L \/ i = L + 1
      /\ (L + 1) - 1 = L
  BY <1>2
<1>6. \A i \in 0 .. L + 1 : \A j \in 0 .. L + 1 : i <= j => m[i] <= m[j]
  <2>1. SUFFICES ASSUME NEW i \in 0 .. L + 1, NEW j \in 0 .. L + 1, i <= j
                 PROVE  m[i] <= m[j]
    OBVIOUS
  <2>2. m[i] \in 0 .. N + 1
    BY <1>4
  <2>3. CASE j = L + 1
    BY <1>2, <1>4, <2>2, <2>3
  <2>4. CASE j \in 0 .. L
    <3>1. i \in 0 .. L
      BY <1>2, <2>1, <2>4
    <3>. QED  BY <1>1, <1>4, <2>1, <2>4, <3>1
  <2>. QED  BY <1>5, <2>3, <2>4
<1>7. ASSUME NEW i \in 1 .. L + 1
      PROVE  /\ i \in H <=> FlagAfter(i - 1 \in H, ds[i])
             /\ ~IsLetter(ds[i]) => m[i] = m[i - 1]
             /\ IsLetter(ds[i]) =>
                  /\ m[i] = m[i - 1] + 1
                  /\ as[m[i]].sure => (i - 1 \in H <=> as[m[i]].shift)
  <2>1. CASE i \in 1 .. L
    <3>1. /\ i \in H <=> i \in G
          /\ i - 1 \in H <=> i - 1 \in G
          /\ m[i] = n[i] /\ m[i - 1] = n[i - 1] /\ ds[i] = cs[i]
      BY <1>2, <1>3, <1>4, <1>5, <2>1
    <3>2. ASSUME IsLetter(cs[i]) PROVE as[n[i]] = ms[n[i]]
      <4>1. n[i] \in 0 .. N /\ n[i - 1] \in 0 .. N /\ n[i] = n[i - 1] + 1
        BY <1>1, <1>5, <2>1, <3>2
      <4>2. n[i] \in 1 .. N
        BY <4>1
      <4>. QED  BY <1>2, <4>2
    <3>3. i \in G <=> FlagAfter(i - 1 \in G, cs[i])
      BY <1>1, <2>1
    <3>4. i \in H <=> FlagAfter(i - 1 \in H, ds[i])
      BY <3>1, <3>3 DEF FlagAfter
    <3>5. /\ ~IsLetter(cs[i]) => n[i] = n[i - 1]
          /\ IsLetter(cs[i]) =>
               /\ n[i] = n[i - 1] + 1
               /\ ms[n[i]].sure => (i - 1 \in G <=> ms[n[i]].shift)
      BY <1>1, <2>1
    <3>. QED  BY <3>1, <3>2, <3>4, <3>5
  <2>2. CASE i = L + 1
    <3>1. /\ i - 1 \in H <=> e
          /\ m[i] = N + 1 /\ m[i - 1] = N /\ ds[i] = c
          /\ i \in H <=> e
      BY <1>1, <1>2, <1>3, <1>4, <1>5, <2>2
    <3>2. ~ShiftPressed(c) /\ ~ShiftReleased(c)
      BY DEF IsLetter, ShiftPressed, ShiftReleased
    <3>. QED  BY <1>2, <3>1, <3>2 DEF FlagAfter
  <2>. QED  BY <1>5, <2>1, <2>2
<1>8. 0 \in H <=> f
  BY <1>1, <1>3, <1>5
<1>9. m[0] = 0
  BY <1>1, <1>4, <1>5
<1>10. Reading(ds, as, f, e, H, m)
  BY <1>2, <1>3, <1>4, <1>6, <1>7, <1>8, <1>9 DEF Reading
<1>. QED  BY <1>10 DEF ds, as, WillRead

\* The first code is handled.
LEMMA ReadsFirst ==
    ASSUME NEW cs \in Seq(Codes), NEW ms \in Seq(Meanings), NEW f \in BOOLEAN,
           NEW e \in BOOLEAN, cs # <<>>, WillRead(cs, ms, f, e)
    PROVE  LET c == Head(cs) IN
           /\ c \in Codes /\ Tail(cs) \in Seq(Codes)
           /\ ~IsLetter(c) => WillRead(Tail(cs), ms, FlagAfter(f, c), e)
           /\ IsLetter(c) =>
                /\ ms # <<>> /\ (Head(ms).sure => (f <=> Head(ms).shift))
                /\ WillRead(Tail(cs), Tail(ms), FlagAfter(f, c), e)
<1>. DEFINE L == Len(cs)
            N == Len(ms)
            ds == Tail(cs)
            c == Head(cs)
<1>1. PICK G \in SUBSET (0 .. L), n \in [0 .. L -> 0 .. N] :
        /\ 0 \in G <=> f
        /\ L \in G <=> e
        /\ n[0] = 0 /\ n[L] = N
        /\ \A i \in 0 .. L : \A j \in 0 .. L : i <= j => n[i] <= n[j]
        /\ \A i \in 1 .. L :
             /\ i \in G <=> FlagAfter(i - 1 \in G, cs[i])
             /\ ~IsLetter(cs[i]) => n[i] = n[i - 1]
             /\ IsLetter(cs[i]) =>
                  /\ n[i] = n[i - 1] + 1
                  /\ ms[n[i]].sure => (i - 1 \in G <=> ms[n[i]].shift)
  BY DEF WillRead, Reading
<1>2. /\ L \in Nat /\ L >= 1 /\ N \in Nat /\ Len(ds) = L - 1 /\ ds \in Seq(Codes)
      /\ c = cs[1] /\ c \in Codes
      /\ \A i \in 1 .. L - 1 : ds[i] = cs[i + 1]
  BY HeadTailProperties, EmptySeq, LenProperties, ElementOfSeq
<1>. HIDE DEF L, N, ds, c
<1>. DEFINE K == L - 1
            H == {i \in 0 .. K : i + 1 \in G}
<1>3. /\ K \in Nat /\ L = K + 1 /\ 0 \in 0 .. K /\ K \in 0 .. K
      /\ \A i \in 0 .. K : i + 1 \in 0 .. L /\ i + 1 \in 1 .. L
      /\ \A i \in 1 .. K : /\ i + 1 \in 1 .. L /\ i \in 0 .. K /\ i - 1 \in 0 .. K
                           /\ (i + 1) - 1 = i /\ (i - 1) + 1 = i
      /\ 1 \in 1 .. L /\ 1 - 1 = 0 /\ 0 + 1 = 1
  BY <1>2
<1>. HIDE DEF K
<1>4. /\ H \in SUBSET (0 .. K)
      /\ \A i \in 0 .. K : i \in H <=> i + 1 \in G
  OBVIOUS
<1>. HIDE DEF H
<1>5. /\ 0 \in H <=> FlagAfter(f, c)
      /\ K \in H <=> e
  BY <1>1, <1>2, <1>3, <1>4 DEF FlagAfter
<1>6. ASSUME NEW i \in 1 .. K PROVE i \in H <=> FlagAfter(i - 1 \in H, ds[i])
  <2>1. /\ i + 1 \in G <=> FlagAfter(i \in G, cs[i + 1])
        /\ i - 1 \in H <=> i \in G
        /\ i \in H <=> i + 1 \in G
    BY <1>1, <1>3, <1>4
  <2>2. ds[i] = cs[i + 1]
    BY <1>2 DEF K
  <2>. QED  BY <2>1, <2>2 DEF FlagAfter
<1>7. CASE ~IsLetter(c)
  <2>. DEFINE m == [i \in 0 .. K |-> n[i + 1]]
  <2>1. /\ m \in [0 .. K -> 0 .. N]
        /\ \A i \in 0 .. K : m[i] = n[i + 1]
    BY <1>3
  <2>. HIDE DEF m
  <2>2. m[0] = 0 /\ m[K] = N
    BY <1>1, <1>2, <1>3, <1>7, <2>1
  <2>3. \A i \in 0 .. K : \A j \in 0 .. K : i <= j => m[i] <= m[j]
    <3>1. SUFFICES ASSUME NEW i \in 0 .. K, NEW j \in 0 .. K, i <= j
                   PROVE  n[i + 1] <= n[j + 1]
      BY <2>1
    <3>2. i + 1 <= j + 1
      BY <3>1
    <3>. QED  BY <1>1, <1>3, <3>2
  <2>4. ASSUME NEW i \in 1 .. K
        PROVE  /\ ~IsLetter(ds[i]) => m[i] = m[i - 1]
               /\ IsLetter(ds[i]) =>
                    /\ m[i] = m[i - 1] + 1
                    /\ ms[m[i]].sure => (i - 1 \in H <=> ms[m[i]].shift)
    <3>1. m[i] = n[i + 1] /\ m[i - 1] = n[(i + 1) - 1] /\ ds[i] = cs[i + 1]
      BY <1>2, <1>3, <2>1 DEF K
    <3>2. i - 1 \in H <=> (i + 1) - 1 \in G
      BY <1>3, <1>4
    <3>3. PICK j \in 1 .. L : j = i + 1
      BY <1>3
    <3>4. /\ ~IsLetter(cs[j]) => n[j] = n[j - 1]
          /\ IsLetter(cs[j]) =>
               /\ n[j] = n[j - 1] + 1
               /\ ms[n[j]].sure => (j - 1 \in G <=> ms[n[j]].shift)
      BY <1>1
    <3>. QED  BY ONLY <3>1, <3>2, <3>3, <3>4
  <2>5. Reading(ds, ms, FlagAfter(f, c), e, H, m)
    <3>1. Len(ds) = K /\ Len(ms) = N
      BY <1>2 DEF K, N
    <3>. QED  BY <1>4, <1>5, <1>6, <2>1, <2>2, <2>3, <2>4, <3>1 DEF Reading
  <2>. QED  BY <1>2, <1>7, <2>5 DEF ds, c, WillRead
<1>8. CASE IsLetter(c)
  <2>. DEFINE m == [i \in 0 .. K |-> n[i + 1] - 1]
              as == Tail(ms)
  <2>1. n[1] = 1 /\ (ms[1].sure => (f <=> ms[1].shift))
    BY <1>1, <1>2, <1>3, <1>8
  <2>2. N >= 1
    <3>1. n[1] \in 0 .. N
      BY <1>3
    <3>. QED  BY <1>2, <2>1, <3>1
  <2>3. /\ ms # <<>> /\ Head(ms) = ms[1] /\ Len(as) = N - 1
        /\ \A i \in 1 .. N - 1 : as[i] = ms[i + 1]
    <3>1. ms # <<>>
      BY <2>2 DEF N
    <3>. QED  BY <3>1, HeadTailProperties DEF N
  <2>. HIDE DEF as
  <2>4. ASSUME NEW i \in 0 .. K PROVE n[i + 1] \in 1 .. N
    <3>1. 1 \in 0 .. L /\ i + 1 \in 0 .. L /\ 1 <= i + 1
      BY <1>3
    <3>2. n[1] <= n[i + 1] /\ n[i + 1] \in 0 .. N
      BY <1>1, <3>1
    <3>. QED  BY <1>2, <2>1, <3>2
  <2>5. /\ m \in [0 .. K -> 0 .. N - 1]
        /\ \A i \in 0 .. K : m[i] = n[i + 1] - 1
    <3>1. ASSUME NEW i \in 0 .. K PROVE n[i + 1] - 1 \in 0 .. N - 1
      <4>1. PICK x \in 1 .. N : x = n[i + 1]
        BY <2>4
      <4>2. x - 1 \in 0 .. N - 1
        BY <1>2
      <4>. QED  BY <4>1, <4>2
    <3>. QED  BY <3>1
  <2>. HIDE DEF m
  <2>6. m[0] = 0 /\ m[K] = N - 1
    BY <1>1, <1>2, <1>3, <2>1, <2>5
  <2>7. \A i \in 0 .. K : \A j \in 0 .. K : i <= j => m[i] <= m[j]
    <3>1. SUFFICES ASSUME NEW i \in 0 .. K, NEW j \in 0 .. K, i <= j
                   PROVE  m[i] <= m[j]
      OBVIOUS
    <3>2. i + 1 <= j + 1
      BY <3>1
    <3>3. n[i + 1] <= n[j + 1]
      BY <1>1, <1>3, <3>2
    <3>4. PICK x, z : x \in 1 .. N /\ z \in 1 .. N /\ x = n[i + 1] /\ z = n[j + 1]
      BY <2>4
    <3>5. x <= z
      BY ONLY <3>3, <3>4
    <3>6. x \in Nat /\ z \in Nat
      <4>1. N \in Nat
        BY <1>2
      <4>. QED  BY ONLY <3>4, <4>1
    <3>7. x - 1 <= z - 1
      BY ONLY <3>5, <3>6
    <3>. QED  BY <2>5, <3>4, <3>7
  <2>8. ASSUME NEW i \in 1 .. K
        PROVE  /\ ~IsLetter(ds[i]) => m[i] = m[i - 1]
               /\ IsLetter(ds[i]) =>
                    /\ m[i] = m[i - 1] + 1
                    /\ as[m[i]].sure => (i - 1 \in H <=> as[m[i]].shift)
    <3>1. m[i] = n[i + 1] - 1 /\ m[i - 1] = n[i] - 1 /\ ds[i] = cs[i + 1]
      BY <1>2, <1>3, <2>5 DEF K
    <3>2. i - 1 \in H <=> i \in G
      BY <1>3, <1>4
    <3>3. /\ ~IsLetter(cs[i + 1]) => n[i + 1] = n[i]
          /\ IsLetter(cs[i + 1]) =>
               /\ n[i + 1] = n[i] + 1
               /\ ms[n[i + 1]].sure => (i \in G <=> ms[n[i + 1]].shift)
      BY <1>1, <1>3
    <3>4. n[i] \in 1 .. N /\ n[i + 1] \in 1 .. N
      BY <1>3, <2>4
    <3>5. ASSUME IsLetter(cs[i + 1]) PROVE as[m[i]] = ms[n[i + 1]]
      <4>0. PICK x, z : x \in 1 .. N /\ z \in 1 .. N /\ x = n[i] /\ z = n[i + 1] /\ z = x + 1
        BY <3>3, <3>4, <3>5
      <4>2. /\ x \in Nat /\ x >= 1 /\ z \in Nat /\ z <= N /\ z = x + 1 /\ N \in Nat
        BY ONLY <1>2, <1>3, <4>0
      <4>1. z - 1 \in 1 .. N - 1 /\ (z - 1) + 1 = z
        BY ONLY <4>2
      <4>. QED  BY <2>3, <3>1, <4>0, <4>1
    <3>6. ASSUME IsLetter(cs[i + 1]) PROVE m[i] = m[i - 1] + 1
      <4>1. PICK x, z : x \in 1 .. N /\ z \in 1 .. N /\ x = n[i] /\ z = n[i + 1] /\ z = x + 1
        BY <3>3, <3>4, <3>6
      <4>2. m[i] = z - 1 /\ m[i - 1] = x - 1
        BY <3>1, <4>1
      <4>3. z - 1 = (x - 1) + 1
        BY ONLY <1>2, <4>1
      <4>. QED  BY <4>2, <4>3
    <3>7. ASSUME ~IsLetter(ds[i]) PROVE m[i] = m[i - 1]
      BY <3>1, <3>3, <3>7
    <3>8. ASSUME IsLetter(ds[i]), as[m[i]].sure PROVE i - 1 \in H <=> as[m[i]].shift
      BY <3>1, <3>2, <3>3, <3>5, <3>8
    <3>. QED  BY <3>1, <3>6, <3>7, <3>8
  <2>9. Reading(ds, as, FlagAfter(f, c), e, H, m)
    <3>1. Len(ds) = K /\ Len(as) = N - 1
      BY <1>2, <2>3 DEF K
    <3>. QED  BY <1>4, <1>5, <1>6, <2>5, <2>6, <2>7, <2>8, <3>1 DEF Reading
  <2>. QED  BY <1>2, <1>8, <2>1, <2>3, <2>9 DEF ds, c, as, WillRead
<1>. QED  BY <1>7, <1>8

\* Two codes are one and one.
LEMMA PairIs ==
    ASSUME NEW S, NEW x \in S, NEW y \in S
    PROVE  <<x, y>> = <<x>> \o <<y>>
<1>1. /\ <<x>> \in Seq(S) /\ <<y>> \in Seq(S) /\ <<x, y>> \in Seq(S)
      /\ Len(<<x>>) = 1 /\ Len(<<y>>) = 1 /\ Len(<<x, y>>) = 2
      /\ <<x>>[1] = x /\ <<y>>[1] = y /\ <<x, y>>[1] = x /\ <<x, y>>[2] = y
  OBVIOUS
<1>. DEFINE a == <<x>>
            b == <<y>>
<1>2. /\ a \o b \in Seq(S) /\ Len(a \o b) = Len(a) + Len(b)
      /\ \A i \in 1 .. Len(a) + Len(b) : (a \o b)[i] = IF i <= Len(a) THEN a[i] ELSE b[i - Len(a)]
  BY <1>1, ConcatProperties
<1>3. Len(a \o b) = 2 /\ (a \o b)[1] = x /\ (a \o b)[2] = y
  BY <1>1, <1>2
<1>. HIDE DEF a, b
<1>. DEFINE c == <<x, y>>
            d == a \o b
<1>4. c \in Seq(S) /\ d \in Seq(S) /\ Len(c) = Len(d) /\ Len(c) = 2 /\ c[1] = d[1] /\ c[2] = d[2]
  BY <1>1, <1>2, <1>3
<1>. HIDE DEF c, d
<1>5. \A i \in 1 .. Len(c) : c[i] = d[i]
  BY <1>4
<1>6. c = d
  BY <1>4, <1>5, SeqEqual
<1>. QED  BY <1>6 DEF a, b, c, d

\* Four codes are two and two.
LEMMA FourAre ==
    ASSUME NEW S, NEW x \in S, NEW y \in S, NEW z \in S, NEW w \in S
    PROVE  <<x, y, z, w>> = <<x, y>> \o <<z, w>>
<1>. DEFINE a == <<x, y>>
            b == <<z, w>>
            c == <<x, y, z, w>>
            d == a \o b
<1>1. /\ a \in Seq(S) /\ b \in Seq(S) /\ c \in Seq(S)
      /\ Len(a) = 2 /\ Len(b) = 2 /\ Len(c) = 4
      /\ a[1] = x /\ a[2] = y /\ b[1] = z /\ b[2] = w
      /\ c[1] = x /\ c[2] = y /\ c[3] = z /\ c[4] = w
  OBVIOUS
<1>2. /\ d \in Seq(S) /\ Len(d) = Len(a) + Len(b)
      /\ \A i \in 1 .. Len(a) + Len(b) : d[i] = IF i <= Len(a) THEN a[i] ELSE b[i - Len(a)]
  BY <1>1, ConcatProperties
<1>. HIDE DEF a, b, c, d
<1>3. Len(d) = 4 /\ d[1] = x /\ d[2] = y /\ d[3] = z /\ d[4] = w
  BY <1>1, <1>2
<1>4. \A i \in 1 .. Len(c) : c[i] = d[i]
  BY <1>1, <1>3
<1>5. c = d
  BY <1>1, <1>2, <1>3, <1>4, SeqEqual
<1>. QED  BY <1>5 DEF a, b, c, d

\* Two codes at the end of a sequence, code by code.
LEMMA AddTwo ==
    ASSUME NEW s \in Seq(Codes), NEW x \in Codes, NEW y \in Codes
    PROVE  s \o <<x, y>> = Append(Append(s, x), y) /\ s \o <<x, y>> \in Seq(Codes)
<1>1. <<x>> \in Seq(Codes) /\ <<y>> \in Seq(Codes) /\ <<x, y>> \in Seq(Codes)
  OBVIOUS
<1>2. /\ Append(s, x) = s \o <<x>> /\ Append(s, x) \in Seq(Codes)
      /\ Append(Append(s, x), y) = Append(s, x) \o <<y>>
  BY AppendIsConcat, AppendProperties
<1>3. <<x, y>> = <<x>> \o <<y>>
  BY PairIs
<1>4. s \o (<<x>> \o <<y>>) = (s \o <<x>>) \o <<y>>
  BY <1>1, ConcatAssociative
<1>5. s \o <<x, y>> \in Seq(Codes)
  BY <1>1, ConcatProperties
<1>. QED  BY <1>2, <1>3, <1>4, <1>5

\* More codes after an addition.
LEMMA AddOneMore ==
    ASSUME NEW s \in Seq(Codes), NEW t \in Seq(Codes), NEW x \in Codes
    PROVE  s \o (t \o <<x>>) = Append(s \o t, x)
<1>1. <<x>> \in Seq(Codes) /\ s \o t \in Seq(Codes)
  BY ConcatProperties
<1>. QED  BY <1>1, AppendIsConcat, ConcatAssociative

\* Two codes after an addition.
LEMMA AddTwoMore ==
    ASSUME NEW s \in Seq(Codes), NEW t \in Seq(Codes), NEW x \in Codes, NEW y \in Codes
    PROVE  s \o (t \o <<x, y>>) = Append(Append(s \o t, x), y)
<1>1. <<x, y>> \in Seq(Codes) /\ s \o t \in Seq(Codes)
  BY ConcatProperties
<1>2. s \o (t \o <<x, y>>) = (s \o t) \o <<x, y>>
  BY <1>1, ConcatAssociative
<1>. QED  BY <1>1, <1>2, AddTwo

\* Two codes before an addition.
LEMMA AddTwoFirst ==
    ASSUME NEW s \in Seq(Codes), NEW t \in Seq(Codes), NEW x \in Codes, NEW y \in Codes
    PROVE  s \o (<<x, y>> \o t) = Append(Append(s, x), y) \o t
<1>1. <<x, y>> \in Seq(Codes)
  OBVIOUS
<1>2. s \o (<<x, y>> \o t) = (s \o <<x, y>>) \o t
  BY <1>1, ConcatAssociative
<1>. QED  BY <1>2, AddTwo

\* The flag that the keyboard's user asks for, where no code is made up.
Settled(e) == (e => ShiftDown) /\ (ShiftDown /\ ~overlapped => e)

\* What is made up fits the keys that are down, and the codes that wait will be
\* read as they were meant.
KeyboardInv ==
    /\ down \subseteq Shifts \cup {"grey"}
    /\ numlock \in BOOLEAN /\ SHIFT_HELD \in BOOLEAN /\ overlapped \in BOOLEAN
    /\ fake \in {"none", "up", "down"}
    /\ fake = "up" => ShiftDown
    /\ fake = "down" => ~ShiftDown
    /\ fake # "none" => "grey" \in down
    /\ Shifts \subseteq down => overlapped
    /\ ~ShiftDown => ~overlapped
    /\ codes \in Seq(Codes) /\ meant \in Seq(Meanings)
    /\ mistyped = FALSE
    /\ \E e \in BOOLEAN :
          WillRead(codes, meant, SHIFT_HELD, e) /\ (fake = "none" => Settled(e))

\* What was made up is taken back, after the codes cs.
LEMMA UndoSettles ==
    ASSUME KeyboardInv, NEW cs \in Seq(Codes), NEW e \in BOOLEAN,
           fake = "none" => Settled(e),
           WillRead(cs, meant, SHIFT_HELD, e)
    PROVE  /\ Undo(Named) \in Seq(Codes) /\ cs \o Undo(Named) \in Seq(Codes)
           /\ \E d \in BOOLEAN :
                 Settled(d) /\ WillRead(cs \o Undo(Named), meant, SHIFT_HELD, d)
<1>1. Named \in {"left", "right"}
  BY DEF Named
<1>2. meant \in Seq(Meanings) /\ SHIFT_HELD \in BOOLEAN /\ fake \in {"none", "up", "down"}
  BY DEF KeyboardInv
<1>3. CASE fake = "none"
  <2>1. Undo(Named) = <<>> /\ cs \o <<>> = cs
    BY <1>3, ConcatEmptySeq DEF Undo
  <2>. QED  BY <1>3, <2>1
<1>4. ASSUME NEW c \in Codes, c \in {"2A", "36", "AA", "B6"}, Undo(Named) = <<"E0", c>>,
             NEW d \in BOOLEAN, d <=> c \in {"2A", "36"}
      PROVE  /\ Undo(Named) \in Seq(Codes) /\ cs \o Undo(Named) \in Seq(Codes)
             /\ WillRead(cs \o Undo(Named), meant, SHIFT_HELD, d)
  <2>1. /\ "E0" \in Codes /\ ~IsLetter("E0") /\ ~IsLetter(c)
        /\ FlagAfter(e, "E0") = e /\ FlagAfter(e, c) = d
    BY <1>4 DEF Codes, IsLetter, FlagAfter, ShiftPressed, ShiftReleased
  <2>2. Append(cs, "E0") \in Seq(Codes) /\ WillRead(Append(cs, "E0"), meant, SHIFT_HELD, e)
    BY <1>2, <2>1, ReadsCode, AppendProperties
  <2>3. WillRead(Append(Append(cs, "E0"), c), meant, SHIFT_HELD, d)
    BY <1>2, <2>1, <2>2, ReadsCode
  <2>4. /\ cs \o <<"E0", c>> = Append(Append(cs, "E0"), c) /\ cs \o <<"E0", c>> \in Seq(Codes)
        /\ <<"E0", c>> \in Seq(Codes)
    BY <2>1, AddTwo
  <2>. QED  BY <1>4, <2>3, <2>4
<1>5. CASE fake = "up"
  <2>1. Undo(Named) = <<"E0", Press[Named]>> /\ Press[Named] \in {"2A", "36"}
    BY <1>1, <1>5 DEF Undo, Press
  <2>2. Settled(TRUE)
    BY <1>5 DEF Settled, KeyboardInv
  <2>3. Press[Named] \in Codes
    BY <2>1 DEF Codes
  <2>. QED  BY <1>4, <2>1, <2>2, <2>3
<1>6. CASE fake = "down"
  <2>1. Undo(Named) = <<"E0", Release[Named]>> /\ Release[Named] \in {"AA", "B6"}
    BY <1>1, <1>6 DEF Undo, Release
  <2>2. Settled(FALSE)
    BY <1>6 DEF Settled, KeyboardInv
  <2>3. Release[Named] \in Codes /\ ~(Release[Named] \in {"2A", "36"})
    BY <2>1 DEF Codes
  <2>. QED  BY <1>4, <2>1, <2>2, <2>3
<1>. QED  BY <1>2, <1>3, <1>5, <1>6

\* The codes that the keyboard sends for the shift keys and the letter.
LEMMA KeyCodes ==
    /\ \A s \in Shifts : /\ Press[s] \in Codes /\ ~IsLetter(Press[s])
                         /\ Release[s] \in Codes /\ ~IsLetter(Release[s])
                         /\ \A e \in BOOLEAN : /\ FlagAfter(e, Press[s]) = TRUE
                                               /\ FlagAfter(e, Release[s]) = FALSE
    /\ {"1E", "9E", "E0", "48", "C8"} \subseteq Codes
    /\ IsLetter("1E")
    /\ \A c \in {"9E", "E0", "48", "C8"} :
          ~IsLetter(c) /\ \A e \in BOOLEAN : FlagAfter(e, c) = e
    /\ Named \in Shifts
BY DEF Shifts, Press, Release, Codes, IsLetter, FlagAfter, ShiftPressed, ShiftReleased,
       Named

\* A shift key goes down, or repeats: the flag asked for is up.
LEMMA ShiftDownStep == KeyboardInv /\ ShiftKeyDown => KeyboardInv'
<1>. SUFFICES ASSUME KeyboardInv, ShiftKeyDown PROVE KeyboardInv'
  OBVIOUS
<1>1. PICK s \in Shifts :
        /\ down' = down \cup {s}
        /\ codes' = codes \o (Undo(Named) \o <<Press[s]>>)
        /\ overlapped' = (overlapped \/ Shifts \subseteq down')
  BY DEF ShiftKeyDown, Sent
<1>2. fake' = "none" /\ UNCHANGED <<numlock, meant, SHIFT_HELD, mistyped>>
  BY DEF ShiftKeyDown
<1>3. PICK e \in BOOLEAN :
        WillRead(codes, meant, SHIFT_HELD, e) /\ (fake = "none" => Settled(e))
  BY DEF KeyboardInv
<1>4. codes \in Seq(Codes) /\ meant \in Seq(Meanings) /\ SHIFT_HELD \in BOOLEAN
  BY DEF KeyboardInv
<1>5. PICK d \in BOOLEAN :
        Settled(d) /\ WillRead(codes \o Undo(Named), meant, SHIFT_HELD, d)
  BY <1>3, <1>4, UndoSettles
<1>6. /\ Undo(Named) \in Seq(Codes) /\ codes \o Undo(Named) \in Seq(Codes)
      /\ Press[s] \in Codes /\ ~IsLetter(Press[s]) /\ FlagAfter(d, Press[s]) = TRUE
  BY <1>3, <1>4, UndoSettles, KeyCodes
<1>7. codes' = Append(codes \o Undo(Named), Press[s]) /\ codes' \in Seq(Codes)
  BY <1>1, <1>4, <1>6, AddOneMore, AppendProperties
<1>8. WillRead(codes', meant, SHIFT_HELD, TRUE)
  BY <1>4, <1>5, <1>6, <1>7, ReadsCode
<1>9. ShiftDown' /\ Settled(TRUE)'
  BY <1>1 DEF ShiftDown, Settled
<1>10. \E x \in BOOLEAN :
         WillRead(codes', meant', SHIFT_HELD', x) /\ (fake' = "none" => Settled(x)')
  BY <1>2, <1>8, <1>9
<1>. QED  BY <1>1, <1>2, <1>4, <1>7, <1>9, <1>10 DEF KeyboardInv, Shifts

\* A shift key goes up: the flag is down after it, even while the other shift
\* key is held, which is then known to be overlapped.
LEMMA ShiftUpStep == KeyboardInv /\ ShiftKeyUp => KeyboardInv'
<1>. SUFFICES ASSUME KeyboardInv, ShiftKeyUp PROVE KeyboardInv'
  OBVIOUS
<1>1. PICK s \in down \cap Shifts :
        /\ down' = down \ {s}
        /\ codes' = codes \o (Undo(Named) \o <<Release[s]>>)
        /\ overlapped' = (overlapped /\ down' \cap Shifts # {})
  BY DEF ShiftKeyUp, Sent
<1>2. fake' = "none" /\ UNCHANGED <<numlock, meant, SHIFT_HELD, mistyped>>
  BY DEF ShiftKeyUp
<1>3. PICK e \in BOOLEAN :
        WillRead(codes, meant, SHIFT_HELD, e) /\ (fake = "none" => Settled(e))
  BY DEF KeyboardInv
<1>4. codes \in Seq(Codes) /\ meant \in Seq(Meanings) /\ SHIFT_HELD \in BOOLEAN
  BY DEF KeyboardInv
<1>5. PICK d \in BOOLEAN :
        Settled(d) /\ WillRead(codes \o Undo(Named), meant, SHIFT_HELD, d)
  BY <1>3, <1>4, UndoSettles
<1>6. /\ Undo(Named) \in Seq(Codes) /\ codes \o Undo(Named) \in Seq(Codes)
      /\ Release[s] \in Codes /\ ~IsLetter(Release[s]) /\ FlagAfter(d, Release[s]) = FALSE
  BY <1>1, <1>3, <1>4, UndoSettles, KeyCodes
<1>7. codes' = Append(codes \o Undo(Named), Release[s]) /\ codes' \in Seq(Codes)
  BY <1>1, <1>4, <1>6, AddOneMore, AppendProperties
<1>8. WillRead(codes', meant, SHIFT_HELD, FALSE)
  BY <1>4, <1>5, <1>6, <1>7, ReadsCode
<1>9. ShiftDown' => overlapped' = TRUE
  BY <1>1 DEF ShiftDown, Shifts, KeyboardInv
<1>10. Settled(FALSE)'
  BY <1>9 DEF Settled
<1>11. \E x \in BOOLEAN :
         WillRead(codes', meant', SHIFT_HELD', x) /\ (fake' = "none" => Settled(x)')
  BY <1>2, <1>8, <1>10
<1>. QED  BY <1>1, <1>2, <1>4, <1>7, <1>9, <1>11 DEF KeyboardInv, Shifts, ShiftDown

\* A letter finds the flag that is asked for, and leaves it.
LEMMA LetterStep == KeyboardInv /\ Letter => KeyboardInv'
<1>. SUFFICES ASSUME KeyboardInv, Letter PROVE KeyboardInv'
  OBVIOUS
<1>. DEFINE a == [shift |-> ShiftDown, sure |-> ~overlapped]
            u == codes \o Undo(Named)
<1>1. /\ codes' = codes \o (Undo(Named) \o <<"1E", "9E">>)
      /\ meant' = Append(meant, a)
      /\ fake' = "none" /\ UNCHANGED <<down, numlock, SHIFT_HELD, overlapped, mistyped>>
  BY DEF Letter, Sent
<1>3. PICK e \in BOOLEAN :
        WillRead(codes, meant, SHIFT_HELD, e) /\ (fake = "none" => Settled(e))
  BY DEF KeyboardInv
<1>4. /\ codes \in Seq(Codes) /\ meant \in Seq(Meanings) /\ SHIFT_HELD \in BOOLEAN
      /\ a \in Meanings
  BY DEF KeyboardInv, Meanings, ShiftDown
<1>5. PICK d \in BOOLEAN : Settled(d) /\ WillRead(u, meant, SHIFT_HELD, d)
  BY <1>3, <1>4, UndoSettles
<1>6. Undo(Named) \in Seq(Codes) /\ u \in Seq(Codes)
  BY <1>3, <1>4, UndoSettles
<1>7. a.sure => (d <=> a.shift)
  BY <1>5 DEF Settled
<1>. HIDE DEF a, u
<1>8. /\ Append(u, "1E") \in Seq(Codes) /\ Append(Append(u, "1E"), "9E") \in Seq(Codes)
      /\ meant' \in Seq(Meanings)
  BY <1>1, <1>4, <1>6, KeyCodes, AppendProperties
<1>9. WillRead(Append(u, "1E"), meant', SHIFT_HELD, d)
  BY <1>1, <1>4, <1>5, <1>6, <1>7, KeyCodes, ReadsLetter
<1>10. WillRead(Append(Append(u, "1E"), "9E"), meant', SHIFT_HELD, d)
  <2>1. "9E" \in Codes /\ ~IsLetter("9E") /\ FlagAfter(d, "9E") = d
    BY KeyCodes
  <2>. QED  BY <1>4, <1>8, <1>9, <2>1, ReadsCode
<1>11. codes' = Append(Append(u, "1E"), "9E")
  <2>1. /\ codes \in Seq(Codes) /\ Undo(Named) \in Seq(Codes)
        /\ "1E" \in Codes /\ "9E" \in Codes
    BY <1>4, <1>6, KeyCodes
  <2>2. codes \o (Undo(Named) \o <<"1E", "9E">>)
          = Append(Append(codes \o Undo(Named), "1E"), "9E")
    BY <2>1, AddTwoMore
  <2>. QED  BY <1>1, <2>2 DEF u
<1>12. Settled(d)'
  BY <1>1, <1>5 DEF Settled, ShiftDown
<1>13. \E x \in BOOLEAN :
         WillRead(codes', meant', SHIFT_HELD', x) /\ (fake' = "none" => Settled(x)')
  BY <1>1, <1>10, <1>11, <1>12
<1>. QED  BY <1>1, <1>8, <1>11, <1>13 DEF KeyboardInv, ShiftDown

\* What is made up around a grey key may turn the flag, and is remembered.
LEMMA GreyDownStep == KeyboardInv /\ GreyDown => KeyboardInv'
<1>. SUFFICES ASSUME KeyboardInv, GreyDown PROVE KeyboardInv'
  OBVIOUS
<1>1. /\ "grey" \notin down /\ down' = down \cup {"grey"} /\ fake = "none"
      /\ UNCHANGED <<numlock, meant, SHIFT_HELD, overlapped, mistyped>>
  BY DEF GreyDown, KeyboardInv
<1>2. ShiftDown' = ShiftDown /\ (Shifts \subseteq down' <=> Shifts \subseteq down)
  BY <1>1 DEF ShiftDown, Shifts
<1>3. PICK e \in BOOLEAN : WillRead(codes, meant, SHIFT_HELD, e) /\ Settled(e)
  BY <1>1 DEF KeyboardInv
<1>4. codes \in Seq(Codes) /\ meant \in Seq(Meanings) /\ SHIFT_HELD \in BOOLEAN
  BY DEF KeyboardInv
<1>5. ASSUME NEW t \in Seq(Codes), NEW d \in BOOLEAN, WillRead(t, meant, SHIFT_HELD, d)
      PROVE  /\ t \o <<"E0", "48">> \in Seq(Codes)
             /\ WillRead(t \o <<"E0", "48">>, meant, SHIFT_HELD, d)
  <2>1. /\ "E0" \in Codes /\ ~IsLetter("E0") /\ FlagAfter(d, "E0") = d
        /\ "48" \in Codes /\ ~IsLetter("48") /\ FlagAfter(d, "48") = d
    BY KeyCodes
  <2>2. Append(t, "E0") \in Seq(Codes) /\ WillRead(Append(t, "E0"), meant, SHIFT_HELD, d)
    BY <1>4, <1>5, <2>1, ReadsCode, AppendProperties
  <2>3. WillRead(Append(Append(t, "E0"), "48"), meant, SHIFT_HELD, d)
    BY <1>4, <2>1, <2>2, ReadsCode
  <2>. QED  BY <2>1, <2>3, AddTwo
<1>6. ASSUME NEW c \in Codes, ~IsLetter(c), NEW d \in BOOLEAN, FlagAfter(e, c) = d,
             codes' = codes \o <<"E0", c, "E0", "48">>
      PROVE  codes' \in Seq(Codes) /\ WillRead(codes', meant, SHIFT_HELD, d)
  <2>1. "E0" \in Codes /\ ~IsLetter("E0") /\ FlagAfter(e, "E0") = e /\ "48" \in Codes
    BY KeyCodes
  <2>2. Append(codes, "E0") \in Seq(Codes) /\ WillRead(Append(codes, "E0"), meant, SHIFT_HELD, e)
    BY <1>3, <1>4, <2>1, ReadsCode, AppendProperties
  <2>3. /\ Append(Append(codes, "E0"), c) \in Seq(Codes)
        /\ WillRead(Append(Append(codes, "E0"), c), meant, SHIFT_HELD, d)
    BY <1>4, <1>6, <2>2, ReadsCode, AppendProperties
  <2>4. codes' = Append(Append(codes, "E0"), c) \o <<"E0", "48">>
    <3>1. <<"E0", c, "E0", "48">> = <<"E0", c>> \o <<"E0", "48">>
      BY <2>1, FourAre
    <3>2. <<"E0", "48">> \in Seq(Codes)
      BY <2>1
    <3>. QED  BY <1>4, <1>6, <2>1, <3>1, <3>2, AddTwoFirst
  <2>. QED  BY <1>5, <2>3, <2>4
<1>7. CASE ShiftDown /\ ~numlock /\ fake' = "up" /\ codes' = codes \o <<"E0", Release[Named], "E0", "48">>
  <2>1. codes' \in Seq(Codes) /\ WillRead(codes', meant, SHIFT_HELD, FALSE)
    BY <1>6, <1>7, KeyCodes
  <2>. QED  BY <1>1, <1>2, <1>7, <2>1 DEF KeyboardInv
<1>8. CASE ~ShiftDown /\ numlock /\ fake' = "down" /\ codes' = codes \o <<"E0", Press[Named], "E0", "48">>
  <2>1. codes' \in Seq(Codes) /\ WillRead(codes', meant, SHIFT_HELD, TRUE)
    BY <1>6, <1>8, KeyCodes
  <2>. QED  BY <1>1, <1>2, <1>8, <2>1 DEF KeyboardInv
<1>9. CASE fake' = "none" /\ codes' = codes \o <<"E0", "48">>
  <2>1. codes' \in Seq(Codes) /\ WillRead(codes', meant, SHIFT_HELD, e)
    BY <1>3, <1>4, <1>5, <1>9
  <2>2. Settled(e)'
    BY <1>1, <1>2, <1>3 DEF Settled
  <2>. QED  BY <1>1, <1>2, <1>9, <2>1, <2>2 DEF KeyboardInv
<1>. QED  BY <1>7, <1>8, <1>9 DEF GreyDown, Sent

\* It is taken back when the grey key goes up.
LEMMA GreyUpStep == KeyboardInv /\ GreyUp => KeyboardInv'
<1>. SUFFICES ASSUME KeyboardInv, GreyUp PROVE KeyboardInv'
  OBVIOUS
<1>1. /\ down' = down \ {"grey"} /\ codes' = codes \o (<<"E0", "C8">> \o Undo(Named))
      /\ fake' = "none" /\ UNCHANGED <<numlock, meant, SHIFT_HELD, overlapped, mistyped>>
  BY DEF GreyUp, Sent
<1>2. ShiftDown' = ShiftDown /\ (Shifts \subseteq down' <=> Shifts \subseteq down)
  BY <1>1 DEF ShiftDown, Shifts
<1>3. PICK e \in BOOLEAN :
        WillRead(codes, meant, SHIFT_HELD, e) /\ (fake = "none" => Settled(e))
  BY DEF KeyboardInv
<1>4. codes \in Seq(Codes) /\ meant \in Seq(Meanings) /\ SHIFT_HELD \in BOOLEAN
  BY DEF KeyboardInv
<1>. DEFINE t == Append(Append(codes, "E0"), "C8")
<1>5. t \in Seq(Codes) /\ WillRead(t, meant, SHIFT_HELD, e)
  <2>1. /\ "E0" \in Codes /\ ~IsLetter("E0") /\ FlagAfter(e, "E0") = e
        /\ "C8" \in Codes /\ ~IsLetter("C8") /\ FlagAfter(e, "C8") = e
    BY KeyCodes
  <2>2. Append(codes, "E0") \in Seq(Codes) /\ WillRead(Append(codes, "E0"), meant, SHIFT_HELD, e)
    BY <1>3, <1>4, <2>1, ReadsCode, AppendProperties
  <2>. QED  BY <1>4, <2>1, <2>2, ReadsCode, AppendProperties
<1>. HIDE DEF t
<1>6. PICK d \in BOOLEAN :
        Settled(d) /\ WillRead(t \o Undo(Named), meant, SHIFT_HELD, d)
  BY <1>3, <1>5, UndoSettles
<1>7. Undo(Named) \in Seq(Codes) /\ t \o Undo(Named) \in Seq(Codes)
  BY <1>3, <1>5, UndoSettles
<1>8. codes' = t \o Undo(Named)
  BY <1>1, <1>4, <1>7, KeyCodes, AddTwoFirst DEF t
<1>9. Settled(d)'
  BY <1>1, <1>2, <1>6 DEF Settled
<1>10. \E x \in BOOLEAN :
         WillRead(codes', meant', SHIFT_HELD', x) /\ (fake' = "none" => Settled(x)')
  BY <1>1, <1>6, <1>8, <1>9
<1>. QED  BY <1>1, <1>2, <1>7, <1>8, <1>10 DEF KeyboardInv, Shifts

\* The handler does the first of what it will do.
LEMMA HandlerStep == KeyboardInv /\ KeyboardHandler => KeyboardInv'
<1>. SUFFICES ASSUME KeyboardInv, KeyboardHandler PROVE KeyboardInv'
  OBVIOUS
<1>. DEFINE c == Head(codes)
<1>1. /\ codes # <<>> /\ codes' = Tail(codes)
      /\ SHIFT_HELD' = FlagAfter(SHIFT_HELD, c)
      /\ meant' = IF IsLetter(c) THEN Tail(meant) ELSE meant
      /\ UNCHANGED <<down, numlock, fake, overlapped>>
  BY DEF KeyboardHandler, FlagAfter
<1>2. PICK e \in BOOLEAN :
        WillRead(codes, meant, SHIFT_HELD, e) /\ (fake = "none" => Settled(e))
  BY DEF KeyboardInv
<1>3. codes \in Seq(Codes) /\ meant \in Seq(Meanings) /\ SHIFT_HELD \in BOOLEAN
  BY DEF KeyboardInv
<1>4. /\ c \in Codes /\ Tail(codes) \in Seq(Codes)
      /\ ~IsLetter(c) => WillRead(Tail(codes), meant, FlagAfter(SHIFT_HELD, c), e)
      /\ IsLetter(c) =>
           /\ meant # <<>> /\ (Head(meant).sure => (SHIFT_HELD <=> Head(meant).shift))
           /\ WillRead(Tail(codes), Tail(meant), FlagAfter(SHIFT_HELD, c), e)
  BY <1>1, <1>2, <1>3, ReadsFirst
<1>5. meant' \in Seq(Meanings)
  BY <1>1, <1>3, <1>4, HeadTailProperties
<1>6. SHIFT_HELD' \in BOOLEAN
  BY <1>1, <1>3 DEF FlagAfter, ShiftPressed, ShiftReleased
<1>7. mistyped' = FALSE
  <2>1. IsLetter(c) => Head(meant) \in Meanings
    BY <1>3, <1>4, HeadTailProperties
  <2>2. ~(IsLetter(c) /\ Head(meant).sure /\ SHIFT_HELD # Head(meant).shift)
    BY <1>3, <1>4, <2>1 DEF Meanings
  <2>. QED  BY <2>2 DEF KeyboardHandler, KeyboardInv
<1>8. WillRead(codes', meant', SHIFT_HELD', e) /\ (fake' = "none" => Settled(e)')
  BY <1>1, <1>2, <1>4 DEF Settled, ShiftDown
<1>. QED  BY <1>1, <1>4, <1>5, <1>6, <1>7, <1>8 DEF KeyboardInv, ShiftDown

\* ShiftFollowsTheKeys for any number of codes that wait (keyboard_handler).
THEOREM ShiftIsRight == KeyboardSpec => []ShiftFollowsTheKeys
<1>1. KeyboardInit => KeyboardInv
  <2>. SUFFICES ASSUME KeyboardInit PROVE KeyboardInv
    OBVIOUS
  <2>1. WillRead(<<>>, <<>>, FALSE, FALSE)
    BY ReadsNothing
  <2>2. \A T : <<>> \in Seq(T)
    OBVIOUS
  <2>. QED  BY <2>1, <2>2 DEF KeyboardInit, KeyboardInv, Settled, ShiftDown, Shifts
<1>2. KeyboardInv /\ [KeyboardNext]_keyboardVars => KeyboardInv'
  <2>1. KeyboardInv /\ UNCHANGED keyboardVars => KeyboardInv'
    BY DEF KeyboardInv, keyboardVars, Settled, ShiftDown
  <2>. QED  BY <2>1, ShiftDownStep, ShiftUpStep, LetterStep, GreyDownStep, GreyUpStep,
               HandlerStep DEF KeyboardNext
<1>3. KeyboardInv => ShiftFollowsTheKeys
  <2>1. SUFFICES ASSUME KeyboardInv, codes = <<>>, fake = "none"
                 PROVE  /\ SHIFT_HELD => ShiftDown
                        /\ ShiftDown /\ ~overlapped => SHIFT_HELD
    BY DEF KeyboardInv, ShiftFollowsTheKeys
  <2>2. PICK e \in BOOLEAN : WillRead(codes, meant, SHIFT_HELD, e) /\ Settled(e)
    BY <2>1 DEF KeyboardInv
  <2>3. e <=> SHIFT_HELD
    BY <2>1, <2>2, ReadsNothing DEF KeyboardInv
  <2>. QED  BY <2>2, <2>3 DEF Settled
<1>. QED  BY <1>1, <1>2, <1>3, PTL DEF KeyboardSpec

-----------------------------------------------------------------------------
(* The chat window. *)

ChatMessages == [sender : {"System", "User"}, len : Nat]

\* The window is what render makes of the messages.
ChatInv ==
    /\ width \in Nat /\ height \in Nat
    /\ messages \in Seq(ChatMessages)
    /\ panicked \in BOOLEAN /\ (panicked => Overflows)
    /\ messages # <<>> /\ ~panicked => ~Overflows /\ drawn = Bubbles(messages)

\* The heights and widths that a layout without overflow has.
LEMMA LayoutFits ==
    ASSUME width \in Nat, height \in Nat
    PROVE  /\ Overflows => width < 40 \/ height < 182
           /\ ~Overflows =>
                /\ ColW \in Nat /\ ColX \in Nat /\ ColX + ColW + 2 <= width
                /\ InputTop \in Nat /\ MsgBot \in Nat /\ MsgTop = 90
                /\ MsgBot + 12 = InputTop
                /\ MaxMsgs \in Nat /\ MsgTop + MaxMsgs * 68 <= MsgBot
                /\ MsgBot < MsgTop + (MaxMsgs + 1) * 68
<1>1. Overflows => width < 40 \/ height < 182
  BY DEF Overflows, MsgBot, MsgTop, InputTop, Less, InputHeight, HeaderHeight
<1>2. ASSUME ~Overflows
      PROVE  /\ ColW \in Nat /\ ColX \in Nat /\ ColX + ColW + 2 <= width
             /\ InputTop \in Nat /\ MsgBot \in Nat /\ MsgTop = 90
             /\ MsgBot + 12 = InputTop
             /\ MaxMsgs \in Nat /\ MsgTop + MaxMsgs * 68 <= MsgBot
             /\ MsgBot < MsgTop + (MaxMsgs + 1) * 68
  <2>1. width >= 40 /\ MsgTop = 90 /\ MsgBot >= 90
    BY <1>2 DEF Overflows, MsgBot, MsgTop, InputTop, Less, InputHeight, HeaderHeight
  <2>2. InputTop \in Nat /\ MsgBot \in Nat /\ MsgBot + 12 = InputTop
    BY <2>1 DEF MsgBot, InputTop, Less, InputHeight
  <2>3. ColW \in Nat /\ ColW <= width - 40
    BY <2>1 DEF ColW, Lesser
  <2>4. ColX \in Nat /\ ColX + ColW + 2 <= width
    <3>. DEFINE d == width - ColW
    <3>1. d \in Nat /\ d >= 40
      BY <2>1, <2>3
    <3>2. ColX = d \div 2
      BY DEF ColX
    <3>3. d = width - ColW
      OBVIOUS
    <3>. HIDE DEF d
    <3>4. d \div 2 \in Nat /\ (d \div 2) + 2 <= d
      BY <3>1
    <3>. QED  BY <2>3, <3>1, <3>2, <3>3, <3>4
  <2>5. MaxMsgs \in Nat /\ MsgTop + MaxMsgs * 68 <= MsgBot /\ MsgBot < MsgTop + (MaxMsgs + 1) * 68
    <3>. DEFINE d == MsgBot - MsgTop
    <3>1. d \in Nat
      BY <2>1, <2>2
    <3>2. MaxMsgs = d \div 68
      BY DEF MaxMsgs, BubbleHeight, Gap, CH
    <3>3. d = MsgBot - MsgTop
      OBVIOUS
    <3>. HIDE DEF d
    <3>4. d \div 68 \in Nat /\ (d \div 68) * 68 <= d /\ d < ((d \div 68) + 1) * 68
      BY <3>1
    <3>. QED  BY <2>1, <2>2, <3>1, <3>2, <3>3, <3>4
  <2>. QED  BY <2>1, <2>2, <2>3, <2>4, <2>5
<1>. QED  BY <1>1, <1>2

\* All of the last MaxMsgs messages have a bubble, in their order.
LEMMA BubblesAre ==
    ASSUME width \in Nat, height \in Nat, ~Overflows,
           NEW ms \in Seq(ChatMessages)
    PROVE  LET shown == Lesser(Len(ms), MaxMsgs) IN
           /\ shown \in Nat /\ Len(Bubbles(ms)) = shown
           /\ DOMAIN Bubbles(ms) = 1 .. shown
           /\ \A k \in 1 .. shown :
                Bubbles(ms)[k] = Bubble(ms, Len(ms) - shown + k, MsgTop + (k - 1) * 68)
<1>. DEFINE n == Len(ms)
            shown == Lesser(n, MaxMsgs)
            start == Less(n, MaxMsgs)
            y(k) == MsgTop + (k - 1) * (BubbleHeight + Gap)
            fit == {k \in 1 .. n - start : y(k) + BubbleHeight <= MsgBot}
<1>1. /\ n \in Nat /\ MaxMsgs \in Nat /\ MsgBot \in Nat /\ MsgTop = 90
      /\ MsgTop + MaxMsgs * 68 <= MsgBot
  BY LenProperties, LayoutFits
<1>2. /\ shown \in Nat /\ shown <= MaxMsgs /\ start \in Nat /\ n - start = shown
      /\ start = n - shown
  BY <1>1 DEF Lesser, Less
<1>3. BubbleHeight = 52 /\ Gap = 16
  BY DEF BubbleHeight, CH, Gap
<1>. HIDE DEF n, shown, start
<1>4. ASSUME NEW k \in 1 .. shown PROVE y(k) + BubbleHeight <= MsgBot
  BY <1>1, <1>2, <1>3
<1>5. fit = 1 .. shown
  BY <1>2, <1>4
<1>6. Bubbles(ms) = [k \in fit |-> Bubble(ms, start + k, y(k))]
  BY DEF Bubbles, n, start
<1>. HIDE DEF fit
<1>7. DOMAIN Bubbles(ms) = 1 .. shown
  BY <1>5, <1>6
<1>8. Len(Bubbles(ms)) = shown
  BY <1>2, <1>5, <1>6
<1>9. ASSUME NEW k \in 1 .. shown
      PROVE  Bubbles(ms)[k] = Bubble(ms, n - shown + k, MsgTop + (k - 1) * 68)
  <2>1. y(k) = MsgTop + (k - 1) * 68 /\ start + k = n - shown + k
    BY <1>1, <1>2, <1>3
  <2>. HIDE DEF y
  <2>. QED  BY <1>5, <1>6, <2>1
<1>. QED  BY <1>2, <1>7, <1>8, <1>9 DEF shown, n

\* Where a bubble lies.
LEMMA BubbleLies ==
    ASSUME width \in Nat, height \in Nat, ~Overflows,
           NEW ms \in Seq(ChatMessages), NEW i \in 1 .. Len(ms), NEW y \in Nat
    PROVE  LET b == Bubble(ms, i, y) IN
           /\ b.message = i /\ b.y = y /\ b.h = 54
           /\ b.x + b.w <= width
<1>1. ms[i] \in ChatMessages
  BY ElementOfSeq
<1>2. ms[i].len \in Nat
  BY <1>1 DEF ChatMessages
<1>. DEFINE bw == Lesser(ms[i].len * CW + 32, ColW)
<1>3. ColW \in Nat /\ ColX \in Nat /\ ColX + ColW + 2 <= width
  BY LayoutFits
<1>4. bw \in Nat /\ bw <= ColW
  <2>. DEFINE a == ms[i].len * CW + 32
  <2>1. a \in Nat
    BY <1>2 DEF CW
  <2>. HIDE DEF a
  <2>2. bw = IF a < ColW THEN a ELSE ColW
    BY DEF Lesser, a
  <2>. HIDE DEF bw
  <2>. QED  BY <1>3, <2>1, <2>2
<1>. HIDE DEF bw
<1>5. Bubble(ms, i, y) =
        [message |-> i, y |-> y, w |-> bw + 2, h |-> BubbleHeight + 2,
         x |-> IF ms[i].sender = "System" THEN ColX ELSE ColX + ColW - bw - 2]
  BY DEF Bubble, bw
<1>6. BubbleHeight + 2 = 54
  BY DEF BubbleHeight, CH
<1>. DEFINE left == IF ms[i].sender = "System" THEN ColX ELSE ColX + ColW - bw - 2
<1>7. left + (bw + 2) <= width
  BY <1>3, <1>4
<1>. HIDE DEF left
<1>8. Bubble(ms, i, y) = [message |-> i, y |-> y, w |-> bw + 2, h |-> 54, x |-> left]
  BY <1>5, <1>6 DEF left
<1>. QED  BY <1>7, <1>8

\* Nothing is drawn at the start.
LEMMA ChatStarts == ChatInit => ChatInv
<1>. SUFFICES ASSUME ChatInit PROVE ChatInv
  OBVIOUS
<1>1. width \in Nat /\ height \in Nat
  BY WindowAssumption DEF ChatInit
<1>2. messages = <<>> /\ panicked = FALSE
  BY DEF ChatInit
<1>3. \A T : <<>> \in Seq(T)
  OBVIOUS
<1>4. messages \in Seq(ChatMessages)
  BY <1>2, <1>3
<1>5. panicked \in BOOLEAN /\ ~panicked /\ ~(messages # <<>>)
  BY ONLY <1>2
<1>. QED  BY ONLY <1>1, <1>4, <1>5 DEF ChatInv

\* A message added and drawn keeps the invariant.
LEMMA ChatStep == ChatInv /\ [ChatNext]_chatVars => ChatInv'
<1>. SUFFICES ASSUME ChatInv, [ChatNext]_chatVars PROVE ChatInv'
  OBVIOUS
<1>1. ASSUME NEW m \in ChatMessages, ~panicked, Pushed(m) PROVE ChatInv'
  <2>1. messages' \in Seq(ChatMessages) /\ UNCHANGED <<width, height>>
    BY <1>1, AppendProperties DEF ChatInv, Pushed
  <2>2. Overflows' = Overflows /\ Bubbles(messages)' = Bubbles(messages')
    BY <2>1 DEF Overflows, MsgBot, MsgTop, InputTop, Bubbles, MaxMsgs, Bubble, ColW, ColX
  <2>3. IF Overflows THEN panicked' = TRUE
                     ELSE drawn' = Bubbles(messages') /\ panicked' = panicked
    BY <1>1 DEF Pushed, Render
  <2>. QED  BY <1>1, <2>1, <2>2, <2>3 DEF ChatInv
<1>2. CASE SystemMsg
  <2>1. ~panicked /\ Len(messages) < 3
    BY <1>2 DEF SystemMsg, Welcomes
  <2>2. Len(messages) + 1 \in 1 .. 3
    BY <2>1, LenProperties DEF ChatInv
  <2>3. NewMessage("System", Welcomes[Len(messages) + 1]) \in ChatMessages
    BY <2>2 DEF NewMessage, Welcomes, ChatMessages, Lesser
  <2>. QED  BY <1>1, <1>2, <2>1, <2>3 DEF SystemMsg
<1>3. CASE UserMsg
  <2>1. PICK n \in TextLengths : ~panicked /\ Pushed(NewMessage("User", n))
    BY <1>3 DEF UserMsg
  <2>2. NewMessage("User", n) \in ChatMessages
    BY WindowAssumption DEF NewMessage, ChatMessages, Lesser
  <2>. QED  BY <1>1, <2>1, <2>2
<1>4. CASE UNCHANGED chatVars
  BY <1>4 DEF chatVars, ChatInv, Overflows, MsgBot, MsgTop, InputTop, Bubbles, MaxMsgs,
              Bubble, ColW, ColX
<1>. QED  BY <1>2, <1>3, <1>4 DEF ChatNext

\* LatestMessagesAreShown for a framebuffer of any size and texts of any length
\* (render of chat_ui.rs).
THEOREM WindowShowsTheEnd == ChatSpec => []LatestMessagesAreShown
<1>1. ASSUME ChatInv PROVE LatestMessagesAreShown
  <2>1. width \in Nat /\ height \in Nat /\ messages \in Seq(ChatMessages)
    BY <1>1 DEF ChatInv
  <2>2. panicked => width < 40 \/ height < 182
    BY <1>1, <2>1, LayoutFits DEF ChatInv
  <2>3. ASSUME messages # <<>>, ~panicked
        PROVE  /\ \A k \in DOMAIN drawn :
                    /\ drawn[k].message = Len(messages) - Len(drawn) + k
                    /\ drawn[k].y > HeaderHeight /\ Below(drawn[k]) < InputTop
                    /\ drawn[k].x + drawn[k].w <= width
                    /\ k > 1 => Below(drawn[k - 1]) < drawn[k].y
               /\ \/ Len(drawn) = Len(messages)
                  \/ MsgTop + (Len(drawn) + 1) * (BubbleHeight + Gap) > MsgBot
    <3>1. ~Overflows /\ drawn = Bubbles(messages)
      BY <1>1, <2>3 DEF ChatInv
    <3>2. PICK n, m, s, bot : /\ n = Len(messages) /\ m = MaxMsgs /\ s = Lesser(n, m)
                              /\ bot = MsgBot
      OBVIOUS
    <3>3. /\ n \in Nat /\ m \in Nat /\ s \in Nat /\ s <= n /\ s <= m /\ (s = n \/ s = m)
          /\ bot \in Nat /\ MsgTop = 90 /\ InputTop = bot + 12
          /\ 90 + m * 68 <= bot /\ bot < 90 + (m + 1) * 68
      <4>1. /\ n \in Nat /\ m \in Nat /\ bot \in Nat /\ MsgTop = 90 /\ InputTop \in Nat
            /\ bot + 12 = InputTop /\ MsgTop + m * 68 <= bot
            /\ bot < MsgTop + (m + 1) * 68
        BY <2>1, <3>1, <3>2, LayoutFits, LenProperties
      <4>2. s \in Nat /\ s <= n /\ s <= m /\ (s = n \/ s = m)
        BY <3>2, <4>1 DEF Lesser
      <4>. QED  BY <4>1, <4>2
    <3>4. /\ DOMAIN drawn = 1 .. s /\ Len(drawn) = s
          /\ \A k \in 1 .. s : drawn[k] = Bubble(messages, n - s + k, 90 + (k - 1) * 68)
      BY <2>1, <3>1, <3>2, <3>3, BubblesAre
    <3>5. ASSUME NEW k \in 1 .. s
          PROVE  /\ drawn[k].message = n - s + k
                 /\ drawn[k].y = 90 + (k - 1) * 68 /\ drawn[k].h = 54
                 /\ drawn[k].x + drawn[k].w <= width
      <4>1. n - s + k \in 1 .. Len(messages) /\ 90 + (k - 1) * 68 \in Nat
        BY <3>2, <3>3
      <4>. QED  BY <2>1, <3>1, <3>4, <4>1, BubbleLies
    <3>6. ASSUME NEW k \in 1 .. s
          PROVE  /\ 90 + (k - 1) * 68 > HeaderHeight
                 /\ 90 + (k - 1) * 68 + 54 < InputTop
                 /\ k > 1 => k - 1 \in 1 .. s /\ 90 + ((k - 1) - 1) * 68 + 54 < 90 + (k - 1) * 68
      BY <3>3 DEF HeaderHeight
    <3>8. ASSUME NEW k \in 1 .. s
          PROVE  /\ drawn[k].message = n - s + k
                 /\ drawn[k].y > HeaderHeight /\ Below(drawn[k]) < InputTop
                 /\ drawn[k].x + drawn[k].w <= width
                 /\ k > 1 => Below(drawn[k - 1]) < drawn[k].y
      <4>1. /\ drawn[k].y = 90 + (k - 1) * 68 /\ drawn[k].h = 54
            /\ 90 + (k - 1) * 68 + 54 < InputTop /\ 90 + (k - 1) * 68 > HeaderHeight
        BY <3>5, <3>6
      <4>2. ASSUME k > 1 PROVE Below(drawn[k - 1]) < drawn[k].y
        <5>1. PICK j \in 1 .. s : j = k - 1
          BY <3>6, <4>2
        <5>2. /\ drawn[j].y = 90 + (j - 1) * 68 /\ drawn[j].h = 54
          BY <3>5
        <5>3. 90 + (j - 1) * 68 + 54 < 90 + (k - 1) * 68
          BY <3>6, <4>2, <5>1
        <5>. QED  BY <4>1, <5>1, <5>2, <5>3 DEF Below
      <4>. QED  BY <3>5, <4>1, <4>2 DEF Below
    <3>7. s = n \/ MsgTop + (s + 1) * (BubbleHeight + Gap) > MsgBot
      BY <3>2, <3>3 DEF BubbleHeight, Gap, CH
    <3>. QED  BY <3>2, <3>4, <3>7, <3>8
  <2>. QED  BY <2>2, <2>3 DEF LatestMessagesAreShown
<1>. QED  BY <1>1, ChatStarts, ChatStep, PTL DEF ChatSpec

-----------------------------------------------------------------------------
(* The serial line to the language model. *)

InReply == {"text", "part", "last"}
Kinds == {"STX", "R", "S", "P", ":", "ETX", "enter", "invalid"} \cup InReply
Bytes == [kind : Kinds, reply : Nat, at : Nat]
Ends == {Typed, Enter} \cup {Etx(q) : q \in Nat \ {0}}

\* What the bridge has sent, R by query: no reply has a byte of a frame in it,
\* and none ends inside a character.
WellFramed(R) ==
    \A q \in DOMAIN R :
       /\ q \in Nat \ {0} /\ R[q] \in Seq(Bytes)
       /\ \A n \in 1 .. Len(R[q]) : R[q][n].reply = q /\ R[q][n].at = n /\ R[q][n].kind \in InReply
       /\ R[q] = <<>> \/ R[q][Len(R[q])].kind # "part"

\* T has the replies of R and perhaps more.
Extends(R, T) == DOMAIN R \subseteq DOMAIN T /\ \A q \in DOMAIN R : T[q] = R[q]

\* What comes after n bytes of the reply to q.
After(R, q, n) == IF n < Len(R[q]) THEN R[q][n + 1] ELSE Etx(q)

\* What the buffer has taken of the first n bytes of a reply, and what the
\* query returns of a whole one.
Cut(reply, n) == SubSeq(reply, 1, IF n <= MaxResponse THEN n ELSE MaxResponse)
Shown(reply) == IF Len(reply) <= MaxResponse THEN reply
                ELSE Decoded(SubSeq(reply, 1, MaxResponse))

\* y may come after x when the bridge has sent the replies R.
Follows(x, y, R) ==
    \/ x \in Ends /\ y \in {Typed, Enter, Header[1]}
    \/ \E k \in 1 .. 4 : x = Header[k] /\ y = Header[k + 1]
    \/ x = Header[5] /\ \E q \in DOMAIN R : y = After(R, q, 0)
    \/ \E q \in DOMAIN R : \E n \in 1 .. Len(R[q]) : x = R[q][n] /\ y = After(R, q, n)

\* Bytes as they may be on their way: whole frames but for the first, and the
\* replies in the order of the queries.
Stream(s, R) ==
    /\ s \in Seq(Bytes) /\ s # <<>> /\ s[Len(s)] \in Ends
    /\ \A i \in 1 .. Len(s) - 1 : Follows(s[i], s[i + 1], R)
    /\ \A j \in 1 .. Len(s) : \A k \in 1 .. Len(s) :
          j < k /\ s[j].kind = "ETX" /\ s[k].reply # 0 => s[j].reply < s[k].reply

\* s is the byte that the kernel has read last, and those to come.
Behind(s, to_come) ==
    /\ Len(s) = Len(to_come) + 1
    /\ \A i \in 1 .. Len(to_come) : to_come[i] = s[i + 1]

\* What the bytes are, apart.
LEMMA ByteFacts ==
    /\ Len(Header) = 5
    /\ \A k \in 1 .. 5 : /\ Header[k] \in Bytes /\ Header[k].reply = 0 /\ Header[k].at = 0
                         /\ Header[k].kind \notin InReply \cup {"ETX", "text", "enter"}
    /\ \A k \in 1 .. 4 : Header[k].kind # ":"
    /\ Header[5].kind = ":"
    /\ \A e \in {Typed, Enter} : e \in Bytes /\ e.reply = 0 /\ e.at = 0 /\ e.kind \in {"text", "enter"}
    /\ \A q \in Nat : /\ Etx(q) \in Bytes /\ Etx(q).reply = q /\ Etx(q).at = 0
                      /\ Etx(q).kind = "ETX"
    /\ InvalidText \in Seq(Bytes)
<1>1. \A k \in 1 .. 5 : /\ Header[k] \in Bytes /\ Header[k].reply = 0 /\ Header[k].at = 0
                        /\ Header[k].kind \notin InReply \cup {"ETX", "text", "enter"}
  BY DEF Header, Frame, Bytes, Kinds, InReply
<1>2. Frame("invalid") \in Bytes
  BY DEF Frame, Bytes, Kinds
<1>3. InvalidText \in Seq(Bytes)
  BY <1>2 DEF InvalidText
<1>4. \A e \in {Typed, Enter} : e \in Bytes /\ e.reply = 0 /\ e.at = 0 /\ e.kind \in {"text", "enter"}
  BY DEF Typed, Enter, Frame, Bytes, Kinds, InReply
<1>5. \A q \in Nat : /\ Etx(q) \in Bytes /\ Etx(q).reply = q /\ Etx(q).at = 0
                     /\ Etx(q).kind = "ETX"
  BY DEF Etx, Bytes, Kinds
<1>6. Len(Header) = 5 /\ Header[5].kind = ":" /\ \A k \in 1 .. 4 : Header[k].kind # ":"
  BY DEF Header, Frame
<1>. QED  BY <1>1, <1>3, <1>4, <1>5, <1>6

\* The ends of a frame, and keystrokes.
LEMMA EndFacts ==
    ASSUME NEW e \in Ends
    PROVE  /\ e \in Bytes /\ e.at = 0 /\ e.kind \in {"text", "enter", "ETX"}
           /\ e.kind # "ETX" => e.reply = 0
BY ByteFacts DEF Ends

\* What comes after a part of a reply.
LEMMA AfterFacts ==
    ASSUME NEW R, WellFramed(R), NEW q \in DOMAIN R, NEW n \in Nat, n <= Len(R[q])
    PROVE  /\ After(R, q, n).kind = "ETX" <=> n = Len(R[q])
           /\ After(R, q, n) \in Bytes /\ After(R, q, n).reply = q
           /\ n = Len(R[q]) => After(R, q, n) = Etx(q)
           /\ n # Len(R[q]) => /\ n + 1 \in 1 .. Len(R[q]) /\ After(R, q, n) = R[q][n + 1]
<1>1. /\ q \in Nat \ {0} /\ R[q] \in Seq(Bytes) /\ Len(R[q]) \in Nat
      /\ \A m \in 1 .. Len(R[q]) : R[q][m] \in Bytes
      /\ \A m \in 1 .. Len(R[q]) : R[q][m].reply = q /\ R[q][m].kind \in InReply
  BY LenProperties, ElementOfSeq DEF WellFramed
<1>2. CASE n = Len(R[q])
  BY <1>1, <1>2, ByteFacts DEF After
<1>3. CASE n # Len(R[q])
  <2>1. n + 1 \in 1 .. Len(R[q]) /\ n < Len(R[q])
    BY <1>1, <1>3
  <2>2. After(R, q, n) = R[q][n + 1]
    BY <2>1 DEF After
  <2>. QED  BY <1>1, <1>3, <2>1, <2>2 DEF InReply
<1>. QED  BY <1>2, <1>3

\* The header is followed by a reply, which may be empty.
LEMMA AfterHeader ==
    ASSUME NEW R, WellFramed(R), NEW y, Follows(Header[5], y, R)
    PROVE  \E q \in DOMAIN R : y = After(R, q, 0)
<1>1. Header[5] \notin Ends /\ \A k \in 1 .. 4 : Header[5] # Header[k]
  <2>1. \A e \in Ends : e.kind # ":"
    BY EndFacts
  <2>. QED  BY <2>1, ByteFacts
<1>2. \A q \in DOMAIN R : \A n \in 1 .. Len(R[q]) : Header[5] # R[q][n]
  BY ByteFacts DEF WellFramed, InReply
<1>. QED  BY <1>1, <1>2 DEF Follows

\* After a byte of a reply: the next one, or the end of that reply.
LEMMA AfterReply ==
    ASSUME NEW R, WellFramed(R), NEW q \in DOMAIN R, NEW n \in 1 .. Len(R[q]), NEW y,
           Follows(R[q][n], y, R)
    PROVE  y = After(R, q, n)
<1>0. R[q][n].kind \in InReply /\ R[q][n].reply = q /\ R[q][n].at = n /\ n # 0
  BY DEF WellFramed
<1>1. R[q][n] \notin Ends /\ \A k \in 1 .. 5 : R[q][n] # Header[k]
  <2>1. \A e \in Ends : e.at = 0
    BY EndFacts
  <2>2. \A k \in 1 .. 5 : Header[k].at = 0
    BY ByteFacts
  <2>. QED  BY <1>0, <2>1, <2>2
<1>2. PICK r \in DOMAIN R : \E m \in 1 .. Len(R[r]) : R[q][n] = R[r][m] /\ y = After(R, r, m)
  BY <1>1 DEF Follows
<1>3. PICK m \in 1 .. Len(R[r]) : R[q][n] = R[r][m] /\ y = After(R, r, m)
  BY <1>2
<1>4. q = r /\ n = m
  BY <1>0, <1>3 DEF WellFramed
<1>. QED  BY <1>3, <1>4

\* More replies change nothing for what is on its way.
LEMMA FollowsStill ==
    ASSUME NEW R, NEW T, Extends(R, T), NEW x, NEW y, Follows(x, y, R)
    PROVE  Follows(x, y, T)
<1>1. \A q \in DOMAIN R : q \in DOMAIN T /\ T[q] = R[q]
  BY DEF Extends
<1>2. ASSUME x = Header[5], NEW q \in DOMAIN R, y = After(R, q, 0)
      PROVE  Follows(x, y, T)
  <2>1. q \in DOMAIN T /\ y = After(T, q, 0)
    BY <1>1, <1>2 DEF After
  <2>. QED  BY <1>2, <2>1 DEF Follows
<1>3. ASSUME NEW q \in DOMAIN R, NEW n \in 1 .. Len(R[q]), x = R[q][n], y = After(R, q, n)
      PROVE  Follows(x, y, T)
  <2>1. q \in DOMAIN T /\ n \in 1 .. Len(T[q]) /\ x = T[q][n] /\ y = After(T, q, n)
    BY <1>1, <1>3 DEF After
  <2>. QED  BY <2>1 DEF Follows
<1>. QED  BY <1>2, <1>3 DEF Follows

\* The kernel reads a byte.
LEMMA ByteTaken ==
    ASSUME NEW s, NEW R, Stream(s, R), NEW to_come \in Seq(Bytes), Behind(s, to_come),
           to_come # <<>>
    PROVE  /\ Stream(Tail(s), R) /\ Behind(Tail(s), Tail(to_come))
           /\ Tail(to_come) \in Seq(Bytes)
           /\ Len(Tail(s)) = Len(s) - 1 /\ Len(s) \in Nat /\ Len(s) >= 2
           /\ \A i \in 1 .. Len(Tail(s)) : Tail(s)[i] = s[i + 1] /\ i + 1 \in 1 .. Len(s)
           /\ Tail(s)[1] = Head(to_come) /\ s[2] = Head(to_come)
           /\ Head(to_come) \in Bytes /\ Follows(s[1], Head(to_come), R)
<1>. DEFINE t == Tail(s)
            rest == Tail(to_come)
<1>1. s \in Seq(Bytes) /\ s # <<>>
  BY DEF Stream
<1>2. Len(s) \in Nat /\ Len(to_come) \in Nat \ {0} /\ Len(s) = Len(to_come) + 1
  BY <1>1, LenProperties, EmptySeq DEF Behind
<1>3. /\ t \in Seq(Bytes) /\ Len(t) = Len(s) - 1
      /\ \A i \in 1 .. Len(t) : t[i] = s[i + 1]
  BY <1>1, <1>2, HeadTailProperties
<1>4. /\ rest \in Seq(Bytes) /\ Len(rest) = Len(to_come) - 1
      /\ \A i \in 1 .. Len(rest) : rest[i] = to_come[i + 1]
      /\ Head(to_come) = to_come[1] /\ Head(to_come) \in Bytes
  BY <1>2, HeadTailProperties
<1>. HIDE DEF t, rest
<1>5. \A i \in 1 .. Len(t) : i + 1 \in 1 .. Len(s)
  BY <1>2, <1>3
<1>6. s[2] = Head(to_come) /\ t[1] = Head(to_come)
  <2>1. 1 \in 1 .. Len(to_come) /\ 1 \in 1 .. Len(t)
    BY <1>2, <1>3
  <2>. QED  BY <1>3, <1>4, <2>1 DEF Behind
<1>7. Behind(t, rest)
  <2>1. ASSUME NEW i \in 1 .. Len(rest) PROVE rest[i] = t[i + 1]
    <3>1. i + 1 \in 1 .. Len(to_come) /\ i + 1 \in 1 .. Len(t)
      BY <1>2, <1>3, <1>4
    <3>. QED  BY <1>3, <1>4, <3>1 DEF Behind
  <2>. QED  BY <1>2, <1>3, <1>4, <2>1 DEF Behind
<1>8. Stream(t, R)
  <2>1. t # <<>> /\ t[Len(t)] = s[Len(s)]
    <3>1. Len(t) \in 1 .. Len(t) /\ Len(t) + 1 = Len(s)
      BY <1>2, <1>3
    <3>. QED  BY <1>3, <3>1, EmptySeq
  <2>2. ASSUME NEW i \in 1 .. Len(t) - 1 PROVE Follows(t[i], t[i + 1], R)
    <3>1. /\ i \in 1 .. Len(t) /\ i + 1 \in 1 .. Len(t) /\ i + 1 \in 1 .. Len(s) - 1
      BY <1>2, <1>3
    <3>2. t[i] = s[i + 1] /\ t[i + 1] = s[(i + 1) + 1]
      BY <1>3, <3>1
    <3>. QED  BY <3>1, <3>2 DEF Stream
  <2>3. ASSUME NEW j \in 1 .. Len(t), NEW k \in 1 .. Len(t),
               j < k, t[j].kind = "ETX", t[k].reply # 0
        PROVE  t[j].reply < t[k].reply
    <3>1. j + 1 \in 1 .. Len(s) /\ k + 1 \in 1 .. Len(s) /\ j + 1 < k + 1
      BY <1>5, <2>3
    <3>2. t[j] = s[j + 1] /\ t[k] = s[k + 1]
      BY <1>3
    <3>. QED  BY <2>3, <3>1, <3>2 DEF Stream
  <2>. QED  BY <1>3, <2>1, <2>2, <2>3 DEF Stream
<1>9. Follows(s[1], Head(to_come), R)
  <2>1. 1 \in 1 .. Len(s) - 1 /\ 1 + 1 = 2
    BY <1>2
  <2>. QED  BY <1>6, <2>1 DEF Stream
<1>. QED  BY <1>2, <1>3, <1>4, <1>5, <1>6, <1>7, <1>8, <1>9 DEF t, rest

\* Keystrokes and frames that may be added: newer than what is on its way.
Addition(t, R, s) ==
    /\ t \in Seq(Bytes) /\ t # <<>>
    /\ t[1] \in {Typed, Enter, Header[1]} /\ t[Len(t)] \in Ends
    /\ \A i \in 1 .. Len(t) - 1 : Follows(t[i], t[i + 1], R) /\ t[i].kind # "ETX"
    /\ \A i \in 1 .. Len(t) : t[i].reply # 0 =>
          \A j \in 1 .. Len(s) : s[j].reply < t[i].reply

\* The way with an addition at its end.
LEMMA StreamGrows ==
    ASSUME NEW s, NEW R, Stream(s, R), NEW to_come \in Seq(Bytes), Behind(s, to_come),
           NEW T, Extends(R, T), NEW t, Addition(t, T, s)
    PROVE  /\ Stream(s \o t, T) /\ Behind(s \o t, to_come \o t)
           /\ to_come \o t \in Seq(Bytes)
           /\ Len(s \o t) \in Nat /\ Len(s \o t) = Len(s) + Len(t) /\ Len(s) \in Nat \ {0}
           /\ \A i \in 1 .. Len(s) : (s \o t)[i] = s[i]
           /\ \A i \in 1 .. Len(t) : (s \o t)[Len(s) + i] = t[i]
<1>. DEFINE u == s \o t
            v == to_come \o t
            L == Len(s)
            N == Len(t)
<1>1. s \in Seq(Bytes) /\ t \in Seq(Bytes) /\ s # <<>> /\ t # <<>>
  BY DEF Stream, Addition
<1>2. L \in Nat \ {0} /\ N \in Nat \ {0} /\ Len(to_come) \in Nat /\ Len(to_come) = L - 1
  <2>1. L \in Nat \ {0} /\ N \in Nat \ {0} /\ Len(to_come) \in Nat
    BY <1>1, LenProperties, EmptySeq
  <2>. QED  BY <2>1 DEF Behind
<1>3. /\ u \in Seq(Bytes) /\ Len(u) = L + N
      /\ \A i \in 1 .. L + N : u[i] = IF i <= L THEN s[i] ELSE t[i - L]
  BY <1>1, ConcatProperties
<1>4. /\ v \in Seq(Bytes) /\ Len(v) = Len(to_come) + N
      /\ \A i \in 1 .. Len(to_come) + N :
            v[i] = IF i <= Len(to_come) THEN to_come[i] ELSE t[i - Len(to_come)]
  BY <1>1, ConcatProperties
<1>5. /\ \A i \in 1 .. L - 1 : Follows(s[i], s[i + 1], R)
      /\ s[L] \in Ends
      /\ \A j \in 1 .. L : \A k \in 1 .. L :
            j < k /\ s[j].kind = "ETX" /\ s[k].reply # 0 => s[j].reply < s[k].reply
      /\ t[1] \in {Typed, Enter, Header[1]} /\ t[N] \in Ends
      /\ \A i \in 1 .. N - 1 : Follows(t[i], t[i + 1], T) /\ t[i].kind # "ETX"
      /\ \A i \in 1 .. N : t[i].reply # 0 => \A j \in 1 .. L : s[j].reply < t[i].reply
      /\ \A i \in 1 .. Len(to_come) : to_come[i] = s[i + 1]
  BY DEF Stream, Addition, Behind
<1>. HIDE DEF u, v, L, N
<1>6. /\ \A i \in 1 .. L : u[i] = s[i]
      /\ \A i \in 1 .. N : u[L + i] = t[i]
      /\ \A i \in 1 .. L + N : i \in 1 .. L \/ \E k \in 1 .. N : i = L + k
  <2>1. ASSUME NEW i \in 1 .. N PROVE u[L + i] = t[i]
    <3>1. L + i \in 1 .. L + N /\ ~(L + i <= L) /\ (L + i) - L = i
      BY <1>2
    <3>. QED  BY <1>3, <3>1
  <2>2. ASSUME NEW i \in 1 .. L + N, i \notin 1 .. L PROVE \E k \in 1 .. N : i = L + k
    <3>1. i - L \in 1 .. N /\ i = L + (i - L)
      BY <1>2, <2>2
    <3>. QED  BY <3>1
  <2>3. ASSUME NEW i \in 1 .. L PROVE u[i] = s[i]
    <3>1. i \in 1 .. L + N /\ i <= L
      BY <1>2
    <3>. QED  BY <1>3, <3>1
  <2>. QED  BY <2>1, <2>2, <2>3
<1>7. Behind(u, v)
  <2>1. ASSUME NEW i \in 1 .. Len(v) PROVE v[i] = u[i + 1]
    <3>1. CASE i <= Len(to_come)
      <4>1. i \in 1 .. Len(to_come) /\ i + 1 \in 1 .. L /\ i \in 1 .. Len(to_come) + N
        BY <1>2, <1>4, <3>1
      <4>. QED  BY <1>4, <1>5, <1>6, <3>1, <4>1
    <3>2. CASE ~(i <= Len(to_come))
      <4>1. /\ i - Len(to_come) \in 1 .. N /\ i + 1 = L + (i - Len(to_come))
            /\ i \in 1 .. Len(to_come) + N
        BY <1>2, <1>4, <3>2
      <4>2. u[L + (i - Len(to_come))] = t[i - Len(to_come)]
        BY <1>6, <4>1
      <4>. QED  BY <1>4, <3>2, <4>1, <4>2
    <3>. QED  BY <3>1, <3>2
  <2>. QED  BY <1>2, <1>3, <1>4, <2>1 DEF Behind
<1>8. Stream(u, T)
  <2>1. u # <<>> /\ u[Len(u)] \in Ends
    <3>1. N \in 1 .. N /\ L + N # 0
      BY <1>2
    <3>. QED  BY <1>3, <1>5, <1>6, <3>1, EmptySeq
  <2>2. ASSUME NEW i \in 1 .. Len(u) - 1 PROVE Follows(u[i], u[i + 1], T)
    <3>1. CASE i \in 1 .. L - 1
      <4>1. i \in 1 .. L /\ i + 1 \in 1 .. L
        BY <1>2, <3>1
      <4>2. u[i] = s[i] /\ u[i + 1] = s[i + 1] /\ Follows(s[i], s[i + 1], R)
        BY <1>5, <1>6, <3>1, <4>1
      <4>. QED  BY <4>2, FollowsStill
    <3>2. CASE i = L
      <4>1. L \in 1 .. L /\ 1 \in 1 .. N
        BY <1>2
      <4>2. u[i] \in Ends /\ u[i + 1] \in {Typed, Enter, Header[1]}
        BY <1>5, <1>6, <3>2, <4>1
      <4>. QED  BY <4>2 DEF Follows
    <3>3. CASE i \notin 1 .. L
      <4>0. i \in 1 .. L + N
        BY <1>2, <1>3
      <4>1. PICK k \in 1 .. N : i = L + k
        BY <1>6, <3>3, <4>0
      <4>2. k \in 1 .. N - 1 /\ k + 1 \in 1 .. N /\ i + 1 = L + (k + 1)
        BY <1>2, <1>3, <4>1
      <4>3. u[L + (k + 1)] = t[k + 1]
        BY <1>6, <4>2
      <4>4. u[i] = t[k] /\ u[i + 1] = t[k + 1]
        BY <1>6, <4>1, <4>2, <4>3
      <4>. QED  BY <1>5, <4>2, <4>4
    <3>. QED  BY <1>2, <3>1, <3>2, <3>3
  <2>3. ASSUME NEW j \in 1 .. Len(u), NEW k \in 1 .. Len(u),
               j < k, u[j].kind = "ETX", u[k].reply # 0
        PROVE  u[j].reply < u[k].reply
    <3>1. CASE k \in 1 .. L
      <4>1. j \in 1 .. L
        BY <1>2, <1>3, <2>3, <3>1
      <4>2. u[j] = s[j] /\ u[k] = s[k]
        BY <1>6, <3>1, <4>1
      <4>. QED  BY <1>5, <2>3, <3>1, <4>1, <4>2
    <3>2. CASE k \notin 1 .. L
      <4>1. PICK m \in 1 .. N : k = L + m
        BY <1>3, <1>6, <3>2
      <4>2. u[k] = t[m]
        BY <1>6, <4>1
      <4>3. CASE j \in 1 .. L
        BY <1>5, <1>6, <2>3, <4>2, <4>3
      <4>4. CASE j \notin 1 .. L
        <5>1. j - L \in 1 .. N - 1 /\ j - L \in 1 .. N /\ j = L + (j - L)
          BY <1>2, <1>3, <2>3, <4>1, <4>4
        <5>2. u[L + (j - L)] = t[j - L] /\ t[j - L].kind # "ETX"
          BY <1>5, <1>6, <5>1
        <5>. QED  BY <2>3, <5>1, <5>2
      <4>. QED  BY <4>3, <4>4
    <3>. QED  BY <3>1, <3>2
  <2>. QED  BY <1>3, <2>1, <2>2, <2>3 DEF Stream
<1>. QED  BY <1>2, <1>3, <1>4, <1>6, <1>7, <1>8 DEF u, v, L, N

\* A keystroke may be added.
LEMMA KeystrokeAdds ==
    ASSUME NEW s, NEW R, NEW b \in {Typed, Enter}
    PROVE  Addition(<<b>>, R, s)
<1>1. b \in Ends /\ b \in Bytes /\ b.reply = 0
  BY ByteFacts DEF Ends
<1>2. /\ <<b>> \in Seq(Bytes) /\ <<b>> # <<>> /\ Len(<<b>>) = 1 /\ <<b>>[1] = b
  BY <1>1
<1>3. 1 .. 1 - 1 = {} /\ \A i \in 1 .. 1 : i = 1
  OBVIOUS
<1>. QED  BY <1>1, <1>2, <1>3 DEF Addition

\* Three sequences one after the other.
LEMMA PartsOf ==
    ASSUME NEW S, NEW a \in Seq(S), NEW b \in Seq(S), NEW c \in Seq(S),
           NEW v, v = (a \o b) \o c
    PROVE  /\ v \in Seq(S) /\ Len(v) = Len(a) + Len(b) + Len(c)
           /\ \A i \in 1 .. Len(a) : v[i] = a[i]
           /\ \A i \in 1 .. Len(b) : v[Len(a) + i] = b[i]
           /\ \A i \in 1 .. Len(c) : v[Len(a) + Len(b) + i] = c[i]
<1>0. PICK u : u = a \o b
  OBVIOUS
<1>1. Len(a) \in Nat /\ Len(b) \in Nat /\ Len(c) \in Nat
  BY LenProperties
<1>2. /\ u \in Seq(S) /\ Len(u) = Len(a) + Len(b)
      /\ \A i \in 1 .. Len(a) + Len(b) : u[i] = IF i <= Len(a) THEN a[i] ELSE b[i - Len(a)]
  BY <1>0, ConcatProperties
<1>3. u \in Seq(S) /\ v = u \o c
  BY <1>0, <1>2
<1>4. /\ v \in Seq(S) /\ Len(v) = Len(u) + Len(c)
      /\ \A i \in 1 .. Len(u) + Len(c) : v[i] = IF i <= Len(u) THEN u[i] ELSE c[i - Len(u)]
  BY <1>3, ConcatProperties
<1>5. ASSUME NEW i \in 1 .. Len(a) PROVE v[i] = a[i]
  <2>1. /\ i \in 1 .. Len(u) + Len(c) /\ i <= Len(u)
        /\ i \in 1 .. Len(a) + Len(b) /\ i <= Len(a)
    BY <1>1, <1>2
  <2>. QED  BY <1>2, <1>4, <2>1
<1>6. ASSUME NEW i \in 1 .. Len(b) PROVE v[Len(a) + i] = b[i]
  <2>1. /\ Len(a) + i \in 1 .. Len(u) + Len(c) /\ Len(a) + i <= Len(u)
        /\ Len(a) + i \in 1 .. Len(a) + Len(b) /\ ~(Len(a) + i <= Len(a))
        /\ (Len(a) + i) - Len(a) = i
    BY <1>1, <1>2
  <2>. QED  BY <1>2, <1>4, <2>1
<1>7. ASSUME NEW i \in 1 .. Len(c) PROVE v[Len(a) + Len(b) + i] = c[i]
  <2>1. /\ Len(u) + i \in 1 .. Len(u) + Len(c) /\ ~(Len(u) + i <= Len(u))
        /\ (Len(u) + i) - Len(u) = i /\ Len(u) + i = Len(a) + Len(b) + i
    BY <1>1, <1>2
  <2>. QED  BY <1>4, <2>1
<1>8. Len(v) = Len(a) + Len(b) + Len(c)
  BY <1>1, <1>2, <1>4
<1>. QED  BY <1>4, <1>5, <1>6, <1>7, <1>8

\* A frame may be added with the reply to a query that is newer.
LEMMA FrameAdds ==
    ASSUME NEW s, NEW R, WellFramed(R), NEW q \in DOMAIN R,
           \A j \in 1 .. Len(s) : s[j].reply < q
    PROVE  LET f == Header \o R[q] \o <<Etx(q)>> IN
           /\ Addition(f, R, s)
           /\ \A i \in 1 .. Len(f) : f[i].reply \in {0, q}
<1>. DEFINE h == Header
            x == R[q]
            e == <<Etx(q)>>
            f == (h \o x) \o e
<1>1. /\ h \in Seq(Bytes) /\ Len(h) = 5
      /\ \A k \in 1 .. 5 : h[k] \in Bytes /\ h[k].reply = 0 /\ h[k].kind # "ETX"
  <2>1. \A k \in 1 .. 5 : Header[k] \in Bytes
    BY ByteFacts
  <2>2. Header \in Seq(Bytes)
    BY <2>1 DEF Header
  <2>. QED  BY <2>2, ByteFacts
<1>2. PICK n \in Nat : n = Len(x)
  BY LenProperties DEF WellFramed
<1>3. /\ q \in Nat \ {0} /\ x \in Seq(Bytes) /\ Len(x) = n
      /\ \A i \in 1 .. n : x[i].reply = q /\ x[i].kind # "ETX"
  BY <1>2 DEF WellFramed, InReply
<1>4. e \in Seq(Bytes) /\ Len(e) = 1 /\ e[1] = Etx(q) /\ Etx(q).reply = q /\ Etx(q) \in Ends
  <2>1. Etx(q) \in Bytes /\ Etx(q).reply = q /\ Etx(q) \in Ends
    BY <1>3, ByteFacts DEF Ends
  <2>. QED  BY <2>1
<1>. HIDE DEF h, x, e
<1>5. /\ f \in Seq(Bytes) /\ Len(f) = Len(h) + Len(x) + Len(e)
      /\ \A i \in 1 .. Len(h) : f[i] = h[i]
      /\ \A i \in 1 .. Len(x) : f[Len(h) + i] = x[i]
      /\ \A i \in 1 .. Len(e) : f[Len(h) + Len(x) + i] = e[i]
  <2>1. h \in Seq(Bytes) /\ x \in Seq(Bytes) /\ e \in Seq(Bytes)
    BY <1>1, <1>3, <1>4
  <2>2. f = (h \o x) \o e
    OBVIOUS
  <2>. HIDE DEF f
  <2>. QED  BY ONLY <2>1, <2>2, PartsOf
<1>. HIDE DEF f
<1>6. f \in Seq(Bytes) /\ Len(f) = 6 + n
  BY <1>1, <1>3, <1>4, <1>5
<1>7. /\ \A k \in 1 .. 5 : f[k] = Header[k]
      /\ \A i \in 1 .. n : f[5 + i] = x[i]
      /\ f[6 + n] = Etx(q)
  <2>1. \A k \in 1 .. 5 : f[k] = Header[k]
    BY <1>1, <1>5 DEF h
  <2>2. \A i \in 1 .. n : f[5 + i] = x[i]
    BY <1>1, <1>3, <1>5
  <2>3. f[6 + n] = Etx(q)
    <3>1. 1 \in 1 .. Len(e) /\ Len(h) + Len(x) + 1 = 6 + n
      BY <1>1, <1>3, <1>4
    <3>. QED  BY <1>4, <1>5, <3>1
  <2>. QED  BY <2>1, <2>2, <2>3
<1>8. \A i \in 1 .. 6 + n : i \in 1 .. 5 \/ (\E k \in 1 .. n : i = 5 + k) \/ i = 6 + n
  <2>1. SUFFICES ASSUME NEW i \in 1 .. 6 + n, i \notin 1 .. 5, i # 6 + n
                 PROVE  \E k \in 1 .. n : i = 5 + k
    OBVIOUS
  <2>2. i - 5 \in 1 .. n /\ i = 5 + (i - 5)
    BY <2>1
  <2>. QED  BY <2>2
<1>9. ASSUME NEW i \in 1 .. 6 + n
      PROVE  f[i].reply \in {0, q} /\ (i < 6 + n => f[i].kind # "ETX")
  <2>1. CASE i \in 1 .. 5
    BY <1>1, <1>7, <2>1 DEF h
  <2>2. CASE \E k \in 1 .. n : i = 5 + k
    <3>1. PICK k \in 1 .. n : i = 5 + k
      BY <2>2
    <3>. QED  BY <1>3, <1>7, <3>1
  <2>3. CASE i = 6 + n
    BY <1>4, <1>7, <2>3
  <2>. QED  BY <1>8, <2>1, <2>2, <2>3
<1>10. ASSUME NEW k \in 0 .. n PROVE f[6 + k] = After(R, q, k)
  <2>1. CASE k = n
    <3>1. After(R, q, k) = Etx(q)
      BY <1>2, <2>1 DEF After, x
    <3>. QED  BY <1>7, <2>1, <3>1
  <2>2. CASE k # n
    <3>1. k + 1 \in 1 .. n /\ 6 + k = 5 + (k + 1) /\ k < n
      BY <2>2
    <3>2. After(R, q, k) = x[k + 1]
      BY <1>2, <3>1 DEF After, x
    <3>. QED  BY <1>7, <3>1, <3>2
  <2>. QED  BY <2>1, <2>2
<1>11. ASSUME NEW i \in 1 .. 6 + n, i < 6 + n PROVE Follows(f[i], f[i + 1], R)
  <2>1. CASE i \in 1 .. 4
    <3>1. i \in 1 .. 5 /\ i + 1 \in 1 .. 5
      BY <2>1
    <3>2. f[i] = Header[i] /\ f[i + 1] = Header[i + 1]
      BY <1>7, <3>1
    <3>. QED  BY <2>1, <3>2 DEF Follows
  <2>2. CASE i = 5
    <3>1. 5 \in 1 .. 5 /\ 0 \in 0 .. n /\ 6 + 0 = i + 1
      BY <2>2
    <3>2. f[i] = Header[5] /\ f[i + 1] = After(R, q, 0)
      BY <1>7, <1>10, <2>2, <3>1
    <3>. QED  BY <3>2 DEF Follows
  <2>3. CASE i \in 6 .. 5 + n
    <3>1. PICK k \in 1 .. n : i = 5 + k
      <4>1. i - 5 \in 1 .. n /\ i = 5 + (i - 5)
        BY <2>3
      <4>. QED  BY <4>1
    <3>2. k \in 0 .. n /\ i + 1 = 6 + k
      BY <3>1
    <3>3. f[i] = x[k] /\ f[i + 1] = After(R, q, k)
      BY <1>7, <1>10, <3>1, <3>2
    <3>4. k \in 1 .. Len(R[q]) /\ f[i] = R[q][k]
      BY <1>2, <3>1, <3>3 DEF x
    <3>. QED  BY <3>3, <3>4 DEF Follows
  <2>4. i \in 1 .. 4 \/ i = 5 \/ i \in 6 .. 5 + n
    BY <1>11
  <2>. QED  BY <2>1, <2>2, <2>3, <2>4
<1>12. f # <<>> /\ f[1] = Header[1] /\ f[Len(f)] \in Ends
  <2>1. 1 \in 1 .. 5 /\ Len(f) # 0
    BY <1>6
  <2>. QED  BY <1>4, <1>6, <1>7, <2>1, EmptySeq
<1>13. Addition(f, R, s)
  <2>1. \A i \in 1 .. Len(f) - 1 : i \in 1 .. 6 + n /\ i < 6 + n
    BY <1>6
  <2>2. ASSUME NEW i \in 1 .. Len(f), f[i].reply # 0
        PROVE  \A j \in 1 .. Len(s) : s[j].reply < f[i].reply
    BY <1>6, <1>9, <2>2
  <2>. QED  BY <1>6, <1>9, <1>11, <1>12, <2>1, <2>2 DEF Addition
<1>. QED  BY <1>6, <1>9, <1>13 DEF f, h, x, e

\* What the buffer takes of a reply, byte by byte.
LEMMA CutMore ==
    ASSUME NEW x \in Seq(Bytes), NEW n \in Nat, n < Len(x)
    PROVE  /\ Cut(x, n) \in Seq(Bytes) /\ Len(Cut(x, n)) <= MaxResponse
           /\ Cut(x, n + 1) = IF Len(Cut(x, n)) < MaxResponse
                                THEN Append(Cut(x, n), x[n + 1]) ELSE Cut(x, n)
<1>1. MaxResponse \in Nat \ {0} /\ Len(x) \in Nat /\ n + 1 \in Nat /\ n + 1 <= Len(x)
  BY LlmAssumption, LenProperties
<1>2. \A i \in 1 .. Len(x) : x[i] \in Bytes
  BY ElementOfSeq
<1>3. ASSUME NEW m \in Nat, m <= Len(x)
      PROVE  /\ SubSeq(x, 1, m) \in Seq(Bytes) /\ Len(SubSeq(x, 1, m)) = m
             /\ \A i \in 1 .. m : SubSeq(x, 1, m)[i] = x[i]
  <2>1. \A i \in 1 .. m : i \in 1 .. Len(x)
    BY <1>1, <1>3
  <2>2. SubSeq(x, 1, m) = [i \in 1 .. m |-> x[i]]
    BY <1>3
  <2>. QED  BY <1>2, <2>1, <2>2, <1>3
<1>4. CASE n < MaxResponse
  <2>1. Cut(x, n) = SubSeq(x, 1, n) /\ Cut(x, n + 1) = SubSeq(x, 1, n + 1)
    BY <1>1, <1>4 DEF Cut
  <2>2. /\ SubSeq(x, 1, n) \in Seq(Bytes) /\ Len(SubSeq(x, 1, n)) = n
        /\ \A i \in 1 .. n : SubSeq(x, 1, n)[i] = x[i]
        /\ SubSeq(x, 1, n + 1) \in Seq(Bytes) /\ Len(SubSeq(x, 1, n + 1)) = n + 1
        /\ \A i \in 1 .. n + 1 : SubSeq(x, 1, n + 1)[i] = x[i]
    BY <1>1, <1>3
  <2>. DEFINE a == SubSeq(x, 1, n)
              c == SubSeq(x, 1, n + 1)
              d == Append(a, x[n + 1])
  <2>3. x[n + 1] \in Bytes
    BY <1>1, <1>2
  <2>. HIDE DEF a, c
  <2>4. /\ d \in Seq(Bytes) /\ Len(d) = n + 1 /\ d[n + 1] = x[n + 1]
        /\ \A i \in 1 .. n : d[i] = a[i]
    BY <2>2, <2>3, AppendProperties DEF a
  <2>. HIDE DEF d
  <2>5. \A i \in 1 .. n + 1 : i \in 1 .. n \/ i = n + 1
    OBVIOUS
  <2>6. \A i \in 1 .. n + 1 : c[i] = d[i]
    BY <2>2, <2>4, <2>5 DEF a, c
  <2>7. c = d
    BY <2>2, <2>4, <2>6, SeqEqual DEF c
  <2>8. Cut(x, n + 1) = Append(Cut(x, n), x[n + 1])
    BY <2>1, <2>7 DEF a, c, d
  <2>9. Cut(x, n) \in Seq(Bytes) /\ Len(Cut(x, n)) = n
    BY <2>1, <2>2
  <2>. QED  BY <1>1, <1>4, <2>8, <2>9
<1>5. CASE ~(n < MaxResponse)
  <2>1. MaxResponse <= Len(x)
    BY <1>1, <1>5
  <2>2. Cut(x, n) = SubSeq(x, 1, MaxResponse) /\ Cut(x, n + 1) = SubSeq(x, 1, MaxResponse)
    BY <1>1, <1>5 DEF Cut
  <2>3. Len(SubSeq(x, 1, MaxResponse)) = MaxResponse /\ SubSeq(x, 1, MaxResponse) \in Seq(Bytes)
    BY <1>1, <1>3, <2>1
  <2>4. Cut(x, n + 1) = Cut(x, n) /\ Cut(x, n) \in Seq(Bytes) /\ Len(Cut(x, n)) = MaxResponse
    BY <2>2, <2>3
  <2>. QED  BY <1>1, <2>4
<1>. QED  BY <1>4, <1>5

\* What the query makes of a whole reply.
LEMMA CutWhole ==
    ASSUME NEW x \in Seq(Bytes), x = <<>> \/ x[Len(x)].kind # "part"
    PROVE  Decoded(Cut(x, Len(x))) = Shown(x) /\ Shown(x) \in Seq(Bytes)
<1>1. MaxResponse \in Nat \ {0} /\ Len(x) \in Nat
  BY LlmAssumption, LenProperties
<1>2. CASE Len(x) <= MaxResponse
  <2>1. SubSeq(x, 1, Len(x)) = x
    BY SubSeqFull
  <2>2. Cut(x, Len(x)) = x
    BY <1>2, <2>1 DEF Cut
  <2>. QED  BY <1>2, <2>2 DEF Shown, Decoded
<1>3. CASE ~(Len(x) <= MaxResponse)
  <2>1. SubSeq(x, 1, MaxResponse) \in Seq(Bytes)
    <3>1. \A i \in 1 .. MaxResponse : i \in 1 .. Len(x)
      BY <1>1, <1>3
    <3>2. \A i \in 1 .. MaxResponse : x[i] \in Bytes
      BY <3>1, ElementOfSeq
    <3>. QED  BY <1>1, <3>2
  <2>. QED  BY <1>3, <2>1, ByteFacts DEF Cut, Shown, Decoded
<1>. QED  BY <1>2, <1>3

-----------------------------------------------------------------------------
(* The invariant of the bridge. *)

OnTime(r) == \A q \in late : q > r

\* r is a query that the bridge has been done with, or none.
Asked(r) ==
    /\ r \in Nat /\ r <= query /\ (asking # 0 => r < asking)
    /\ \A k \in 1 .. Len(to_bridge) : r < to_bridge[k]

\* Queries keep their order on the way to the bridge, and each is replied to once.
QueriesInv ==
    /\ query \in Nat /\ asking \in Nat /\ asking <= query
    /\ to_bridge \in Seq(Nat \ {0})
    /\ \A k \in 1 .. Len(to_bridge) :
          to_bridge[k] <= query /\ (asking # 0 => asking < to_bridge[k])
    /\ \A k \in 1 .. Len(to_bridge) : \A m \in 1 .. Len(to_bridge) :
          k < m => to_bridge[k] < to_bridge[m]
    /\ \A q \in DOMAIN replies : Asked(q)

\* Nothing given up is older than r only if the kernel is waiting for r.
Awaited(r) == OnTime(r) => pc = "wait" /\ r = query

OpenInv ==
    /\ late \in SUBSET Nat
    /\ asking # 0 => Awaited(asking)
    /\ \A k \in 1 .. Len(to_bridge) : Awaited(to_bridge[k])

\* No stray reply gets into the line while it is on time.
LineInv ==
    /\ pc \in {"prompt", "wait"}
    /\ line \in Seq(Bytes)
    /\ \A i \in 1 .. Len(line) : line[i].reply # 0 => ~OnTime(line[i].reply)

\* What is on its way, from the byte that was read last.
WayInv(s) ==
    /\ Behind(s, to_kernel) /\ Stream(s, replies)
    /\ \A i \in 1 .. Len(s) : Asked(s[i].reply)
    /\ \A i \in 2 .. Len(s) : s[i].reply # 0 => Awaited(s[i].reply)

\* The query's state machine has read what it thinks it has: p came last.
ParserInv(p) ==
    /\ matched \in 0 .. 5
    /\ pc = "wait" /\ matched < 5 => body = <<>>
    /\ pc = "wait" /\ matched = 5 =>
          \/ p = Header[5] /\ body = <<>>
          \/ \E q \in DOMAIN replies : \E n \in 1 .. Len(replies[q]) :
                p = replies[q][n] /\ body = Cut(replies[q], n)

AnswerSource(i) == answers[i][2]

\* The answers are whole replies, older than all that is on its way.
AnswersInv(s) ==
    /\ answers \in Seq(Nat \X Nat \X Seq(Bytes))
    /\ \A i \in 1 .. Len(answers) :
          /\ AnswerSource(i) \in DOMAIN replies
          /\ answers[i][3] = Shown(replies[AnswerSource(i)])
          /\ OnTime(AnswerSource(i)) => AnswerSource(i) = answers[i][1]
          /\ \A j \in 2 .. Len(s) : s[j].reply # 0 => AnswerSource(i) < s[j].reply
    /\ \A i \in 1 .. Len(answers) : \A j \in 1 .. Len(answers) :
          i < j => AnswerSource(i) < AnswerSource(j)

\* What holds as long as no reply has a byte in it that frames begin or end with.
BridgeInv ==
    /\ OpenInv /\ LineInv /\ WellFramed(replies)
    /\ to_kernel \in Seq(Bytes)
    /\ \E s : WayInv(s) /\ ParserInv(s[1]) /\ AnswersInv(s)

\* What the bridge is done with, it does not do again.
LEMMA AskedStays ==
    ASSUME QueriesInv, [BridgeNext]_bridgeVars, NEW r, Asked(r) PROVE Asked(r)'
<1>1. CASE UNCHANGED <<query, asking, to_bridge>>
  BY <1>1 DEF Asked
<1>2. CASE AskLine
  <2>1. /\ query' = query + 1 /\ asking' = asking /\ to_bridge' = Append(to_bridge, query + 1)
        /\ query \in Nat /\ to_bridge \in Seq(Nat \ {0}) /\ r \in Nat /\ r <= query
    BY <1>2 DEF AskLine, QueriesInv, Asked
  <2>2. PICK N \in Nat : N = Len(to_bridge)
    BY <2>1, LenProperties
  <2>3. query + 1 \in Nat \ {0}
    BY <2>1
  <2>4. /\ Len(to_bridge') = N + 1 /\ to_bridge'[N + 1] = query + 1
        /\ \A k \in 1 .. N : to_bridge'[k] = to_bridge[k]
    BY <2>1, <2>2, <2>3, AppendProperties
  <2>5. \A k \in 1 .. N + 1 : k \in 1 .. N \/ k = N + 1
    OBVIOUS
  <2>6. r < query + 1 /\ r <= query + 1
    BY <2>1
  <2>7. \A k \in 1 .. N + 1 : r < to_bridge'[k]
    BY <2>2, <2>4, <2>5, <2>6 DEF Asked
  <2>. QED  BY <2>1, <2>4, <2>6, <2>7 DEF Asked
<1>3. CASE BridgeForwards
  <2>1. /\ asking' = Head(to_bridge) /\ to_bridge' = Tail(to_bridge) /\ query' = query
        /\ to_bridge # <<>> /\ to_bridge \in Seq(Nat \ {0})
    BY <1>3 DEF BridgeForwards, QueriesInv, kernel
  <2>2. PICK N \in Nat \ {0} : N = Len(to_bridge)
    BY <2>1, LenProperties, EmptySeq
  <2>3. /\ Len(to_bridge') = N - 1 /\ asking' = to_bridge[1]
        /\ \A k \in 1 .. N - 1 : to_bridge'[k] = to_bridge[k + 1] /\ k + 1 \in 1 .. N
    BY <2>1, <2>2, HeadTailProperties
  <2>4. 1 \in 1 .. N
    OBVIOUS
  <2>5. r < asking' /\ \A k \in 1 .. N - 1 : r < to_bridge'[k]
    BY <2>2, <2>3, <2>4 DEF Asked
  <2>. QED  BY <2>1, <2>3, <2>5 DEF Asked
<1>4. CASE BridgeReplies
  BY <1>4 DEF BridgeReplies, kernel, Asked
<1>5. UNCHANGED <<query, asking, to_bridge>> \/ AskLine \/ BridgeForwards \/ BridgeReplies
  BY DEF BridgeNext, bridgeVars, kernel, link, history, PromptByte, HeaderByte, BodyByte, RunLine, Answered,
     TimedOut, UserTypes, AtRest
<1>. QED  BY <1>1, <1>2, <1>3, <1>4, <1>5

\* The bytes of a text that is the reply to q.
Written(text, q) == [i \in DOMAIN text |-> [kind |-> text[i], reply |-> q, at |-> i]]

\* Each reply is to a query that had none.
LEMMA NewReply ==
    ASSUME QueriesInv, BridgeReplies, NEW q, q = asking
    PROVE  /\ Extends(replies, replies') /\ q \notin DOMAIN replies
           /\ q \in Nat \ {0} /\ Asked(q)'
           /\ DOMAIN replies' = DOMAIN replies \cup {q}
           /\ \E text \in Texts : replies'[q] = Written(text, q)
           /\ to_kernel' = to_kernel \o (Header \o replies'[q] \o <<Etx(q)>>)
<1>1. PICK text \in Texts :
        /\ to_kernel' = to_kernel \o (Header \o Written(text, q) \o <<Etx(q)>>)
        /\ replies' = [r \in DOMAIN replies \cup {q} |->
                         IF r = q THEN Written(text, q) ELSE replies[r]]
  BY DEF BridgeReplies, Written
<1>2. q \notin DOMAIN replies /\ q \in Nat \ {0}
  BY DEF BridgeReplies, QueriesInv, Asked
<1>3. Asked(q)'
  BY DEF BridgeReplies, QueriesInv, Asked, kernel
<1>4. /\ DOMAIN replies' = DOMAIN replies \cup {q}
      /\ replies'[q] = Written(text, q)
  BY <1>1
<1>5. Extends(replies, replies')
  BY <1>1, <1>2 DEF Extends
<1>6. to_kernel' = to_kernel \o (Header \o replies'[q] \o <<Etx(q)>>)
  BY <1>1, <1>4
<1>. QED  BY <1>2, <1>3, <1>4, <1>5, <1>6

\* The order of the queries is kept.
LEMMA QueriesStep == QueriesInv /\ [BridgeNext]_bridgeVars => QueriesInv'
<1>. SUFFICES ASSUME QueriesInv, [BridgeNext]_bridgeVars PROVE QueriesInv'
  OBVIOUS
<1>0. (\A q \in DOMAIN replies' : q \in DOMAIN replies) => \A q \in DOMAIN replies' : Asked(q)'
  <2>1. \A q \in DOMAIN replies : Asked(q)
    BY DEF QueriesInv
  <2>. QED  BY <2>1, AskedStays
<1>1. CASE UNCHANGED <<query, asking, to_bridge, replies>>
  BY <1>1 DEF QueriesInv, Asked
<1>2. CASE AskLine
  <2>1. /\ query' = query + 1 /\ asking' = asking /\ to_bridge' = Append(to_bridge, query + 1)
        /\ replies' = replies
        /\ query \in Nat /\ to_bridge \in Seq(Nat \ {0}) /\ asking \in Nat /\ asking <= query
    BY <1>2 DEF AskLine, QueriesInv, history
  <2>2. PICK N \in Nat : N = Len(to_bridge)
    BY <2>1, LenProperties
  <2>3. query + 1 \in Nat \ {0}
    BY <2>1
  <2>4. /\ to_bridge' \in Seq(Nat \ {0})
        /\ Len(to_bridge') = N + 1 /\ to_bridge'[N + 1] = query + 1
        /\ \A k \in 1 .. N : to_bridge'[k] = to_bridge[k]
    BY <2>1, <2>2, <2>3, AppendProperties
  <2>5. \A k \in 1 .. N + 1 : k \in 1 .. N \/ k = N + 1
    OBVIOUS
  <2>6. \A k \in 1 .. N : /\ to_bridge[k] \in Nat /\ to_bridge[k] <= query
                          /\ asking # 0 => asking < to_bridge[k]
    BY <2>1, <2>2, ElementOfSeq DEF QueriesInv
  <2>7. \A k \in 1 .. N : to_bridge'[k] <= query + 1 /\ to_bridge'[k] < query + 1
    BY <2>1, <2>4, <2>6
  <2>8. query + 1 <= query + 1 /\ asking < query + 1 /\ asking <= query + 1
    BY <2>1
  <2>9. ASSUME NEW k \in 1 .. N + 1
        PROVE  to_bridge'[k] <= query' /\ (asking' # 0 => asking' < to_bridge'[k])
    <3>1. CASE k \in 1 .. N
      BY <2>1, <2>4, <2>6, <2>7, <3>1
    <3>2. CASE k = N + 1
      BY <2>1, <2>4, <2>8, <3>2
    <3>. QED  BY <2>5, <3>1, <3>2
  <2>10. ASSUME NEW k \in 1 .. N + 1, NEW m \in 1 .. N + 1, k < m
         PROVE  to_bridge'[k] < to_bridge'[m]
    <3>1. k \in 1 .. N
      BY <2>10
    <3>2. CASE m \in 1 .. N
      BY <2>2, <2>4, <2>10, <3>1, <3>2 DEF QueriesInv
    <3>3. CASE m = N + 1
      BY <2>4, <2>7, <3>1, <3>3
    <3>. QED  BY <2>5, <3>2, <3>3
  <2>11. query' \in Nat /\ asking' \in Nat /\ asking' <= query'
    BY <2>1, <2>8
  <2>. QED  BY <1>0, <2>1, <2>4, <2>9, <2>10, <2>11 DEF QueriesInv
<1>3. CASE BridgeForwards
  <2>1. /\ asking' = Head(to_bridge) /\ to_bridge' = Tail(to_bridge)
        /\ query' = query /\ replies' = replies
        /\ to_bridge # <<>> /\ to_bridge \in Seq(Nat \ {0}) /\ query \in Nat
    BY <1>3 DEF BridgeForwards, QueriesInv, kernel, history
  <2>2. PICK N \in Nat \ {0} : N = Len(to_bridge)
    BY <2>1, LenProperties, EmptySeq
  <2>3. /\ to_bridge' \in Seq(Nat \ {0}) /\ Len(to_bridge') = N - 1
        /\ asking' = to_bridge[1] /\ asking' \in Nat \ {0}
        /\ \A k \in 1 .. N - 1 : to_bridge'[k] = to_bridge[k + 1]
    BY <2>1, <2>2, HeadTailProperties
  <2>4. 1 \in 1 .. N /\ \A k \in 1 .. N - 1 : k + 1 \in 1 .. N /\ 1 < k + 1
    OBVIOUS
  <2>5. /\ asking' <= query
        /\ \A k \in 1 .. N - 1 : to_bridge'[k] <= query /\ asking' < to_bridge'[k]
    BY <2>2, <2>3, <2>4 DEF QueriesInv
  <2>6. ASSUME NEW k \in 1 .. N - 1, NEW m \in 1 .. N - 1, k < m
        PROVE  to_bridge'[k] < to_bridge'[m]
    <3>1. k + 1 < m + 1
      BY <2>6
    <3>. QED  BY <2>2, <2>3, <2>4, <3>1 DEF QueriesInv
  <2>. QED  BY <1>0, <2>1, <2>3, <2>5, <2>6 DEF QueriesInv
<1>4. CASE BridgeReplies
  <2>1. asking' = 0 /\ UNCHANGED <<query, to_bridge>>
    BY <1>4 DEF BridgeReplies, kernel
  <2>2. \A q \in DOMAIN replies' : Asked(q)'
    <3>1. \A q \in DOMAIN replies : Asked(q)
      BY DEF QueriesInv
    <3>2. PICK q : q = asking
      OBVIOUS
    <3>3. DOMAIN replies' = DOMAIN replies \cup {q} /\ Asked(q)'
      BY <1>4, <3>2, NewReply
    <3>. QED  BY <3>1, <3>3, AskedStays
  <2>. QED  BY <2>1, <2>2 DEF QueriesInv
<1>5. \/ UNCHANGED <<query, asking, to_bridge, replies>>
      \/ AskLine \/ BridgeForwards \/ BridgeReplies
  BY DEF BridgeNext, bridgeVars, kernel, link, history, PromptByte, HeaderByte, BodyByte, RunLine, Answered,
     TimedOut, UserTypes, AtRest
<1>. QED  BY <1>1, <1>2, <1>3, <1>4, <1>5

\* A header ends in the only byte of its kind.
LEMMA OnlyColon ==
    ASSUME NEW R, WellFramed(R), NEW x, NEW b, Follows(x, b, R), b.kind = ":"
    PROVE  b = Header[5]
<1>1. b \notin {Typed, Enter, Header[1]}
  BY ByteFacts
<1>2. \A k \in 1 .. 4 : b = Header[k + 1] => k + 1 = 5
  <2>1. \A k \in 1 .. 4 : k + 1 \in 1 .. 4 \/ k + 1 = 5
    OBVIOUS
  <2>. QED  BY <2>1, ByteFacts
<1>3. \A q \in DOMAIN R : \A n \in 0 .. Len(R[q]) : b # After(R, q, n)
  <2>. SUFFICES ASSUME NEW q \in DOMAIN R, NEW n \in 0 .. Len(R[q]), b = After(R, q, n)
                PROVE  FALSE
    OBVIOUS
  <2>1. n \in Nat /\ n <= Len(R[q]) /\ Len(R[q]) \in Nat
    BY LenProperties DEF WellFramed
  <2>2. n # Len(R[q]) /\ n + 1 \in 1 .. Len(R[q]) /\ b = R[q][n + 1]
    BY <2>1, AfterFacts
  <2>. QED  BY <2>2 DEF WellFramed, InReply
<1>4. \A q \in DOMAIN R : 0 \in 0 .. Len(R[q]) /\ 1 .. Len(R[q]) \subseteq 0 .. Len(R[q])
  BY LenProperties DEF WellFramed
<1>. QED  BY <1>1, <1>2, <1>3, <1>4 DEF Follows

\* The body is what the buffer has taken of a reply, and that reply goes on.
LEMMA BodySoFar ==
    ASSUME NEW p, NEW b, ParserInv(p), pc = "wait", matched = 5, WellFramed(replies),
           Follows(p, b, replies)
    PROVE  \E q \in DOMAIN replies : \E n \in 0 .. Len(replies[q]) :
              b = After(replies, q, n) /\ body = Cut(replies[q], n)
<1>1. \A q \in DOMAIN replies : replies[q] \in Seq(Bytes) /\ Len(replies[q]) \in Nat
  BY LenProperties DEF WellFramed
<1>2. CASE p = Header[5] /\ body = <<>>
  <2>1. PICK q \in DOMAIN replies : b = After(replies, q, 0)
    BY <1>2, AfterHeader
  <2>2. 0 \in 0 .. Len(replies[q])
    BY <1>1
  <2>3. Cut(replies[q], 0) = <<>>
    <3>1. 0 <= MaxResponse
      BY LlmAssumption
    <3>2. SubSeq(replies[q], 1, 0) = <<>>
      BY SubSeqEmpty
    <3>. QED  BY <3>1, <3>2 DEF Cut
  <2>. QED  BY <1>2, <2>1, <2>2, <2>3
<1>3. CASE \E q \in DOMAIN replies : \E n \in 1 .. Len(replies[q]) :
             p = replies[q][n] /\ body = Cut(replies[q], n)
  <2>1. PICK q \in DOMAIN replies :
          \E n \in 1 .. Len(replies[q]) : p = replies[q][n] /\ body = Cut(replies[q], n)
    BY <1>3
  <2>2. PICK n \in 1 .. Len(replies[q]) : p = replies[q][n] /\ body = Cut(replies[q], n)
    BY <2>1
  <2>3. b = After(replies, q, n)
    BY <2>2, AfterReply
  <2>4. n \in 0 .. Len(replies[q])
    BY <1>1
  <2>. QED  BY <2>2, <2>3, <2>4
<1>. QED  BY <1>2, <1>3 DEF ParserInv

\* The kernel reads a byte and the rest stays as it is.
LEMMA ByteRead ==
    ASSUME NEW s, WayInv(s), AnswersInv(s), to_kernel \in Seq(Bytes), NEW b, Arrived(b),
           UNCHANGED <<pc, query, asking, to_bridge, late, answers, replies>>
    PROVE  /\ WayInv(Tail(s))' /\ AnswersInv(Tail(s))' /\ (to_kernel \in Seq(Bytes))'
           /\ Tail(s)[1] = b /\ b \in Bytes /\ Follows(s[1], b, replies)
           /\ b.reply # 0 => Awaited(b.reply)
<1>1. to_kernel # <<>> /\ b = Head(to_kernel) /\ to_kernel' = Tail(to_kernel)
  BY DEF Arrived
<1>2. PICK t : t = Tail(s)
  OBVIOUS
<1>3. /\ Stream(t, replies) /\ Behind(t, to_kernel') /\ to_kernel' \in Seq(Bytes)
      /\ Len(s) \in Nat /\ Len(s) >= 2 /\ Len(t) = Len(s) - 1
      /\ \A i \in 1 .. Len(t) : t[i] = s[i + 1] /\ i + 1 \in 1 .. Len(s)
      /\ t[1] = b /\ s[2] = b /\ b \in Bytes /\ Follows(s[1], b, replies)
  BY <1>1, <1>2, ByteTaken DEF WayInv
<1>4. \A i \in 2 .. Len(t) : t[i] = s[i + 1] /\ i + 1 \in 2 .. Len(s)
  BY <1>3
<1>5. /\ \A i \in 1 .. Len(t) : Asked(t[i].reply)
      /\ \A i \in 2 .. Len(t) : t[i].reply # 0 => Awaited(t[i].reply)
  BY <1>3, <1>4 DEF WayInv
<1>6. WayInv(t)'
  BY <1>3, <1>5 DEF WayInv, Asked, Awaited, OnTime
<1>7. AnswersInv(t)
  BY <1>4 DEF AnswersInv
<1>8. AnswersInv(t)'
  BY <1>7 DEF AnswersInv, AnswerSource, OnTime
<1>9. b.reply # 0 => Awaited(b.reply)
  <2>1. 2 \in 2 .. Len(s)
    BY <1>3
  <2>. QED  BY <1>3, <2>1 DEF WayInv
<1>. QED  BY <1>2, <1>3, <1>6, <1>8, <1>9

\* A byte at the prompt.
LEMMA PromptStep ==
    ASSUME BridgeInv, NEW b, PromptByte(b) PROVE BridgeInv'
<1>1. PICK s : WayInv(s) /\ ParserInv(s[1]) /\ AnswersInv(s)
  BY DEF BridgeInv
<1>2. /\ pc = "prompt" /\ Arrived(b)
      /\ UNCHANGED <<pc, query, matched, body, to_bridge, asking, late, answers, replies>>
      /\ line' = line \/ line' = Append(line, b)
  BY DEF PromptByte, history
<1>3. /\ WayInv(Tail(s))' /\ AnswersInv(Tail(s))' /\ (to_kernel \in Seq(Bytes))'
      /\ b \in Bytes /\ (b.reply # 0 => Awaited(b.reply))
  BY <1>1, <1>2, ByteRead DEF BridgeInv
<1>4. LineInv'
  <2>1. line \in Seq(Bytes) /\ \A i \in 1 .. Len(line) : line[i].reply # 0 => ~OnTime(line[i].reply)
    BY DEF BridgeInv, LineInv
  <2>2. b.reply # 0 => ~OnTime(b.reply)
    BY <1>2, <1>3 DEF Awaited
  <2>3. CASE line' = line
    BY <1>2, <2>1, <2>3 DEF LineInv, OnTime
  <2>4. CASE line' = Append(line, b)
    <3>1. /\ line' \in Seq(Bytes) /\ Len(line') = Len(line) + 1 /\ Len(line) \in Nat
          /\ line'[Len(line) + 1] = b
          /\ \A i \in 1 .. Len(line) : line'[i] = line[i]
      BY <1>3, <2>1, <2>4, AppendProperties, LenProperties
    <3>2. \A i \in 1 .. Len(line') : i \in 1 .. Len(line) \/ i = Len(line) + 1
      BY <3>1
    <3>3. \A i \in 1 .. Len(line') : line'[i].reply # 0 => ~OnTime(line'[i].reply)
      BY <2>1, <2>2, <3>1, <3>2
    <3>. QED  BY <1>2, <3>1, <3>3 DEF LineInv, OnTime
  <2>. QED  BY <1>2, <2>3, <2>4
<1>5. OpenInv' /\ WellFramed(replies)'
  BY <1>2 DEF BridgeInv, OpenInv, Awaited, OnTime
<1>6. ParserInv(Tail(s)[1])'
  BY <1>1, <1>2 DEF ParserInv
<1>7. \E x : (WayInv(x) /\ ParserInv(x[1]) /\ AnswersInv(x))'
  BY <1>3, <1>6
<1>. QED  BY <1>3, <1>4, <1>5, <1>7 DEF BridgeInv

\* Enter on a line that is a command of its own.
LEMMA RunStep == BridgeInv /\ RunLine => BridgeInv'
<1>. SUFFICES ASSUME BridgeInv, RunLine PROVE BridgeInv'
  OBVIOUS
<1>1. PICK s : WayInv(s) /\ ParserInv(s[1]) /\ AnswersInv(s)
  BY DEF BridgeInv
<1>2. /\ pc = "prompt" /\ Arrived(Enter) /\ line' = <<>>
      /\ UNCHANGED <<pc, query, matched, body, to_bridge, asking, late, answers, replies>>
  BY DEF RunLine, history
<1>3. WayInv(Tail(s))' /\ AnswersInv(Tail(s))' /\ (to_kernel \in Seq(Bytes))'
  BY <1>1, <1>2, ByteRead DEF BridgeInv
<1>4. LineInv'
  BY <1>2, EmptySeq DEF BridgeInv, LineInv
<1>5. OpenInv' /\ WellFramed(replies)'
  BY <1>2 DEF BridgeInv, OpenInv, Awaited, OnTime
<1>6. ParserInv(Tail(s)[1])'
  BY <1>1, <1>2 DEF ParserInv
<1>7. \E x : (WayInv(x) /\ ParserInv(x[1]) /\ AnswersInv(x))'
  BY <1>3, <1>6
<1>. QED  BY <1>3, <1>4, <1>5, <1>7 DEF BridgeInv

\* A byte of a header, or one that is dropped.
LEMMA HeaderStep ==
    ASSUME BridgeInv, NEW b, HeaderByte(b) PROVE BridgeInv'
<1>1. PICK s : WayInv(s) /\ ParserInv(s[1]) /\ AnswersInv(s)
  BY DEF BridgeInv
<1>2. /\ pc = "wait" /\ Arrived(b) /\ matched < 5
      /\ matched' = IF b.kind = Header[matched + 1].kind THEN matched + 1 ELSE 0
      /\ UNCHANGED <<pc, line, query, body, to_bridge, asking, late, answers, replies>>
  BY ByteFacts DEF HeaderByte, history
<1>3. /\ WayInv(Tail(s))' /\ AnswersInv(Tail(s))' /\ (to_kernel \in Seq(Bytes))'
      /\ Tail(s)[1] = b /\ b \in Bytes /\ Follows(s[1], b, replies)
  BY <1>1, <1>2, ByteRead DEF BridgeInv
<1>4. LineInv'
  BY <1>2 DEF BridgeInv, LineInv, OnTime
<1>5. OpenInv' /\ WellFramed(replies)'
  BY <1>2 DEF BridgeInv, OpenInv, Awaited, OnTime
<1>6. b.kind = ":" => b = Header[5]
  BY <1>3, OnlyColon DEF BridgeInv
<1>7. ParserInv(b)'
  <2>1. matched \in 0 .. 4 /\ body = <<>> /\ body' = <<>> /\ matched' \in 0 .. 5
    BY <1>1, <1>2 DEF ParserInv
  <2>2. matched' = 5 => b.kind = ":"
    BY <1>2, <2>1, ByteFacts
  <2>. QED  BY <1>6, <2>1, <2>2 DEF ParserInv
<1>8. \E x : (WayInv(x) /\ ParserInv(x[1]) /\ AnswersInv(x))'
  BY <1>3, <1>7
<1>. QED  BY <1>3, <1>4, <1>5, <1>8 DEF BridgeInv

\* A byte of a reply.
LEMMA BodyStep ==
    ASSUME BridgeInv, NEW b, BodyByte(b) PROVE BridgeInv'
<1>1. PICK s : WayInv(s) /\ ParserInv(s[1]) /\ AnswersInv(s)
  BY DEF BridgeInv
<1>2. /\ pc = "wait" /\ Arrived(b) /\ matched = 5 /\ b.kind # "ETX"
      /\ body' = IF Len(body) < MaxResponse THEN Append(body, b) ELSE body
      /\ UNCHANGED <<pc, line, query, matched, to_bridge, asking, late, answers, replies>>
  BY ByteFacts DEF BodyByte, history
<1>3. /\ WayInv(Tail(s))' /\ AnswersInv(Tail(s))' /\ (to_kernel \in Seq(Bytes))'
      /\ Tail(s)[1] = b /\ Follows(s[1], b, replies)
  BY <1>1, <1>2, ByteRead DEF BridgeInv
<1>4. LineInv'
  BY <1>2 DEF BridgeInv, LineInv, OnTime
<1>5. OpenInv' /\ WellFramed(replies)'
  BY <1>2 DEF BridgeInv, OpenInv, Awaited, OnTime
<1>6. PICK q \in DOMAIN replies :
        \E n \in 0 .. Len(replies[q]) : b = After(replies, q, n) /\ body = Cut(replies[q], n)
  BY <1>1, <1>2, <1>3, BodySoFar DEF BridgeInv
<1>7. PICK n \in 0 .. Len(replies[q]) : b = After(replies, q, n) /\ body = Cut(replies[q], n)
  BY <1>6
<1>8. \E m \in 1 .. Len(replies[q]) : b = replies[q][m] /\ body' = Cut(replies[q], m)
  <2>1. WellFramed(replies) /\ n \in Nat /\ n <= Len(replies[q]) /\ replies[q] \in Seq(Bytes)
    BY DEF BridgeInv, WellFramed
  <2>2. n # Len(replies[q]) /\ n + 1 \in 1 .. Len(replies[q]) /\ b = replies[q][n + 1]
    BY <1>2, <1>7, <2>1, AfterFacts
  <2>3. Len(replies[q]) \in Nat
    BY <2>1, LenProperties
  <2>4. n < Len(replies[q])
    BY <2>1, <2>2, <2>3
  <2>5. Cut(replies[q], n + 1) = IF Len(body) < MaxResponse THEN Append(body, b) ELSE body
    BY <1>7, <2>1, <2>2, <2>4, CutMore
  <2>. QED  BY <1>2, <2>2, <2>5
<1>9. ParserInv(b)'
  BY <1>2, <1>8 DEF ParserInv
<1>10. \E x : (WayInv(x) /\ ParserInv(x[1]) /\ AnswersInv(x))'
  BY <1>3, <1>9
<1>. QED  BY <1>3, <1>4, <1>5, <1>10 DEF BridgeInv

\* A query is sent: it is newer than all others, and what was late stays late.
LEMMA AskStep ==
    ASSUME QueriesInv, BridgeInv, AskLine PROVE BridgeInv'
<1>1. PICK s : WayInv(s) /\ ParserInv(s[1]) /\ AnswersInv(s)
  BY DEF BridgeInv
<1>2. /\ pc = "prompt" /\ Arrived(Enter)
      /\ query' = query + 1 /\ to_bridge' = Append(to_bridge, query + 1)
      /\ pc' = "wait" /\ matched' = 0 /\ body' = <<>> /\ line' = <<>>
      /\ UNCHANGED <<asking, late, answers, replies>>
  BY DEF AskLine, history
<1>3. PICK t : /\ Stream(t, replies) /\ Behind(t, to_kernel') /\ to_kernel' \in Seq(Bytes)
               /\ Len(s) \in Nat /\ Len(t) = Len(s) - 1
               /\ \A i \in 1 .. Len(t) : t[i] = s[i + 1] /\ i + 1 \in 1 .. Len(s)
  BY <1>1, <1>2, ByteTaken DEF WayInv, BridgeInv, Arrived
<1>4. \A i \in 2 .. Len(t) : t[i] = s[i + 1] /\ i + 1 \in 2 .. Len(s)
  BY <1>3
<1>5. query \in Nat /\ to_bridge \in Seq(Nat \ {0})
  BY DEF QueriesInv
<1>6. PICK N \in Nat : N = Len(to_bridge)
  BY <1>5, LenProperties
<1>7. /\ Len(to_bridge') = N + 1 /\ to_bridge'[N + 1] = query + 1
      /\ \A k \in 1 .. N : to_bridge'[k] = to_bridge[k]
      /\ \A k \in 1 .. N + 1 : k \in 1 .. N \/ k = N + 1
  <2>1. query + 1 \in Nat \ {0}
    BY <1>5
  <2>. QED  BY <1>2, <1>5, <1>6, <2>1, AppendProperties
<1>8. ASSUME NEW r, Asked(r) PROVE Asked(r)'
  BY <1>8, AskedStays DEF BridgeNext
<1>9. ASSUME NEW r, Awaited(r) PROVE Awaited(r)'
  BY <1>2, <1>9 DEF Awaited, OnTime
<1>10. OpenInv'
  <2>1. asking' # 0 => Awaited(asking)'
    <3>1. PICK r : r = asking
      OBVIOUS
    <3>. QED  BY <1>2, <1>9, <3>1 DEF BridgeInv, OpenInv
  <2>2. ASSUME NEW k \in 1 .. N + 1 PROVE Awaited(to_bridge[k])'
    <3>1. PICK r : r = to_bridge'[k]
      OBVIOUS
    <3>2. CASE k \in 1 .. N
      <4>1. Awaited(r)
        BY <1>6, <1>7, <3>1, <3>2 DEF BridgeInv, OpenInv
      <4>. QED  BY <1>9, <3>1, <4>1
    <3>3. CASE k = N + 1
      <4>1. r = query' /\ pc' = "wait"
        BY <1>2, <1>7, <3>1, <3>3
      <4>. QED  BY <3>1, <4>1 DEF Awaited
    <3>. QED  BY <1>7, <3>2, <3>3
  <2>. QED  BY <1>2, <1>7, <2>1, <2>2 DEF BridgeInv, OpenInv
<1>11. LineInv' /\ WellFramed(replies)'
  BY <1>2, EmptySeq DEF LineInv, BridgeInv
<1>12. WayInv(t)'
  <2>1. ASSUME NEW i \in 1 .. Len(t)
        PROVE  Asked(t[i].reply)' /\ (i # 1 => (t[i].reply # 0 => Awaited(t[i].reply)'))
    <3>1. PICK r : r = t[i].reply
      OBVIOUS
    <3>2. Asked(r) /\ (i # 1 => (r # 0 => Awaited(r)))
      BY <1>1, <1>3, <1>4, <3>1 DEF WayInv
    <3>. QED  BY <1>8, <1>9, <3>1, <3>2
  <2>. QED  BY <1>2, <1>3, <2>1 DEF WayInv
<1>13. AnswersInv(t)'
  <2>1. AnswersInv(t)
    BY <1>1, <1>4 DEF AnswersInv
  <2>. QED  BY <1>2, <2>1 DEF AnswersInv, AnswerSource, OnTime
<1>14. ParserInv(t[1])'
  BY <1>2 DEF ParserInv
<1>15. \E x : (WayInv(x) /\ ParserInv(x[1]) /\ AnswersInv(x))'
  BY <1>12, <1>13, <1>14
<1>. QED  BY <1>3, <1>10, <1>11, <1>15 DEF BridgeInv

\* A query is answered: the answer is the reply that ends here, which is older
\* than all that is to come.
LEMMA AnsweredStep ==
    ASSUME QueriesInv, BridgeInv, NEW b, Answered(b) PROVE BridgeInv'
<1>1. PICK s : WayInv(s) /\ ParserInv(s[1]) /\ AnswersInv(s)
  BY DEF BridgeInv
<1>2. /\ pc = "wait" /\ Arrived(b) /\ matched = 5 /\ b.kind = "ETX" /\ pc' = "prompt"
      /\ answers' = Append(answers, <<query, b.reply, Decoded(body)>>)
      /\ UNCHANGED <<line, query, matched, body, to_bridge, asking, late, replies>>
  BY ByteFacts DEF Answered
<1>3. PICK t : /\ Stream(t, replies) /\ Behind(t, to_kernel') /\ to_kernel' \in Seq(Bytes)
               /\ \A i \in 1 .. Len(t) : t[i] = s[i + 1] /\ i + 1 \in 1 .. Len(s)
               /\ Len(t) = Len(s) - 1 /\ Len(s) \in Nat /\ Len(s) >= 2
               /\ s[2] = b /\ t[1] = b /\ Follows(s[1], b, replies)
  BY <1>1, <1>2, ByteTaken DEF WayInv, BridgeInv, Arrived
<1>4. /\ query \in Nat /\ asking \in Nat /\ to_bridge \in Seq(Nat \ {0})
      /\ \A k \in 1 .. Len(to_bridge) : to_bridge[k] \in Nat
      /\ WellFramed(replies) /\ late \in SUBSET Nat
  BY ElementOfSeq DEF QueriesInv, BridgeInv, OpenInv
<1>5. PICK q \in DOMAIN replies :
        \E n \in 0 .. Len(replies[q]) : b = After(replies, q, n) /\ body = Cut(replies[q], n)
  BY <1>1, <1>2, <1>3, <1>4, BodySoFar
<1>6. /\ q \in Nat \ {0} /\ b.reply = q /\ replies[q] \in Seq(Bytes)
      /\ Decoded(body) = Shown(replies[q]) /\ Shown(replies[q]) \in Seq(Bytes)
  <2>1. PICK n \in 0 .. Len(replies[q]) : b = After(replies, q, n) /\ body = Cut(replies[q], n)
    BY <1>5
  <2>2. q \in Nat \ {0} /\ replies[q] \in Seq(Bytes) /\ Len(replies[q]) \in Nat
    BY <1>4, LenProperties DEF WellFramed
  <2>3. n = Len(replies[q]) /\ b.reply = q
    BY <1>2, <1>4, <2>1, <2>2, AfterFacts
  <2>4. replies[q] = <<>> \/ replies[q][Len(replies[q])].kind # "part"
    BY <1>4 DEF WellFramed
  <2>. QED  BY <2>1, <2>2, <2>3, <2>4, CutWhole
<1>7. 2 \in 2 .. Len(s) /\ 2 \in 1 .. Len(s) /\ s[2].reply = q
  BY <1>3, <1>6
<1>8. Asked(q) /\ Awaited(q)
  BY <1>1, <1>6, <1>7 DEF WayInv
<1>9. ASSUME NEW i \in 2 .. Len(t)
      PROVE  /\ i \in 1 .. Len(t) /\ i + 1 \in 2 .. Len(s) /\ t[i] = s[i + 1]
             /\ t[i].reply # 0 => q < t[i].reply
  <2>1. i \in 1 .. Len(t) /\ i + 1 \in 2 .. Len(s) /\ i + 1 \in 1 .. Len(s) /\ 2 < i + 1
    BY <1>3
  <2>2. t[i] = s[i + 1]
    BY <1>3, <2>1
  <2>3. s[i + 1].reply # 0 => s[2].reply < s[i + 1].reply
    BY <1>1, <1>2, <1>3, <1>7, <2>1 DEF WayInv, Stream
  <2>. QED  BY <1>7, <2>1, <2>2, <2>3
<1>10. ASSUME NEW r \in Nat, Awaited(r), q < r PROVE Awaited(r)'
  <2>1. ASSUME OnTime(r) PROVE FALSE
    <3>1. OnTime(q)
      BY <1>4, <1>6, <1>10, <2>1 DEF OnTime
    <3>2. q = query /\ r = query
      BY <1>8, <1>10, <2>1, <3>1 DEF Awaited
    <3>. QED  BY <1>6, <1>10, <3>2
  <2>. QED  BY <1>2, <2>1 DEF Awaited, OnTime
<1>11. OpenInv'
  <2>1. asking # 0 => Awaited(asking)'
    <3>1. PICK r \in Nat : r = asking
      BY <1>4
    <3>2. r # 0 => q < r /\ Awaited(r)
      BY <1>8, <3>1 DEF Asked, BridgeInv, OpenInv
    <3>. QED  BY <1>2, <1>10, <3>1, <3>2
  <2>2. ASSUME NEW k \in 1 .. Len(to_bridge) PROVE Awaited(to_bridge[k])'
    <3>1. PICK r \in Nat : r = to_bridge[k]
      BY <1>4
    <3>2. q < r /\ Awaited(r)
      BY <1>8, <3>1 DEF Asked, BridgeInv, OpenInv
    <3>. QED  BY <1>2, <1>10, <3>1, <3>2
  <2>. QED  BY <1>2, <1>4, <2>1, <2>2 DEF OpenInv
<1>12. LineInv' /\ WellFramed(replies)'
  BY <1>2 DEF BridgeInv, LineInv, OnTime
<1>13. WayInv(t)'
  <2>1. ASSUME NEW i \in 1 .. Len(t) PROVE Asked(t[i].reply)'
    <3>1. Asked(t[i].reply)
      BY <1>1, <1>3 DEF WayInv
    <3>. QED  BY <1>2, <3>1 DEF Asked
  <2>2. ASSUME NEW i \in 2 .. Len(t), t[i].reply # 0 PROVE Awaited(t[i].reply)'
    <3>1. PICK r : r = t[i].reply
      OBVIOUS
    <3>2. Asked(r) /\ Awaited(r) /\ q < r
      BY <1>1, <1>3, <1>9, <2>2, <3>1 DEF WayInv
    <3>. QED  BY <1>10, <3>1, <3>2 DEF Asked
  <2>. QED  BY <1>2, <1>3, <2>1, <2>2 DEF WayInv
<1>14. AnswersInv(t)'
  <2>1. AnswersInv(s)
    BY <1>1
  <2>2. PICK N \in Nat : N = Len(answers)
    BY <2>1, LenProperties DEF AnswersInv
  <2>3. /\ answers' \in Seq(Nat \X Nat \X Seq(Bytes)) /\ Len(answers') = N + 1
        /\ answers'[N + 1] = <<query, q, Shown(replies[q])>>
        /\ \A i \in 1 .. N : answers'[i] = answers[i]
        /\ \A i \in 1 .. N + 1 : i \in 1 .. N \/ i = N + 1
    <3>1. PICK a : a = <<query, q, Shown(replies[q])>>
      OBVIOUS
    <3>2. PICK S : S = Nat \X Nat \X Seq(Bytes)
      OBVIOUS
    <3>3. a \in S /\ answers \in Seq(S) /\ answers' = Append(answers, a)
      BY <1>2, <1>4, <1>6, <2>1, <3>1, <3>2 DEF AnswersInv
    <3>4. /\ answers' \in Seq(S) /\ Len(answers') = N + 1 /\ answers'[N + 1] = a
          /\ \A i \in 1 .. N : answers'[i] = answers[i]
      BY <2>2, <3>3, AppendProperties
    <3>5. \A i \in 1 .. N + 1 : i \in 1 .. N \/ i = N + 1
      OBVIOUS
    <3>. QED  BY <3>1, <3>2, <3>4, <3>5
  <2>4. \A i \in 1 .. N : answers[i][2] < q
    BY <1>6, <1>7, <2>1, <2>2 DEF AnswersInv, AnswerSource
  <2>5. ASSUME NEW i \in 1 .. N + 1
        PROVE  /\ answers'[i][2] \in DOMAIN replies
               /\ answers'[i][3] = Shown(replies[answers'[i][2]])
               /\ OnTime(answers'[i][2]) => answers'[i][2] = answers'[i][1]
               /\ \A j \in 2 .. Len(t) : t[j].reply # 0 => answers'[i][2] < t[j].reply
    <3>1. CASE i \in 1 .. N
      <4>1. \A j \in 2 .. Len(t) : t[j].reply # 0 => answers[i][2] < t[j].reply
        BY <1>9, <2>1, <2>2, <3>1 DEF AnswersInv, AnswerSource
      <4>2. /\ answers[i][2] \in DOMAIN replies
            /\ answers[i][3] = Shown(replies[answers[i][2]])
            /\ OnTime(answers[i][2]) => answers[i][2] = answers[i][1]
        BY <2>1, <2>2, <3>1 DEF AnswersInv, AnswerSource
      <4>3. answers'[i] = answers[i]
        BY <2>3, <3>1
      <4>. QED  BY <4>1, <4>2, <4>3
    <3>2. CASE i = N + 1
      <4>1. answers'[i][1] = query /\ answers'[i][2] = q /\ answers'[i][3] = Shown(replies[q])
        BY <2>3, <3>2
      <4>. QED  BY <1>8, <1>9, <4>1 DEF Awaited
    <3>. QED  BY <2>3, <3>1, <3>2
  <2>6. ASSUME NEW i \in 1 .. N + 1, NEW j \in 1 .. N + 1, i < j
        PROVE  answers'[i][2] < answers'[j][2]
    <3>1. i \in 1 .. N
      BY <2>6
    <3>2. CASE j \in 1 .. N
      BY <2>1, <2>2, <2>3, <2>6, <3>1, <3>2 DEF AnswersInv, AnswerSource
    <3>3. CASE j = N + 1
      <4>1. answers'[j] = <<query, q, Shown(replies[q])>> /\ answers'[i] = answers[i]
        BY <2>3, <3>1, <3>3
      <4>2. answers'[j][2] = q /\ answers'[i][2] = answers[i][2]
        BY <4>1
      <4>3. answers[i][2] < q
        BY <2>4, <3>1
      <4>. QED  BY <4>2, <4>3
    <3>. QED  BY <2>3, <3>2, <3>3
  <2>. QED  BY <1>2, <2>3, <2>5, <2>6 DEF AnswersInv, AnswerSource, OnTime
<1>15. ParserInv(t[1])'
  BY <1>1, <1>2 DEF ParserInv
<1>16. \E x : (WayInv(x) /\ ParserInv(x[1]) /\ AnswersInv(x))'
  BY <1>13, <1>14, <1>15
<1>. QED  BY <1>3, <1>11, <1>12, <1>16 DEF BridgeInv

\* A query is given up: a reply to it is late from now on, and so is every
\* later one.
LEMMA TimeoutStep ==
    ASSUME QueriesInv, BridgeInv, TimedOut PROVE BridgeInv'
<1>1. PICK s : WayInv(s) /\ ParserInv(s[1]) /\ AnswersInv(s)
  BY DEF BridgeInv
<1>2. /\ pc = "wait" /\ pc' = "prompt" /\ late' = late \cup {query}
      /\ UNCHANGED <<line, query, matched, body, to_bridge, asking, to_kernel, answers, replies>>
  BY DEF TimedOut, link
<1>3. /\ query \in Nat /\ late \in SUBSET Nat /\ asking \in Nat
      /\ \A k \in 1 .. Len(to_bridge) : to_bridge[k] \in Nat
  BY ElementOfSeq DEF QueriesInv, BridgeInv, OpenInv
<1>4. ASSUME NEW r, OnTime(r)' PROVE OnTime(r) /\ query > r
  BY <1>2, <1>4 DEF OnTime
<1>5. ASSUME NEW r \in Nat, Awaited(r) PROVE Awaited(r)'
  BY <1>2, <1>3, <1>4, <1>5 DEF Awaited
<1>6. OpenInv'
  <2>1. asking # 0 => Awaited(asking)'
    <3>1. PICK r \in Nat : r = asking
      BY <1>3
    <3>2. r # 0 => Awaited(r)'
      BY <1>5, <3>1 DEF BridgeInv, OpenInv
    <3>. QED  BY <1>2, <3>1, <3>2
  <2>2. ASSUME NEW k \in 1 .. Len(to_bridge) PROVE Awaited(to_bridge[k])'
    <3>1. PICK r \in Nat : r = to_bridge[k]
      BY <1>3
    <3>2. Awaited(r)'
      BY <1>5, <3>1 DEF BridgeInv, OpenInv
    <3>. QED  BY <1>2, <3>1, <3>2
  <2>. QED  BY <1>2, <1>3, <2>1, <2>2 DEF OpenInv
<1>7. LineInv' /\ WellFramed(replies)'
  <2>1. ASSUME NEW i \in 1 .. Len(line), line[i].reply # 0 PROVE ~OnTime(line[i].reply)'
    <3>1. PICK r : r = line[i].reply
      OBVIOUS
    <3>2. ~OnTime(r)
      BY <2>1, <3>1 DEF BridgeInv, LineInv
    <3>3. ~OnTime(r)' /\ line'[i].reply = r
      BY <1>2, <1>4, <3>1, <3>2
    <3>. QED  BY <3>3
  <2>. QED  BY <1>2, <2>1 DEF BridgeInv, LineInv
<1>8. WayInv(s)'
  <2>1. ASSUME NEW i \in 1 .. Len(s) PROVE Asked(s[i].reply) /\ Asked(s[i].reply)'
    <3>1. Asked(s[i].reply)
      BY <1>1 DEF WayInv
    <3>. QED  BY <1>2, <3>1 DEF Asked
  <2>2. ASSUME NEW i \in 2 .. Len(s), s[i].reply # 0 PROVE Awaited(s[i].reply)'
    <3>1. PICK r : r = s[i].reply
      OBVIOUS
    <3>2. i \in 1 .. Len(s)
      <4>1. s \in Seq(Bytes)
        BY <1>1 DEF WayInv, Stream
      <4>. QED  BY <4>1, LenProperties
    <3>3. r \in Nat /\ Awaited(r)
      BY <1>1, <2>1, <2>2, <3>1, <3>2 DEF WayInv, Asked
    <3>. QED  BY <1>5, <3>1, <3>3
  <2>. QED  BY <1>1, <1>2, <2>1, <2>2 DEF WayInv
<1>9. AnswersInv(s)'
  <2>1. ASSUME NEW i \in 1 .. Len(answers)
        PROVE  (OnTime(AnswerSource(i)) => AnswerSource(i) = answers[i][1])'
    <3>1. PICK r : r = AnswerSource(i)
      OBVIOUS
    <3>2. OnTime(r) => r = answers[i][1]
      BY <1>1, <3>1 DEF AnswersInv
    <3>3. AnswerSource(i)' = r /\ answers' = answers
      BY <1>2, <3>1 DEF AnswerSource
    <3>4. OnTime(r)' => r = answers'[i][1]
      BY <1>4, <3>2, <3>3
    <3>. QED  BY <3>3, <3>4
  <2>2. AnswersInv(s)
    BY <1>1
  <2>. QED  BY <1>2, <2>1, <2>2 DEF AnswersInv, AnswerSource
<1>10. ParserInv(s[1])'
  BY <1>1, <1>2 DEF ParserInv
<1>11. \E x : (WayInv(x) /\ ParserInv(x[1]) /\ AnswersInv(x))'
  BY <1>8, <1>9, <1>10
<1>12. (to_kernel \in Seq(Bytes))'
  BY <1>2 DEF BridgeInv
<1>. QED  BY <1>6, <1>7, <1>11, <1>12 DEF BridgeInv

\* The bridge takes the oldest query.
LEMMA ForwardStep ==
    ASSUME QueriesInv, BridgeInv, BridgeForwards PROVE BridgeInv'
<1>1. PICK s : WayInv(s) /\ ParserInv(s[1]) /\ AnswersInv(s)
  BY DEF BridgeInv
<1>2. /\ to_bridge # <<>> /\ asking' = Head(to_bridge) /\ to_bridge' = Tail(to_bridge)
      /\ UNCHANGED <<pc, line, query, matched, body, to_kernel, late, answers, replies>>
  BY DEF BridgeForwards, kernel, history
<1>3. to_bridge \in Seq(Nat \ {0}) /\ \A k \in 1 .. Len(to_bridge) : Awaited(to_bridge[k])
  BY DEF QueriesInv, BridgeInv, OpenInv
<1>4. PICK N \in Nat \ {0} : N = Len(to_bridge)
  BY <1>2, <1>3, LenProperties, EmptySeq
<1>5. /\ Len(to_bridge') = N - 1 /\ asking' = to_bridge[1]
      /\ \A k \in 1 .. N - 1 : to_bridge'[k] = to_bridge[k + 1] /\ k + 1 \in 1 .. N
  BY <1>2, <1>3, <1>4, HeadTailProperties
<1>6. ASSUME NEW r, Asked(r) PROVE Asked(r)'
  BY <1>6, AskedStays DEF BridgeNext
<1>7. ASSUME NEW r, Awaited(r) PROVE Awaited(r)'
  BY <1>2, <1>7 DEF Awaited, OnTime
<1>8. OpenInv'
  <2>1. Awaited(asking)'
    <3>1. PICK r : r = asking'
      OBVIOUS
    <3>2. Awaited(r)
      BY <1>3, <1>4, <1>5, <3>1
    <3>. QED  BY <1>7, <3>1, <3>2
  <2>2. ASSUME NEW k \in 1 .. N - 1 PROVE Awaited(to_bridge[k])'
    <3>1. PICK r : r = to_bridge'[k]
      OBVIOUS
    <3>2. Awaited(r)
      BY <1>3, <1>4, <1>5, <3>1
    <3>. QED  BY <1>7, <3>1, <3>2
  <2>. QED  BY <1>2, <1>5, <2>1, <2>2 DEF BridgeInv, OpenInv
<1>9. LineInv' /\ WellFramed(replies)'
  BY <1>2 DEF BridgeInv, LineInv, OnTime
<1>10. WayInv(s)'
  <2>1. ASSUME NEW i \in 1 .. Len(s) PROVE Asked(s[i].reply)'
    <3>1. Asked(s[i].reply)
      BY <1>1 DEF WayInv
    <3>. QED  BY <1>6, <3>1
  <2>2. ASSUME NEW i \in 2 .. Len(s), s[i].reply # 0 PROVE Awaited(s[i].reply)'
    <3>1. Awaited(s[i].reply)
      BY <1>1, <2>2 DEF WayInv
    <3>. QED  BY <1>7, <3>1
  <2>. QED  BY <1>1, <1>2, <2>1, <2>2 DEF WayInv
<1>11. AnswersInv(s)'
  BY <1>1, <1>2 DEF AnswersInv, AnswerSource, OnTime
<1>12. ParserInv(s[1])'
  BY <1>1, <1>2 DEF ParserInv
<1>13. \E x : (WayInv(x) /\ ParserInv(x[1]) /\ AnswersInv(x))'
  BY <1>10, <1>11, <1>12
<1>14. (to_kernel \in Seq(Bytes))'
  BY <1>2 DEF BridgeInv
<1>. QED  BY <1>8, <1>9, <1>13, <1>14 DEF BridgeInv

\* A reply of Texts with no byte of a frame in it may be sent.
LEMMA ReplyIsSent ==
    ASSUME QueriesInv, BridgeReplies, WellFramed(replies), Framed' PROVE WellFramed(replies')
<1>1. PICK q : q = asking
  OBVIOUS
<1>2. /\ Extends(replies, replies') /\ q \in Nat \ {0}
      /\ DOMAIN replies' = DOMAIN replies \cup {q}
  BY <1>1, NewReply
<1>3. PICK text \in Texts : replies'[q] = Written(text, q)
  BY <1>1, NewReply
<1>4. PICK x : x = replies'[q]
  OBVIOUS
<1>5. /\ text \in Seq({"text", "part", "last", "STX", "ETX"})
      /\ text = <<>> \/ text[Len(text)] # "part"
  BY LlmAssumption
<1>6. PICK N \in Nat : N = Len(text)
  BY <1>5, LenProperties
<1>7. DOMAIN text = 1 .. N /\ \A i \in 1 .. N : text[i] \in {"text", "part", "last", "STX", "ETX"}
  BY <1>5, <1>6, LenProperties, ElementOfSeq
<1>8. /\ x = [i \in 1 .. N |-> [kind |-> text[i], reply |-> q, at |-> i]]
      /\ \A i \in 1 .. N : x[i].kind = text[i] /\ x[i].reply = q /\ x[i].at = i
  BY <1>3, <1>4, <1>7 DEF Written
<1>9. \A i \in 1 .. N : text[i] \in InReply
  <2>1. ASSUME NEW i \in 1 .. N PROVE x[i].kind \notin {"STX", "ETX"}
    <3>1. q \in DOMAIN replies' /\ i \in DOMAIN replies'[q]
      BY <1>2, <1>4, <1>8
    <3>. QED  BY <1>4, <3>1 DEF Framed
  <2>. QED  BY <1>7, <1>8, <2>1 DEF InReply
<1>10. x \in Seq(Bytes) /\ Len(x) = N
  <2>1. \A i \in 1 .. N : [kind |-> text[i], reply |-> q, at |-> i] \in Bytes
    BY <1>2, <1>9 DEF Bytes, Kinds
  <2>. QED  BY <1>8, <2>1
<1>11. x = <<>> \/ x[Len(x)].kind # "part"
  <2>1. CASE N = 0
    BY <1>10, <2>1, EmptySeq
  <2>2. CASE N # 0
    <3>1. N \in 1 .. N /\ text # <<>>
      BY <1>6, <2>2
    <3>. QED  BY <1>5, <1>6, <1>8, <1>10, <3>1
  <2>. QED  BY <2>1, <2>2
<1>12. \A n \in 1 .. Len(x) : x[n].reply = q /\ x[n].at = n /\ x[n].kind \in InReply
  BY <1>8, <1>9, <1>10
<1>. QED  BY <1>2, <1>4, <1>10, <1>11, <1>12 DEF WellFramed, Extends

\* The bridge sends the frame with a reply.
LEMMA ReplyStep ==
    ASSUME QueriesInv, BridgeInv, BridgeReplies, Framed' PROVE BridgeInv'
<1>1. PICK s : WayInv(s) /\ ParserInv(s[1]) /\ AnswersInv(s)
  BY DEF BridgeInv
<1>2. /\ asking # 0 /\ asking' = 0
      /\ UNCHANGED <<pc, line, query, matched, body, to_bridge, late, answers>>
  BY DEF BridgeReplies, kernel
<1>3. PICK q : q = asking
  OBVIOUS
<1>4. PICK T : T = replies'
  OBVIOUS
<1>5. /\ Extends(replies, T) /\ q \in Nat \ {0} /\ q \in DOMAIN T /\ Asked(q)'
      /\ to_kernel' = to_kernel \o (Header \o T[q] \o <<Etx(q)>>)
  BY <1>3, <1>4, NewReply
<1>6. WellFramed(T)
  BY <1>4, ReplyIsSent DEF BridgeInv
<1>7. /\ \A i \in 1 .. Len(s) : Asked(s[i].reply)
      /\ \A i \in 2 .. Len(s) : s[i].reply # 0 => Awaited(s[i].reply)
      /\ Stream(s, replies) /\ Behind(s, to_kernel) /\ to_kernel \in Seq(Bytes)
  BY <1>1 DEF WayInv, BridgeInv
<1>8. \A j \in 1 .. Len(s) : s[j].reply < q
  BY <1>2, <1>3, <1>7 DEF Asked
<1>9. PICK f : f = Header \o T[q] \o <<Etx(q)>>
  OBVIOUS
<1>10. /\ Addition(f, T, s) /\ to_kernel' = to_kernel \o f
       /\ \A i \in 1 .. Len(f) : f[i].reply \in {0, q}
  BY <1>5, <1>6, <1>8, <1>9, FrameAdds
<1>11. PICK u : u = s \o f
  OBVIOUS
<1>12. /\ Stream(u, T) /\ Behind(u, to_kernel') /\ to_kernel' \in Seq(Bytes)
       /\ Len(s) \in Nat \ {0} /\ Len(u) \in Nat /\ Len(u) = Len(s) + Len(f)
       /\ \A i \in 1 .. Len(s) : u[i] = s[i]
       /\ \A i \in 1 .. Len(f) : u[Len(s) + i] = f[i]
  <2>1. PICK v : v = to_kernel \o f
    OBVIOUS
  <2>2. /\ Stream(u, T) /\ Behind(u, v) /\ v \in Seq(Bytes)
        /\ Len(u) \in Nat /\ Len(u) = Len(s) + Len(f) /\ Len(s) \in Nat \ {0}
        /\ \A i \in 1 .. Len(s) : u[i] = s[i]
        /\ \A i \in 1 .. Len(f) : u[Len(s) + i] = f[i]
    BY ONLY <1>5, <1>7, <1>10, <1>11, <2>1, StreamGrows
  <2>. QED  BY ONLY <1>10, <2>1, <2>2
<1>13. ASSUME NEW i \in 1 .. Len(u)
       PROVE  i \in 1 .. Len(s) \/ u[i].reply \in {0, q}
  <2>. SUFFICES ASSUME i \notin 1 .. Len(s) PROVE u[i].reply \in {0, q}
    OBVIOUS
  <2>1. PICK N \in Nat : N = Len(f)
    <3>1. f \in Seq(Bytes)
      BY <1>10 DEF Addition
    <3>. QED  BY <3>1, LenProperties
  <2>2. PICK k \in 1 .. N : i = Len(s) + k
    <3>1. i - Len(s) \in 1 .. N /\ i = Len(s) + (i - Len(s))
      BY <1>12, <2>1
    <3>. QED  BY <3>1
  <2>3. u[i] = f[k]
    BY <1>12, <2>1, <2>2
  <2>. QED  BY <1>10, <2>1, <2>2, <2>3
<1>14. ASSUME NEW r, Asked(r) PROVE Asked(r)'
  BY <1>2, <1>14 DEF Asked
<1>15. ASSUME NEW r, Awaited(r) PROVE Awaited(r)'
  BY <1>2, <1>15 DEF Awaited, OnTime
<1>16. Awaited(q)' /\ Asked(0)'
  <2>1. Awaited(q)
    BY <1>2, <1>3 DEF BridgeInv, OpenInv
  <2>2. \A k \in 1 .. Len(to_bridge) : 0 < to_bridge[k]
    BY ElementOfSeq DEF QueriesInv
  <2>3. Asked(0)'
    BY <1>2, <2>2 DEF Asked, QueriesInv
  <2>. QED  BY <1>15, <2>1, <2>3
<1>17. OpenInv'
  <2>1. ASSUME NEW k \in 1 .. Len(to_bridge) PROVE Awaited(to_bridge[k])'
    <3>1. PICK r : r = to_bridge[k]
      OBVIOUS
    <3>2. Awaited(r)' /\ to_bridge'[k] = r
      BY <1>2, <1>15, <3>1 DEF BridgeInv, OpenInv
    <3>. QED  BY <3>2
  <2>. QED  BY <1>2, <2>1 DEF BridgeInv, OpenInv
<1>18. LineInv'
  BY <1>2 DEF BridgeInv, LineInv, OnTime
<1>19. WayInv(u)'
  <2>1. ASSUME NEW i \in 1 .. Len(u)
        PROVE  /\ Asked(u[i].reply)'
               /\ i # 1 => (u[i].reply # 0 => Awaited(u[i].reply)')
    <3>1. PICK r : r = u[i].reply
      OBVIOUS
    <3>2. CASE i \in 1 .. Len(s)
      <4>1. i # 1 => i \in 2 .. Len(s)
        BY <3>2
      <4>2. Asked(r) /\ (i # 1 => (r # 0 => Awaited(r)))
        BY <1>7, <1>12, <3>1, <3>2, <4>1
      <4>. QED  BY <1>14, <1>15, <3>1, <4>2
    <3>3. CASE r = q
      BY <1>5, <1>16, <3>1, <3>3
    <3>4. CASE r = 0
      BY <1>16, <3>1, <3>4
    <3>. QED  BY <1>13, <3>1, <3>2, <3>3, <3>4
  <2>. QED  BY <1>4, <1>12, <2>1 DEF WayInv
<1>20. AnswersInv(u)'
  <2>1. AnswersInv(s)
    BY <1>1
  <2>2. ASSUME NEW i \in 1 .. Len(answers)
        PROVE  /\ AnswerSource(i) \in DOMAIN T /\ T[AnswerSource(i)] = replies[AnswerSource(i)]
               /\ \A j \in 2 .. Len(u) : u[j].reply # 0 => AnswerSource(i) < u[j].reply
    <3>1. PICK r : r = AnswerSource(i)
      OBVIOUS
    <3>2. r \in DOMAIN replies /\ r < q
      BY <1>2, <1>3, <2>1, <3>1 DEF AnswersInv, QueriesInv, Asked
    <3>3. ASSUME NEW j \in 2 .. Len(u), u[j].reply # 0 PROVE r < u[j].reply
      <4>1. j \in 1 .. Len(u) /\ (j \in 1 .. Len(s) => j \in 2 .. Len(s))
        OBVIOUS
      <4>2. CASE j \in 1 .. Len(s)
        BY <1>12, <2>1, <3>1, <3>3, <4>1, <4>2 DEF AnswersInv
      <4>3. CASE u[j].reply = q
        BY <3>2, <4>3
      <4>. QED  BY <1>13, <3>3, <4>1, <4>2, <4>3
    <3>. QED  BY <1>5, <3>1, <3>2, <3>3 DEF Extends
  <2>. QED  BY <1>2, <1>4, <2>1, <2>2 DEF AnswersInv, AnswerSource, OnTime
<1>21. ParserInv(u[1])'
  <2>1. u[1] = s[1]
    BY <1>12
  <2>2. CASE pc = "wait" /\ matched = 5 /\ ~(s[1] = Header[5] /\ body = <<>>)
    <3>1. PICK r \in DOMAIN replies :
            \E n \in 1 .. Len(replies[r]) : s[1] = replies[r][n] /\ body = Cut(replies[r], n)
      BY <1>1, <2>2 DEF ParserInv
    <3>2. r \in DOMAIN T /\ T[r] = replies[r]
      BY <1>5 DEF Extends
    <3>. QED  BY <1>2, <1>4, <2>1, <2>2, <3>1, <3>2 DEF ParserInv
  <2>3. CASE ~(pc = "wait" /\ matched = 5 /\ ~(s[1] = Header[5] /\ body = <<>>))
    BY <1>1, <1>2, <2>1, <2>3 DEF ParserInv
  <2>. QED  BY <2>2, <2>3
<1>22. \E x : (WayInv(x) /\ ParserInv(x[1]) /\ AnswersInv(x))'
  BY <1>19, <1>20, <1>21
<1>. QED  BY <1>4, <1>6, <1>12, <1>17, <1>18, <1>22 DEF BridgeInv

\* The user presses a key.
LEMMA TypesStep ==
    ASSUME QueriesInv, BridgeInv, UserTypes PROVE BridgeInv'
<1>1. PICK s : WayInv(s) /\ ParserInv(s[1]) /\ AnswersInv(s)
  BY DEF BridgeInv
<1>2. UNCHANGED <<pc, line, query, matched, body, to_bridge, asking, late, answers, replies>>
  BY DEF UserTypes, kernel, history
<1>3. PICK b \in {Typed, Enter} : to_kernel' = Append(to_kernel, b)
  BY DEF UserTypes
<1>4. /\ \A i \in 1 .. Len(s) : Asked(s[i].reply)
      /\ \A i \in 2 .. Len(s) : s[i].reply # 0 => Awaited(s[i].reply)
      /\ Stream(s, replies) /\ Behind(s, to_kernel) /\ to_kernel \in Seq(Bytes)
  BY <1>1 DEF WayInv, BridgeInv
<1>5. Addition(<<b>>, replies, s) /\ b.reply = 0 /\ b \in Bytes
  BY ByteFacts, KeystrokeAdds
<1>6. to_kernel' = to_kernel \o <<b>>
  BY <1>3, <1>4, <1>5, AppendIsConcat
<1>7. PICK u : u = s \o <<b>>
  OBVIOUS
<1>8. /\ Stream(u, replies) /\ Behind(u, to_kernel') /\ to_kernel' \in Seq(Bytes)
      /\ Len(s) \in Nat \ {0} /\ Len(u) = Len(s) + Len(<<b>>)
      /\ \A i \in 1 .. Len(s) : u[i] = s[i]
      /\ \A i \in 1 .. Len(<<b>>) : u[Len(s) + i] = <<b>>[i]
  <2>1. Extends(replies, replies)
    BY DEF Extends
  <2>. QED  BY <1>4, <1>5, <1>6, <1>7, <2>1, StreamGrows
<1>9. \A i \in 1 .. Len(u) : i \in 1 .. Len(s) \/ u[i].reply = 0
  BY <1>5, <1>8
<1>10. \A i \in 2 .. Len(u) : i \in 2 .. Len(s) \/ u[i].reply = 0
  BY <1>8, <1>9
<1>11. Asked(0)
  <2>1. \A k \in 1 .. Len(to_bridge) : 0 < to_bridge[k]
    BY ElementOfSeq DEF QueriesInv
  <2>. QED  BY <2>1 DEF QueriesInv, Asked
<1>12. \A i \in 2 .. Len(u) : u[i].reply # 0 => i \in 2 .. Len(s) /\ u[i] = s[i]
  BY <1>8, <1>10
<1>13. /\ \A i \in 1 .. Len(u) : Asked(u[i].reply)
       /\ \A i \in 2 .. Len(u) : u[i].reply # 0 => Awaited(u[i].reply)
  BY <1>4, <1>8, <1>9, <1>11, <1>12
<1>14. WayInv(u)'
  BY <1>2, <1>8, <1>13 DEF WayInv, Asked, Awaited, OnTime
<1>15. AnswersInv(u)'
  <2>1. AnswersInv(s)
    BY <1>1
  <2>2. AnswersInv(u)
    BY <1>12, <2>1 DEF AnswersInv
  <2>. QED  BY <1>2, <2>2 DEF AnswersInv, AnswerSource, OnTime
<1>16. ParserInv(u[1])'
  <2>1. u[1] = s[1]
    BY <1>8
  <2>. QED  BY <1>1, <1>2, <2>1 DEF ParserInv
<1>17. OpenInv' /\ LineInv' /\ WellFramed(replies)'
  BY <1>2 DEF BridgeInv, OpenInv, LineInv, Awaited, OnTime
<1>18. \E x : (WayInv(x) /\ ParserInv(x[1]) /\ AnswersInv(x))'
  BY <1>14, <1>15, <1>16
<1>. QED  BY <1>8, <1>17, <1>18 DEF BridgeInv

\* The inductive invariant of the bridge: the queries keep their order, and the
\* rest holds until a reply has a byte in it that frames begin or end with.
LEMMA BridgeIsOrderly == BridgeSpec => [](QueriesInv /\ (Framed => BridgeInv))
<1>. DEFINE Inv == QueriesInv /\ (Framed => BridgeInv)
<1>1. BridgeInit => Inv
  <2>. SUFFICES ASSUME BridgeInit PROVE Inv
    OBVIOUS
  <2>1. /\ pc = "prompt" /\ line = <<>> /\ query = 0 /\ matched = 0
        /\ to_bridge = <<>> /\ asking = 0 /\ to_kernel = <<>> /\ late = {}
        /\ answers = <<>> /\ DOMAIN replies = {}
    BY DEF BridgeInit
  <2>2. QueriesInv /\ OpenInv /\ LineInv /\ WellFramed(replies)
    BY <2>1, EmptySeq DEF QueriesInv, OpenInv, LineInv, WellFramed
  <2>3. PICK s : s = <<Enter>>
    OBVIOUS
  <2>4. /\ s \in Seq(Bytes) /\ s # <<>> /\ Len(s) = 1 /\ s[1] = Enter
        /\ Enter \in Ends /\ Enter.reply = 0
    BY <2>3, ByteFacts DEF Ends
  <2>5. 1 .. 1 - 1 = {} /\ 2 .. 1 = {} /\ \A i \in 1 .. 1 : i = 1
    OBVIOUS
  <2>6. Len(to_kernel) = 0 /\ 1 .. 0 = {}
    BY <2>1
  <2>7. Stream(s, replies) /\ Behind(s, to_kernel)
    BY <2>4, <2>5, <2>6 DEF Stream, Behind
  <2>8. WayInv(s)
    <3>1. Asked(0)
      BY <2>1 DEF Asked
    <3>. QED  BY <2>4, <2>5, <2>7, <3>1 DEF WayInv
  <2>9. ParserInv(s[1]) /\ AnswersInv(s)
    BY <2>1 DEF ParserInv, AnswersInv
  <2>. QED  BY <2>1, <2>2, <2>8, <2>9 DEF BridgeInv
<1>2. Inv /\ [BridgeNext]_bridgeVars => Inv'
  <2>. SUFFICES ASSUME Inv, [BridgeNext]_bridgeVars PROVE Inv'
    OBVIOUS
  <2>1. QueriesInv /\ QueriesInv'
    BY QueriesStep
  <2>2. CASE BridgeReplies
    <3>1. SUFFICES ASSUME Framed' PROVE BridgeInv'
      BY <2>1
    <3>2. Extends(replies, replies')
      BY <2>1, <2>2, NewReply
    <3>3. Framed
      BY <3>1, <3>2 DEF Framed, Extends
    <3>. QED  BY <2>1, <2>2, <3>1, <3>3, ReplyStep
  <2>3. CASE ~BridgeReplies
    <3>1. replies' = replies
      BY <2>3 DEF BridgeNext, bridgeVars, kernel, link, history, PromptByte, HeaderByte, BodyByte, RunLine,
         AskLine, Answered, TimedOut, BridgeForwards, UserTypes, AtRest
    <3>2. SUFFICES ASSUME BridgeInv PROVE BridgeInv'
      BY <2>1, <3>1 DEF Framed
    <3>3. ASSUME NEW b, PromptByte(b) \/ HeaderByte(b) \/ BodyByte(b) \/ Answered(b)
          PROVE  BridgeInv'
      BY <2>1, <3>2, <3>3, PromptStep, HeaderStep, BodyStep, AnsweredStep
    <3>4. CASE UNCHANGED bridgeVars
      <4>1. UNCHANGED <<pc, line, query, matched, body, to_bridge, asking, to_kernel, late,
                        answers, replies>>
        BY <3>4 DEF bridgeVars, kernel, link, history
      <4>2. PICK s : WayInv(s) /\ ParserInv(s[1]) /\ AnswersInv(s)
        BY <3>2 DEF BridgeInv
      <4>3. WayInv(s)' /\ ParserInv(s[1])'
        BY <4>1, <4>2 DEF WayInv, ParserInv, Asked, Awaited, OnTime
      <4>4. AnswersInv(s)'
        BY <4>1, <4>2 DEF AnswersInv, AnswerSource, OnTime
      <4>5. OpenInv' /\ LineInv'
        BY <3>2, <4>1 DEF BridgeInv, OpenInv, LineInv, Awaited, OnTime
      <4>6. \E x : (WayInv(x) /\ ParserInv(x[1]) /\ AnswersInv(x))'
        BY <4>3, <4>4
      <4>. QED  BY <3>2, <4>1, <4>5, <4>6 DEF BridgeInv
    <3>5. CASE BridgeNext
      BY <2>1, <2>3, <3>2, <3>3, <3>4, <3>5, RunStep, AskStep, TimeoutStep, ForwardStep,
         TypesStep DEF BridgeNext, AtRest
    <3>. QED  BY <3>4, <3>5
  <2>. QED  BY <2>2, <2>3
<1>. QED  BY <1>1, <1>2, PTL DEF BridgeSpec

\* An answer of the language model is one reply of the bridge from its first
\* byte, whole, or cut where the kernel's buffer is full and replaced if the cut
\* is inside a character, whatever was given up, typed or late before it, as
\* long as no reply has an STX or ETX in it (llm.rs query, tools/llm_bridge.py).
THEOREM AnswersAreReplies == BridgeSpec => []AnswersAreWhole
<1>1. BridgeInv => AnswersAreWhole
  <2>. SUFFICES ASSUME BridgeInv, NEW i \in DOMAIN answers
                PROVE  /\ answers[i][2] \in DOMAIN replies
                       /\ answers[i][3] = Shown(replies[answers[i][2]])
    BY DEF AnswersAreWhole, Shown
  <2>1. PICK s : AnswersInv(s)
    BY DEF BridgeInv
  <2>2. i \in 1 .. Len(answers)
    BY <2>1, LenProperties DEF AnswersInv
  <2>. QED  BY <2>1, <2>2 DEF AnswersInv, AnswerSource
<1>2. (Framed => BridgeInv) => AnswersAreWhole
  BY <1>1 DEF AnswersAreWhole
<1>. QED  BY <1>2, BridgeIsOrderly, PTL

\* No reply is the answer to two queries, and no answer overtakes another, as
\* long as no reply has an STX or ETX in it.
THEOREM AnswersKeepOrder == BridgeSpec => []AnswersInOrder
<1>1. BridgeInv => AnswersInOrder
  <2>. SUFFICES ASSUME BridgeInv, NEW i \in DOMAIN answers, NEW j \in DOMAIN answers, i < j
                PROVE  answers[i][2] < answers[j][2]
    BY DEF AnswersInOrder
  <2>1. PICK s : AnswersInv(s)
    BY DEF BridgeInv
  <2>2. i \in 1 .. Len(answers) /\ j \in 1 .. Len(answers)
    BY <2>1, LenProperties DEF AnswersInv
  <2>. QED  BY <2>1, <2>2 DEF AnswersInv, AnswerSource
<1>2. (Framed => BridgeInv) => AnswersInOrder
  BY <1>1 DEF AnswersInOrder
<1>. QED  BY <1>2, BridgeIsOrderly, PTL

\* Until a query is given up, each answer is to its own query and no byte of a
\* reply becomes a command, as long as no reply has an STX or ETX in it
\* (llm.rs query, guardian.rs interactive_loop).
THEOREM OnlyLateRepliesStray == BridgeSpec => []StrayRepliesAreLate
<1>1. BridgeInv => StrayRepliesAreLate
  <2>. SUFFICES ASSUME BridgeInv
                PROVE  /\ \A i \in DOMAIN answers :
                             OnTime(answers[i][2]) => answers[i][2] = answers[i][1]
                       /\ \A i \in DOMAIN line : line[i].reply # 0 => ~OnTime(line[i].reply)
    BY DEF StrayRepliesAreLate, OnTime
  <2>1. PICK s : AnswersInv(s)
    BY DEF BridgeInv
  <2>2. DOMAIN answers = 1 .. Len(answers) /\ DOMAIN line = 1 .. Len(line)
    BY <2>1, LenProperties DEF AnswersInv, BridgeInv, LineInv
  <2>. QED  BY <2>1, <2>2 DEF AnswersInv, AnswerSource, BridgeInv, LineInv
<1>2. (Framed => BridgeInv) => StrayRepliesAreLate
  BY <1>1 DEF StrayRepliesAreLate
<1>. QED  BY <1>2, BridgeIsOrderly, PTL

\* The types of the bridge's state, and that its buffers and counters keep
\* their bounds, whatever bytes the replies are made of.
THEOREM BridgeTypeOK == BridgeSpec => []TypeOK
<1>. DEFINE Types == /\ TypeOK /\ line \in Seq(Bytes) /\ body \in Seq(Bytes)
                     /\ to_kernel \in Seq(Bytes)
<1>1. BridgeInit => Types
  <2>. SUFFICES ASSUME BridgeInit PROVE Types
    OBVIOUS
  <2>1. Len(<<>>) = 0 /\ <<>> \in Seq(Bytes) /\ 0 \in 0 .. Len(Header)
    BY ByteFacts
  <2>. QED  BY <2>1, LlmAssumption DEF BridgeInit, TypeOK
<1>2. Types /\ QueriesInv /\ QueriesInv' /\ [BridgeNext]_bridgeVars => Types'
  <2>. SUFFICES ASSUME Types, QueriesInv, QueriesInv', [BridgeNext]_bridgeVars PROVE Types'
    OBVIOUS
  <2>1. /\ line \in Seq(Bytes) /\ to_kernel \in Seq(Bytes) /\ body \in Seq(Bytes)
        /\ Len(body) <= MaxResponse /\ Len(line) <= LineMax
        /\ query \in Nat /\ query <= MaxQueries /\ matched \in 0 .. Len(Header)
        /\ Len(line) \in Nat /\ Len(body) \in Nat
    BY LenProperties DEF QueriesInv, TypeOK
  <2>2. MaxQueries \in Nat /\ MaxResponse \in Nat /\ LineMax \in Nat
    BY LlmAssumption
  <2>3. Len(<<>>) = 0 /\ <<>> \in Seq(Bytes)
    OBVIOUS
  <2>4. \A b : Arrived(b) => b \in Bytes /\ to_kernel' \in Seq(Bytes)
    BY <2>1, HeadTailProperties DEF Arrived
  <2>5. (asking \in 0 .. query)' /\ query' \in Nat
    BY DEF QueriesInv
  <2>6. CASE UNCHANGED <<pc, line, query, matched, body, to_kernel>>
    BY <2>5, <2>6 DEF TypeOK
  <2>7. ASSUME NEW b, PromptByte(b) PROVE Types'
    <3>1. /\ Arrived(b) /\ UNCHANGED <<pc, query, matched, body>>
          /\ line' = line \/ (line' = Append(line, b) /\ Len(line) < LineMax)
      BY <2>7 DEF PromptByte
    <3>2. line' \in Seq(Bytes) /\ Len(line') <= LineMax
      <4>1. CASE line' = line
        BY <2>1, <4>1
      <4>2. CASE line' = Append(line, b) /\ Len(line) < LineMax
        <5>1. line' \in Seq(Bytes) /\ Len(line') = Len(line) + 1
          BY <2>1, <2>4, <3>1, <4>2, AppendProperties
        <5>. QED  BY <2>1, <2>2, <4>2, <5>1
      <4>. QED  BY <3>1, <4>1, <4>2
    <3>. QED  BY <2>4, <2>5, <3>1, <3>2 DEF TypeOK
  <2>8. ASSUME NEW b, HeaderByte(b) PROVE Types'
    <3>1. Arrived(b) /\ UNCHANGED <<pc, line, query, body>> /\ matched' \in {0, matched + 1}
          /\ matched < Len(Header)
      BY <2>8 DEF HeaderByte
    <3>2. matched' \in 0 .. Len(Header)
      BY <2>1, <3>1, ByteFacts
    <3>. QED  BY <2>4, <2>5, <3>1, <3>2 DEF TypeOK
  <2>9. ASSUME NEW b, BodyByte(b) PROVE Types'
    <3>1. /\ Arrived(b) /\ UNCHANGED <<pc, query, matched, line>>
          /\ body' = body \/ (body' = Append(body, b) /\ Len(body) < MaxResponse)
      BY <2>9 DEF BodyByte
    <3>2. body' \in Seq(Bytes) /\ Len(body') <= MaxResponse
      <4>1. CASE body' = body
        BY <2>1, <4>1
      <4>2. CASE body' = Append(body, b) /\ Len(body) < MaxResponse
        <5>1. body' \in Seq(Bytes) /\ Len(body') = Len(body) + 1
          BY <2>1, <2>4, <3>1, <4>2, AppendProperties
        <5>. QED  BY <2>1, <2>2, <4>2, <5>1
      <4>. QED  BY <3>1, <4>1, <4>2
    <3>. QED  BY <2>4, <2>5, <3>1, <3>2 DEF TypeOK
  <2>10. ASSUME NEW b, Answered(b) PROVE Types'
    <3>1. Arrived(b) /\ pc' = "prompt" /\ UNCHANGED <<line, query, matched, body>>
      BY <2>10 DEF Answered
    <3>. QED  BY <2>4, <2>5, <3>1 DEF TypeOK
  <2>11. CASE RunLine
    <3>1. Arrived(Enter) /\ line' = <<>> /\ UNCHANGED <<pc, query, matched, body>>
      BY <2>11 DEF RunLine
    <3>. QED  BY <2>2, <2>3, <2>4, <2>5, <3>1 DEF TypeOK
  <2>12. CASE AskLine
    <3>1. /\ Arrived(Enter) /\ line' = <<>> /\ body' = <<>> /\ matched' = 0 /\ pc' = "wait"
          /\ query' = query + 1 /\ query < MaxQueries
      BY <2>12 DEF AskLine
    <3>2. query' \in 0 .. MaxQueries /\ 0 \in 0 .. Len(Header)
      BY <2>1, <2>2, <3>1, ByteFacts
    <3>. QED  BY <2>2, <2>3, <2>4, <2>5, <3>1, <3>2 DEF TypeOK
  <2>13. CASE TimedOut
    <3>1. pc' = "prompt" /\ UNCHANGED <<line, query, matched, body, to_kernel>>
      BY <2>13 DEF TimedOut, link
    <3>. QED  BY <2>5, <3>1 DEF TypeOK
  <2>14. CASE BridgeReplies
    <3>1. PICK q : q = asking
      OBVIOUS
    <3>2. /\ q \in Nat /\ to_kernel' = to_kernel \o (Header \o replies'[q] \o <<Etx(q)>>)
          /\ \E text \in Texts : replies'[q] = Written(text, q)
      BY <2>14, <3>1, NewReply
    <3>3. PICK text \in Texts : replies'[q] = Written(text, q)
      BY <3>2
    <3>4. PICK x : x = replies'[q]
      OBVIOUS
    <3>5. x \in Seq(Bytes)
      <4>1. text \in Seq({"text", "part", "last", "STX", "ETX"})
        BY LlmAssumption
      <4>2. PICK N \in Nat : N = Len(text)
        BY <4>1, LenProperties
      <4>3. DOMAIN text = 1 .. N /\ \A i \in 1 .. N : text[i] \in Kinds
        BY <4>1, <4>2, LenProperties, ElementOfSeq DEF Kinds, InReply
      <4>4. \A i \in 1 .. N : [kind |-> text[i], reply |-> q, at |-> i] \in Bytes
        BY <3>2, <4>3 DEF Bytes
      <4>. QED  BY <3>3, <3>4, <4>3, <4>4 DEF Written
    <3>6. Header \in Seq(Bytes) /\ <<Etx(q)>> \in Seq(Bytes)
      <4>1. \A k \in 1 .. 5 : Header[k] \in Bytes
        BY ByteFacts
      <4>. QED  BY <3>2, <4>1, ByteFacts DEF Header
    <3>7. to_kernel' = to_kernel \o (Header \o x \o <<Etx(q)>>)
      BY <3>2, <3>4
    <3>8. to_kernel' \in Seq(Bytes)
      <4>1. PICK h : h = Header
        OBVIOUS
      <4>2. PICK e : e = <<Etx(q)>>
        OBVIOUS
      <4>3. (h \o x) \o e \in Seq(Bytes)
        BY <3>5, <3>6, <4>1, <4>2, ConcatProperties
      <4>. QED  BY <2>1, <3>7, <4>1, <4>2, <4>3, ConcatProperties
    <3>9. UNCHANGED <<pc, line, query, matched, body>>
      BY <2>14 DEF BridgeReplies, kernel
    <3>. QED  BY <2>5, <3>8, <3>9 DEF TypeOK
  <2>15. CASE UserTypes
    <3>1. /\ UNCHANGED <<pc, line, query, matched, body>>
          /\ \E b \in {Typed, Enter} : to_kernel' = Append(to_kernel, b)
      BY <2>15 DEF UserTypes, kernel
    <3>2. to_kernel' \in Seq(Bytes)
      BY <2>1, <3>1, ByteFacts, AppendProperties
    <3>. QED  BY <2>5, <3>1, <3>2 DEF TypeOK
  <2>16. BridgeForwards \/ AtRest \/ UNCHANGED bridgeVars =>
            UNCHANGED <<pc, line, query, matched, body, to_kernel>>
    BY DEF BridgeForwards, AtRest, bridgeVars, kernel, link
  <2>. QED  BY <2>6, <2>7, <2>8, <2>9, <2>10, <2>11, <2>12, <2>13, <2>14, <2>15, <2>16 DEF BridgeNext
<1>3. BridgeSpec => []QueriesInv
  BY BridgeIsOrderly, PTL
<1>. QED  BY <1>1, <1>2, <1>3, PTL DEF BridgeSpec
=============================================================================
