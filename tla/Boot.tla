-------------------------------- MODULE Boot --------------------------------
(***************************************************************************)
(* The boot of the kernel (main.rs, kmain) up to the guardian, with the    *)
(* detection of the hardware (hwdetect.rs) and the set-up of the interrupt *)
(* controllers (interrupts.rs): what is set up when, and what can come in  *)
(* between once interrupts are enabled, which is before there is a heap.   *)
(*                                                                         *)
(* The CPU is any that there may be: its features, and which leaves of     *)
(* CPUID it has; a leaf it does not have reads as anything.                *)
(***************************************************************************)
EXTENDS Naturals

VARIABLES
    cpu,         \* [vendor, features, leaves, maps_apic]: external, fixed
    hw,          \* HwCaps: the features that detect reports
    boot_pc,     \* the next step of kmain
    ready,       \* what has been set up
    apic,        \* the mode the local APIC is in: "off", "XApic" or "X2Apic"
    apic_mode,   \* APIC_MODE
    if_flag,     \* interrupts are enabled
    in_service,  \* controllers that wait for an end of interrupt
    trap         \* what stopped the boot: "none", or the step that faulted

bootVars == <<cpu, hw, boot_pc, ready, apic, apic_mode, if_flag, in_service, trap>>

-----------------------------------------------------------------------------
(* hwdetect.rs *)

\* Where CPUID shows a feature; leaf 1 is in every CPU that gets here.
LeafOf == [apic |-> "1", x2apic |-> "1", fsgsbase |-> "7", tme |-> "7",
           gigabyte_pages |-> "ext1", sev |-> "ext1F"]
Features == DOMAIN LeafOf

\* Whose feature it is, if one vendor's only.
VendorOf == [tme |-> "Intel", sev |-> "Amd"]

\* CPUs: the extended leaves come in order.
Cpus ==
    [vendor : {"Intel", "Amd", "Unknown"}, features : SUBSET Features,
     leaves : {{"1"}, {"1", "ext1"}, {"1", "7", "ext1"}, {"1", "7", "ext1", "ext1F"}},
     maps_apic : BOOLEAN]

\* The bits that the CPU returns when f's leaf is read: the truth if it has
\* the leaf, otherwise what the last leaf it has happens to hold.
Reads(f) == IF LeafOf[f] \in cpu.leaves THEN f \in cpu.features ELSE TRUE

\* detect: a leaf past the highest is not read, and the leaves of one vendor
\* only for its CPUs.
Detected ==
    {f \in Features : LeafOf[f] \in cpu.leaves /\ Reads(f)
        /\ (f \in DOMAIN VendorOf => cpu.vendor = VendorOf[f])}

-----------------------------------------------------------------------------
BootInit ==
    /\ cpu \in {c \in Cpus : \A f \in c.features : LeafOf[f] \in c.leaves
                   /\ (f \in DOMAIN VendorOf => c.vendor = VendorOf[f])}
    /\ hw = {} /\ boot_pc = "detect" /\ ready = {"serial"}
    /\ apic = IF "apic" \in cpu.features THEN "XApic" ELSE "off"
    /\ apic_mode = "X2Apic"
    /\ if_flag = FALSE /\ in_service = {} /\ trap = "none"

\* Step from goes on to to, and has set up things.
Sets(from, to, things) ==
    /\ trap = "none" /\ boot_pc = from
    /\ boot_pc' = to /\ ready' = ready \cup things

\* An exception: its handler reports it and halts, if there is a handler.
Traps(step) ==
    /\ trap' = IF "idt" \in ready THEN step ELSE "reset"
    /\ UNCHANGED <<cpu, hw, boot_pc, ready, apic, apic_mode, if_flag, in_service>>

Detect ==
    /\ Sets("detect", "gdt", {}) /\ hw' = Detected
    /\ UNCHANGED <<cpu, apic, apic_mode, if_flag, in_service, trap>>

InitGdt == Sets("gdt", "idt", {"gdt"})
InitIdt == Sets("idt", "apic", {"idt"})

\* interrupts::init begins with the PIC: remapped, only IRQ 1 let through.
InitPic == "apic" \in hw /\ Sets("apic", "x2apic", {"pic"})
NoApic == "apic" \notin hw /\ Sets("apic", "heap", {})

\* enable_x2apic, on any CPU with an APIC, whatever was detected.  Setting the
\* bit on a CPU without x2APIC faults, or is ignored and reads back clear.
EnableX2apic ==
    /\ Sets("x2apic", "mode", {})
    /\ "x2apic" \in cpu.features /\ apic' = "X2Apic"
    /\ UNCHANGED <<cpu, hw, apic_mode, if_flag, in_service, trap>>

X2apicRefused ==
    /\ Sets("x2apic", "fallback", {})
    /\ "x2apic" \notin cpu.features
    /\ UNCHANGED <<cpu, hw, apic, apic_mode, if_flag, in_service, trap>>

X2apicFaults ==
    /\ trap = "none" /\ boot_pc = "x2apic" /\ "x2apic" \notin cpu.features
    /\ Traps("x2apic")

\* APIC_MODE, then the registers: spurious vector, priority, periodic timer.
SetX2apic ==
    /\ Sets("mode", "sti", {"timer"})
    /\ apic_mode' = "X2Apic"
    /\ UNCHANGED <<cpu, hw, apic, if_flag, in_service, trap>>

\* Mutant: the fallback programs the timer and forgets the mode.
SetXapic_NoMode ==
    /\ Sets("fallback", "sti", {"timer"})
    /\ cpu.maps_apic
    /\ UNCHANGED <<cpu, hw, apic, apic_mode, if_flag, in_service, trap>>

\* The registers in memory, at hhdm_offset + base: maps_apic says whether
\* the boot loader maps that page.
SetXapic ==
    /\ Sets("fallback", "sti", {"timer"})
    /\ cpu.maps_apic
    /\ apic_mode' = "XApic"
    /\ UNCHANGED <<cpu, hw, apic, if_flag, in_service, trap>>

XapicFaults ==
    /\ trap = "none" /\ boot_pc = "fallback" /\ ~cpu.maps_apic
    /\ Traps("mmio")

EnableInterrupts ==
    /\ Sets("sti", "heap", {}) /\ if_flag' = TRUE
    /\ UNCHANGED <<cpu, hw, apic, apic_mode, in_service, trap>>

\* The heap is there with or without a memory map; the frame allocator not.
InitHeap == Sets("heap", "pmm", {"heap"})
InitPageAlloc == Sets("pmm", "audit", {"pmm"}) \/ Sets("pmm", "audit", {})
LogBoot == Sets("audit", "env", {})

\* init_defaults puts strings on the heap; without one that is a panic.
InitEnv ==
    IF "heap" \in ready
      THEN /\ Sets("env", "display", {"env"})
           /\ UNCHANGED <<cpu, hw, apic, apic_mode, if_flag, in_service, trap>>
      ELSE trap = "none" /\ boot_pc = "env" /\ Traps("alloc")

\* With a framebuffer its address is kept for the chat.
InitDisplay ==
    Sets("display", "guardian", {"framebuffer"}) \/ Sets("display", "guardian", {})

Plain ==
    /\ InitGdt \/ InitIdt \/ InitPic \/ NoApic \/ InitHeap \/ InitPageAlloc
         \/ LogBoot \/ InitDisplay
    /\ UNCHANGED <<cpu, hw, apic, apic_mode, if_flag, in_service, trap>>

-----------------------------------------------------------------------------
(* Interrupts, between any two steps from EnableInterrupts on. *)

\* timer_handler: send_eoi writes where APIC_MODE says.  The MSR does not
\* exist outside of x2APIC mode, and in it the page in memory does nothing.
TimerIrq ==
    /\ if_flag /\ trap = "none" /\ "timer" \in ready /\ "apic" \notin in_service
    /\ IF "idt" \notin ready THEN Traps("vector")
       ELSE IF apic_mode = "X2Apic" /\ apic # "X2Apic" THEN Traps("eoi")
       ELSE /\ in_service' = IF apic_mode = apic THEN in_service
                                                 ELSE in_service \cup {"apic"}
            /\ UNCHANGED <<cpu, hw, boot_pc, ready, apic, apic_mode, if_flag, trap>>

\* keyboard_handler: its vector is 33 once the PIC is remapped; before, IRQ 1
\* is vector 9, an exception.
KeyIrq ==
    /\ if_flag /\ trap = "none"
    /\ IF {"idt", "pic"} \subseteq ready THEN UNCHANGED bootVars
                                         ELSE Traps("vector")

BootNext ==
    Detect \/ Plain \/ EnableX2apic \/ X2apicRefused \/ X2apicFaults \/ SetX2apic
      \/ SetXapic \/ XapicFaults \/ EnableInterrupts \/ InitEnv \/ TimerIrq
      \/ KeyIrq

BootSpec == BootInit /\ [][BootNext]_bootVars

-----------------------------------------------------------------------------
\* The order of the boot is sound.  What detection reports the CPU really has;
\* interrupts find their handlers, every end of interrupt reaches the APIC in
\* the mode it is in, and nothing is allocated before the heap is there: the
\* boot can only trap on a CPU without x2APIC, at the write that turns it on
\* or at the first register of the fallback.
BootOnlyTrapsWithoutX2apic ==
    /\ hw \subseteq cpu.features
    /\ in_service = {}
    /\ trap # "none" => trap \in {"x2apic", "mmio"} /\ "x2apic" \notin cpu.features
    /\ boot_pc = "guardian" => {"gdt", "idt", "heap", "env"} \subseteq ready
=============================================================================
