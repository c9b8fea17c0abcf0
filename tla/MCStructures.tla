---------------------------- MODULE MCStructures ----------------------------
(***************************************************************************)
(* The kernel's smaller parts, its passive data structures, the locks, the *)
(* boot, the keyboard, the window and the bridge, under small limits for   *)
(* TLC.  They share no state, and none calls another in its model, so a    *)
(* behaviour drives one of them, picked at the start, and leaves the       *)
(* others alone.                                                           *)
(***************************************************************************)
EXTENDS Channel, KernelLogs, Stores, FrameAlloc, Suggest, AgentTable,
        Locks, Boot, Keyboard, ChatWindow, MCLlmBridge

\* The words over Letters of up to four letters, and names of two, three and five.
MCWords == UNION {[1 .. n -> Letters] : n \in 1 .. 4}
MCCommands == << <<"x", "y">>, <<"y", "x", "y">>, <<"x", "x", "x", "x", "x">> >>
MCTopics == <<"mem", "cat">>

VARIABLE driven

structVars == <<channelVars, klogVars, auditVars, fsVars, envVars, frameVars,
                suggestVars, tableVars, lockVars, bootVars, keyboardVars, chatVars,
                bridgeVars, driven>>

\* Where a structure starts in one of many states, it does so when driven.
StructInit ==
    /\ driven \in {"channel", "klog", "audit", "virtfs", "env", "frames", "suggest",
                   "agents", "locks", "boot", "keyboard", "chat",
                   "bridge"}
    /\ BootInit /\ (driven = "boot" \/ cpu = [vendor |-> "Unknown", features |-> {},
                                             leaves |-> {"1"}, maps_apic |-> FALSE])
    /\ KeyboardInit /\ (driven = "keyboard" \/ ~numlock)
    /\ ChatInit /\ (driven = "chat" \/ (width = 800 /\ height = 480))
    /\ ChannelInit /\ KlogInit /\ AuditInit /\ FsInit /\ EnvInit /\ FrameInit
    /\ SuggestInit /\ TableInit /\ LockInit /\ BridgeInit

DriveChannel ==
    /\ driven = "channel" /\ ChannelNext
    /\ UNCHANGED <<klogVars, auditVars, fsVars, envVars, frameVars, suggestVars,
                   tableVars, lockVars, bootVars, keyboardVars, chatVars,
                   bridgeVars, driven>>

DriveKlog ==
    /\ driven = "klog" /\ KlogNext
    /\ UNCHANGED <<channelVars, auditVars, fsVars, envVars, frameVars, suggestVars,
                   tableVars, lockVars, bootVars, keyboardVars, chatVars,
                   bridgeVars, driven>>

DriveAudit ==
    /\ driven = "audit" /\ AuditNext
    /\ UNCHANGED <<channelVars, klogVars, fsVars, envVars, frameVars, suggestVars,
                   tableVars, lockVars, bootVars, keyboardVars, chatVars,
                   bridgeVars, driven>>

DriveFs ==
    /\ driven = "virtfs" /\ FsNext
    /\ UNCHANGED <<channelVars, klogVars, auditVars, envVars, frameVars, suggestVars,
                   tableVars, lockVars, bootVars, keyboardVars, chatVars,
                   bridgeVars, driven>>

DriveEnv ==
    /\ driven = "env" /\ EnvNext
    /\ UNCHANGED <<channelVars, klogVars, auditVars, fsVars, frameVars, suggestVars,
                   tableVars, lockVars, bootVars, keyboardVars, chatVars,
                   bridgeVars, driven>>

DriveFrames ==
    /\ driven = "frames" /\ FrameNext
    /\ UNCHANGED <<channelVars, klogVars, auditVars, fsVars, envVars, suggestVars,
                   tableVars, lockVars, bootVars, keyboardVars, chatVars,
                   bridgeVars, driven>>

DriveSuggest ==
    /\ driven = "suggest" /\ SuggestNext
    /\ UNCHANGED <<channelVars, klogVars, auditVars, fsVars, envVars, frameVars,
                   tableVars, lockVars, bootVars, keyboardVars, chatVars,
                   bridgeVars, driven>>

DriveAgents ==
    /\ driven = "agents" /\ TableNext
    /\ UNCHANGED <<channelVars, klogVars, auditVars, fsVars, envVars, frameVars,
                   suggestVars, lockVars, bootVars, keyboardVars, chatVars,
                   bridgeVars, driven>>

DriveLocks ==
    /\ driven = "locks" /\ LockNext
    /\ UNCHANGED <<channelVars, klogVars, auditVars, fsVars, envVars, frameVars,
                   suggestVars, tableVars, bootVars, keyboardVars, chatVars,
                   bridgeVars, driven>>

DriveBoot ==
    /\ driven = "boot" /\ BootNext
    /\ UNCHANGED <<channelVars, klogVars, auditVars, fsVars, envVars, frameVars,
                   suggestVars, tableVars, lockVars, keyboardVars, chatVars,
                   bridgeVars, driven>>

DriveKeyboard ==
    /\ driven = "keyboard" /\ KeyboardNext
    /\ UNCHANGED <<channelVars, klogVars, auditVars, fsVars, envVars, frameVars,
                   suggestVars, tableVars, lockVars, bootVars, chatVars,
                   bridgeVars, driven>>

DriveChat ==
    /\ driven = "chat" /\ ChatNext
    /\ UNCHANGED <<channelVars, klogVars, auditVars, fsVars, envVars, frameVars,
                   suggestVars, tableVars, lockVars, bootVars, keyboardVars,
                   bridgeVars, driven>>

DriveBridge ==
    /\ driven = "bridge" /\ BridgeNext
    /\ UNCHANGED <<channelVars, klogVars, auditVars, fsVars, envVars, frameVars,
                   suggestVars, tableVars, lockVars, bootVars, keyboardVars, chatVars,
                   driven>>

StructNext ==
    DriveChannel \/ DriveKlog \/ DriveAudit \/ DriveFs \/ DriveEnv \/ DriveFrames
      \/ DriveSuggest \/ DriveAgents \/ DriveLocks \/ DriveBoot \/ DriveKeyboard
      \/ DriveChat \/ DriveBridge

StructSpec == StructInit /\ [][StructNext]_structVars
=============================================================================
