----------------------------- MODULE KernelLogs -----------------------------
(***************************************************************************)
(* The two logs that overwrite their oldest entries: the kernel message    *)
(* log that dmesg reads (klog.rs) and the audit log with its hash chain    *)
(* (audit.rs).  Each sits behind one mutex, so a call is one step.         *)
(*                                                                         *)
(* fnv1a is taken to be injective on what it hashes: the hash of an entry  *)
(* is the tuple of the hashed fields.  tick and agent are hashed like the  *)
(* event and stand with it; cap_handle and result, which are not hashed,   *)
(* are the details of an entry.                                            *)
(***************************************************************************)
EXTENDS Naturals, Sequences

CONSTANTS
    LogSize,        \* LOG_SIZE
    AuditRingSize,  \* AUDIT_RING_SIZE
    Notes,          \* klog messages
    Events,         \* audit events
    Details,        \* what an audit entry says besides
    MaxLogged,      \* bound on the entries ever written (checking only)
    NoEntry

ASSUME KernelLogsAssumption ==
    {LogSize, AuditRingSize} \subseteq Nat \ {0} /\ MaxLogged \in Nat

VARIABLES
    klog_entries, klog_head, klog_total,
    logged,         \* history: every note ever logged, the oldest first
    audit_entries, audit_head, audit_total, last_hash

klogVars == <<klog_entries, klog_head, klog_total, logged>>
auditVars == <<audit_entries, audit_head, audit_total, last_hash>>

LesserOf(m, n) == IF m <= n THEN m ELSE n

-----------------------------------------------------------------------------
(* Klog. *)

KlogInit ==
    /\ klog_entries = [i \in 0 .. LogSize - 1 |-> NoEntry]
    /\ klog_head = 0 /\ klog_total = 0
    /\ logged = <<>>

Log(note) ==
    /\ klog_total < MaxLogged
    /\ klog_entries' = [klog_entries EXCEPT ![klog_head] = note]
    /\ klog_head' = (klog_head + 1) % LogSize
    /\ klog_total' = klog_total + 1
    /\ logged' = Append(logged, note)

\* Mutant: the ring is not taken into account once it has wrapped.
Recent_Unwrapped(n) ==
    LET shown == LesserOf(LesserOf(n, LogSize), klog_total)
        start == IF klog_total >= LogSize THEN LogSize - shown
                                          ELSE klog_total - shown
    IN [i \in 1 .. shown |-> klog_entries[(start + i - 1) % LogSize]]

\* recent(n), what dmesg prints.
Recent(n) ==
    LET shown == LesserOf(LesserOf(n, LogSize), klog_total)
        start == IF klog_total >= LogSize
                   THEN (klog_head + LogSize - shown) % LogSize
                   ELSE klog_total - shown
    IN [i \in 1 .. shown |-> klog_entries[(start + i - 1) % LogSize]]

KlogNext == \E note \in Notes : Log(note)

KlogSpec == KlogInit /\ [][KlogNext]_klogVars

\* dmesg shows the last notes, none of them missing or twice and the oldest of
\* them first, for every number asked and however often the ring has wrapped.
\* The comment on recent says of this order the opposite, "Get last N entries
\* (newest first)" (klog.rs:94), and the code does what is stated here.
DmesgShowsTheLatest ==
    \A n \in 0 .. LogSize + 1 :
        Recent(n) = LET shown == LesserOf(LesserOf(n, LogSize), Len(logged))
                    IN SubSeq(logged, Len(logged) - shown + 1, Len(logged))

-----------------------------------------------------------------------------
(* AuditLog. *)

Seed == <<>>

\* Mutant: the hash of an entry does not cover the hash before it.
Hash_Unchained(entry) == <<entry.event>>

\* fnv1a.
Hash(entry) == <<entry.event, entry.prev_hash>>

AuditInit ==
    /\ audit_entries = [i \in 0 .. AuditRingSize - 1 |-> NoEntry]
    /\ audit_head = 0 /\ audit_total = 0
    /\ last_hash = Seed

Record(event, details) ==
    /\ audit_total < MaxLogged
    /\ LET entry == [event |-> event, details |-> details, prev_hash |-> last_hash]
       IN /\ audit_entries' = [audit_entries EXCEPT ![audit_head] = entry]
          /\ last_hash' = Hash(entry)
    /\ audit_head' = (audit_head + 1) % AuditRingSize
    /\ audit_total' = audit_total + 1

AuditNext == \E event \in Events, details \in Details : Record(event, details)

AuditSpec == AuditInit /\ [][AuditNext]_auditVars

\* The entries still in the ring, the oldest first.
Retained ==
    LET kept == LesserOf(audit_total, AuditRingSize) IN
    [i \in 1 .. kept |->
        audit_entries[(audit_head + AuditRingSize - kept + i - 1) % AuditRingSize]]

Verifies(log) ==
    /\ \A i \in 1 .. Len(log) - 1 : log[i + 1].prev_hash = Hash(log[i])
    /\ log # <<>> => last_hash = Hash(log[Len(log)])

\* The log with one of its entries overwritten by any other.
Overwritten(log) ==
    LET hashes == {Seed, last_hash} \cup {Hash(log[i]) : i \in 1 .. Len(log)} IN
    {[log EXCEPT ![i] = entry] : i \in 1 .. Len(log),
         entry \in [event : Events, details : Details, prev_hash : hashes]}

\* Those that differ in a field that is hashed.
Altered(log) ==
    {other \in Overwritten(log) : \E i \in 1 .. Len(log) :
        other[i].event # log[i].event \/ other[i].prev_hash # log[i].prev_hash}

\* The ring as the kernel left it verifies from its oldest entry to last_hash,
\* and with any one entry changed in a field that is hashed it does not,
\* wrapped or not.  Of cap_handle and result, the details, this says nothing:
\* audit.rs:4, "Hash chain makes tampering detectable", does not hold of them.
TamperingShows ==
    /\ Verifies(Retained)
    /\ \A log \in Altered(Retained) : ~Verifies(log)
=============================================================================
