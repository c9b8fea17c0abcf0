------------------------------- MODULE Stores -------------------------------
(***************************************************************************)
(* The named stores that the shell and the WASM host functions share:      *)
(* VirtFS (virtfs.rs) and the environment (env.rs).  Both are vectors      *)
(* that are searched from the front, each behind one mutex.  Of a file's   *)
(* data the model keeps the length, of a name whether it is too long.      *)
(* The host functions act here as if their capability check had passed.    *)
(***************************************************************************)
EXTENDS Naturals, Sequences, SequencesExt, FiniteSets

CONSTANTS
    FileNames,    \* names of files
    MaxFiles,     \* MAX_FILES
    MaxFileSize,  \* MAX_FILE_SIZE
    HostBuffer,   \* the 1024 bytes that a host function moves at a time
    EnvKeys,      \* keys of variables
    LongKeys,     \* those longer than MAX_KEY
    MaxEntries,   \* MAX_ENTRIES
    MaxVal        \* MAX_VAL

ASSUME StoresAssumption ==
    /\ {MaxFiles, MaxFileSize, HostBuffer, MaxEntries, MaxVal} \subseteq Nat
    /\ LongKeys \subseteq EnvKeys

VARIABLES
    files, env_entries,
    fs_call, env_call,     \* the last call: a put of a value, a get, a delete
    fs_answer, env_answer  \* what it returned

fsVars == <<files, fs_call, fs_answer>>
envVars == <<env_entries, env_call, env_answer>>

Indices(seq) == 1 .. Len(seq)

\* Where find(|f| f.name == name) stops; 0 if it finds nothing.
Find(seq, name) ==
    LET hits == {i \in Indices(seq) : seq[i].name = name} IN
    IF hits = {} THEN 0 ELSE CHOOSE i \in hits : \A j \in hits : i <= j

-----------------------------------------------------------------------------
(* VirtFS. *)

FileSizes == 0 .. MaxFileSize + 1

FsInit == files = <<>> /\ fs_call = <<>> /\ fs_answer = <<"ok">>

FsAccepts == fs_answer' = <<"ok">>
FsRefuses == fs_answer' = <<"refused">> /\ UNCHANGED files

\* Mutant: a file that exists is added a second time.
FsWrite_AlwaysNew(name, size) ==
    /\ fs_call' = <<"put", name, size>>
    /\ IF size > MaxFileSize \/ Len(files) >= MaxFiles THEN FsRefuses
       ELSE files' = Append(files, [name |-> name, size |-> size]) /\ FsAccepts

\* write: overwrite the file if it exists, else create it.
FsWrite(name, size) ==
    LET at == Find(files, name) IN
    /\ fs_call' = <<"put", name, size>>
    /\ IF size > MaxFileSize THEN FsRefuses
       ELSE IF at # 0 THEN files' = [files EXCEPT ![at].size = size] /\ FsAccepts
       ELSE IF Len(files) >= MaxFiles THEN FsRefuses
       ELSE files' = Append(files, [name |-> name, size |-> size]) /\ FsAccepts

\* tc.fs_write: what does not fit into the host's buffer is cut off.
HostFsWrite(name, size) ==
    FsWrite(name, IF size <= HostBuffer THEN size ELSE HostBuffer)

\* read, all of it, as cat gets it.
FsRead(name) ==
    LET at == Find(files, name) IN
    /\ fs_call' = <<"get", name>>
    /\ IF at = 0 THEN FsRefuses
       ELSE fs_answer' = <<"got", files[at].size>> /\ UNCHANGED files

\* touch: an existing file keeps its data, as if that were written again.
FsTouch(name) ==
    LET at == Find(files, name) IN
    IF at = 0 THEN FsWrite(name, 0)
    ELSE fs_call' = <<"put", name, files[at].size>> /\ FsAccepts /\ UNCHANGED files

\* append; nothing in the kernel calls it.
FsAppend(name, size) ==
    LET at == Find(files, name) IN
    IF at = 0 THEN FsWrite(name, size)
    ELSE /\ fs_call' = <<"put", name, files[at].size + size>>
         /\ IF files[at].size + size > MaxFileSize THEN FsRefuses
            ELSE files' = [files EXCEPT ![at].size = @ + size] /\ FsAccepts

FsRemove(name) ==
    LET at == Find(files, name) IN
    /\ fs_call' = <<"delete", name>>
    /\ IF at = 0 THEN FsRefuses ELSE files' = RemoveAt(files, at) /\ FsAccepts

\* write, cat, touch and rm of the shell, fs_write of an agent, and append.
FsNext ==
    \E name \in FileNames :
        \/ \E size \in FileSizes :
              FsWrite(name, size) \/ HostFsWrite(name, size) \/ FsAppend(name, size)
        \/ FsRead(name)
        \/ FsTouch(name)
        \/ FsRemove(name)

FsSpec == FsInit /\ [][FsNext]_fsVars

AsMap(seq, value(_)) ==
    [name \in {seq[i].name : i \in Indices(seq)} |-> value(seq[Find(seq, name)])]

FsMap == INSTANCE BoundedMap WITH
    Keys <- FileNames, GoodKeys <- FileNames,
    Values <- 0 .. 2 * MaxFileSize + 1, GoodValues <- 0 .. MaxFileSize,
    Capacity <- MaxFiles, map <- AsMap(files, LAMBDA file : file.size),
    call <- fs_call, answer <- fs_answer

-----------------------------------------------------------------------------
(* The environment. *)

ValueSizes == 0 .. MaxVal + 1

EnvInit == env_entries = <<>> /\ env_call = <<>> /\ env_answer = <<"ok">>

EnvAccepts == env_answer' = <<"ok">>
EnvRefuses == env_answer' = <<"refused">> /\ UNCHANGED env_entries

\* Mutant: the limit is tested before the key is looked up.
EnvSet_LimitFirst(key, size) ==
    LET at == Find(env_entries, key) IN
    /\ env_call' = <<"put", key, size>>
    /\ IF key \in LongKeys \/ size > MaxVal \/ Len(env_entries) >= MaxEntries
         THEN EnvRefuses
       ELSE IF at # 0
         THEN env_entries' = [env_entries EXCEPT ![at].size = size] /\ EnvAccepts
       ELSE /\ env_entries' = Append(env_entries, [name |-> key, size |-> size])
            /\ EnvAccepts

EnvSet(key, size) ==
    LET at == Find(env_entries, key) IN
    /\ env_call' = <<"put", key, size>>
    /\ IF key \in LongKeys \/ size > MaxVal THEN EnvRefuses
       ELSE IF at # 0
         THEN env_entries' = [env_entries EXCEPT ![at].size = size] /\ EnvAccepts
       ELSE IF Len(env_entries) >= MaxEntries THEN EnvRefuses
       ELSE /\ env_entries' = Append(env_entries, [name |-> key, size |-> size])
            /\ EnvAccepts

\* get, of the shell's command and of tc.env_get.
EnvGet(key) ==
    LET at == Find(env_entries, key) IN
    /\ env_call' = <<"get", key>>
    /\ IF at = 0 THEN EnvRefuses
       ELSE env_answer' = <<"got", env_entries[at].size>> /\ UNCHANGED env_entries

\* retain(|e| e.key != key): the entries that are kept close up, in their order.
EntriesKept(seq, key) ==
    LET kept == {i \in Indices(seq) : seq[i].name # key}
        nth(n) == CHOOSE i \in kept : Cardinality({j \in kept : j <= i}) = n IN
    [n \in 1 .. Cardinality(kept) |-> seq[nth(n)]]

\* unset: retain every entry with another key.
EnvUnset(key) ==
    /\ env_call' = <<"delete", key>>
    /\ env_entries' = EntriesKept(env_entries, key)
    /\ env_answer' = IF Len(env_entries') < Len(env_entries) THEN <<"ok">>
                                                         ELSE <<"refused">>

\* set, get and unset of the shell.
EnvNext ==
    \E key \in EnvKeys :
        \/ \E size \in ValueSizes : EnvSet(key, size)
        \/ EnvGet(key)
        \/ EnvUnset(key)

EnvSpec == EnvInit /\ [][EnvNext]_envVars

EnvMap == INSTANCE BoundedMap WITH
    Keys <- EnvKeys, GoodKeys <- EnvKeys \ LongKeys,
    Values <- ValueSizes, GoodValues <- 0 .. MaxVal,
    Capacity <- MaxEntries, map <- AsMap(env_entries, LAMBDA entry : entry.size),
    call <- env_call, answer <- env_answer

\* VirtFS and the environment are maps from names to contents of bounded size:
\* no name twice, a full store still takes new contents for the names it has, a
\* refused call changes nothing, and keys that are too long never get in.
StoresAreMaps == FsMap!MapSpec /\ EnvMap!MapSpec
=============================================================================
