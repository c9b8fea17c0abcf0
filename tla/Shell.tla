------------------------------- MODULE Shell --------------------------------
(***************************************************************************)
(* How the shell gets from a line to a command (intent.rs, alias.rs): the  *)
(* history ring, "!!", and aliases, each of which calls execute again on   *)
(* the kernel's stack.  A line is a sequence of words, in which Blanks is  *)
(* a run of blanks as long as a history entry.  What the commands do       *)
(* beyond the history and the aliases is elsewhere.                        *)
(***************************************************************************)
EXTENDS Integers, Sequences, SequencesExt, FiniteSets

CONSTANTS
    HistorySize,  \* HISTORY_SIZE
    EntryWords,   \* words of a line that fit into a history entry
    MaxAliases,   \* MAX_ALIASES
    Names,        \* words that may be aliases, commands among them
    Targets,      \* lines that aliases expand to
    StackDepth,   \* nested calls of execute that the kernel's stack holds
    MaxLines      \* bound on lines typed (checking only)

ASSUME ShellAssumption ==
    /\ {HistorySize, EntryWords, StackDepth} \subseteq Nat \ {0}
    /\ {MaxAliases, MaxLines} \subseteq Nat
    /\ Names \subseteq STRING \ {"blanks"} /\ Targets \subseteq Seq(STRING)

VARIABLES
    history_entries, history_head, history_count,  \* HISTORY
    aliases,               \* ALIASES, by name
    status,                \* "prompt", "executing", or how the kernel died
    current, depth,        \* the line of the innermost execute, and its depth
    recorded,              \* history: every line ever pushed, the oldest first
    typed_lines            \* lines typed so far

historyRing == <<history_entries, history_head, history_count, recorded>>
call == <<status, current, depth>>
shellVars == <<historyRing, aliases, call, typed_lines>>

Bang == <<"!!">>
Blanks == "blanks"
HistoryWords == {"history", "h"}

\* What is typed: a word, a word with an argument, far from it or not, and the
\* commands that the model is about.
Typable ==
    {<<w>> : w \in Names \cup HistoryWords \cup {"!!"}}
    \cup {<<w, "arg">> : w \in Names}
    \cup {<<w, Blanks, "arg">> : w \in Names \cup {"!!"}}
    \cup {<<"unalias", n>> : n \in Names}
    \cup UNION {{<<"alias", n>> \o target : target \in Targets} : n \in Names}

ShellInit ==
    /\ history_entries = [i \in 0 .. HistorySize - 1 |-> <<>>]
    /\ history_head = 0 /\ history_count = 0
    /\ aliases = [n \in {} |-> <<>>]
    /\ status = "prompt" /\ current = <<>> /\ depth = 0
    /\ recorded = <<>> /\ typed_lines = 0

\* str::trim: the line from its first word to its last.
Filled(line) == {i \in DOMAIN line : line[i] # Blanks}
Trim(line) ==
    IF Filled(line) = {} THEN <<>>
    ELSE SubSeq(line, Min(Filled(line)), Max(Filled(line)))

-----------------------------------------------------------------------------
(* History. *)

LesserOf(m, n) == IF m <= n THEN m ELSE n

\* The bytes that fit, wherever in the line they end.
HistoryPush(line) ==
    LET entry == SubSeq(line, 1, LesserOf(Len(line), EntryWords)) IN
    /\ history_entries' = [history_entries EXCEPT ![history_head] = entry]
    /\ history_head' = (history_head + 1) % HistorySize
    /\ history_count' = LesserOf(history_count + 1, HistorySize)
    /\ recorded' = Append(recorded, entry)

\* Mutant: no wrap below the first slot.
LastEntry_NoWrap ==
    history_entries[IF history_head = 0 THEN 0 ELSE history_head - 1]

LastEntry ==
    history_entries[IF history_head = 0 THEN HistorySize - 1 ELSE history_head - 1]

\* iter_recent(n).  The subtraction head - show is made before i is added, in
\* unsigned numbers: where it is negative the kernel panics.
Shown(n) == LesserOf(n, history_count)
SlotOf(n, i) ==
    IF history_head >= Shown(n) - i THEN history_head - Shown(n) + i
                            ELSE HistorySize - (Shown(n) - i - history_head)
Underflows(n) ==
    \E i \in 0 .. Shown(n) - 1 : history_head >= Shown(n) - i /\ history_head < Shown(n)
IterRecent(n) == [i \in 1 .. Shown(n) |-> history_entries[SlotOf(n, i - 1)]]

-----------------------------------------------------------------------------
(* execute. *)

TypeLine ==
    /\ status = "prompt" /\ typed_lines < MaxLines
    /\ \E line \in Typable : current' = Trim(line)
    /\ status' = "executing" /\ depth' = 1 /\ typed_lines' = typed_lines + 1
    /\ UNCHANGED <<historyRing, aliases>>

Executing == status = "executing" /\ depth <= StackDepth

\* Every call of execute takes another frame of the stack, which ends.
StackOverflow ==
    /\ status = "executing" /\ depth > StackDepth
    /\ status' = "stack overflow"
    /\ UNCHANGED <<historyRing, aliases, current, depth, typed_lines>>

Finished == status' = "prompt" /\ current' = <<>> /\ depth' = 0

\* A call of execute with this line, which trims it.
Again(line) ==
    IF Trim(line) = <<>>
      THEN Finished
      ELSE current' = Trim(line) /\ depth' = depth + 1 /\ UNCHANGED status

\* "!!": what the history kept of the last line, again.
Repeat ==
    /\ Executing /\ current = Bang
    /\ IF history_count = 0 THEN Finished ELSE Again(LastEntry)
    /\ UNCHANGED <<historyRing, aliases, typed_lines>>

\* Every other line but "history" is recorded before it is looked at, also one
\* that "!!" only begins.
Record ==
    IF Head(current) # "history" THEN HistoryPush(current)
                                 ELSE UNCHANGED historyRing

\* Mutant: a line with arguments is executed again as it is.
Expansion_Restarts(line) ==
    IF Len(line) > 1 THEN line ELSE aliases[Head(line)]

\* An alias: the expansion, followed by the arguments.
Args(line) == Trim(Tail(line))
Expansion(line) == aliases[Head(line)] \o Args(line)

Expand ==
    /\ Executing /\ current # Bang /\ Head(current) \in DOMAIN aliases
    /\ Record
    /\ Again(Expansion(current))
    /\ UNCHANGED <<aliases, typed_lines>>

IsCommand == Executing /\ current # Bang /\ Head(current) \notin DOMAIN aliases

\* AliasTable::define: the table's limit is for new names only.
Defined(name, expansion) ==
    IF expansion # <<>> /\ (name \in DOMAIN aliases
                              \/ Cardinality(DOMAIN aliases) < MaxAliases)
      THEN [n \in DOMAIN aliases \cup {name} |->
              IF n = name THEN expansion ELSE aliases[n]]
      ELSE aliases

\* AliasTable::remove.
Removed(name) == [n \in DOMAIN aliases \ {name} |-> aliases[n]]

DefineAlias ==
    /\ IsCommand /\ Head(current) = "alias"
    /\ Record
    /\ aliases' = IF Args(current) = <<>> THEN aliases
                  ELSE Defined(Head(Args(current)), Tail(Args(current)))
    /\ Finished /\ UNCHANGED typed_lines

RemoveAlias ==
    /\ IsCommand /\ Head(current) = "unalias"
    /\ Record
    /\ aliases' = IF Len(Args(current)) = 1 THEN Removed(Args(current)[1]) ELSE aliases
    /\ Finished /\ UNCHANGED typed_lines

\* history [n].
ListHistory ==
    /\ IsCommand /\ Head(current) \in HistoryWords
    /\ Record
    /\ \E n \in 0 .. HistorySize + 1 :
         IF Underflows(n)' THEN status' = "panic" /\ UNCHANGED <<current, depth>>
                           ELSE Finished
    /\ UNCHANGED <<aliases, typed_lines>>

OtherCommand ==
    /\ IsCommand /\ Head(current) \notin {"alias", "unalias"} \cup HistoryWords
    /\ Record
    /\ Finished /\ UNCHANGED <<aliases, typed_lines>>

\* At the prompt with nothing more to type, or dead: the panic handler halts.
Rest == status # "executing" /\ UNCHANGED shellVars

ShellNext == TypeLine \/ StackOverflow \/ Repeat \/ Expand \/ DefineAlias \/ RemoveAlias
          \/ ListHistory \/ OtherCommand \/ Rest

ShellSpec == ShellInit /\ [][ShellNext]_shellVars

-----------------------------------------------------------------------------
Latest(n) == SubSeq(recorded, Len(recorded) - n + 1, Len(recorded))

\* The ring knows the last lines: "!!" gets the latest, and history, unless
\* it panics, the latest n in their order, however often the ring wrapped.
HistoryIsTheLatest ==
    /\ history_count = LesserOf(Len(recorded), HistorySize)
    /\ history_count > 0 => LastEntry = Last(recorded)
    /\ \A n \in 0 .. HistorySize + 1 :
          ~Underflows(n) => IterRecent(n) = Latest(Shown(n))

\* Aliases that lead to each other in a circle, or to "!!".
Circle ==
    \E S \in (SUBSET DOMAIN aliases) \ {{}} :
        \A n \in S : Head(Trim(aliases[n])) \in S \/ Trim(aliases[n]) = Bang

\* The line that "!!" repeats is cut so that it is "!!" again.
BangRepeatsItself == history_count # 0 /\ Trim(LastEntry) = Bang

\* The stack overflows only if some aliases run in a circle, or if "!!" repeats
\* itself: chains of aliases, also when they are repeated, always end.
RunawayNeedsALoop == status = "stack overflow" => Circle \/ BangRepeatsItself

-----------------------------------------------------------------------------
\* alias.rs: "Users define custom commands that expand to existing commands."  So
\* no alias, which "!!" alone is not, takes the stack.
AliasesNeverRunAway == status = "stack overflow" => BangRepeatsItself

\* intent.rs: "Record in history (skip !! and history itself)".  No line in the
\* history is run as "!!".
BangIsNeverRecorded == \A k \in DOMAIN recorded : Trim(recorded[k]) # Bang

\* README.md: "Command History: Ring buffer with `!!` repeat".
HistoryNeverPanics == status # "panic"
=============================================================================
