------------------------------ MODULE Suggest -------------------------------
(***************************************************************************)
(* What the shell makes of a line that is no command (intent.rs): the      *)
(* first topic whose keywords occur in it, else the command whose name is  *)
(* nearest to its first word, else a question to the language model.  The  *)
(* distance is computed row by row in two arrays.                          *)
(*                                                                         *)
(* A word is a sequence of letters; of a line the model keeps its first    *)
(* word and which topics its keywords belong to.                           *)
(***************************************************************************)
EXTENDS Naturals, Sequences, SequencesExt, FiniteSetsExt

CONSTANTS
    Letters,
    Words,     \* first words of the lines that are tried
    Topics,    \* the topics, in the order in which their keywords are tried
    Commands,  \* COMMANDS: the names, in order
    RowSize    \* the 32 cells of a row

ASSUME SuggestAssumption ==
    /\ Words \subseteq Seq(Letters) \ {<<>>}
    /\ Commands \in Seq(Seq(Letters)) \ {<<>>} /\ RowSize \in Nat
    /\ \A i \in DOMAIN Commands : Len(Commands[i]) \in 1 .. RowSize - 2

VARIABLES
    word, topics,     \* the line
    at,               \* suggest_command: the name it has got to
    row, prev,        \* edit_distance: rows done, and the last of them
    best, best_dist,  \* the nearest name so far, 0 for none, and how near it is
    outcome           \* what the line led to

suggestVars == <<word, topics, at, row, prev, best, best_dist, outcome>>

Name == Commands[at]

\* Row 0 of the table for a name.
FirstRow(name) == [j \in 0 .. Len(name) |-> j]

SuggestInit ==
    /\ word = <<>> /\ topics = {}
    /\ at = 1 /\ row = 0 /\ prev = FirstRow(Commands[1])
    /\ best = 0 /\ best_dist = 0
    /\ outcome = <<"prompt">>

\* fuzzy_intent: the topics are tried one after the other, before anything is
\* suggested.
FuzzyIntent(w, T) ==
    /\ outcome # <<"searching">>
    /\ word' = w /\ topics' = T
    /\ outcome' = IF T = {} THEN <<"searching">>
                  ELSE <<"topic", SelectInSeq(Topics, LAMBDA t : t \in T)>>
    /\ at' = 1 /\ row' = 0 /\ prev' = FirstRow(Commands[1])
    /\ best' = 0 /\ best_dist' = 0

LeastOf(i, j, k) ==
    IF i <= j /\ i <= k THEN i ELSE IF j <= k THEN j ELSE k

\* Mutant: one array instead of two, where the diagonal is overwritten.
NextRow_InPlace(i) ==
    LET curr[j \in 0 .. Len(Name)] ==
          IF j = 0 THEN i
          ELSE LeastOf(prev[j] + 1, curr[j - 1] + 1,
                       curr[j - 1] + IF word[i] = Name[j] THEN 0 ELSE 1)
    IN curr

\* Row i of the table, from the row before.
NextRow(i) ==
    LET curr[j \in 0 .. Len(Name)] ==
          IF j = 0 THEN i
          ELSE LeastOf(prev[j] + 1, curr[j - 1] + 1,
                       prev[j - 1] + IF word[i] = Name[j] THEN 0 ELSE 1)
    IN curr

Searching == outcome = <<"searching">> /\ at <= Len(Commands)

FillRow ==
    /\ Searching /\ row < Len(word)
    /\ row' = row + 1 /\ prev' = NextRow(row + 1)
    /\ UNCHANGED <<word, topics, at, best, best_dist, outcome>>

\* The last cell of the last row is the distance; of two names that are
\* equally near the first is kept.
CompareName ==
    /\ Searching /\ row = Len(word)
    /\ LET d == prev[Len(Name)] IN
         IF best = 0 \/ d < best_dist THEN best' = at /\ best_dist' = d
                                      ELSE UNCHANGED <<best, best_dist>>
    /\ at' = at + 1 /\ row' = 0
    /\ prev' = IF at < Len(Commands) THEN FirstRow(Commands[at + 1]) ELSE prev
    /\ UNCHANGED <<word, topics, outcome>>

\* A name that is one or two edits away is suggested; all else is asked.
Answer ==
    /\ outcome = <<"searching">> /\ at > Len(Commands)
    /\ outcome' = IF best_dist \in 1 .. 2 THEN <<"suggest", best>> ELSE <<"ask">>
    /\ UNCHANGED <<word, topics, at, row, prev, best, best_dist>>

SuggestNext ==
    \/ \E w \in Words, T \in SUBSET Range(Topics) : FuzzyIntent(w, T)
    \/ FillRow
    \/ CompareName
    \/ Answer

-----------------------------------------------------------------------------
\* One letter left out, put in, or changed.
Edits(w) ==
    {RemoveAt(w, i) : i \in DOMAIN w}
      \cup {InsertAt(w, i, c) : i \in 1 .. Len(w) + 1, c \in Letters}
      \cup {ReplaceAt(w, i, c) : i \in DOMAIN w, c \in Letters}

\* The words within k edits of w, and the names among them.
OneMore(S) == S \cup UNION {Edits(v) : v \in S}
Within(w, k) ==
    CASE k = 0 -> {w} [] k = 1 -> OneMore({w}) [] k = 2 -> OneMore(OneMore({w}))
Near(w, k) ==
    LET within == Within(w, k) IN {i \in DOMAIN Commands : Commands[i] \in within}

\* The suggestion is the first of the names that the fewest edits lead to, and
\* there is none for a word that is no name only if no two edits make it one.
\* (A word that is a name is asked: it was something else on the line that
\* made it no command.)
SuggestionIsTheNearest ==
    outcome[1] \in {"suggest", "ask"} =>
        LET nearest == CHOOSE k \in 0 .. 3 :
              /\ k < 3 => Near(word, k) # {}
              /\ \A n \in 0 .. k - 1 : Near(word, n) = {} IN
        outcome = IF nearest \in 1 .. 2 THEN <<"suggest", Min(Near(word, nearest))>>
                                        ELSE <<"ask">>
=============================================================================
