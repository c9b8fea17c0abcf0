------------------------------ MODULE Console -------------------------------
(***************************************************************************)
(* The console: the keyboard interrupt handler and its key buffer          *)
(* (keyboard.rs), the timer interrupt (interrupts.rs), the serial input    *)
(* that is only polled (serial.rs), and the guardian's interactive loop    *)
(* (guardian.rs) with the chat window's input line (chat_ui.rs).           *)
(*                                                                         *)
(* There is one processor.  The loop runs with interrupts enabled and may  *)
(* be interrupted between any two of its steps; a handler runs to its end  *)
(* before the loop goes on, so it is one step, unless it finds the         *)
(* spinlock of the key buffer taken: then it spins, the loop that holds    *)
(* the lock cannot run, and the machine hangs.                             *)
(*                                                                         *)
(* A character is a number: the how-manieth it is that was typed.          *)
(***************************************************************************)
EXTENDS Naturals, Sequences, SequencesExt

CONSTANTS
    KeyBufSize,  \* KEY_BUF_SIZE
    LineMax,     \* 255, the length of line_buf that is used
    InputMax,    \* 199, that of the chat's input_buf
    HasChat,     \* whether there is a framebuffer, and so a chat window
    MaxTyped,    \* bound on characters typed (checking only)
    MaxEnters,   \* bound on the other keys (checking only)
    None

ASSUME ConsoleAssumption ==
    /\ KeyBufSize \in Nat \ {0, 1}
    /\ {LineMax, InputMax, MaxTyped, MaxEnters} \subseteq Nat
    /\ HasChat \in BOOLEAN

VARIABLES
    buf, head, tail,  \* KEY_BUFFER
    locked,           \* its spinlock, held by the loop
    hung,             \* a handler spins on that lock
    serial,           \* bytes that wait in the serial port
    pc, key,          \* where the loop is, and the key it has read
    line,             \* line_buf[..line_pos]
    input,            \* the chat's input_buf[..input_len]
    ran,              \* history: <<which buffer, line>>, each command that ran
    typed, enters     \* how many characters and other keys were typed

ring == <<buf, head, tail>>
loop == <<locked, pc, key>>
lines == <<line, input, ran>>
typing == <<typed, enters>>
vars == <<ring, hung, serial, loop, lines, typing>>

\* The two keys that are not characters, as two more numbers.
Enter == MaxTyped + 1
Backspace == MaxTyped + 2
Characters == 1 .. MaxTyped
Keys == Characters \cup {Enter, Backspace}

Init ==
    /\ buf = [i \in 0 .. KeyBufSize - 1 |-> None] /\ head = 0 /\ tail = 0
    /\ locked = FALSE /\ hung = FALSE
    /\ serial = <<>>
    /\ pc = "poll" /\ key = None
    /\ line = <<>> /\ input = <<>> /\ ran = <<>>
    /\ typed = 0 /\ enters = 0

-----------------------------------------------------------------------------
(* Interrupts. *)

\* hlt goes on after any interrupt.
Woken == pc' = IF pc = "halted" THEN "poll" ELSE pc

\* Mutant: a full ring is not noticed.
Push_NoTest(k) ==
    buf' = [buf EXCEPT ![head] = k] /\ head' = (head + 1) % KeyBufSize

\* KeyBuffer::push: one slot stays empty; a key that does not fit is dropped.
Push(k) ==
    LET next == (head + 1) % KeyBufSize IN
    IF next # tail THEN buf' = [buf EXCEPT ![head] = k] /\ head' = next
                   ELSE UNCHANGED <<buf, head>>

TypeCharacter(k) == typed < MaxTyped /\ k = typed + 1 /\ typed' = k /\ UNCHANGED enters
TypeOther(k) ==
    /\ k \in {Enter, Backspace} /\ enters < MaxEnters
    /\ enters' = enters + 1 /\ UNCHANGED typed
Type(k) == TypeCharacter(k) \/ TypeOther(k)

\* keyboard_handler for a key with an ASCII code.
KeyboardIrq(k) ==
    /\ ~hung /\ ~locked
    /\ Type(k)
    /\ Push(k)
    /\ Woken
    /\ UNCHANGED <<tail, locked, hung, serial, key, lines>>

KeyboardIrqSpins(k) ==
    /\ ~hung /\ locked
    /\ Type(k)
    /\ hung' = TRUE
    /\ UNCHANGED <<ring, serial, loop, lines>>

\* Mutant: hlt goes on after a key only.
OtherIrq_StaysHalted == ~hung /\ pc = "halted" /\ UNCHANGED vars

\* keyboard_handler for a release, a shift key or a key without a code, and
\* timer_handler: to the loop they are only interrupts.
OtherIrq ==
    /\ ~hung /\ pc = "halted"
    /\ Woken
    /\ UNCHANGED <<ring, locked, hung, serial, key, lines, typing>>

\* A byte comes in on the line; the port raises no interrupt.
SerialArrives(k) ==
    /\ Type(k)
    /\ serial' = Append(serial, k)
    /\ UNCHANGED <<ring, hung, loop, lines>>

-----------------------------------------------------------------------------
(* interactive_loop. *)

\* read_key: lock, ...
LockKeys ==
    /\ ~hung /\ pc = "poll"
    /\ locked' = TRUE /\ pc' = "pop"
    /\ UNCHANGED <<ring, hung, serial, key, lines, typing>>

\* ... pop, unlock.
PopKey ==
    /\ ~hung /\ pc = "pop"
    /\ locked' = FALSE
    /\ IF head = tail
         THEN pc' = "serial" /\ key' = None /\ UNCHANGED tail
         ELSE /\ pc' = "chat" /\ key' = buf[tail]
              /\ tail' = (tail + 1) % KeyBufSize
    /\ UNCHANGED <<buf, head, hung, serial, lines, typing>>

\* A key goes into a line: a character if there is room, a backspace if there
\* is something to take back.
Edited(l, k, max) ==
    IF k \in Characters THEN IF Len(l) < max THEN Append(l, k) ELSE l
    ELSE IF k = Backspace /\ l # <<>> THEN Front(l)
    ELSE l

\* Mutant: the chat keeps its line after Enter.
ChatKey_KeepsLine ==
    /\ ~hung /\ pc = "chat"
    /\ IF ~HasChat THEN UNCHANGED <<input, ran>>
       ELSE IF key = Enter /\ input # <<>>
         THEN ran' = Append(ran, <<"chat", input>>) /\ UNCHANGED input
       ELSE input' = Edited(input, key, InputMax) /\ UNCHANGED ran
    /\ pc' = "echo"
    /\ UNCHANGED <<ring, hung, serial, locked, key, line, typing>>

\* key_input of the chat window and, on Enter, the command it returns.
ChatKey ==
    /\ ~hung /\ pc = "chat"
    /\ IF ~HasChat THEN UNCHANGED <<input, ran>>
       ELSE IF key = Enter /\ input # <<>>
         THEN ran' = Append(ran, <<"chat", input>>) /\ input' = <<>>
       ELSE input' = Edited(input, key, InputMax) /\ UNCHANGED ran
    /\ pc' = "echo"
    /\ UNCHANGED <<ring, hung, serial, locked, key, line, typing>>

\* What both sources of input do with the line that the loop keeps.
LineTakes(k) ==
    IF k = Enter /\ line # <<>>
      THEN ran' = Append(ran, <<"line", line>>) /\ line' = <<>>
      ELSE line' = Edited(line, k, LineMax) /\ UNCHANGED ran

\* The echo of a keyboard key; the line is run here once more.
EchoKey ==
    /\ ~hung /\ pc = "echo"
    /\ LineTakes(key)
    /\ pc' = "poll"
    /\ UNCHANGED <<ring, hung, serial, locked, key, input, typing>>

SerialByte ==
    /\ ~hung /\ pc = "serial" /\ serial # <<>>
    /\ serial' = Tail(serial)
    /\ LineTakes(Head(serial))
    /\ pc' = "poll"
    /\ UNCHANGED <<ring, hung, locked, key, input, typing>>

NothingToRead ==
    /\ ~hung /\ pc = "serial" /\ serial = <<>>
    /\ pc' = "halt"
    /\ UNCHANGED <<ring, hung, serial, locked, key, lines, typing>>

\* hlt.  A key whose interrupt came after the buffer was found empty waits
\* in the buffer from here to the next interrupt.
Halt ==
    /\ ~hung /\ pc = "halt"
    /\ pc' = "halted"
    /\ UNCHANGED <<ring, hung, serial, locked, key, lines, typing>>

Loop == LockKeys \/ PopKey \/ ChatKey \/ EchoKey \/ SerialByte \/ NothingToRead
          \/ Halt

\* The handler spins with interrupts disabled.
Spin == hung /\ UNCHANGED vars

Next ==
    \/ \E k \in Keys : KeyboardIrq(k) \/ KeyboardIrqSpins(k) \/ SerialArrives(k)
    \/ OtherIrq
    \/ Loop
    \/ Spin

\* The processor executes the loop, and the periodic timer keeps interrupting
\* it; nobody has to type anything.
Spec == Init /\ [][Next]_vars /\ WF_vars(Loop) /\ WF_vars(OtherIrq)

-----------------------------------------------------------------------------
\* The keys in the ring, the oldest first.
Pending ==
    [i \in 1 .. (head + KeyBufSize - tail) % KeyBufSize |->
        buf[(tail + i - 1) % KeyBufSize]]

TypeOK ==
    /\ {head, tail} \subseteq 0 .. KeyBufSize - 1
    /\ Range(Pending) \cup Range(serial) \subseteq Keys
    /\ pc \in {"poll", "pop", "chat", "echo", "serial", "halt", "halted"}
    /\ pc \in {"chat", "echo"} => key \in Keys
    /\ locked <=> pc = "pop"
    /\ Len(line) <= LineMax /\ Len(input) <= InputMax

\* Keys leave the ring in the order in which they entered it, each once, the
\* one that leaves is the one the loop gets, and a key that is typed enters
\* unless all slots but one are taken.
KeyBufferIsAQueue ==
    [][ LET sent == \E k \in Keys : Pending' = Append(Pending, k)
            full == Len(Pending) = KeyBufSize - 1
            byKeyboard == typing' # typing /\ serial' = serial /\ ~hung' IN
        /\ Pending' = Pending \/ sent \/ Pending = <<key'>> \o Pending'
        /\ byKeyboard => IF full THEN Pending' = Pending ELSE sent
        /\ pc = "pop" /\ pc' = "chat" => Pending = <<key'>> \o Pending' ]_vars

\* No character runs twice from the same line, however the two sources of
\* input, Enter and backspace mix.  (From the two lines it does run twice.)
NothingRunsTwiceFromALine ==
    \A i, j \in DOMAIN ran : i < j /\ ran[i][1] = ran[j][1] =>
        Range(ran[i][2]) \cap Range(ran[j][2]) = {}

\* What is typed is read in the end, also if it arrives between the loop's
\* last look and its hlt, unless the machine has hung.
InputIsEventuallyRead ==
    /\ Pending # <<>> ~> Pending = <<>> \/ hung
    /\ serial # <<>> ~> serial = <<>> \/ hung

-----------------------------------------------------------------------------
\* keyboard.rs: "Read a key from the buffer (non-blocking)".
ReadKeyIsNonBlocking == ~hung
=============================================================================
