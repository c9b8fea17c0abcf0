----------------------------- MODULE LlmBridge ------------------------------
(***************************************************************************)
(* Asking the language model over the serial line: the kernel's query      *)
(* (llm.rs), which waits for a framed reply or gives up, the bridge        *)
(* process on the host (tools/llm_bridge.py), which forwards one query at  *)
(* a time and passes the user's keystrokes on, and the part of the         *)
(* guardian's loop (guardian.rs) that reads the same serial line at the    *)
(* prompt.  Nothing in a frame says which query it belongs to.             *)
(*                                                                         *)
(* Bytes to the kernel are modelled one by one, frames to the bridge as    *)
(* wholes: the kernel writes each under one hold of the SERIAL lock.  Of a *)
(* reply the model knows the kinds of its bytes: a character of one byte   *)
(* ("text"), the last byte of a longer one ("last") or one before it       *)
(* ("part"), and the bytes that frames begin and end with.                 *)
(***************************************************************************)
EXTENDS Naturals, Sequences, SequencesExt

CONSTANTS
    MaxResponse,  \* MAX_RESPONSE
    Texts,        \* replies that may come, by the kinds of their bytes
    LineMax,      \* 255, the length of line_buf that is used
    MaxQueries,   \* bound on queries (checking only)
    MaxTyped      \* bound on keystrokes (checking only)

ASSUME LlmAssumption ==
    /\ {MaxQueries, MaxTyped} \subseteq Nat
    /\ {MaxResponse, LineMax} \subseteq Nat \ {0}
    /\ Texts \subseteq Seq({"text", "part", "last", "STX", "ETX"})
    /\ \A text \in Texts : text = <<>> \/ text[Len(text)] # "part"

VARIABLES
    pc,         \* "prompt" or "wait"
    line,       \* line_buf[..line_pos]
    query,      \* how many queries have been sent; the last may be open
    matched,    \* how much of the header the query's state machine has seen
    body,       \* buf[..pos] of the query
    to_bridge,  \* queries on their way to the bridge
    asking,     \* the query that the bridge has forwarded, 0 for none
    to_kernel,  \* bytes on their way to the kernel
    typed,      \* keystrokes so far
    late,       \* history: the queries that were given up
    answers,    \* history: <<query, the query whose reply came, the text>>
    replies     \* history: by query, the reply that the bridge sent to it

kernel == <<pc, line, query, matched, body>>
link == <<to_bridge, asking, to_kernel, typed>>
history == <<late, answers, replies>>
bridgeVars == <<kernel, link, history>>

\* A byte: part of a frame, of a reply, or typed.
Frame(what) == [kind |-> what, reply |-> 0, at |-> 0]
Etx(q) == [kind |-> "ETX", reply |-> q, at |-> 0]
Typed == Frame("text")
Enter == Frame("enter")
Header == <<Frame("STX"), Frame("R"), Frame("S"), Frame("P"), Frame(":")>>

BridgeInit ==
    /\ pc = "prompt" /\ line = <<>> /\ query = 0 /\ matched = 0 /\ body = <<>>
    /\ to_bridge = <<>> /\ asking = 0 /\ to_kernel = <<>> /\ typed = 0
    /\ late = {} /\ answers = <<>> /\ replies = [q \in {} |-> <<>>]

-----------------------------------------------------------------------------
(* The kernel. *)

Arrived(b) == to_kernel # <<>> /\ b = Head(to_kernel) /\ to_kernel' = Tail(to_kernel)

\* A byte at the prompt: printable ASCII goes into the line, Enter on an empty
\* line does nothing, and all other bytes are ignored.
Printable == {"R", "S", "P", ":", "text"}

PromptByte(b) ==
    /\ pc = "prompt" /\ Arrived(b)
    /\ b # Enter \/ line = <<>>
    /\ line' = IF b.kind \in Printable /\ Len(line) < LineMax
                 THEN Append(line, b) ELSE line
    /\ UNCHANGED <<pc, query, matched, body, to_bridge, asking, typed, history>>

\* Enter on a line that is a command of its own.
RunLine ==
    /\ pc = "prompt" /\ line # <<>> /\ Arrived(Enter)
    /\ line' = <<>>
    /\ UNCHANGED <<pc, query, matched, body, to_bridge, asking, typed, history>>

\* Mutant: the buffer of the previous query is used again.
AskLine_KeepsBody ==
    /\ pc = "prompt" /\ line # <<>> /\ Arrived(Enter)
    /\ query < MaxQueries
    /\ query' = query + 1
    /\ to_bridge' = Append(to_bridge, query + 1)
    /\ pc' = "wait" /\ matched' = 0 /\ line' = <<>>
    /\ UNCHANGED <<body, asking, typed, history>>

\* Enter on "ask ..." or on a line that nothing else understands.
AskLine ==
    /\ pc = "prompt" /\ line # <<>> /\ Arrived(Enter)
    /\ query < MaxQueries
    /\ query' = query + 1
    /\ to_bridge' = Append(to_bridge, query + 1)
    /\ pc' = "wait" /\ matched' = 0 /\ body' = <<>> /\ line' = <<>>
    /\ UNCHANGED <<asking, typed, history>>

\* A byte of the header: anything unexpected starts the search again, after
\* that byte.  What is typed meanwhile is dropped here.
HeaderByte(b) ==
    /\ pc = "wait" /\ matched < Len(Header) /\ Arrived(b)
    /\ matched' = IF b.kind = Header[matched + 1].kind THEN matched + 1 ELSE 0
    /\ UNCHANGED <<pc, line, query, body, to_bridge, asking, typed, history>>

BodyByte(b) ==
    /\ pc = "wait" /\ matched = Len(Header) /\ Arrived(b) /\ b.kind # "ETX"
    /\ body' = IF Len(body) < MaxResponse THEN Append(body, b) ELSE body
    /\ UNCHANGED <<pc, line, query, matched, to_bridge, asking, typed, history>>

\* from_utf8: a text that ends inside a character is replaced by another.
InvalidText == <<Frame("invalid")>>
Decoded(text) ==
    IF text # <<>> /\ text[Len(text)].kind = "part" THEN InvalidText ELSE text

\* Mutant: a full buffer ends the answer.
Answered_WhenFull(b) ==
    /\ pc = "wait" /\ matched = Len(Header)
    /\ \/ Arrived(b) /\ b.kind = "ETX"
       \/ b = Head(to_kernel) /\ Len(body) = MaxResponse /\ UNCHANGED to_kernel
    /\ pc' = "prompt"
    /\ answers' = Append(answers, <<query, b.reply, Decoded(body)>>)
    /\ UNCHANGED <<line, query, matched, body, to_bridge, asking, typed, late,
                   replies>>

Answered(b) ==
    /\ pc = "wait" /\ matched = Len(Header) /\ Arrived(b) /\ b.kind = "ETX"
    /\ pc' = "prompt"
    /\ answers' = Append(answers, <<query, b.reply, Decoded(body)>>)
    /\ UNCHANGED <<line, query, matched, body, to_bridge, asking, typed, late,
                   replies>>

\* TIMEOUT_ITERS rounds of the loop are over, which says nothing of how far
\* the bridge or the reply have got.
TimedOut ==
    /\ pc = "wait"
    /\ pc' = "prompt"
    /\ late' = late \cup {query}
    /\ UNCHANGED <<line, query, matched, body, link, answers, replies>>

-----------------------------------------------------------------------------
(* The bridge and the user behind it. *)

\* Mutant: the newest query in the bridge's buffer goes first.
BridgeForwards_NewestFirst ==
    /\ asking = 0 /\ to_bridge # <<>>
    /\ asking' = Last(to_bridge) /\ to_bridge' = Front(to_bridge)
    /\ UNCHANGED <<kernel, to_kernel, typed, history>>

BridgeForwards ==
    /\ asking = 0 /\ to_bridge # <<>>
    /\ asking' = Head(to_bridge) /\ to_bridge' = Tail(to_bridge)
    /\ UNCHANGED <<kernel, to_kernel, typed, history>>

\* get_ai_response came back, with an answer, which may be empty, or with the
\* text of an error: the frame goes out in one sendall.
BridgeReplies ==
    /\ asking # 0
    /\ \E text \in Texts :
         LET reply == [i \in DOMAIN text |-> [kind |-> text[i], reply |-> asking, at |-> i]] IN
         /\ to_kernel' = to_kernel \o (Header \o reply \o <<Etx(asking)>>)
         /\ replies' = [q \in DOMAIN replies \cup {asking} |->
                          IF q = asking THEN reply ELSE replies[q]]
    /\ asking' = 0
    /\ UNCHANGED <<kernel, to_bridge, typed, late, answers>>

\* The bridge passes keystrokes on when it is not in a request.
UserTypes ==
    /\ asking = 0 /\ typed < MaxTyped
    /\ \E b \in {Typed, Enter} : to_kernel' = Append(to_kernel, b)
    /\ typed' = typed + 1
    /\ UNCHANGED <<kernel, to_bridge, asking, history>>

AtRest == pc = "prompt" /\ to_kernel = <<>> /\ UNCHANGED bridgeVars

BridgeNext ==
    \/ \E b \in Range(to_kernel) : PromptByte(b) \/ HeaderByte(b) \/ BodyByte(b) \/ Answered(b)
    \/ RunLine \/ AskLine \/ TimedOut
    \/ BridgeForwards \/ BridgeReplies \/ UserTypes
    \/ AtRest

BridgeSpec == BridgeInit /\ [][BridgeNext]_bridgeVars

-----------------------------------------------------------------------------
TypeOK ==
    /\ pc \in {"prompt", "wait"}
    /\ matched \in 0 .. Len(Header)
    /\ Len(body) <= MaxResponse /\ Len(line) <= LineMax
    /\ query \in 0 .. MaxQueries /\ asking \in 0 .. query

\* The frames so far can be told from what is in them: no reply has a byte in
\* it that frames begin or end with.
Framed == \A q \in DOMAIN replies : \A i \in DOMAIN replies[q] :
            replies[q][i].kind \notin {"STX", "ETX"}

\* An answer is one reply from its first byte, whole, or cut at MAX_RESPONSE, or
\* "[invalid utf8]" if it is cut inside a character: never the end of a reply,
\* two run together, or something that was typed.
AnswersAreWhole ==
    Framed => \A i \in DOMAIN answers :
                /\ answers[i][2] \in DOMAIN replies
                /\ LET reply == replies[answers[i][2]] IN
                   answers[i][3] = IF Len(reply) <= MaxResponse THEN reply
                                   ELSE Decoded(SubSeq(reply, 1, MaxResponse))

\* No reply answers two queries, and replies are used in the order of the
\* queries they were made for.
AnswersInOrder ==
    Framed => \A i, j \in DOMAIN answers : i < j => answers[i][2] < answers[j][2]

\* The replies can only fall behind: as long as no query has been given up,
\* every answer is to its own query and no reply ends up in the command line.
\* (After one late reply, each query may get the answer to the one before.)
StrayRepliesAreLate ==
    LET onTime(r) == \A q \in late : q > r IN
    Framed =>
       /\ \A i \in DOMAIN answers : onTime(answers[i][2]) => answers[i][2] = answers[i][1]
       /\ \A i \in DOMAIN line : line[i].reply # 0 => ~onTime(line[i].reply)

-----------------------------------------------------------------------------
\* llm.rs: the host "forwards to Gemini/OpenAI, and returns the response."  So
\* what a query returns is a response, or at least the beginning of one.
AnswersAreResponses ==
    Framed => \A i \in DOMAIN answers :
                \E q \in DOMAIN replies : IsPrefix(answers[i][3], replies[q])
=============================================================================
