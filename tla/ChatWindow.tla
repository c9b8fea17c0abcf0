----------------------------- MODULE ChatWindow -----------------------------
(***************************************************************************)
(* The chat window (chat_ui.rs): the messages it keeps, and where render   *)
(* puts them in a framebuffer of any size.  Every change is drawn at once, *)
(* over everything, so the window is what the last render drew.            *)
(*                                                                         *)
(* Lengths are pixels, as u32, and the build checks overflow: a difference *)
(* below zero is a panic, which stops the kernel.                          *)
(***************************************************************************)
EXTENDS Naturals, Sequences

CONSTANTS
    WindowWidths, WindowHeights,  \* sizes of the framebuffer
    TextLengths,                  \* lengths of what is typed
    MaxMessages                   \* bound on messages (checking only)

ASSUME WindowAssumption ==
    /\ WindowWidths \cup WindowHeights \cup TextLengths \subseteq Nat
    /\ MaxMessages \in Nat

VARIABLES
    width, height,  \* of the framebuffer
    messages,       \* [sender, len]: never trimmed
    drawn,          \* the bubbles drawn last: [message, x, y, w, h]
    panicked

chatVars == <<width, height, messages, drawn, panicked>>

Lesser(a, b) == IF a < b THEN a ELSE b
Less(a, b) == IF a < b THEN 0 ELSE a - b  \* saturating_sub

\* Message::new: a message holds 200 bytes.
NewMessage(sender, length) == [sender |-> sender, len |-> Lesser(length, 200)]

-----------------------------------------------------------------------------
(* The layout. *)

CW == 16
CH == 32
HeaderHeight == 70
InputHeight == 80
BubbleHeight == CH + 20
Gap == 16

\* A column of at most 700, centred.
ColW == Lesser(700, width - 40)
ColX == (width - ColW) \div 2

InputTop == Less(height, InputHeight)
MsgTop == HeaderHeight + 20
MsgBot == Less(InputTop, 12)

\* The differences that are not saturating: for ColW and for MaxMsgs.
Overflows == width < 40 \/ MsgBot < MsgTop

\* Mutant: the last message may be cut off.
MaxMsgs_RoundedUp ==
    (MsgBot - MsgTop + BubbleHeight + Gap - 1) \div (BubbleHeight + Gap)

MaxMsgs == (MsgBot - MsgTop) \div (BubbleHeight + Gap)

\* A bubble with its border; long text is wider than it and runs out of it.
Bubble(ms, i, y) ==
    LET bw == Lesser(ms[i].len * CW + 32, ColW) IN
    [message |-> i, y |-> y, w |-> bw + 2, h |-> BubbleHeight + 2,
     x |-> IF ms[i].sender = "System" THEN ColX ELSE ColX + ColW - bw - 2]

\* render's loop over the messages, up to the first that ends too low.
Bubbles(ms) ==
    LET start == Less(Len(ms), MaxMsgs)
        y(k) == MsgTop + (k - 1) * (BubbleHeight + Gap)
        fit == {k \in 1 .. Len(ms) - start : y(k) + BubbleHeight <= MsgBot}
    IN  [k \in fit |-> Bubble(ms, start + k, y(k))]

Render(ms) ==
    IF Overflows THEN panicked' = TRUE /\ UNCHANGED drawn
                 ELSE drawn' = Bubbles(ms) /\ UNCHANGED panicked

-----------------------------------------------------------------------------
(* The operations. *)

\* ChatUI::init, which draws nothing.
ChatInit ==
    /\ width \in WindowWidths /\ height \in WindowHeights
    /\ messages = <<>> /\ drawn = <<>> /\ panicked = FALSE

Pushed(message) ==
    /\ messages' = Append(messages, message)
    /\ Render(messages')
    /\ UNCHANGED <<width, height>>

\* guardian::start: three messages of 20, 49 and 52 bytes.
Welcomes == <<20, 49, 52>>

SystemMsg ==
    /\ ~panicked /\ Len(messages) < Len(Welcomes)
    /\ Pushed(NewMessage("System", Welcomes[Len(messages) + 1]))

\* A line from the keyboard or from the serial port.
UserMsg ==
    /\ ~panicked /\ Len(messages) \in Len(Welcomes) .. MaxMessages - 1
    /\ \E length \in TextLengths : Pushed(NewMessage("User", length))

ChatNext == SystemMsg \/ UserMsg

ChatSpec == ChatInit /\ [][ChatNext]_chatVars

-----------------------------------------------------------------------------
Below(b) == b.y + b.h

\* The window shows the end of the conversation: the bubbles are the last
\* messages in their order, the newest at the bottom, as many as fit with their
\* gaps; with their borders they do not touch each other, the header or the
\* input bar, and they stay within the window.  The kernel panics only in a
\* window too small for the header and the bar.
LatestMessagesAreShown ==
    /\ panicked => width < 40 \/ height < 182
    /\ messages # <<>> /\ ~panicked =>
         /\ \A k \in DOMAIN drawn :
              /\ drawn[k].message = Len(messages) - Len(drawn) + k
              /\ drawn[k].y > HeaderHeight /\ Below(drawn[k]) < InputTop
              /\ drawn[k].x + drawn[k].w <= width
              /\ k > 1 => Below(drawn[k - 1]) < drawn[k].y
         /\ \/ Len(drawn) = Len(messages)
            \/ MsgTop + (Len(drawn) + 1) * (BubbleHeight + Gap) > MsgBot
=============================================================================
