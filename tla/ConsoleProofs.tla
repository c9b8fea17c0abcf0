--------------------------- MODULE ConsoleProofs ----------------------------
(***************************************************************************)
(* The order of keys in the ring, and that no line runs a character twice, *)
(* for a ring and lines of any length, however the interrupts come between *)
(* the steps of the loop.                                                  *)
(***************************************************************************)
EXTENDS Console, SequenceTheorems, TLAPS

-----------------------------------------------------------------------------
(* Positions in the ring. *)

Positions == 0 .. KeyBufSize - 1

\* What a slot may hold.
Contents == Keys \cup {None}

\* A remainder of a sum of two positions.
Wrap(a) == IF a < KeyBufSize THEN a ELSE a - KeyBufSize

\* The next position, round the ring.
After(p) == Wrap(p + 1)

\* How many keys lie from the tail t to the head h, and which.
CountOf(h, t) == IF h >= t THEN h - t ELSE h + KeyBufSize - t
PendingOf(b, h, t) == [i \in 1 .. CountOf(h, t) |-> b[Wrap(t + i - 1)]]

\* One subtraction is enough for a remainder.
LEMMA Remainder ==
    ASSUME NEW n \in Nat \ {0}, NEW a \in 0 .. 2 * n - 1
    PROVE  a % n = IF a < n THEN a ELSE a - n
<1>1. CASE a < n
  BY <1>1, SMT
<1>2. CASE a >= n
  BY <1>2, SMT
<1>. QED  BY <1>1, <1>2

\* The same for the ring.
LEMMA Wraps ==
    ASSUME NEW a \in 0 .. 2 * KeyBufSize - 1
    PROVE  a % KeyBufSize = Wrap(a)
<1>1. KeyBufSize \in Nat \ {0}
  BY ConsoleAssumption
<1>2. \A n \in Nat \ {0} : \A x \in 0 .. 2 * n - 1 :
         x % n = IF x < n THEN x ELSE x - n
  BY Remainder
<1>. QED  BY <1>1, <1>2 DEF Wrap

\* What is pending, by position.
LEMMA PendingIs ==
    ASSUME NEW h \in Positions, NEW t \in Positions, NEW b
    PROVE  /\ (h + 1) % KeyBufSize = Wrap(h + 1)
           /\ CountOf(h, t) \in Positions
           /\ [i \in 1 .. (h + KeyBufSize - t) % KeyBufSize |->
                 b[(t + i - 1) % KeyBufSize]] = PendingOf(b, h, t)
<1>1. /\ KeyBufSize \in Nat /\ KeyBufSize > 1
      /\ h \in Nat /\ h < KeyBufSize /\ t \in Nat /\ t < KeyBufSize
  BY ConsoleAssumption DEF Positions
<1>2. h + 1 \in 0 .. 2 * KeyBufSize - 1 /\ h + KeyBufSize - t \in 0 .. 2 * KeyBufSize - 1
  BY <1>1
<1>3. (h + KeyBufSize - t) % KeyBufSize = CountOf(h, t)
  <2>1. (h + KeyBufSize - t) % KeyBufSize = Wrap(h + KeyBufSize - t)
    BY <1>2, Wraps
  <2>2. Wrap(h + KeyBufSize - t) = CountOf(h, t)
    BY <1>1 DEF Wrap, CountOf
  <2>. QED  BY <2>1, <2>2
<1>4. CountOf(h, t) \in Positions
  BY <1>1 DEF CountOf, Positions
<1>5. ASSUME NEW i \in 1 .. CountOf(h, t)
      PROVE  (t + i - 1) % KeyBufSize = Wrap(t + i - 1)
  <2>1. t + i - 1 \in 0 .. 2 * KeyBufSize - 1
    BY <1>1, <1>4 DEF Positions
  <2>. QED  BY <2>1, Wraps
<1>. HIDE DEF CountOf, Wrap
<1>. QED  BY <1>2, <1>3, <1>4, <1>5, Wraps DEF PendingOf

\* It is a sequence.
LEMMA PendingSeq ==
    ASSUME NEW b \in [Positions -> Contents], NEW h \in Positions, NEW t \in Positions
    PROVE  /\ PendingOf(b, h, t) \in Seq(Contents)
           /\ Len(PendingOf(b, h, t)) = CountOf(h, t)
           /\ CountOf(h, t) \in Nat
<1>1. /\ KeyBufSize \in Nat /\ KeyBufSize > 1
      /\ h \in Nat /\ h < KeyBufSize /\ t \in Nat /\ t < KeyBufSize
  BY ConsoleAssumption DEF Positions
<1>2. CountOf(h, t) \in Nat /\ CountOf(h, t) < KeyBufSize
  BY <1>1 DEF CountOf
<1>3. ASSUME NEW i \in 1 .. CountOf(h, t) PROVE b[Wrap(t + i - 1)] \in Contents
  <2>1. Wrap(t + i - 1) \in Positions
    BY <1>1, <1>2 DEF Wrap, Positions
  <2>. QED  BY <2>1
<1>. DEFINE c == CountOf(h, t)
<1>4. PendingOf(b, h, t) \in [1 .. c -> Contents]
  BY <1>3 DEF PendingOf
<1>5. c \in Nat
  BY <1>2
<1>. HIDE DEF c
<1>6. PendingOf(b, h, t) \in Seq(Contents) /\ Len(PendingOf(b, h, t)) = c
  BY <1>4, <1>5
<1>. QED  BY <1>5, <1>6 DEF c

\* A push adds a key at the end unless all slots but one are taken.
LEMMA PushIs ==
    ASSUME NEW b \in [Positions -> Contents], NEW h \in Positions, NEW t \in Positions,
           NEW k \in Contents, NEW d \in [Positions -> Contents],
           d[h] = k, \A p \in Positions : p # h => d[p] = b[p]
    PROVE  /\ After(h) \in Positions
           /\ After(h) = t <=> CountOf(h, t) = KeyBufSize - 1
           /\ After(h) # t =>
                PendingOf(d, After(h), t) = Append(PendingOf(b, h, t), k)
<1>1. /\ KeyBufSize \in Nat /\ KeyBufSize > 1
      /\ h \in Nat /\ h < KeyBufSize /\ t \in Nat /\ t < KeyBufSize
  BY ConsoleAssumption DEF Positions
<1>2. /\ After(h) \in Positions
      /\ After(h) = t <=> CountOf(h, t) = KeyBufSize - 1
  BY <1>1 DEF After, Wrap, CountOf, Positions
<1>3. ASSUME After(h) # t
      PROVE  PendingOf(d, After(h), t) = Append(PendingOf(b, h, t), k)
  <2>. DEFINE c == CountOf(h, t)
              p == PendingOf(b, h, t)
              q == PendingOf(d, After(h), t)
  <2>1. CountOf(After(h), t) = c + 1
    BY <1>1, <1>3 DEF CountOf, After, Wrap
  <2>2. p \in Seq(Contents) /\ Len(p) = c /\ c \in Nat
    BY PendingSeq
  <2>4. q \in Seq(Contents) /\ Len(q) = c + 1
    <3>1. PICK w \in Positions : w = After(h)
      BY <1>2
    <3>2. PendingOf(d, w, t) \in Seq(Contents) /\ Len(PendingOf(d, w, t)) = CountOf(w, t)
      BY PendingSeq
    <3>. QED  BY <2>1, <3>1, <3>2
  <2>5. ASSUME NEW i \in 1 .. c PROVE q[i] = p[i]
    <3>1. Wrap(t + i - 1) \in Positions /\ Wrap(t + i - 1) # h
      BY <1>1, <1>3 DEF CountOf, After, Wrap, Positions
    <3>2. q[i] = d[Wrap(t + i - 1)] /\ p[i] = b[Wrap(t + i - 1)]
      BY <2>1, <2>2 DEF PendingOf
    <3>. QED  BY <3>1, <3>2
  <2>6. q[c + 1] = k
    <3>1. Wrap(t + (c + 1) - 1) = h
      BY <1>1, <1>3 DEF CountOf, After, Wrap
    <3>2. q[c + 1] = d[Wrap(t + (c + 1) - 1)]
      BY <2>1, <2>2 DEF PendingOf
    <3>. QED  BY <3>1, <3>2
  <2>7. /\ Append(p, k) \in Seq(Contents) /\ Len(Append(p, k)) = c + 1
        /\ \A i \in 1 .. c : Append(p, k)[i] = p[i]
        /\ Append(p, k)[c + 1] = k
    BY <2>2, AppendProperties
  <2>. HIDE DEF c, p, q
  <2>8. \A i \in 1 .. c + 1 : q[i] = Append(p, k)[i]
    BY <2>2, <2>5, <2>6, <2>7
  <2>9. q = Append(p, k)
    BY <2>4, <2>7, <2>8, SeqEqual
  <2>. QED  BY <2>9 DEF p, q
<1>. QED  BY <1>2, <1>3

\* A pop takes the oldest key.
LEMMA PopIs ==
    ASSUME NEW b \in [Positions -> Contents], NEW h \in Positions, NEW t \in Positions,
           h # t
    PROVE  /\ After(t) \in Positions /\ b[t] \in Contents
           /\ PendingOf(b, h, t) = <<b[t]>> \o PendingOf(b, h, After(t))
<1>1. /\ KeyBufSize \in Nat /\ KeyBufSize > 1
      /\ h \in Nat /\ h < KeyBufSize /\ t \in Nat /\ t < KeyBufSize
  BY ConsoleAssumption DEF Positions
<1>2. After(t) \in Positions /\ b[t] \in Contents
  BY <1>1 DEF After, Wrap, Positions
<1>. DEFINE u == After(t)
            c == CountOf(h, u)
            p == PendingOf(b, h, t)
            q == PendingOf(b, h, u)
            r == <<b[t]>> \o q
<1>3. CountOf(h, t) = c + 1
  BY <1>1 DEF CountOf, After, Wrap
<1>4. q \in Seq(Contents) /\ Len(q) = c /\ c \in Nat
  BY <1>2, PendingSeq
<1>5. p \in Seq(Contents) /\ Len(p) = c + 1
  BY <1>3, PendingSeq
<1>6. p[1] = b[t]
  <2>1. Wrap(t + 1 - 1) = t
    BY <1>1 DEF After, Wrap
  <2>2. 1 \in 1 .. c + 1
    BY <1>4
  <2>. QED  BY <1>3, <2>1, <2>2 DEF PendingOf
<1>7. ASSUME NEW i \in 1 .. c PROVE p[i + 1] = q[i]
  <2>1. Wrap(t + (i + 1) - 1) = Wrap(u + i - 1)
    BY <1>1, <1>4 DEF After, Wrap, CountOf
  <2>2. i + 1 \in 1 .. c + 1
    BY <1>4
  <2>. QED  BY <1>3, <2>1, <2>2 DEF PendingOf
<1>8. <<b[t]>> \in Seq(Contents) /\ Len(<<b[t]>>) = 1 /\ <<b[t]>>[1] = b[t]
  BY <1>2
<1>. HIDE DEF u, c, p, q
<1>9. /\ r \in Seq(Contents) /\ Len(r) = c + 1
      /\ \A i \in 1 .. 1 + c : r[i] = IF i <= 1 THEN <<b[t]>>[i] ELSE q[i - 1]
  BY <1>4, <1>8, ConcatProperties
<1>10. ASSUME NEW i \in 1 .. c + 1 PROVE p[i] = r[i]
  <2>1. CASE i = 1
    BY <1>4, <1>6, <1>8, <1>9, <2>1
  <2>2. CASE i # 1
    <3>1. i - 1 \in 1 .. c /\ (i - 1) + 1 = i /\ ~(i <= 1) /\ i \in 1 .. 1 + c
      BY <1>4, <2>2
    <3>. QED  BY <1>7, <1>9, <3>1
  <2>. QED  BY <2>1, <2>2
<1>. HIDE DEF r
<1>11. p = r
  BY <1>5, <1>9, <1>10, SeqEqual
<1>. QED  BY <1>2, <1>11 DEF p, q, r, u

-----------------------------------------------------------------------------
(* The invariant. *)

\* The characters that have still to come to the line, and to the chat's line.
LoopKey == IF pc \in {"chat", "echo"} THEN {key} ELSE {}
ChatLoopKey == IF pc = "chat" THEN {key} ELSE {}
LineWay == (Range(Pending) \cup Range(serial) \cup LoopKey) \cap Characters
ChatWay == (Range(Pending) \cup ChatLoopKey) \cap Characters

\* No character is in s twice.
Once(s) ==
    \A i, j \in DOMAIN s : s[i] = s[j] /\ s[i] \in Characters => i = j

\* For the line l, with the characters of A on the way to it and after the runs
\* r: nothing on the way is in the line or was run from it, nothing in the line
\* was run from it, and nothing was run from it twice.
Fresh(which, l, A, r) ==
    /\ Range(l) \cap A = {}
    /\ \A i \in DOMAIN r : r[i][1] = which =>
          Range(r[i][2]) \cap (Range(l) \cup A) = {}
    /\ \A i, j \in DOMAIN r : i < j /\ r[i][1] = which /\ r[j][1] = which =>
          Range(r[i][2]) \cap Range(r[j][2]) = {}

\* Nothing has come anywhere that is not among the first n characters.
TypedBefore(n, l, A, r) ==
    /\ \A c \in Range(l) \cup A : c <= n
    /\ \A i \in DOMAIN r : \A c \in Range(r[i][2]) : c <= n

RingInv ==
    /\ head \in Positions /\ tail \in Positions
    /\ buf \in [Positions -> Contents]

Runs == {"line", "chat"} \X Seq(Characters)

LinesInv ==
    /\ Pending \in Seq(Keys) /\ serial \in Seq(Keys)
    /\ line \in Seq(Characters) /\ input \in Seq(Characters) /\ ran \in Seq(Runs)
    /\ typed \in 0 .. MaxTyped
    /\ LoopKey \subseteq Keys

\* A character that is on the way is there in one place.
OnTheWayOnce ==
    /\ Once(Pending) /\ Once(serial)
    /\ Range(Pending) \cap Range(serial) \cap Characters = {}
    /\ LoopKey \cap (Range(Pending) \cup Range(serial)) \cap Characters = {}

FreshLines ==
    /\ Fresh("line", line, LineWay, ran) /\ Fresh("chat", input, ChatWay, ran)
    /\ TypedBefore(typed, line, LineWay, ran) /\ TypedBefore(typed, input, ChatWay, ran)

\* The inductive invariant.
ConsoleInv == RingInv /\ LinesInv /\ OnTheWayOnce /\ FreshLines

-----------------------------------------------------------------------------
(* The steps of the ring. *)

\* Pending in terms of positions, before and after a step.
LEMMA PendingMeans ==
    /\ RingInv => Pending = PendingOf(buf, head, tail)
    /\ RingInv' => Pending' = PendingOf(buf', head', tail')
BY PendingIs DEF RingInv, Pending

\* A key of the keyboard goes to the end of the ring, or nowhere if it is full.
LEMMA KeyboardStep ==
    ASSUME RingInv, NEW k \in Keys, KeyboardIrq(k)
    PROVE  /\ RingInv' /\ Len(Pending) \in Nat
           /\ IF Len(Pending) = KeyBufSize - 1 THEN Pending' = Pending
                                               ELSE Pending' = Append(Pending, k)
<1>0. k \in Contents
  BY DEF Contents
<1>1. PICK b, h, t, d, w : /\ b = buf /\ h = head /\ t = tail
                           /\ d = [b EXCEPT ![h] = k] /\ w = After(h)
  OBVIOUS
<1>2. /\ b \in [Positions -> Contents] /\ h \in Positions /\ t \in Positions /\ k \in Contents
      /\ d \in [Positions -> Contents] /\ d[h] = k /\ \A p \in Positions : p # h => d[p] = b[p]
  BY <1>0, <1>1 DEF RingInv
<1>3. (h + 1) % KeyBufSize = w
  BY <1>1, <1>2, PendingIs DEF After
<1>4. /\ w \in Positions
      /\ w = t <=> CountOf(h, t) = KeyBufSize - 1
      /\ w # t => PendingOf(d, w, t) = Append(PendingOf(b, h, t), k)
  <2>1. /\ After(h) \in Positions
        /\ After(h) = t <=> CountOf(h, t) = KeyBufSize - 1
        /\ After(h) # t => PendingOf(d, After(h), t) = Append(PendingOf(b, h, t), k)
    BY ONLY <1>2, PushIs
  <2>. QED  BY ONLY <1>1, <2>1
<1>5. Len(PendingOf(b, h, t)) = CountOf(h, t) /\ CountOf(h, t) \in Nat
  BY <1>2, PendingSeq
<1>6. Pending = PendingOf(b, h, t)
  BY <1>1, PendingMeans
<1>7. CASE w = t
  <2>1. buf' = b /\ head' = h /\ tail' = t
    BY <1>1, <1>3, <1>7 DEF KeyboardIrq, Push
  <2>2. RingInv'
    BY <1>2, <2>1 DEF RingInv
  <2>3. Pending' = PendingOf(b, h, t)
    BY <2>1, <2>2, PendingMeans
  <2>. QED  BY <1>4, <1>5, <1>6, <1>7, <2>2, <2>3
<1>8. CASE w # t
  <2>1. buf' = d /\ head' = w /\ tail' = t
    BY <1>1, <1>3, <1>8 DEF KeyboardIrq, Push
  <2>2. RingInv'
    BY <1>2, <1>4, <2>1 DEF RingInv
  <2>3. Pending' = PendingOf(d, w, t)
    BY <2>1, <2>2, PendingMeans
  <2>. QED  BY <1>4, <1>5, <1>6, <1>8, <2>2, <2>3
<1>. QED  BY <1>7, <1>8

\* The loop gets the oldest key, if there is one.
LEMMA PopStep ==
    ASSUME RingInv, PopKey
    PROVE  /\ RingInv'
           /\ \/ /\ Pending' = Pending /\ pc' = "serial"
              \/ /\ pc' = "chat" /\ key' \in Contents
                 /\ Pending = <<key'>> \o Pending'
                 /\ Pending' \in Seq(Contents)
<1>1. PICK b, h, t : b = buf /\ h = head /\ t = tail
  OBVIOUS
<1>2. b \in [Positions -> Contents] /\ h \in Positions /\ t \in Positions
  BY <1>1 DEF RingInv
<1>3. Pending = PendingOf(b, h, t)
  BY <1>1, PendingMeans
<1>4. CASE h = t
  <2>1. buf' = b /\ head' = h /\ tail' = t /\ pc' = "serial"
    BY <1>1, <1>4 DEF PopKey
  <2>2. RingInv'
    BY <1>2, <2>1 DEF RingInv
  <2>. QED  BY <1>3, <2>1, <2>2, PendingMeans
<1>5. CASE h # t
  <2>1. PICK u \in Positions : u = After(t)
    BY <1>2, <1>5, PopIs
  <2>2. /\ b[t] \in Contents
        /\ PendingOf(b, h, t) = <<b[t]>> \o PendingOf(b, h, u)
    <3>1. /\ b[t] \in Contents
          /\ PendingOf(b, h, t) = <<b[t]>> \o PendingOf(b, h, After(t))
      BY <1>2, <1>5, PopIs
    <3>. QED  BY <2>1, <3>1
  <2>3. (t + 1) % KeyBufSize = u
    BY <1>2, <2>1, PendingIs DEF After
  <2>4. buf' = b /\ head' = h /\ tail' = u /\ pc' = "chat" /\ key' = b[t]
    BY <1>1, <1>5, <2>3 DEF PopKey
  <2>5. RingInv'
    BY <1>2, <2>4 DEF RingInv
  <2>6. Pending' = PendingOf(b, h, u)
    BY <2>4, <2>5, PendingMeans
  <2>7. PendingOf(b, h, u) \in Seq(Contents)
    BY <1>2, PendingSeq
  <2>. QED  BY <1>3, <2>2, <2>4, <2>5, <2>6, <2>7
<1>. QED  BY <1>4, <1>5

\* Where the ring is as it was, so is what is pending.
LEMMA RingElsewhere ==
    ASSUME RingInv, UNCHANGED ring
    PROVE  RingInv' /\ Pending' = Pending
BY DEF RingInv, ring, Pending

\* Only an interrupt with a key and read_key's pop touch it.
LEMMA OthersLeaveTheRing ==
    ASSUME [Next]_vars
    PROVE  \/ UNCHANGED ring /\ ~(pc = "pop" /\ pc' = "chat")
                /\ (typing' # typing => serial' # serial \/ hung')
           \/ \E k \in Keys : KeyboardIrq(k)
           \/ PopKey
<1>1. CASE Next
  BY <1>1 DEF Next, KeyboardIrqSpins, SerialArrives, OtherIrq, Woken, Loop, LockKeys,
              ChatKey, EchoKey, SerialByte, NothingToRead, Halt, Spin, vars, ring, loop,
              typing
<1>2. CASE UNCHANGED vars
  BY <1>2 DEF vars, ring, loop
<1>. QED  BY <1>1, <1>2

\* The step property of KeyBufferIsAQueue.
LEMMA QueueStep ==
    ASSUME RingInv, [Next]_vars
    PROVE  /\ RingInv'
           /\ LET sent == \E k \in Keys : Pending' = Append(Pending, k)
                  full == Len(Pending) = KeyBufSize - 1
                  byKeyboard == typing' # typing /\ serial' = serial /\ ~hung' IN
              /\ Pending' = Pending \/ sent \/ Pending = <<key'>> \o Pending'
              /\ byKeyboard => IF full THEN Pending' = Pending ELSE sent
              /\ pc = "pop" /\ pc' = "chat" => Pending = <<key'>> \o Pending'
<1>1. CASE /\ UNCHANGED ring /\ ~(pc = "pop" /\ pc' = "chat")
           /\ typing' # typing => serial' # serial \/ hung'
  BY <1>1, RingElsewhere
<1>2. ASSUME NEW k \in Keys, KeyboardIrq(k)
      PROVE  /\ RingInv' /\ ~(pc = "pop" /\ pc' = "chat")
             /\ IF Len(Pending) = KeyBufSize - 1 THEN Pending' = Pending
                                                 ELSE Pending' = Append(Pending, k)
  <2>1. ~(pc = "pop" /\ pc' = "chat")
    BY <1>2 DEF KeyboardIrq, Woken
  <2>. QED  BY <1>2, <2>1, KeyboardStep
<1>3. CASE \E k \in Keys : KeyboardIrq(k)
  BY <1>2, <1>3
<1>4. CASE PopKey
  <2>1. typing' = typing /\ pc = "pop"
    BY <1>4 DEF PopKey, typing
  <2>. QED  BY <1>4, <2>1, PopStep
<1>. QED  BY <1>1, <1>3, <1>4, OthersLeaveTheRing

\* The empty ring is in order.
LEMMA RingStart ==
    ASSUME Init
    PROVE  RingInv /\ Pending = <<>>
<1>1. 0 \in Positions /\ head = 0 /\ tail = 0
  BY ConsoleAssumption DEF Positions, Init
<1>2. buf = [i \in 0 .. KeyBufSize - 1 |-> None]
  BY DEF Init
<1>3. RingInv
  BY <1>1, <1>2 DEF RingInv, Positions, Contents
<1>4. Pending = PendingOf(buf, head, tail) /\ CountOf(head, tail) = 0
  BY <1>1, <1>3, PendingMeans DEF CountOf
<1>5. Pending \in Seq(Contents) /\ Len(Pending) = 0
  <2>1. PICK b, h, t : b = buf /\ h = head /\ t = tail
    OBVIOUS
  <2>. QED  BY <1>3, <1>4, <2>1, PendingSeq DEF RingInv
<1>6. Pending = <<>>
  BY <1>5, EmptySeq
<1>. QED  BY <1>3, <1>6

\* KeyBufferIsAQueue for a ring of any size: keys come out in the order in which
\* they came in, none twice, whatever interrupts the loop (keyboard.rs).
THEOREM KeysKeepTheirOrder == Spec => KeyBufferIsAQueue
<1>1. Init => RingInv
  BY RingStart
<1>2. RingInv /\ [Next]_vars => RingInv'
  BY QueueStep
<1>3. RingInv /\ [Next]_vars =>
        [ LET sent == \E k \in Keys : Pending' = Append(Pending, k)
              full == Len(Pending) = KeyBufSize - 1
              byKeyboard == typing' # typing /\ serial' = serial /\ ~hung' IN
          /\ Pending' = Pending \/ sent \/ Pending = <<key'>> \o Pending'
          /\ byKeyboard => IF full THEN Pending' = Pending ELSE sent
          /\ pc = "pop" /\ pc' = "chat" => Pending = <<key'>> \o Pending' ]_vars
  BY QueueStep
<1>. QED  BY <1>1, <1>2, <1>3, PTL DEF Spec, KeyBufferIsAQueue

-----------------------------------------------------------------------------
(* The places that a character passes. *)

\* What appending does to a sequence of keys.
LEMMA AppendKey ==
    ASSUME NEW T, NEW s \in Seq(T), NEW k \in T
    PROVE  /\ Append(s, k) \in Seq(T) /\ Range(Append(s, k)) = Range(s) \cup {k}
           /\ Once(s) /\ (k \in Characters => k \notin Range(s)) => Once(Append(s, k))
<1>. DEFINE n == Len(s)
            a == Append(s, k)
<1>1. /\ a \in Seq(T) /\ Len(a) = n + 1 /\ n \in Nat
      /\ \A i \in 1 .. n : a[i] = s[i]
      /\ a[n + 1] = k
  BY AppendProperties, LenProperties
<1>2. DOMAIN s = 1 .. n /\ DOMAIN a = 1 .. n + 1
  BY <1>1, LenProperties
<1>. HIDE DEF n, a
<1>3. /\ \A i \in DOMAIN a : i \in DOMAIN s \/ i = n + 1
      /\ \A i \in DOMAIN s : i \in DOMAIN a /\ a[i] = s[i]
      /\ n + 1 \in DOMAIN a
  BY <1>1, <1>2
<1>4. Range(a) = Range(s) \cup {k}
  BY <1>1, <1>3 DEF Range
<1>5. ASSUME Once(s), k \in Characters => k \notin Range(s)
      PROVE  Once(a)
  <2>1. SUFFICES ASSUME NEW i \in DOMAIN a, NEW j \in DOMAIN a,
                        a[i] = a[j], a[i] \in Characters
                 PROVE  i = j
    BY DEF Once
  <2>2. CASE i \in DOMAIN s /\ j \in DOMAIN s
    BY <1>3, <1>5, <2>1, <2>2 DEF Once
  <2>3. CASE i = n + 1 /\ j = n + 1
    BY <2>3
  <2>4. CASE i = n + 1 /\ j \in DOMAIN s
    BY <1>1, <1>3, <1>5, <2>1, <2>4 DEF Range
  <2>5. CASE i \in DOMAIN s /\ j = n + 1
    BY <1>1, <1>3, <1>5, <2>1, <2>5 DEF Range
  <2>. QED  BY <1>3, <2>2, <2>3, <2>4, <2>5
<1>. QED  BY <1>1, <1>4, <1>5 DEF a

\* What taking the first key does.
LEMMA TakeKey ==
    ASSUME NEW T, NEW s \in Seq(T), s # <<>>
    PROVE  /\ Tail(s) \in Seq(T) /\ Head(s) \in T /\ Head(s) \in Range(s)
           /\ Range(Tail(s)) \subseteq Range(s)
           /\ Once(s) => /\ Once(Tail(s))
                         /\ Head(s) \in Characters => Head(s) \notin Range(Tail(s))
<1>. DEFINE n == Len(s)
            t == Tail(s)
<1>1. /\ n \in Nat /\ n >= 1 /\ t \in Seq(T) /\ Len(t) = n - 1
      /\ Head(s) = s[1] /\ s[1] \in T
      /\ \A i \in 1 .. n - 1 : t[i] = s[i + 1]
  BY HeadTailProperties, EmptySeq, LenProperties, ElementOfSeq
<1>2. DOMAIN s = 1 .. n /\ DOMAIN t = 1 .. n - 1
  BY <1>1, LenProperties
<1>. HIDE DEF n, t
<1>3. /\ \A i \in DOMAIN t : i \in Nat /\ i >= 1 /\ i + 1 \in DOMAIN s /\ t[i] = s[i + 1]
      /\ 1 \in DOMAIN s
  BY <1>1, <1>2
<1>4. Head(s) \in Range(s) /\ Range(t) \subseteq Range(s)
  BY <1>1, <1>3 DEF Range
<1>5. ASSUME Once(s)
      PROVE  Once(t) /\ (Head(s) \in Characters => Head(s) \notin Range(t))
  <2>1. ASSUME NEW i \in DOMAIN t, NEW j \in DOMAIN t, t[i] = t[j], t[i] \in Characters
        PROVE  i = j
    <3>1. i + 1 = j + 1
      BY <1>3, <1>5, <2>1 DEF Once
    <3>. QED  BY <1>3, <3>1
  <2>2. ASSUME NEW i \in DOMAIN t, t[i] = Head(s), Head(s) \in Characters
        PROVE  FALSE
    <3>1. i + 1 = 1
      BY <1>1, <1>3, <1>5, <2>2 DEF Once
    <3>. QED  BY <1>3, <3>1
  <2>. QED  BY <2>1, <2>2 DEF Once, Range
<1>. QED  BY <1>1, <1>4, <1>5 DEF t

\* The same, of a sequence that is given as a first key and the rest.
LEMMA ConsKey ==
    ASSUME NEW s \in Seq(Keys), NEW t \in Seq(Contents), NEW k, s = <<k>> \o t
    PROVE  /\ t \in Seq(Keys) /\ k \in Keys /\ k \in Range(s)
           /\ Range(t) \subseteq Range(s)
           /\ Once(s) => Once(t) /\ (k \in Characters => k \notin Range(t))
<1>1. PICK V : V = Contents \cup {k}
  OBVIOUS
<1>2. t \in Seq(V) /\ <<k>> \in Seq(V) /\ Len(<<k>>) = 1 /\ <<k>>[1] = k
  <2>1. k \in V /\ \A x \in Contents : x \in V
    BY <1>1
  <2>2. \A i \in 1 .. Len(t) : t[i] \in V
    BY <2>1, ElementOfSeq
  <2>3. t = [i \in 1 .. Len(t) |-> t[i]] /\ Len(t) \in Nat
    BY LenProperties
  <2>4. t \in Seq(V)
    BY <2>2, <2>3, IsASeq
  <2>. QED  BY <2>1, <2>4
<1>3. /\ Len(s) = 1 + Len(t) /\ Len(t) \in Nat
      /\ \A i \in 1 .. 1 + Len(t) : s[i] = IF i <= 1 THEN <<k>>[i] ELSE t[i - 1]
  BY <1>2, ConcatProperties, LenProperties
<1>4. s # <<>>
  BY <1>3
<1>5. Head(s) = k
  <2>1. s[1] = k
    BY <1>2, <1>3
  <2>. QED  BY <1>4, <2>1, HeadTailProperties
<1>6. Tail(s) = t
  <2>1. Tail(s) \in Seq(Keys) /\ Len(Tail(s)) = Len(t)
    BY <1>3, <1>4, HeadTailProperties
  <2>2. ASSUME NEW i \in 1 .. Len(t) PROVE Tail(s)[i] = t[i]
    <3>1. Tail(s)[i] = s[i + 1]
      BY <1>3, <1>4, HeadTailProperties
    <3>2. i + 1 \in 1 .. 1 + Len(t) /\ ~(i + 1 <= 1) /\ (i + 1) - 1 = i
      BY <1>3
    <3>3. s[i + 1] = t[(i + 1) - 1]
      BY <1>3, <3>2
    <3>. QED  BY <3>1, <3>2, <3>3
  <2>. QED  BY <2>1, <2>2, SeqEqual
<1>7. /\ Tail(s) \in Seq(Keys) /\ Head(s) \in Keys /\ Head(s) \in Range(s)
      /\ Range(Tail(s)) \subseteq Range(s)
      /\ Once(s) => /\ Once(Tail(s))
                    /\ Head(s) \in Characters => Head(s) \notin Range(Tail(s))
  BY <1>4, TakeKey
<1>. QED  BY ONLY <1>5, <1>6, <1>7

\* Editing a line adds no more than the character, and keeps it a line.
LEMMA EditedKeeps ==
    ASSUME NEW l \in Seq(Characters), NEW k, NEW max \in Nat
    PROVE  /\ Edited(l, k, max) \in Seq(Characters)
           /\ Range(Edited(l, k, max)) \subseteq Range(l) \cup ({k} \cap Characters)
<1>1. CASE Edited(l, k, max) = l
  BY <1>1
<1>2. CASE k \in Characters /\ Edited(l, k, max) = Append(l, k)
  BY <1>2, AppendKey
<1>3. CASE l # <<>> /\ Edited(l, k, max) = Front(l)
  <2>1. /\ Front(l) \in Seq(Characters) /\ Len(Front(l)) = Len(l) - 1
        /\ \A i \in 1 .. Len(l) - 1 : Front(l)[i] = l[i]
    <3>. DEFINE m == Len(l) - 1
                f == SubSeq(l, 1, m)
    <3>1. /\ Len(l) \in Nat /\ m \in Nat /\ m + 1 = Len(l)
          /\ \A i \in 1 .. Len(l) : l[i] \in Characters
      BY <1>3, EmptySeq, LenProperties, ElementOfSeq
    <3>2. \A i \in 1 .. m : l[i] \in Characters
      BY <3>1
    <3>3. Front(l) = f
      BY DEF Front
    <3>. HIDE DEF m
    <3>4. /\ f \in Seq(Characters)
          /\ Len(f) = IF 1 <= m THEN m - 1 + 1 ELSE 0
          /\ \A i \in 1 .. m - 1 + 1 : f[i] = l[1 + i - 1]
      BY <3>1, <3>2, SubSeqProperties
    <3>5. (IF 1 <= m THEN m - 1 + 1 ELSE 0) = m /\ m - 1 + 1 = m
      BY <3>1
    <3>6. \A i \in 1 .. m : 1 + i - 1 = i
      BY <3>1
    <3>. HIDE DEF f
    <3>. QED  BY <3>3, <3>4, <3>5, <3>6 DEF m
  <2>2. DOMAIN Front(l) = 1 .. Len(l) - 1 /\ DOMAIN l = 1 .. Len(l) /\ Len(l) \in Nat
    BY <2>1, LenProperties
  <2>3. Range(Front(l)) \subseteq Range(l)
    BY <2>1, <2>2 DEF Range
  <2>. QED  BY <1>3, <2>1, <2>3
<1>. QED  BY <1>1, <1>2, <1>3 DEF Edited

-----------------------------------------------------------------------------
(* What a step may do to a line. *)

\* Nothing happens to the line, and fewer characters are on the way to it.
LEMMA FreshWhenFewer ==
    ASSUME NEW which, NEW l, NEW r, NEW A, NEW B, B \subseteq A,
           Fresh(which, l, A, r)
    PROVE  Fresh(which, l, B, r)
BY DEF Fresh

\* A character that nobody has had so far sets out.
LEMMA FreshWhenTyped ==
    ASSUME NEW which, NEW l, NEW r, NEW A, NEW k, NEW B, B \subseteq A \cup {k},
           Fresh(which, l, A, r), k \notin Range(l),
           \A i \in DOMAIN r : k \notin Range(r[i][2])
    PROVE  Fresh(which, l, B, r)
BY DEF Fresh

\* A character arrives, and is not on the way any more.
LEMMA FreshWhenEdited ==
    ASSUME NEW which, NEW l, NEW r, NEW A, NEW B, NEW C, C \subseteq A,
           NEW m, Range(m) \subseteq Range(l) \cup C,
           B \subseteq A, B \cap C = {},
           Fresh(which, l, A, r)
    PROVE  Fresh(which, m, B, r)
BY DEF Fresh

\* The line is run, and begins again.
LEMMA FreshWhenRun ==
    ASSUME NEW which, NEW T, NEW l \in Seq(T), NEW R, NEW r \in Seq(R),
           <<which, l>> \in R, NEW A, NEW B, B \subseteq A,
           Fresh(which, l, A, r)
    PROVE  Fresh(which, <<>>, B, Append(r, <<which, l>>))
<1>. DEFINE e == <<which, l>>
            s == Append(r, e)
<1>1. /\ Len(s) = Len(r) + 1 /\ s[Len(r) + 1] = e /\ \A i \in 1 .. Len(r) : s[i] = r[i]
      /\ s \in Seq(R) /\ Len(r) \in Nat
  BY AppendProperties, LenProperties
<1>2. DOMAIN s = 1 .. Len(r) + 1 /\ DOMAIN r = 1 .. Len(r)
  BY <1>1, LenProperties
<1>3. e[1] = which /\ e[2] = l
  OBVIOUS
<1>. HIDE DEF e, s
<1>4. /\ \A i \in DOMAIN s : i \in Nat /\ (i \in DOMAIN r \/ i = Len(r) + 1)
      /\ \A i \in DOMAIN r : i < Len(r) + 1 /\ s[i] = r[i]
  BY <1>1, <1>2
<1>5. Range(<<>>) = {}
  BY DEF Range
<1>6. ASSUME NEW i \in DOMAIN s, s[i][1] = which
      PROVE  Range(s[i][2]) \cap (Range(<<>>) \cup B) = {}
  <2>1. CASE i \in DOMAIN r
    BY <1>4, <1>5, <1>6, <2>1 DEF Fresh
  <2>2. CASE i = Len(r) + 1
    BY <1>1, <1>3, <1>5, <2>2 DEF Fresh
  <2>. QED  BY <1>4, <2>1, <2>2
<1>7. ASSUME NEW i \in DOMAIN s, NEW j \in DOMAIN s, i < j,
             s[i][1] = which, s[j][1] = which
      PROVE  Range(s[i][2]) \cap Range(s[j][2]) = {}
  <2>1. i \in DOMAIN r
    BY <1>1, <1>2, <1>4, <1>7
  <2>2. CASE j \in DOMAIN r
    BY <1>4, <1>7, <2>1, <2>2 DEF Fresh
  <2>3. CASE j = Len(r) + 1
    BY <1>1, <1>3, <1>4, <1>7, <2>1, <2>3 DEF Fresh
  <2>. QED  BY <1>4, <2>2, <2>3
<1>8. Range(<<>>) \cap B = {}
  BY <1>5
<1>. QED  BY <1>6, <1>7, <1>8 DEF Fresh, s, e

\* Another line is run.
LEMMA FreshWhenOtherRuns ==
    ASSUME NEW which, NEW l, NEW R, NEW r \in Seq(R), NEW e \in R, e[1] # which,
           NEW A, NEW B, B \subseteq A, Fresh(which, l, A, r)
    PROVE  Fresh(which, l, B, Append(r, e))
<1>. DEFINE s == Append(r, e)
<1>1. /\ Len(s) = Len(r) + 1 /\ s[Len(r) + 1] = e /\ \A i \in 1 .. Len(r) : s[i] = r[i]
      /\ s \in Seq(R) /\ Len(r) \in Nat
  BY AppendProperties, LenProperties
<1>2. DOMAIN s = 1 .. Len(r) + 1 /\ DOMAIN r = 1 .. Len(r)
  BY <1>1, LenProperties
<1>. HIDE DEF s
<1>3. \A i \in DOMAIN s : s[i][1] = which => i \in DOMAIN r /\ s[i] = r[i]
  BY <1>1, <1>2
<1>4. Fresh(which, l, B, r)
  BY FreshWhenFewer
<1>. QED  BY <1>3, <1>4 DEF Fresh, s

\* What is run was typed.
LEMMA TypedWhenRun ==
    ASSUME NEW n, NEW R, NEW r \in Seq(R), NEW e \in R,
           \A i \in DOMAIN r : \A c \in Range(r[i][2]) : c <= n,
           \A c \in Range(e[2]) : c <= n
    PROVE  \A i \in DOMAIN Append(r, e) : \A c \in Range(Append(r, e)[i][2]) : c <= n
<1>. DEFINE s == Append(r, e)
<1>1. /\ Len(s) = Len(r) + 1 /\ s[Len(r) + 1] = e /\ \A i \in 1 .. Len(r) : s[i] = r[i]
      /\ s \in Seq(R) /\ Len(r) \in Nat
  BY AppendProperties, LenProperties
<1>2. DOMAIN s = 1 .. Len(r) + 1 /\ DOMAIN r = 1 .. Len(r)
  BY <1>1, LenProperties
<1>. HIDE DEF s
<1>3. \A i \in DOMAIN s : (i \in DOMAIN r /\ s[i] = r[i]) \/ s[i] = e
  BY <1>1, <1>2
<1>4. \A i \in DOMAIN s : \A c \in Range(s[i][2]) : c <= n
  BY <1>3
<1>. QED  BY <1>4 DEF s

-----------------------------------------------------------------------------
(* The steps. *)

\* Characters are typed in the order of their numbers.
LEMMA Numbers ==
    /\ Enter \notin Characters /\ Backspace \notin Characters
    /\ Characters \subseteq Keys /\ Characters \subseteq Nat /\ MaxTyped \in Nat
    /\ LineMax \in Nat /\ InputMax \in Nat
    /\ \A n \in 0 .. MaxTyped : n < MaxTyped => n + 1 \in 0 .. MaxTyped /\ n + 1 \in Characters
BY ConsoleAssumption DEF Enter, Backspace, Characters, Keys

\* The places hold numbers, and what was typed before stays so as more is typed.
LEMMA TypedLater ==
    ASSUME ConsoleInv, typed' \in 0 .. MaxTyped, typed <= typed'
    PROVE  /\ TypedBefore(typed', line, LineWay, ran)
           /\ TypedBefore(typed', input, ChatWay, ran)
<1>1. LineWay \subseteq Nat /\ ChatWay \subseteq Nat /\ typed \in Nat /\ typed' \in Nat
  <2>1. typed \in 0 .. MaxTyped
    BY DEF ConsoleInv, LinesInv
  <2>2. LineWay \subseteq Characters /\ ChatWay \subseteq Characters
    BY DEF LineWay, ChatWay
  <2>. QED  BY <2>1, <2>2, Numbers
<1>2. \A c \in Nat : c <= typed => c <= typed'
  BY <1>1
<1>3. /\ \A l \in {line, input} : Range(l) \subseteq Nat
      /\ \A i \in DOMAIN ran : Range(ran[i][2]) \subseteq Nat
  <2>1. ASSUME NEW l \in Seq(Characters) PROVE Range(l) \subseteq Nat
    <3>1. Range(l) \in SUBSET Characters
      BY RangeOfSeq
    <3>. QED  BY <3>1, Numbers
  <2>2. ASSUME NEW i \in DOMAIN ran PROVE ran[i][2] \in Seq(Characters)
    <3>1. ran[i] \in Runs
      BY ElementOfSeq, LenProperties DEF ConsoleInv, LinesInv
    <3>. QED  BY <3>1 DEF Runs
  <2>. QED  BY <2>1, <2>2 DEF ConsoleInv, LinesInv
<1>4. TypedBefore(typed, line, LineWay, ran) /\ TypedBefore(typed, input, ChatWay, ran)
  BY DEF ConsoleInv, FreshLines
<1>. QED  BY <1>1, <1>2, <1>3, <1>4 DEF TypedBefore

\* Steps that move no key.
LEMMA QuietStep ==
    ASSUME ConsoleInv, UNCHANGED <<Pending, serial, line, input, ran>>,
           LoopKey' = LoopKey, ChatLoopKey' = ChatLoopKey,
           typed' \in 0 .. MaxTyped, typed <= typed'
    PROVE  LinesInv' /\ OnTheWayOnce' /\ FreshLines'
<1>1. LinesInv' /\ OnTheWayOnce'
  BY DEF ConsoleInv, LinesInv, OnTheWayOnce, Once
<1>2. LineWay' = LineWay /\ ChatWay' = ChatWay
  BY DEF LineWay, ChatWay, Characters
<1>3. Fresh("line", line, LineWay, ran) /\ Fresh("chat", input, ChatWay, ran)
  BY DEF ConsoleInv, FreshLines
<1>4. FreshLines'
  BY <1>2, <1>3, TypedLater DEF FreshLines
<1>. QED  BY <1>1, <1>4

\* A character that is typed has been nowhere so far.
LEMMA TypedIsNew ==
    ASSUME ConsoleInv, NEW k \in Keys, Type(k)
    PROVE  /\ typed' \in 0 .. MaxTyped /\ typed <= typed'
           /\ k \in Characters =>
                /\ k = typed'
                /\ k \notin LineWay \cup ChatWay \cup Range(line) \cup Range(input)
                /\ \A i \in DOMAIN ran : k \notin Range(ran[i][2])
<1>1. typed \in 0 .. MaxTyped
  BY DEF ConsoleInv, LinesInv
<1>2. typed' \in 0 .. MaxTyped /\ typed <= typed'
  BY <1>1, Numbers DEF Type, TypeCharacter, TypeOther
<1>3. ASSUME k \in Characters PROVE k = typed' /\ ~(k <= typed)
  BY <1>1, <1>3, Numbers DEF Type, TypeCharacter, TypeOther
<1>4. TypedBefore(typed, line, LineWay, ran) /\ TypedBefore(typed, input, ChatWay, ran)
  BY DEF ConsoleInv, FreshLines
<1>. QED  BY <1>2, <1>3, <1>4 DEF TypedBefore

\* A key sets out, in the ring or on the serial line.
LEMMA ArrivalStep ==
    ASSUME ConsoleInv, NEW k \in Keys, Type(k), UNCHANGED <<line, input, ran>>,
           LoopKey' = LoopKey, ChatLoopKey' = ChatLoopKey,
           \/ Pending' = Append(Pending, k) /\ serial' = serial
           \/ Pending' = Pending /\ serial' = Append(serial, k)
    PROVE  LinesInv' /\ OnTheWayOnce' /\ FreshLines'
<1>1. /\ typed' \in 0 .. MaxTyped /\ typed <= typed'
      /\ k \in Characters =>
           /\ k = typed'
           /\ k \notin LineWay \cup ChatWay \cup Range(line) \cup Range(input)
           /\ \A i \in DOMAIN ran : k \notin Range(ran[i][2])
  BY TypedIsNew
<1>2. Pending \in Seq(Keys) /\ serial \in Seq(Keys) /\ Once(Pending) /\ Once(serial)
  BY DEF ConsoleInv, LinesInv, OnTheWayOnce
<1>3. k \in Characters => k \notin Range(Pending) \cup Range(serial) \cup LoopKey
  BY <1>1 DEF LineWay
<1>4. \A s \in {Pending, serial} :
        /\ Append(s, k) \in Seq(Keys) /\ Range(Append(s, k)) = Range(s) \cup {k}
        /\ Once(Append(s, k))
  BY <1>2, <1>3, AppendKey
<1>5. /\ Pending' \in Seq(Keys) /\ serial' \in Seq(Keys)
      /\ Once(Pending') /\ Once(serial')
      /\ \/ Range(Pending') = Range(Pending) \cup {k} /\ Range(serial') = Range(serial)
         \/ Range(Pending') = Range(Pending) /\ Range(serial') = Range(serial) \cup {k}
  BY <1>2, <1>4
<1>6. LinesInv'
  BY <1>1, <1>5 DEF ConsoleInv, LinesInv
<1>7. OnTheWayOnce'
  <2>1. /\ Range(Pending) \cap Range(serial) \cap Characters = {}
        /\ LoopKey \cap (Range(Pending) \cup Range(serial)) \cap Characters = {}
    BY DEF ConsoleInv, OnTheWayOnce
  <2>2. /\ Range(Pending') \cap Range(serial') \cap Characters = {}
        /\ LoopKey' \cap (Range(Pending') \cup Range(serial')) \cap Characters = {}
    BY <1>3, <1>5, <2>1
  <2>. QED  BY <1>5, <2>2 DEF OnTheWayOnce, Once, Characters
<1>8. /\ LineWay' \subseteq LineWay \cup ({k} \cap Characters)
      /\ ChatWay' \subseteq ChatWay \cup ({k} \cap Characters)
  BY <1>5 DEF LineWay, ChatWay, Characters
<1>9. Fresh("line", line, LineWay, ran) /\ Fresh("chat", input, ChatWay, ran)
  BY DEF ConsoleInv, FreshLines
<1>10. Fresh("line", line, LineWay', ran) /\ Fresh("chat", input, ChatWay', ran)
  <2>1. CASE k \in Characters
    BY <1>1, <1>8, <1>9, <2>1, FreshWhenTyped
  <2>2. CASE k \notin Characters
    BY <1>8, <1>9, <2>2, FreshWhenFewer
  <2>. QED  BY <2>1, <2>2
<1>11. /\ TypedBefore(typed', line, LineWay', ran)
       /\ TypedBefore(typed', input, ChatWay', ran)
  <2>1. k \in Characters => k <= typed'
    BY <1>1, Numbers
  <2>. QED  BY <1>1, <1>8, <2>1, TypedLater DEF TypedBefore
<1>. QED  BY <1>6, <1>7, <1>10, <1>11 DEF FreshLines

\* The loop takes a key out of the ring.
LEMMA PopMoves ==
    ASSUME ConsoleInv, pc = "pop", pc' = "chat",
           Pending = <<key'>> \o Pending', Pending' \in Seq(Contents),
           UNCHANGED <<serial, line, input, ran, typed>>
    PROVE  LinesInv' /\ OnTheWayOnce' /\ FreshLines'
<1>1. /\ Pending \in Seq(Keys) /\ serial \in Seq(Keys) /\ Once(Pending) /\ Once(serial)
      /\ Range(Pending) \cap Range(serial) \cap Characters = {}
  BY DEF ConsoleInv, LinesInv, OnTheWayOnce
<1>2. /\ Pending' \in Seq(Keys) /\ key' \in Keys /\ key' \in Range(Pending)
      /\ Range(Pending') \subseteq Range(Pending)
      /\ Once(Pending') /\ (key' \in Characters => key' \notin Range(Pending'))
  <2>1. PICK s, t, k : s = Pending /\ t = Pending' /\ k = key'
    OBVIOUS
  <2>2. s \in Seq(Keys) /\ t \in Seq(Contents) /\ s = <<k>> \o t
    BY <1>1, <2>1
  <2>3. /\ t \in Seq(Keys) /\ k \in Keys /\ k \in Range(s) /\ Range(t) \subseteq Range(s)
        /\ Once(s) => Once(t) /\ (k \in Characters => k \notin Range(t))
    BY ONLY <2>2, ConsKey
  <2>. QED  BY <1>1, <2>1, <2>3
<1>3. LoopKey' = {key'} /\ ChatLoopKey' = {key'}
  BY DEF LoopKey, ChatLoopKey
<1>4. LinesInv'
  BY <1>1, <1>2, <1>3 DEF ConsoleInv, LinesInv
<1>5. OnTheWayOnce'
  <2>1. /\ Range(Pending') \cap Range(serial) \cap Characters = {}
        /\ {key'} \cap (Range(Pending') \cup Range(serial)) \cap Characters = {}
    BY <1>1, <1>2
  <2>. QED  BY <1>1, <1>2, <1>3, <2>1 DEF OnTheWayOnce, Once, Characters
<1>6. LineWay' \subseteq LineWay /\ ChatWay' \subseteq ChatWay
  BY <1>2, <1>3 DEF LineWay, ChatWay, Characters
<1>7. /\ Fresh("line", line, LineWay, ran) /\ Fresh("chat", input, ChatWay, ran)
      /\ TypedBefore(typed, line, LineWay, ran) /\ TypedBefore(typed, input, ChatWay, ran)
  BY DEF ConsoleInv, FreshLines
<1>8. Fresh("line", line, LineWay', ran) /\ Fresh("chat", input, ChatWay', ran)
  BY <1>6, <1>7, FreshWhenFewer
<1>9. /\ TypedBefore(typed, line, LineWay', ran)
      /\ TypedBefore(typed, input, ChatWay', ran)
  BY <1>6, <1>7 DEF TypedBefore
<1>. QED  BY <1>4, <1>5, <1>8, <1>9 DEF FreshLines

\* The key k is one of A, and is not in W, which is what is left of A.
Leaves(k, A, W) == W \subseteq A /\ (k \in Characters => k \in A /\ k \notin W)

\* The line l takes k: it is run and begun again, or edited.
Takes(which, l, r, k, max, m, q) ==
    \/ q = Append(r, <<which, l>>) /\ m = <<>>
    \/ q = r /\ m = Edited(l, k, max)

\* A line takes a key.  W is what is on the way to it afterwards; o is the other
\* line, with V on the way to it.
LEMMA LineTakesKey ==
    ASSUME NEW which \in {"line", "chat"}, NEW other, which # other,
           NEW l \in Seq(Characters), NEW r \in Seq(Runs),
           NEW k, NEW max \in Nat, NEW n, NEW A, NEW W, Leaves(k, A, W),
           Fresh(which, l, A, r), TypedBefore(n, l, A, r),
           NEW o, NEW V, Fresh(other, o, V, r), TypedBefore(n, o, V, r),
           NEW m, NEW q, Takes(which, l, r, k, max, m, q)
    PROVE  /\ m \in Seq(Characters) /\ q \in Seq(Runs)
           /\ Fresh(which, m, W, q) /\ TypedBefore(n, m, W, q)
           /\ Fresh(other, o, V, q) /\ TypedBefore(n, o, V, q)
<1>0. W \subseteq A /\ (k \in Characters => k \in A /\ k \notin W)
  BY DEF Leaves
<1>1. CASE q = Append(r, <<which, l>>) /\ m = <<>>
  <2>1. <<which, l>> \in Runs
    BY DEF Runs
  <2>2. m \in Seq(Characters) /\ Range(m) = {}
    BY <1>1 DEF Range
  <2>3. q \in Seq(Runs)
    BY <1>1, <2>1, AppendProperties
  <2>4. Fresh(which, m, W, q)
    BY <1>0, <1>1, <2>1, FreshWhenRun
  <2>5. PICK e \in Runs : e = <<which, l>>
    BY <2>1
  <2>6. e[1] # other /\ e[2] = l
    BY <2>5
  <2>7. Fresh(other, o, V, q)
    BY <1>1, <2>5, <2>6, FreshWhenOtherRuns
  <2>8. \A i \in DOMAIN q : \A c \in Range(q[i][2]) : c <= n
    <3>1. /\ \A i \in DOMAIN r : \A c \in Range(r[i][2]) : c <= n
          /\ \A c \in Range(e[2]) : c <= n
      BY <2>6 DEF TypedBefore
    <3>. QED  BY <1>1, <2>5, <3>1, TypedWhenRun
  <2>9. TypedBefore(n, m, W, q) /\ TypedBefore(n, o, V, q)
    BY <1>0, <2>2, <2>8 DEF TypedBefore
  <2>. QED  BY <2>2, <2>3, <2>4, <2>7, <2>9
<1>2. CASE q = r /\ m = Edited(l, k, max)
  <2>1. m \in Seq(Characters) /\ Range(m) \subseteq Range(l) \cup ({k} \cap Characters)
    BY <1>2, EditedKeeps
  <2>2. {k} \cap Characters \subseteq A /\ W \cap ({k} \cap Characters) = {}
    BY <1>0
  <2>3. Fresh(which, m, W, r)
    BY <1>0, <2>1, <2>2, FreshWhenEdited
  <2>4. TypedBefore(n, m, W, r)
    BY <1>0, <2>1, <2>2 DEF TypedBefore
  <2>. QED  BY <1>2, <2>1, <2>3, <2>4
<1>. QED  BY <1>1, <1>2 DEF Takes

\* The chat window gets the key first.
LEMMA ChatMoves ==
    ASSUME ConsoleInv, ChatKey
    PROVE  RingInv' /\ LinesInv' /\ OnTheWayOnce' /\ FreshLines'
<1>1. /\ pc = "chat" /\ pc' = "echo"
      /\ UNCHANGED <<ring, serial, key, line, typed>>
      /\ \/ UNCHANGED <<input, ran>>
         \/ ran' = Append(ran, <<"chat", input>>) /\ input' = <<>>
         \/ ran' = ran /\ input' = Edited(input, key, InputMax)
  BY DEF ChatKey, typing
<1>2. RingInv' /\ Pending' = Pending
  BY <1>1, RingElsewhere DEF ConsoleInv
<1>3. /\ LoopKey = {key} /\ LoopKey' = {key}
      /\ ChatLoopKey = {key} /\ ChatLoopKey' = {}
  BY <1>1 DEF LoopKey, ChatLoopKey
<1>4. LineWay' = LineWay /\ ChatWay' \subseteq ChatWay
  BY <1>1, <1>2, <1>3 DEF LineWay, ChatWay, Characters
<1>5. key \in Characters => key \in ChatWay /\ key \notin ChatWay'
  <2>1. LoopKey \cap (Range(Pending) \cup Range(serial)) \cap Characters = {}
    BY DEF ConsoleInv, OnTheWayOnce
  <2>2. ASSUME key \in Characters PROVE key \notin Range(Pending)
    BY <1>3, <2>1, <2>2
  <2>. QED  BY <1>2, <1>3, <2>2 DEF ChatWay
<1>6. /\ Fresh("line", line, LineWay, ran) /\ TypedBefore(typed, line, LineWay, ran)
      /\ Fresh("chat", input, ChatWay, ran) /\ TypedBefore(typed, input, ChatWay, ran)
      /\ input \in Seq(Characters) /\ ran \in Seq(Runs)
  BY DEF ConsoleInv, FreshLines, LinesInv
<1>7. /\ input' \in Seq(Characters) /\ ran' \in Seq(Runs)
      /\ Fresh("chat", input', ChatWay', ran') /\ TypedBefore(typed, input', ChatWay', ran')
      /\ Fresh("line", line, LineWay, ran') /\ TypedBefore(typed, line, LineWay, ran')
  <2>1. CASE UNCHANGED <<input, ran>>
    <3>1. Fresh("chat", input, ChatWay', ran)
      BY <1>4, <1>6, FreshWhenFewer
    <3>2. TypedBefore(typed, input, ChatWay', ran)
      BY <1>4, <1>6 DEF TypedBefore
    <3>. QED  BY <1>6, <2>1, <3>1, <3>2
  <2>2. CASE \/ ran' = Append(ran, <<"chat", input>>) /\ input' = <<>>
             \/ ran' = ran /\ input' = Edited(input, key, InputMax)
    <3>1. Leaves(key, ChatWay, ChatWay')
      BY <1>4, <1>5 DEF Leaves
    <3>2. Takes("chat", input, ran, key, InputMax, input', ran')
      BY <2>2 DEF Takes
    <3>3. InputMax \in Nat /\ "chat" # "line" /\ "chat" \in {"line", "chat"}
      BY Numbers
    <3>. QED  BY ONLY <1>6, <3>1, <3>2, <3>3, LineTakesKey
  <2>. QED  BY <1>1, <2>1, <2>2
<1>8. LinesInv'
  BY <1>1, <1>2, <1>3, <1>7 DEF ConsoleInv, LinesInv
<1>9. OnTheWayOnce'
  BY <1>1, <1>2, <1>3 DEF ConsoleInv, OnTheWayOnce, Once, Characters
<1>10. FreshLines'
  BY <1>1, <1>4, <1>7 DEF FreshLines
<1>. QED  BY <1>2, <1>8, <1>9, <1>10

\* The loop's line takes the key that the chat window has had.
LEMMA EchoMoves ==
    ASSUME ConsoleInv, EchoKey
    PROVE  RingInv' /\ LinesInv' /\ OnTheWayOnce' /\ FreshLines'
<1>1. /\ pc = "echo" /\ pc' = "poll"
      /\ UNCHANGED <<ring, serial, input, typed>>
      /\ \/ ran' = Append(ran, <<"line", line>>) /\ line' = <<>>
         \/ ran' = ran /\ line' = Edited(line, key, LineMax)
  BY DEF EchoKey, LineTakes, typing
<1>2. RingInv' /\ Pending' = Pending
  BY <1>1, RingElsewhere DEF ConsoleInv
<1>3. /\ LoopKey = {key} /\ LoopKey' = {}
      /\ ChatLoopKey = {} /\ ChatLoopKey' = {}
  BY <1>1 DEF LoopKey, ChatLoopKey
<1>4. LineWay' \subseteq LineWay /\ ChatWay' = ChatWay
  BY <1>1, <1>2, <1>3 DEF LineWay, ChatWay, Characters
<1>5. key \in Characters => key \in LineWay /\ key \notin LineWay'
  <2>1. LoopKey \cap (Range(Pending) \cup Range(serial)) \cap Characters = {}
    BY DEF ConsoleInv, OnTheWayOnce
  <2>2. ASSUME key \in Characters PROVE key \notin Range(Pending) \cup Range(serial)
    BY <1>3, <2>1, <2>2
  <2>. QED  BY <1>1, <1>2, <1>3, <2>2 DEF LineWay
<1>6. /\ Fresh("line", line, LineWay, ran) /\ TypedBefore(typed, line, LineWay, ran)
      /\ Fresh("chat", input, ChatWay, ran) /\ TypedBefore(typed, input, ChatWay, ran)
      /\ line \in Seq(Characters) /\ ran \in Seq(Runs)
  BY DEF ConsoleInv, FreshLines, LinesInv
<1>7. /\ line' \in Seq(Characters) /\ ran' \in Seq(Runs)
      /\ Fresh("line", line', LineWay', ran') /\ TypedBefore(typed, line', LineWay', ran')
      /\ Fresh("chat", input, ChatWay, ran') /\ TypedBefore(typed, input, ChatWay, ran')
  <2>1. Leaves(key, LineWay, LineWay')
    BY <1>4, <1>5 DEF Leaves
  <2>2. Takes("line", line, ran, key, LineMax, line', ran')
    BY <1>1 DEF Takes
  <2>3. LineMax \in Nat /\ "chat" # "line" /\ "line" \in {"line", "chat"}
    BY Numbers
  <2>. QED  BY ONLY <1>6, <2>1, <2>2, <2>3, LineTakesKey
<1>8. LinesInv'
  BY <1>1, <1>2, <1>3, <1>7 DEF ConsoleInv, LinesInv
<1>9. OnTheWayOnce'
  BY <1>1, <1>2, <1>3 DEF ConsoleInv, OnTheWayOnce, Once, Characters
<1>10. FreshLines'
  BY <1>1, <1>4, <1>7 DEF FreshLines
<1>. QED  BY <1>2, <1>8, <1>9, <1>10

\* The loop's line takes a byte of the serial line.
LEMMA SerialMoves ==
    ASSUME ConsoleInv, SerialByte
    PROVE  RingInv' /\ LinesInv' /\ OnTheWayOnce' /\ FreshLines'
<1>1. /\ pc = "serial" /\ pc' = "poll" /\ serial # <<>> /\ serial' = Tail(serial)
      /\ UNCHANGED <<ring, input, typed>>
      /\ \/ ran' = Append(ran, <<"line", line>>) /\ line' = <<>>
         \/ ran' = ran /\ line' = Edited(line, Head(serial), LineMax)
  BY DEF SerialByte, LineTakes, typing
<1>2. RingInv' /\ Pending' = Pending
  BY <1>1, RingElsewhere DEF ConsoleInv
<1>3. LoopKey = {} /\ LoopKey' = {} /\ ChatLoopKey = {} /\ ChatLoopKey' = {}
  BY <1>1 DEF LoopKey, ChatLoopKey
<1>4. PICK k : k = Head(serial)
  OBVIOUS
<1>5. /\ serial' \in Seq(Keys) /\ Once(serial') /\ Range(serial') \subseteq Range(serial)
      /\ k \in Range(serial) /\ (k \in Characters => k \notin Range(serial'))
  <2>1. serial \in Seq(Keys) /\ Once(serial)
    BY DEF ConsoleInv, LinesInv, OnTheWayOnce
  <2>. QED  BY <1>1, <1>4, <2>1, TakeKey
<1>6. Range(Pending) \cap Range(serial) \cap Characters = {}
  BY DEF ConsoleInv, OnTheWayOnce
<1>7. LineWay' \subseteq LineWay /\ ChatWay' = ChatWay
  BY <1>2, <1>3, <1>5 DEF LineWay, ChatWay, Characters
<1>8. k \in Characters => k \in LineWay /\ k \notin LineWay'
  BY <1>2, <1>3, <1>5, <1>6 DEF LineWay
<1>9. /\ Fresh("line", line, LineWay, ran) /\ TypedBefore(typed, line, LineWay, ran)
      /\ Fresh("chat", input, ChatWay, ran) /\ TypedBefore(typed, input, ChatWay, ran)
      /\ line \in Seq(Characters) /\ ran \in Seq(Runs)
  BY DEF ConsoleInv, FreshLines, LinesInv
<1>10. /\ line' \in Seq(Characters) /\ ran' \in Seq(Runs)
       /\ Fresh("line", line', LineWay', ran') /\ TypedBefore(typed, line', LineWay', ran')
       /\ Fresh("chat", input, ChatWay, ran') /\ TypedBefore(typed, input, ChatWay, ran')
  <2>1. Leaves(k, LineWay, LineWay')
    BY <1>7, <1>8 DEF Leaves
  <2>2. Takes("line", line, ran, k, LineMax, line', ran')
    BY <1>1, <1>4 DEF Takes
  <2>3. LineMax \in Nat /\ "chat" # "line" /\ "line" \in {"line", "chat"}
    BY Numbers
  <2>. QED  BY ONLY <1>9, <2>1, <2>2, <2>3, LineTakesKey
<1>11. LinesInv'
  BY <1>1, <1>2, <1>3, <1>5, <1>10 DEF ConsoleInv, LinesInv
<1>12. OnTheWayOnce'
  <2>1. Range(Pending) \cap Range(serial') \cap Characters = {}
    BY <1>5, <1>6
  <2>. QED  BY <1>2, <1>3, <1>5, <2>1 DEF ConsoleInv, OnTheWayOnce, Once, Characters
<1>13. FreshLines'
  BY <1>1, <1>7, <1>10 DEF FreshLines
<1>. QED  BY <1>2, <1>11, <1>12, <1>13

\* At the start nothing is anywhere.
LEMMA ConsoleStarts == Init => ConsoleInv
<1>. SUFFICES ASSUME Init PROVE ConsoleInv
  OBVIOUS
<1>1. RingInv /\ Pending = <<>>
  BY RingStart
<1>2. /\ serial = <<>> /\ line = <<>> /\ input = <<>> /\ ran = <<>> /\ typed = 0
      /\ LoopKey = {} /\ ChatLoopKey = {}
  BY DEF Init, LoopKey, ChatLoopKey
<1>3. Range(<<>>) = {} /\ Once(<<>>) /\ DOMAIN <<>> = {}
  BY DEF Range, Once
<1>4. 0 \in 0 .. MaxTyped
  BY Numbers
<1>5. \A T : <<>> \in Seq(T)
  OBVIOUS
<1>6. LinesInv
  BY <1>1, <1>2, <1>4, <1>5 DEF LinesInv
<1>7. OnTheWayOnce
  BY <1>1, <1>2, <1>3 DEF OnTheWayOnce
<1>8. LineWay = {} /\ ChatWay = {}
  BY <1>1, <1>2, <1>3 DEF LineWay, ChatWay
<1>9. FreshLines
  BY <1>2, <1>3, <1>8 DEF FreshLines, Fresh, TypedBefore
<1>. QED  BY <1>1, <1>6, <1>7, <1>9 DEF ConsoleInv

\* Every step keeps the invariant: an interrupt at any point of the loop as well
\* as the loop's own steps.
LEMMA ConsoleStep ==
    ASSUME ConsoleInv, [Next]_vars
    PROVE  ConsoleInv'
<1>1. typed \in 0 .. MaxTyped /\ RingInv
  BY DEF ConsoleInv, LinesInv
<1>2. typed <= typed
  BY <1>1
<1>3. ASSUME NEW k \in Keys, KeyboardIrq(k) PROVE ConsoleInv'
  <2>1. /\ RingInv'
        /\ Pending' = Pending \/ Pending' = Append(Pending, k)
    BY <1>1, <1>3, KeyboardStep
  <2>2. /\ Type(k) /\ UNCHANGED <<serial, line, input, ran>>
        /\ LoopKey' = LoopKey /\ ChatLoopKey' = ChatLoopKey
    BY <1>3 DEF KeyboardIrq, Woken, lines, LoopKey, ChatLoopKey
  <2>3. CASE Pending' = Pending
    <3>1. typed' \in 0 .. MaxTyped /\ typed <= typed'
      BY <2>2, TypedIsNew
    <3>. QED  BY <2>1, <2>2, <2>3, <3>1, QuietStep DEF ConsoleInv
  <2>4. CASE Pending' = Append(Pending, k)
    BY <2>1, <2>2, <2>4, ArrivalStep DEF ConsoleInv
  <2>. QED  BY <2>1, <2>3, <2>4
<1>4. ASSUME NEW k \in Keys, KeyboardIrqSpins(k) PROVE ConsoleInv'
  <2>1. /\ Type(k) /\ UNCHANGED <<ring, serial, line, input, ran, pc, key>>
    BY <1>4 DEF KeyboardIrqSpins, lines, loop
  <2>2. RingInv' /\ Pending' = Pending
    BY <1>1, <2>1, RingElsewhere
  <2>3. LoopKey' = LoopKey /\ ChatLoopKey' = ChatLoopKey
    BY <2>1 DEF LoopKey, ChatLoopKey
  <2>4. typed' \in 0 .. MaxTyped /\ typed <= typed'
    BY <2>1, TypedIsNew
  <2>. QED  BY <2>1, <2>2, <2>3, <2>4, QuietStep DEF ConsoleInv
<1>5. ASSUME NEW k \in Keys, SerialArrives(k) PROVE ConsoleInv'
  <2>1. /\ Type(k) /\ serial' = Append(serial, k)
        /\ UNCHANGED <<ring, line, input, ran, pc, key>>
    BY <1>5 DEF SerialArrives, lines, loop
  <2>2. RingInv' /\ Pending' = Pending
    BY <1>1, <2>1, RingElsewhere
  <2>3. LoopKey' = LoopKey /\ ChatLoopKey' = ChatLoopKey
    BY <2>1 DEF LoopKey, ChatLoopKey
  <2>. QED  BY <2>1, <2>2, <2>3, ArrivalStep DEF ConsoleInv
<1>6. ASSUME \/ OtherIrq \/ LockKeys \/ NothingToRead \/ Halt \/ Spin \/ UNCHANGED vars
      PROVE  ConsoleInv'
  <2>1. /\ UNCHANGED <<ring, serial, line, input, ran, typed>>
        /\ LoopKey' = LoopKey /\ ChatLoopKey' = ChatLoopKey
    BY <1>6 DEF OtherIrq, Woken, LockKeys, NothingToRead, Halt, Spin, vars, loop, lines,
                typing, LoopKey, ChatLoopKey
  <2>2. RingInv' /\ Pending' = Pending
    BY <1>1, <2>1, RingElsewhere
  <2>3. typed' \in 0 .. MaxTyped /\ typed <= typed'
    BY <1>1, <1>2, <2>1
  <2>. QED  BY <2>1, <2>2, <2>3, QuietStep DEF ConsoleInv
<1>7. CASE PopKey
  <2>1. /\ pc = "pop" /\ UNCHANGED <<serial, line, input, ran, typed>>
    BY <1>7 DEF PopKey, lines, typing
  <2>2. /\ RingInv'
        /\ \/ Pending' = Pending /\ pc' = "serial"
           \/ pc' = "chat" /\ Pending = <<key'>> \o Pending' /\ Pending' \in Seq(Contents)
    BY <1>1, <1>7, PopStep
  <2>3. CASE Pending' = Pending /\ pc' = "serial"
    <3>1. LoopKey' = LoopKey /\ ChatLoopKey' = ChatLoopKey
      BY <2>1, <2>3 DEF LoopKey, ChatLoopKey
    <3>2. typed' \in 0 .. MaxTyped /\ typed <= typed'
      BY <1>1, <1>2, <2>1
    <3>. QED  BY <2>1, <2>2, <2>3, <3>1, <3>2, QuietStep DEF ConsoleInv
  <2>4. CASE pc' = "chat" /\ Pending = <<key'>> \o Pending' /\ Pending' \in Seq(Contents)
    BY <2>1, <2>2, <2>4, PopMoves DEF ConsoleInv
  <2>. QED  BY <2>2, <2>3, <2>4
<1>8. CASE ChatKey
  BY <1>8, ChatMoves DEF ConsoleInv
<1>9. CASE EchoKey
  BY <1>9, EchoMoves DEF ConsoleInv
<1>10. CASE SerialByte
  BY <1>10, SerialMoves DEF ConsoleInv
<1>. QED  BY <1>3, <1>4, <1>5, <1>6, <1>7, <1>8, <1>9, <1>10 DEF Next, Loop

\* NothingRunsTwiceFromALine for a ring and lines of any length: whatever is typed
\* on the two inputs, no character is in two commands that the same line has run
\* (interactive_loop of guardian.rs, key_input of chat_ui.rs).
THEOREM NoCharacterRunsTwice == Spec => []NothingRunsTwiceFromALine
<1>1. ConsoleInv => NothingRunsTwiceFromALine
  <2>1. SUFFICES ASSUME ConsoleInv, NEW i \in DOMAIN ran, NEW j \in DOMAIN ran,
                        i < j, ran[i][1] = ran[j][1]
                 PROVE  Range(ran[i][2]) \cap Range(ran[j][2]) = {}
    BY DEF NothingRunsTwiceFromALine
  <2>2. ran[i] \in Runs
    BY <2>1, ElementOfSeq, LenProperties DEF ConsoleInv, LinesInv
  <2>3. ran[i][1] \in {"line", "chat"}
    BY <2>2 DEF Runs
  <2>. QED  BY <2>1, <2>3 DEF ConsoleInv, FreshLines, Fresh
<1>. QED  BY <1>1, ConsoleStarts, ConsoleStep, PTL DEF Spec

-----------------------------------------------------------------------------
(* Types. *)

\* Where the loop is, and how long the lines are.
ConsoleTypes ==
    /\ pc \in {"poll", "pop", "chat", "echo", "serial", "halt", "halted"}
    /\ locked <=> pc = "pop"
    /\ Len(line) <= LineMax /\ Len(input) <= InputMax

\* Editing a line keeps it within its buffer.
LEMMA EditedFits ==
    ASSUME NEW l \in Seq(Characters), NEW k, NEW max \in Nat, Len(l) <= max
    PROVE  Len(Edited(l, k, max)) <= max
<1>1. Len(l) \in Nat
  BY LenProperties
<1>2. CASE k \in Characters /\ Len(l) < max /\ Edited(l, k, max) = Append(l, k)
  <2>1. Len(Append(l, k)) = Len(l) + 1
    BY <1>2, AppendProperties
  <2>. QED  BY <1>1, <1>2, <2>1
<1>3. CASE l # <<>> /\ Edited(l, k, max) = Front(l)
  <2>1. Len(l) >= 1
    BY <1>1, <1>3, EmptySeq
  <2>2. Len(Front(l)) = Len(l) - 1
    <3>. DEFINE n == Len(l) - 1
    <3>1. n \in Nat /\ n + 1 = Len(l) /\ \A i \in 1 .. n : l[i] \in Characters
      BY <1>1, <2>1, ElementOfSeq
    <3>2. Front(l) = SubSeq(l, 1, n)
      BY DEF Front
    <3>. HIDE DEF n
    <3>3. Len(SubSeq(l, 1, n)) = IF 1 <= n THEN n - 1 + 1 ELSE 0
      BY <3>1, SubSeqProperties
    <3>. QED  BY <3>1, <3>2, <3>3 DEF n
  <2>. QED  BY <1>1, <1>3, <2>1, <2>2
<1>. QED  BY <1>2, <1>3 DEF Edited

\* Every step keeps the types.
LEMMA TypesStep ==
    ASSUME ConsoleInv, ConsoleTypes, [Next]_vars
    PROVE  ConsoleTypes'
<1>1. /\ line \in Seq(Characters) /\ input \in Seq(Characters)
      /\ LineMax \in Nat /\ InputMax \in Nat
  BY Numbers DEF ConsoleInv, LinesInv
<1>2. Len(<<>>) = 0
  OBVIOUS
<1>3. ASSUME \/ \E k \in Keys : KeyboardIrq(k) \/ KeyboardIrqSpins(k) \/ SerialArrives(k)
             \/ OtherIrq \/ LockKeys \/ PopKey \/ NothingToRead \/ Halt \/ Spin
             \/ UNCHANGED vars
      PROVE  ConsoleTypes'
  <2>1. UNCHANGED <<line, input>>
    BY <1>3 DEF KeyboardIrq, KeyboardIrqSpins, SerialArrives, OtherIrq, LockKeys, PopKey,
                NothingToRead, Halt, Spin, vars, lines
  <2>2. /\ pc' \in {"poll", "pop", "chat", "echo", "serial", "halt", "halted"}
        /\ locked' <=> pc' = "pop"
    BY <1>3 DEF ConsoleTypes, KeyboardIrq, KeyboardIrqSpins, SerialArrives, OtherIrq,
                Woken, LockKeys, PopKey, NothingToRead, Halt, Spin, vars, loop
  <2>. QED  BY <2>1, <2>2 DEF ConsoleTypes
<1>4. CASE ChatKey
  <2>1. /\ pc' = "echo" /\ pc = "chat" /\ locked' = locked /\ line' = line
        /\ input' \in {input, <<>>, Edited(input, key, InputMax)}
    BY <1>4 DEF ChatKey
  <2>2. Len(input') <= InputMax
    BY <1>1, <1>2, <2>1, EditedFits DEF ConsoleTypes
  <2>. QED  BY <2>1, <2>2 DEF ConsoleTypes
<1>5. ASSUME EchoKey \/ SerialByte PROVE ConsoleTypes'
  <2>1. /\ pc' = "poll" /\ pc \in {"echo", "serial"} /\ locked' = locked /\ input' = input
        /\ \E k : line' \in {<<>>, Edited(line, k, LineMax)}
    BY <1>5 DEF EchoKey, SerialByte, LineTakes
  <2>2. Len(line') <= LineMax
    BY <1>1, <1>2, <2>1, EditedFits DEF ConsoleTypes
  <2>. QED  BY <2>1, <2>2 DEF ConsoleTypes
<1>. QED  BY <1>3, <1>4, <1>5 DEF Next, Loop

\* TypeOK for a ring and lines of any length: in particular the lock is held at
\* one place of the loop, and neither line grows over its buffer.
THEOREM ConsoleTypeOK == Spec => []TypeOK
<1>1. Init => ConsoleTypes
  <2>1. Len(<<>>) = 0
    OBVIOUS
  <2>. QED  BY <2>1, Numbers DEF Init, ConsoleTypes
<1>2. ConsoleInv /\ ConsoleTypes => TypeOK
  <2>1. SUFFICES ASSUME ConsoleInv, ConsoleTypes PROVE TypeOK
    OBVIOUS
  <2>2. Range(Pending) \in SUBSET Keys /\ Range(serial) \in SUBSET Keys
    BY <2>1, RangeOfSeq DEF ConsoleInv, LinesInv
  <2>3. pc \in {"chat", "echo"} => key \in Keys
    BY <2>1 DEF ConsoleInv, LinesInv, LoopKey
  <2>. QED  BY <2>1, <2>2, <2>3 DEF TypeOK, ConsoleTypes, ConsoleInv, RingInv, Positions
<1>. QED  BY <1>1, <1>2, ConsoleStarts, ConsoleStep, TypesStep, PTL DEF Spec
=============================================================================
