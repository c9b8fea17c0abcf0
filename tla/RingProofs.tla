----------------------------- MODULE RingProofs -----------------------------
(***************************************************************************)
(* Theorems about the rings of the kernel, for every capacity: a channel   *)
(* is a bounded queue (Channel), dmesg shows the latest notes, and the     *)
(* hash chain of the audit log shows a change of a hashed field of any     *)
(* entry it still has (KernelLogs).                                        *)
(*                                                                         *)
(* What the proofs have to deal with is the arithmetic of positions.  All  *)
(* sums of positions stay below twice the capacity, so a remainder is the  *)
(* number itself or the number less the capacity.                          *)
(***************************************************************************)
EXTENDS Channel, KernelLogs, SequenceTheorems, TLAPS

\* A remainder of a sum of two positions.
Wrap(a, n) == IF a < n THEN a ELSE a - n

\* One subtraction is enough for a remainder.
LEMMA Wraps ==
    ASSUME NEW n \in Nat \ {0}, NEW a \in 0 .. 2 * n - 1
    PROVE  a % n = Wrap(a, n)
<1>1. CASE a < n
  BY <1>1, SMT DEF Wrap
<1>2. CASE a >= n
  BY <1>2, SMT DEF Wrap
<1>. QED  BY <1>1, <1>2

-----------------------------------------------------------------------------
(* Channel. *)

\* The slot i places after slot t.
At(t, i) == Wrap(t + i, ChannelCapacity)

\* How far p is from t, going round.
Offset(p, t) == IF p >= t THEN p - t ELSE p + ChannelCapacity - t

\* A number of messages, and where they begin.
LEMMA Places ==
    ASSUME NEW t \in Positions, NEW c \in 0 .. ChannelCapacity
    PROVE  /\ After(t) = At(t, 1) /\ (t + c) % ChannelCapacity = At(t, c)
           /\ \A i \in 0 .. c - 1 : (t + i) % ChannelCapacity = At(t, i)
           /\ \A i \in 1 .. c : (t + i - 1) % ChannelCapacity = At(t, i - 1)
<1>1. ChannelCapacity \in Nat \ {0} /\ t \in 0 .. ChannelCapacity - 1
  BY ChannelAssumption DEF Positions
<1>2. \A i \in 0 .. ChannelCapacity : (t + i) % ChannelCapacity = At(t, i)
  BY <1>1, SMT DEF At, Wrap
<1>3. \A i \in 1 .. c : (t + i - 1) % ChannelCapacity = At(t, i - 1)
  BY <1>1, SMT DEF At, Wrap
<1>4. 1 \in 0 .. ChannelCapacity /\ c \in 0 .. ChannelCapacity
      /\ 0 .. c - 1 \subseteq 0 .. ChannelCapacity
  BY <1>1
<1>. QED  BY <1>2, <1>3, <1>4 DEF After

\* The slots that c messages from t on take up.
LEMMA Occupied ==
    ASSUME NEW t \in Positions, NEW c \in 0 .. ChannelCapacity, NEW p \in Positions
    PROVE  p \in {(t + i) % ChannelCapacity : i \in 0 .. c - 1} <=> Offset(p, t) < c
<1>0. /\ ChannelCapacity \in Nat \ {0} /\ c \in 0 .. ChannelCapacity
      /\ t \in 0 .. ChannelCapacity - 1 /\ p \in 0 .. ChannelCapacity - 1
  BY ChannelAssumption DEF Positions
<1>1. ASSUME NEW i \in 0 .. c - 1, p = At(t, i) PROVE Offset(p, t) < c
  BY <1>0, <1>1 DEF Offset, At, Wrap
<1>2. ASSUME Offset(p, t) < c
      PROVE  Offset(p, t) \in 0 .. c - 1 /\ p = At(t, Offset(p, t))
  BY <1>0, <1>2 DEF Offset, At, Wrap
<1>3. p \in {At(t, i) : i \in 0 .. c - 1} <=> Offset(p, t) < c
  BY <1>1, <1>2
<1>. QED  BY <1>3, Places

\* A message that is offered is one that fits.
LEMMA MessagesFit ==
    ASSUME NEW s \in Senders, NEW n \in Payloads
    PROVE  Message(s, n) \in Messages /\ Message(s, n) # NoMessage
BY ChannelAssumption DEF Message, Messages, NoMessage

RingInv == ChannelTypeOK /\ RingIsConsistent

\* The invariant of the ring, with the arithmetic done.
RingShape(b, h, t, c) ==
    /\ c \in 0 .. ChannelCapacity /\ h \in Positions /\ t \in Positions
    /\ b \in [Positions -> Messages \cup {NoMessage}]
    /\ h = At(t, c)
    /\ \A p \in Positions : b[p] # NoMessage <=> Offset(p, t) < c

\* The invariant in terms of offsets from the tail, now ...
LEMMA RingInvMeans == RingInv <=> RingShape(buffer, head, tail, count)
BY Occupied, Places
   DEF RingInv, RingShape, ChannelTypeOK, RingIsConsistent, InRing

\* ... and after a step.
LEMMA RingInvMeansNext == RingInv' <=> RingShape(buffer', head', tail', count')
BY Occupied, Places
   DEF RingInv, RingShape, ChannelTypeOK, RingIsConsistent, InRing

\* The messages that wait, by their slots.
LEMMA WaitingMeans ==
    ASSUME RingInv
    PROVE  Waiting = [i \in 1 .. count |-> buffer[At(tail, i - 1)]]
BY Places DEF RingInv, ChannelTypeOK, Waiting

\* What waits after a step, by position.
LEMMA WaitingMeansNext ==
    ASSUME RingInv'
    PROVE  Waiting' = [i \in 1 .. count' |-> buffer'[At(tail', i - 1)]]
BY Places DEF RingInv, ChannelTypeOK, Waiting

\* What a send does to the ring.
LEMMA SendStep ==
    ASSUME RingInv, NEW message \in Messages, message # NoMessage, ChanSend(message)
    PROVE  RingInv' /\ Waiting' = Append(Waiting, message)
<1>. DEFINE N == ChannelCapacity
<1>1. /\ N \in Nat \ {0} /\ tail \in 0 .. N - 1 /\ head \in 0 .. N - 1
      /\ count \in 0 .. N /\ count < N /\ Positions = 0 .. N - 1
      /\ buffer \in [Positions -> Messages \cup {NoMessage}]
      /\ head = At(tail, count)
      /\ \A p \in Positions : buffer[p] # NoMessage <=> Offset(p, tail) < count
  BY ChannelAssumption, RingInvMeans DEF RingShape, Positions, ChanSend
<1>2. /\ head' = At(head, 1) /\ tail' = tail /\ count' = count + 1
      /\ buffer' = [buffer EXCEPT ![head] = message]
  BY <1>1, Places DEF ChanSend
<1>3. /\ count' \in 0 .. N /\ head' \in Positions /\ tail' \in Positions
      /\ buffer' \in [Positions -> Messages \cup {NoMessage}]
      /\ head' = At(tail', count')
  BY <1>1, <1>2 DEF At, Wrap
<1>4. ASSUME NEW p \in Positions
      PROVE  buffer'[p] # NoMessage <=> Offset(p, tail') < count'
  <2>1. p = head <=> Offset(p, tail) = count
    BY <1>1 DEF At, Wrap, Offset
  <2>2. Offset(p, tail) \in Nat
    BY <1>1 DEF Offset
  <2>. QED  BY <1>1, <1>2, <2>1, <2>2
<1>5. RingInv'
  BY <1>3, <1>4, RingInvMeansNext DEF RingShape
<1>6. Waiting' = Append(Waiting, message)
  <2>1. /\ Waiting = [i \in 1 .. count |-> buffer[At(tail, i - 1)]]
        /\ Waiting' = [i \in 1 .. count + 1 |-> buffer'[At(tail, i - 1)]]
    BY <1>2, <1>5, WaitingMeans, WaitingMeansNext
  <2>2. ASSUME NEW i \in 1 .. count
        PROVE  buffer'[At(tail, i - 1)] = buffer[At(tail, i - 1)]
    BY <1>1, <1>2 DEF At, Wrap
  <2>3. buffer'[At(tail, count)] = message
    BY <1>1, <1>2
  <2>4. Waiting \in Seq(Range(buffer)) /\ Len(Waiting) = count
    <3>1. \A i \in 1 .. count : buffer[At(tail, i - 1)] \in Range(buffer)
      BY <1>1 DEF Range, At, Wrap
    <3>. QED  BY <1>1, <2>1, <3>1
  <2>. QED  BY <1>1, <2>1, <2>2, <2>3, <2>4
<1>. QED  BY <1>5, <1>6

\* What a receive does to the ring.
LEMMA RecvStep ==
    ASSUME RingInv, ChanRecv
    PROVE  /\ RingInv' /\ Waiting # <<>> /\ Waiting' = Tail(Waiting)
           /\ Head(Waiting) = buffer[tail]
<1>. DEFINE N == ChannelCapacity
<1>1. /\ N \in Nat \ {0} /\ tail \in 0 .. N - 1 /\ head \in 0 .. N - 1
      /\ count \in 0 .. N /\ count > 0 /\ Positions = 0 .. N - 1
      /\ buffer \in [Positions -> Messages \cup {NoMessage}]
      /\ head = At(tail, count)
      /\ \A p \in Positions : buffer[p] # NoMessage <=> Offset(p, tail) < count
  BY ChannelAssumption, RingInvMeans DEF RingShape, Positions, ChanRecv
<1>2. /\ head' = head /\ tail' = At(tail, 1) /\ count' = count - 1
      /\ buffer' = [buffer EXCEPT ![tail] = NoMessage]
  BY <1>1, Places DEF ChanRecv
<1>3. /\ count' \in 0 .. N /\ head' \in Positions /\ tail' \in Positions
      /\ buffer' \in [Positions -> Messages \cup {NoMessage}]
      /\ head' = At(tail', count')
  BY <1>1, <1>2 DEF At, Wrap
<1>4. ASSUME NEW p \in Positions
      PROVE  buffer'[p] # NoMessage <=> Offset(p, tail') < count'
  <2>1. p # tail => Offset(p, tail') = Offset(p, tail) - 1
    BY <1>1, <1>2 DEF At, Wrap, Offset
  <2>2. p = tail => Offset(p, tail') = N - 1
    BY <1>1, <1>2 DEF At, Wrap, Offset
  <2>3. Offset(p, tail) \in Nat
    BY <1>1 DEF Offset
  <2>. QED  BY <1>1, <1>2, <2>1, <2>2, <2>3
<1>5. RingInv'
  BY <1>3, <1>4, RingInvMeansNext DEF RingShape
<1>6. /\ Waiting = [i \in 1 .. count |-> buffer[At(tail, i - 1)]]
      /\ Waiting' = [i \in 1 .. count - 1 |-> buffer'[At(tail', i - 1)]]
  BY <1>2, <1>5, WaitingMeans, WaitingMeansNext
<1>7. Waiting \in Seq(Range(buffer)) /\ Len(Waiting) = count
  <2>1. \A i \in 1 .. count : buffer[At(tail, i - 1)] \in Range(buffer)
    BY <1>1 DEF Range, At, Wrap
  <2>. QED  BY <1>1, <1>6, <2>1
<1>8. Waiting # <<>> /\ Head(Waiting) = buffer[tail]
  <2>1. At(tail, 0) = tail
    BY <1>1 DEF At, Wrap
  <2>2. 1 \in 1 .. count /\ 1 - 1 = 0
    BY <1>1
  <2>3. Waiting[1] = buffer[tail]
    BY <1>6, <2>1, <2>2
  <2>4. Waiting # <<>>
    BY <1>1, <1>7, EmptySeq
  <2>. QED  BY <1>7, <2>3, <2>4, HeadTailProperties
<1>9. ASSUME NEW i \in 1 .. count - 1
      PROVE  buffer'[At(tail', i - 1)] = buffer[At(tail, i)]
  BY <1>1, <1>2 DEF At, Wrap
<1>10. Waiting' = Tail(Waiting)
  <2>1. /\ Len(Tail(Waiting)) = count - 1
        /\ \A i \in 1 .. count - 1 : Tail(Waiting)[i] = Waiting[i + 1]
        /\ Tail(Waiting) \in Seq(Range(buffer))
    BY <1>1, <1>7, <1>8, HeadTailProperties
  <2>2. \A i \in 1 .. count - 1 : Waiting[i + 1] = buffer[At(tail, i)]
    BY <1>1, <1>6
  <2>3. \A i \in 1 .. count - 1 : Tail(Waiting)[i] = buffer'[At(tail', i - 1)]
    BY <1>9, <2>1, <2>2
  <2>. DEFINE rest == Tail(Waiting)
  <2>4. rest = [i \in 1 .. count - 1 |-> rest[i]]
    <3>1. rest \in Seq(Range(buffer)) /\ Len(rest) = count - 1
      BY <2>1
    <3>. HIDE DEF rest
    <3>. QED  BY <3>1, LenProperties
  <2>. QED  BY <1>6, <2>3, <2>4
<1>. QED  BY <1>5, <1>8, <1>10

\* The invariant holds of an empty ring.
LEMMA RingInitInv == ChannelInit => RingInv
<1>. SUFFICES ASSUME ChannelInit PROVE RingInv
  OBVIOUS
<1>1. /\ ChannelCapacity \in Nat \ {0} /\ head = 0 /\ tail = 0 /\ count = 0
      /\ buffer = [p \in Positions |-> NoMessage] /\ Positions = 0 .. ChannelCapacity - 1
  BY ChannelAssumption DEF ChannelInit, Positions
<1>2. At(0, 0) = 0 /\ \A p \in Positions : Offset(p, 0) >= 0
  BY <1>1 DEF At, Wrap, Offset
<1>3. RingShape(buffer, head, tail, count)
  BY <1>1, <1>2 DEF RingShape, Offset
<1>. QED  BY <1>3, RingInvMeans

\* A refused call and a call that is not made leave the ring alone.
LEMMA RingStays ==
    ASSUME RingInv, UNCHANGED <<buffer, head, tail, count>>
    PROVE  RingInv' /\ Waiting' = Waiting
BY DEF RingInv, ChannelTypeOK, RingIsConsistent, InRing, Waiting

\* Sending and receiving keep the invariant.
LEMMA RingNextInv == RingInv /\ [ChannelNext]_channelVars => RingInv'
<1>. SUFFICES ASSUME RingInv, [ChannelNext]_channelVars PROVE RingInv'
  OBVIOUS
<1>1. CASE \E s \in Senders, n \in Payloads : ChanSend(Message(s, n))
  BY <1>1, MessagesFit, SendStep
<1>2. CASE ChanRecv
  BY <1>2, RecvStep
<1>3. CASE (\E s \in Senders, n \in Payloads : ChanSendFull(Message(s, n)))
              \/ ChanRecvEmpty \/ UNCHANGED channelVars
  BY <1>3, RingStays DEF ChanSendFull, ChanRecvEmpty, channelVars
<1>. QED  BY <1>1, <1>2, <1>3 DEF ChannelNext

\* Positions and count always agree, and the occupied slots are those between
\* the positions.
THEOREM RingStaysConsistent == ChannelSpec => []RingIsConsistent
<1>1. RingInv => RingIsConsistent
  BY DEF RingInv
<1>. QED  BY <1>1, RingInitInv, RingNextInv, PTL DEF ChannelSpec

\* Each call on a channel is the same call on a bounded queue, with the same
\* answer.
LEMMA QueueStep ==
    ASSUME RingInv, ChannelNext
    PROVE  Queue!QueueNext
<1>. DEFINE Answer(r) == IF r \in {<<"full">>, <<"empty">>} THEN <<"refused">> ELSE r
<1>0. ChannelCapacity \in Nat \ {0} /\ count \in 0 .. ChannelCapacity
      /\ Len(Waiting) = count
  BY ChannelAssumption DEF RingInv, ChannelTypeOK, Waiting
<1>1. ASSUME NEW s \in Senders, NEW n \in Payloads, ChanSend(Message(s, n))
      PROVE  Queue!Put(Message(s, n))
  <2>1. Waiting' = Append(Waiting, Message(s, n)) /\ count < ChannelCapacity
    BY <1>1, MessagesFit, SendStep DEF ChanSend
  <2>2. call' = <<"put", Message(s, n)>> /\ Answer(reply') = <<"ok">>
    BY <1>1 DEF ChanSend
  <2>. QED  BY <1>0, <2>1, <2>2 DEF Queue!Put
<1>2. ASSUME NEW s \in Senders, NEW n \in Payloads, ChanSendFull(Message(s, n))
      PROVE  Queue!Put(Message(s, n))
  <2>1. Waiting' = Waiting /\ ~(count < ChannelCapacity)
    BY <1>0, <1>2, RingStays DEF ChanSendFull
  <2>2. call' = <<"put", Message(s, n)>> /\ Answer(reply') = <<"refused">>
    BY <1>2 DEF ChanSendFull
  <2>. QED  BY <1>0, <2>1, <2>2 DEF Queue!Put, Queue!Refuse
<1>3. CASE ChanRecv
  <2>1. /\ Waiting # <<>> /\ Waiting' = Tail(Waiting)
        /\ Head(Waiting) = buffer[tail]
    BY <1>3, RecvStep
  <2>2. call' = <<"get">> /\ Answer(reply') = <<"got", buffer[tail]>>
    BY <1>3 DEF ChanRecv
  <2>3. Queue!Get
    BY <2>1, <2>2 DEF Queue!Get
  <2>. QED  BY <2>3 DEF Queue!QueueNext
<1>4. CASE ChanRecvEmpty
  <2>1. Waiting = <<>> /\ Waiting' = Waiting
    BY <1>0, <1>4, RingStays DEF ChanRecvEmpty, Waiting
  <2>2. call' = <<"get">> /\ Answer(reply') = <<"refused">>
    BY <1>4 DEF ChanRecvEmpty
  <2>3. Queue!Get
    BY <2>1, <2>2 DEF Queue!Get, Queue!Refuse
  <2>. QED  BY <2>3 DEF Queue!QueueNext
<1>5. \A s \in Senders, n \in Payloads : Message(s, n) \in Messages
  BY MessagesFit
<1>. QED
  BY <1>1, <1>2, <1>3, <1>4, <1>5 DEF ChannelNext, Queue!QueueNext

\* The ring implements the bounded queue: nothing is lost, repeated or
\* reordered, and only a full or an empty ring refuses.
THEOREM RingIsAQueue == ChannelSpec => ChannelIsAQueue
<1>1. ChannelInit => Queue!QueueInit
  BY DEF ChannelInit, Queue!QueueInit, Waiting
<1>2. RingInv /\ [ChannelNext]_channelVars =>
        [Queue!QueueNext]_<<Waiting, call,
           IF reply \in {<<"full">>, <<"empty">>} THEN <<"refused">> ELSE reply>>
  BY QueueStep, RingStays DEF channelVars
<1>. QED
  BY <1>1, <1>2, RingInitInv, RingNextInv, PTL
     DEF ChannelSpec, ChannelIsAQueue, Queue!QueueSpec

-----------------------------------------------------------------------------
(* Klog. *)

\* The slot of the i-th newest note, for a write position h.
Newest(h, i) == Wrap(h + LogSize - i, LogSize)

\* The ring holds the latest notes, back from the write position, and has
\* wrapped unless that is the number of notes.
KlogInv ==
    /\ klog_head \in 0 .. LogSize - 1 /\ klog_total \in Nat
    /\ klog_entries \in [0 .. LogSize - 1 -> Notes \cup {NoEntry}]
    /\ logged \in Seq(Notes) /\ Len(logged) = klog_total
    /\ klog_total < LogSize => klog_head = klog_total
    /\ \A i \in 1 .. LogSize : i <= klog_total =>
          klog_entries[Newest(klog_head, i)] = logged[klog_total + 1 - i]

\* The invariant holds of an empty log.
LEMMA KlogInitInv == KlogInit => KlogInv
<1>. SUFFICES ASSUME KlogInit PROVE KlogInv
  OBVIOUS
<1>. QED  BY KernelLogsAssumption, EmptySeq DEF KlogInit, KlogInv

\* Logging keeps the invariant.
LEMMA KlogNextInv == KlogInv /\ [KlogNext]_klogVars => KlogInv'
<1>. SUFFICES ASSUME KlogInv, [KlogNext]_klogVars PROVE KlogInv'
  OBVIOUS
<1>1. CASE UNCHANGED klogVars
  BY <1>1 DEF klogVars, KlogInv
<1>2. CASE KlogNext
  <2>0. LogSize \in Nat \ {0}
    BY KernelLogsAssumption
  <2>1. PICK note \in Notes : Log(note)
    BY <1>2 DEF KlogNext
  <2>2. /\ klog_head \in 0 .. LogSize - 1 /\ klog_total \in Nat
        /\ klog_entries \in [0 .. LogSize - 1 -> Notes \cup {NoEntry}]
        /\ logged \in Seq(Notes) /\ Len(logged) = klog_total
        /\ klog_total < LogSize => klog_head = klog_total
    BY DEF KlogInv
  <2>3. klog_head' = Wrap(klog_head + 1, LogSize)
    <3>1. klog_head + 1 \in 0 .. 2 * LogSize - 1
      BY <2>0, <2>2
    <3>. QED  BY <2>0, <2>1, <3>1, Wraps DEF Log
  <2>4. /\ klog_entries' = [klog_entries EXCEPT ![klog_head] = note]
        /\ klog_total' = klog_total + 1 /\ logged' = Append(logged, note)
    BY <2>1 DEF Log
  <2>5. /\ klog_head' \in 0 .. LogSize - 1 /\ klog_total' \in Nat
        /\ klog_entries' \in [0 .. LogSize - 1 -> Notes \cup {NoEntry}]
        /\ klog_total' < LogSize => klog_head' = klog_total'
    BY <2>0, <2>2, <2>3, <2>4 DEF Wrap
  <2>6. /\ logged' \in Seq(Notes) /\ Len(logged') = klog_total'
        /\ logged'[klog_total + 1] = note
        /\ \A i \in 1 .. klog_total : logged'[i] = logged[i]
    BY <2>2, <2>4, AppendProperties
  <2>7. ASSUME NEW i \in 1 .. LogSize, i <= klog_total'
        PROVE  klog_entries'[Newest(klog_head', i)] = logged'[klog_total' + 1 - i]
    <3>1. CASE i = 1
      <4>1. Newest(klog_head', i) = klog_head /\ klog_total' + 1 - i = klog_total + 1
        BY <2>0, <2>2, <2>3, <2>4, <3>1 DEF Newest, Wrap
      <4>. QED  BY <2>2, <2>4, <2>6, <4>1
    <3>2. CASE i > 1
      <4>. DEFINE j == i - 1
      <4>1. /\ j \in 1 .. LogSize /\ j <= klog_total
            /\ klog_total' + 1 - i = klog_total + 1 - j
            /\ klog_total + 1 - j \in 1 .. klog_total
        BY <2>0, <2>2, <2>4, <2>7, <3>2
      <4>2. /\ Newest(klog_head', i) = Newest(klog_head, j)
            /\ Newest(klog_head, j) # klog_head
            /\ Newest(klog_head, j) \in 0 .. LogSize - 1
        BY <2>0, <2>2, <2>3, <3>2 DEF Newest, Wrap
      <4>3. klog_entries[Newest(klog_head, j)] = logged[klog_total + 1 - j]
        BY <4>1 DEF KlogInv
      <4>. HIDE DEF j
      <4>. QED  BY <2>2, <2>4, <2>6, <4>1, <4>2, <4>3
    <3>. QED  BY <3>1, <3>2
  <2>. QED  BY <2>5, <2>6, <2>7 DEF KlogInv
<1>. QED  BY <1>1, <1>2

\* However often the ring has wrapped and however many notes are asked for,
\* dmesg prints the latest of them, the oldest first.
THEOREM DmesgIsRight == KlogSpec => []DmesgShowsTheLatest
<1>1. ASSUME KlogInv, NEW n \in 0 .. LogSize + 1
      PROVE  Recent(n) = LET shown == LesserOf(LesserOf(n, LogSize), Len(logged))
                         IN SubSeq(logged, Len(logged) - shown + 1, Len(logged))
  <2>. DEFINE shown == LesserOf(LesserOf(n, LogSize), klog_total)
              start == IF klog_total >= LogSize
                         THEN (klog_head + LogSize - shown) % LogSize
                         ELSE klog_total - shown
  <2>1. /\ LogSize \in Nat \ {0} /\ klog_head \in 0 .. LogSize - 1 /\ klog_total \in Nat
        /\ logged \in Seq(Notes) /\ Len(logged) = klog_total
        /\ klog_total < LogSize => klog_head = klog_total
    BY <1>1, KernelLogsAssumption DEF KlogInv
  <2>2. shown \in 0 .. LogSize /\ shown <= klog_total /\ (klog_total >= LogSize \/ shown <= klog_head)
    BY <2>1 DEF LesserOf
  <2>. HIDE DEF shown
  <2>3. start = Newest(klog_head, shown) \/ shown = 0
    <3>1. CASE klog_total >= LogSize
      <4>1. klog_head + LogSize - shown \in 0 .. 2 * LogSize - 1 \/ shown = 0
        BY <2>1, <2>2
      <4>. QED  BY <2>1, <3>1, <4>1, Wraps DEF Newest
    <3>2. CASE klog_total < LogSize
      BY <2>1, <2>2, <3>2 DEF Newest, Wrap
    <3>. QED  BY <2>1, <3>1, <3>2
  <2>4. ASSUME NEW i \in 1 .. shown
        PROVE  klog_entries[(start + i - 1) % LogSize] = logged[klog_total - shown + i]
    <3>. DEFINE j == shown + 1 - i
    <3>1. /\ j \in 1 .. LogSize /\ j <= klog_total
          /\ klog_total + 1 - j = klog_total - shown + i
      BY <2>1, <2>2
    <3>2. (start + i - 1) % LogSize = Newest(klog_head, j)
      <4>1. start = Newest(klog_head, shown)
        BY <2>2, <2>3
      <4>. HIDE DEF start
      <4>2. start + i - 1 \in 0 .. 2 * LogSize - 1
        BY <2>1, <2>2, <4>1 DEF Newest, Wrap
      <4>3. (start + i - 1) % LogSize = Wrap(start + i - 1, LogSize)
        BY <2>1, <4>2, Wraps
      <4>. QED  BY <2>1, <2>2, <4>1, <4>3 DEF Newest, Wrap
    <3>. HIDE DEF j, start
    <3>. QED  BY <1>1, <3>1, <3>2 DEF KlogInv
  <2>5. Recent(n) = [i \in 1 .. shown |-> logged[klog_total - shown + i]]
    BY <2>4 DEF Recent, shown
  <2>6. SubSeq(logged, klog_total - shown + 1, klog_total)
           = [i \in 1 .. shown |-> logged[klog_total - shown + i]]
    BY <2>1, <2>2
  <2>. QED  BY <2>1, <2>5, <2>6 DEF shown
<1>2. KlogInv => DmesgShowsTheLatest
  BY <1>1 DEF DmesgShowsTheLatest
<1>. QED  BY <1>2, KlogInitInv, KlogNextInv, PTL DEF KlogSpec

-----------------------------------------------------------------------------
(* AuditLog. *)

\* The fields of an entry.
IsEntry(e) ==
    e = [event |-> e.event, details |-> e.details, prev_hash |-> e.prev_hash]

Kept == LesserOf(audit_total, AuditRingSize)

\* The slot of the i-th of k entries that end before position h.
KeptAt(h, k, i) == Wrap(h + AuditRingSize - k + i - 1, AuditRingSize)

\* The positions are those of the entries that are kept, and these form a chain
\* that ends in last_hash.
AuditInv ==
    /\ audit_head \in 0 .. AuditRingSize - 1 /\ audit_total \in Nat
    /\ DOMAIN audit_entries = 0 .. AuditRingSize - 1
    /\ audit_entries = [i \in 0 .. AuditRingSize - 1 |-> audit_entries[i]]
    /\ audit_total < AuditRingSize => audit_head = audit_total
    /\ \A i \in 1 .. Kept : IsEntry(audit_entries[KeptAt(audit_head, Kept, i)])
    /\ \A i \in 1 .. Kept : i < Kept =>
          audit_entries[KeptAt(audit_head, Kept, i + 1)].prev_hash
            = Hash(audit_entries[KeptAt(audit_head, Kept, i)])
    /\ Kept > 0 => last_hash = Hash(audit_entries[KeptAt(audit_head, Kept, Kept)])

\* The entries that are kept, by their slots.
LEMMA RetainedMeans ==
    ASSUME AuditInv
    PROVE  /\ Kept \in 0 .. AuditRingSize
           /\ DOMAIN Retained = 1 .. Kept /\ Len(Retained) = Kept
           /\ \A i \in 1 .. Kept :
                 Retained[i] = audit_entries[KeptAt(audit_head, Kept, i)]
<1>1. /\ AuditRingSize \in Nat \ {0} /\ audit_head \in 0 .. AuditRingSize - 1
      /\ audit_total \in Nat
  BY KernelLogsAssumption DEF AuditInv
<1>2. Kept \in 0 .. AuditRingSize
  BY <1>1 DEF Kept, LesserOf
<1>3. Retained = [i \in 1 .. Kept |->
          audit_entries[(audit_head + AuditRingSize - Kept + i - 1) % AuditRingSize]]
  BY DEF Retained, Kept
<1>. HIDE DEF Kept
<1>4. ASSUME NEW i \in 1 .. Kept
      PROVE  (audit_head + AuditRingSize - Kept + i - 1) % AuditRingSize
                = KeptAt(audit_head, Kept, i)
  <2>1. audit_head + AuditRingSize - Kept + i - 1 \in 0 .. 2 * AuditRingSize - 1
    BY <1>1, <1>2
  <2>. QED  BY <1>1, <2>1, Wraps DEF KeptAt
<1>. QED  BY <1>2, <1>3, <1>4

\* The invariant holds of an empty audit log.
LEMMA AuditInitInv == AuditInit => AuditInv
<1>. SUFFICES ASSUME AuditInit PROVE AuditInv
  OBVIOUS
<1>1. AuditRingSize \in Nat \ {0} /\ audit_total = 0 /\ audit_head = 0 /\ Kept = 0
  BY KernelLogsAssumption DEF AuditInit, Kept, LesserOf
<1>. QED  BY <1>1 DEF AuditInit, AuditInv

\* Where the kept entries are after one more: the new one is where the write
\* position was, and the others are where they were, one place earlier in the
\* order if an entry had to go.
LEMMA KeptAfter ==
    ASSUME NEW h \in 0 .. AuditRingSize - 1, NEW k \in 0 .. AuditRingSize,
           NEW h2, h2 = Wrap(h + 1, AuditRingSize), NEW k2,
           \/ k < AuditRingSize /\ k = h /\ k2 = k + 1
           \/ k = AuditRingSize /\ k2 = k
    PROVE  /\ k2 \in 1 .. AuditRingSize
           /\ KeptAt(h2, k2, k2) = h
           /\ \A i \in 1 .. k2 : i < k2 =>
                 LET j == IF k < AuditRingSize THEN i ELSE i + 1 IN
                 /\ j \in 1 .. k /\ (j = k <=> i = k2 - 1)
                 /\ KeptAt(h2, k2, i) = KeptAt(h, k, j) /\ KeptAt(h, k, j) # h
                 /\ KeptAt(h, k, j) \in 0 .. AuditRingSize - 1
<1>. AuditRingSize \in Nat \ {0}
  BY KernelLogsAssumption
<1>1. CASE k < AuditRingSize
  BY <1>1 DEF KeptAt, Wrap
<1>2. CASE k = AuditRingSize
  BY <1>2 DEF KeptAt, Wrap
<1>. QED  BY <1>1, <1>2

\* Recording keeps the invariant.
LEMMA AuditNextInv == AuditInv /\ [AuditNext]_auditVars => AuditInv'
<1>. SUFFICES ASSUME AuditInv, [AuditNext]_auditVars PROVE AuditInv'
  OBVIOUS
<1>1. CASE UNCHANGED auditVars
  BY <1>1 DEF auditVars, AuditInv, Kept
<1>2. CASE AuditNext
  <2>. DEFINE N == AuditRingSize
  <2>0. N \in Nat \ {0}
    BY KernelLogsAssumption
  <2>1. PICK event \in Events, details \in Details : Record(event, details)
    BY <1>2 DEF AuditNext
  <2>. DEFINE entry == [event |-> event, details |-> details, prev_hash |-> last_hash]
              old(i) == audit_entries[KeptAt(audit_head, Kept, i)]
              new(i) == audit_entries'[KeptAt(audit_head', Kept', i)]
  <2>2. /\ audit_head \in 0 .. N - 1 /\ audit_total \in Nat
        /\ DOMAIN audit_entries = 0 .. N - 1
        /\ audit_entries = [i \in 0 .. N - 1 |-> audit_entries[i]]
        /\ audit_total < N => audit_head = audit_total
        /\ \A i \in 1 .. Kept : IsEntry(old(i))
        /\ \A i \in 1 .. Kept : i < Kept => old(i + 1).prev_hash = Hash(old(i))
        /\ Kept > 0 => last_hash = Hash(old(Kept))
    BY DEF AuditInv
  <2>3. /\ audit_entries' = [audit_entries EXCEPT ![audit_head] = entry]
        /\ last_hash' = Hash(entry) /\ audit_total' = audit_total + 1
    BY <2>1 DEF Record
  <2>4. audit_head' = Wrap(audit_head + 1, N)
    <3>1. audit_head + 1 \in 0 .. 2 * N - 1
      BY <2>0, <2>2
    <3>. QED  BY <2>0, <2>1, <3>1, Wraps DEF Record
  <2>5. /\ IsEntry(entry) /\ entry.prev_hash = last_hash
    BY DEF IsEntry
  <2>6. /\ Kept \in 0 .. N
        /\ \/ Kept < N /\ Kept = audit_head /\ Kept' = Kept + 1
           \/ Kept = N /\ Kept' = Kept
    BY <2>0, <2>2, <2>3 DEF Kept, LesserOf
  <2>7. /\ audit_head' \in 0 .. N - 1 /\ audit_total' \in Nat
        /\ DOMAIN audit_entries' = 0 .. N - 1
        /\ audit_total' < N => audit_head' = audit_total'
    BY <2>0, <2>2, <2>3, <2>4 DEF Wrap
  <2>. HIDE DEF entry
  <2>k. PICK k, k2, h, h2 : k = Kept /\ k2 = Kept' /\ h = audit_head /\ h2 = audit_head'
    OBVIOUS
  <2>a. /\ k2 \in 1 .. N /\ KeptAt(h2, k2, k2) = h
        /\ \A i \in 1 .. k2 : i < k2 =>
              \E j \in 1 .. k :
                 /\ j = k <=> i = k2 - 1
                 /\ i < k2 - 1 => KeptAt(h2, k2, i + 1) = KeptAt(h, k, j + 1)
                                  /\ KeptAt(h, k, j + 1) # h
                                  /\ KeptAt(h, k, j + 1) \in 0 .. N - 1
                 /\ KeptAt(h2, k2, i) = KeptAt(h, k, j) /\ KeptAt(h, k, j) # h
                 /\ KeptAt(h, k, j) \in 0 .. N - 1
    <3>1. /\ h \in 0 .. N - 1 /\ k \in 0 .. N /\ h2 = Wrap(h + 1, N)
          /\ \/ k < N /\ k = h /\ k2 = k + 1
             \/ k = N /\ k2 = k
      BY <2>2, <2>4, <2>6, <2>k
    <3>. DEFINE at(i) == IF k < N THEN i ELSE i + 1
    <3>2. /\ k2 \in 1 .. N /\ KeptAt(h2, k2, k2) = h
          /\ \A i \in 1 .. k2 : i < k2 =>
                 /\ at(i) \in 1 .. k /\ (at(i) = k <=> i = k2 - 1)
                 /\ KeptAt(h2, k2, i) = KeptAt(h, k, at(i)) /\ KeptAt(h, k, at(i)) # h
                 /\ KeptAt(h, k, at(i)) \in 0 .. N - 1
      BY <3>1, KeptAfter
    <3>3. \A i \in 1 .. k2 : i < k2 - 1 => i + 1 \in 1 .. k2 /\ i + 1 < k2 /\ at(i + 1) = at(i) + 1
      BY <2>0, <3>2
    <3>. HIDE DEF at
    <3>. QED  BY <3>2, <3>3
  <2>b. k \in Nat /\ k2 \in Nat
    <3>. HIDE DEF Kept
    <3>. QED  BY <2>0, <2>6, <2>a, <2>k
  <2>8. new(k2) = entry
    BY <2>2, <2>3, <2>a, <2>k
  <2>9. ASSUME NEW i \in 1 .. k2, i < k2
        PROVE  \E j \in 1 .. k :
                  /\ new(i) = old(j) /\ (j = k <=> i = k2 - 1)
                  /\ i < k2 - 1 => new(i + 1) = old(j + 1)
    BY <2>2, <2>3, <2>9, <2>a, <2>k
  <2>. HIDE DEF new, old
  <2>10. ASSUME NEW i \in 1 .. k2 PROVE IsEntry(new(i))
    <3>1. CASE i = k2
      BY <2>5, <2>8, <3>1
    <3>2. CASE i < k2
      BY <2>2, <2>9, <2>k, <3>2
    <3>. QED  BY <2>a, <3>1, <3>2
  <2>11. ASSUME NEW i \in 1 .. k2, i < k2
         PROVE  new(i + 1).prev_hash = Hash(new(i))
    <3>1. PICK j \in 1 .. k :
                  /\ new(i) = old(j) /\ (j = k <=> i = k2 - 1)
                  /\ i < k2 - 1 => new(i + 1) = old(j + 1)
      BY <2>9, <2>11
    <3>2. CASE i = k2 - 1
      <4>1. i + 1 = k2 /\ k > 0
        BY <2>b, <3>1, <3>2
      <4>. QED  BY <2>2, <2>5, <2>8, <2>k, <3>1, <3>2, <4>1
    <3>3. CASE i # k2 - 1
      <4>1. i < k2 - 1 /\ j < k
        BY <2>b, <2>11, <3>1, <3>3
      <4>. QED  BY <2>2, <2>k, <3>1, <4>1
    <3>. QED  BY <3>2, <3>3
  <2>12. last_hash' = Hash(new(k2))
    BY <2>3, <2>8
  <2>13. audit_entries' = [i \in 0 .. N - 1 |-> audit_entries'[i]]
    BY <2>2, <2>3
  <2>. QED
    BY <2>7, <2>10, <2>11, <2>12, <2>13, <2>k DEF AuditInv, new
<1>. QED  BY <1>1, <1>2

\* The ring as it is verifies, and a change of any entry in a hashed field is
\* found: by the entry after it, or by last_hash if it is the latest.
THEOREM TamperingIsFound == AuditSpec => []TamperingShows
<1>1. ASSUME AuditInv PROVE TamperingShows
  <2>1. /\ Kept \in Nat /\ DOMAIN Retained = 1 .. Kept /\ Len(Retained) = Kept
        /\ \A i \in 1 .. Kept : IsEntry(Retained[i])
        /\ \A i \in 1 .. Kept : i < Kept => Retained[i + 1].prev_hash = Hash(Retained[i])
        /\ Kept > 0 => last_hash = Hash(Retained[Kept])
    <3>1. /\ Kept \in 0 .. AuditRingSize /\ AuditRingSize \in Nat
          /\ DOMAIN Retained = 1 .. Kept /\ Len(Retained) = Kept
          /\ \A i \in 1 .. Kept :
                 Retained[i] = audit_entries[KeptAt(audit_head, Kept, i)]
      BY <1>1, RetainedMeans, KernelLogsAssumption
    <3>2. /\ \A i \in 1 .. Kept : IsEntry(audit_entries[KeptAt(audit_head, Kept, i)])
          /\ \A i \in 1 .. Kept : i < Kept =>
                audit_entries[KeptAt(audit_head, Kept, i + 1)].prev_hash
                  = Hash(audit_entries[KeptAt(audit_head, Kept, i)])
          /\ Kept > 0 => last_hash = Hash(audit_entries[KeptAt(audit_head, Kept, Kept)])
      BY <1>1 DEF AuditInv
    <3>. HIDE DEF Kept, Retained
    <3>3. /\ Kept \in Nat /\ \A i \in 1 .. Kept : i < Kept => i + 1 \in 1 .. Kept
          /\ Kept > 0 => Kept \in 1 .. Kept
      BY <3>1
    <3>. QED  BY <3>1, <3>2, <3>3
  <2>. HIDE DEF Kept, Retained
  <2>2. Verifies(Retained)
    BY <2>1, EmptySeq DEF Verifies
  <2>3. ASSUME NEW log \in Altered(Retained) PROVE ~Verifies(log)
    <3>0. PICK i \in 1 .. Kept :
             \E entry : log = [Retained EXCEPT ![i] = entry]
      BY <2>1, <2>3 DEF Altered, Overwritten
    <3>1. PICK entry : log = [Retained EXCEPT ![i] = entry]
      BY <3>0
    <3>4. Len(log) = Kept /\ log[i] = entry
          /\ \A j \in 1 .. Kept : j # i => log[j] = Retained[j]
      BY <2>1, <3>1
    <3>2. PICK j \in 1 .. Kept : \/ log[j].event # Retained[j].event
                                \/ log[j].prev_hash # Retained[j].prev_hash
      BY <2>1, <2>3 DEF Altered
    <3>3. Hash(entry) # Hash(Retained[i])
      <4>1. j = i
        BY <3>2, <3>4
      <4>. QED  BY <3>2, <3>4, <4>1 DEF Hash
    <3>5. CASE i < Kept
      BY <2>1, <3>3, <3>4, <3>5 DEF Verifies
    <3>6. CASE i = Kept
      BY <2>1, <3>3, <3>4, <3>6, EmptySeq DEF Verifies
    <3>. QED  BY <2>1, <3>5, <3>6
  <2>. QED  BY <2>2, <2>3 DEF TamperingShows
<1>. QED  BY <1>1, AuditInitInv, AuditNextInv, PTL DEF AuditSpec
=============================================================================
