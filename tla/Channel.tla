------------------------------ MODULE Channel -------------------------------
(***************************************************************************)
(* One channel (channel.rs): a ring of CHANNEL_CAPACITY slots with a write *)
(* position, a read position and a count.  Everybody reaches it through    *)
(* the CHANNELS mutex, so a call is one step.                              *)
(***************************************************************************)
EXTENDS Naturals, Sequences

CONSTANTS
    Senders,          \* agent ids
    Payloads,         \* lengths of the payloads that are offered
    ChannelCapacity,  \* CHANNEL_CAPACITY
    MaxMsgSize        \* MAX_MSG_SIZE

ASSUME ChannelAssumption ==
    /\ ChannelCapacity \in Nat \ {0} /\ MaxMsgSize \in Nat
    /\ 0 \notin Senders
    /\ Payloads \subseteq Nat

VARIABLES
    buffer, head, tail, count,
    call, reply  \* the last call, and what it returned

channelVars == <<buffer, head, tail, count, call, reply>>

Positions == 0 .. ChannelCapacity - 1
Messages == [sender : Senders, len : 0 .. MaxMsgSize]
NoMessage == [sender |-> 0, len |-> 0]  \* an empty slot

\* Message::new: a payload that is too long is cut.
Message(sender, length) ==
    [sender |-> sender,
     len |-> IF length <= MaxMsgSize THEN length ELSE MaxMsgSize]

After(position) == (position + 1) % ChannelCapacity

ChannelInit ==
    /\ buffer = [p \in Positions |-> NoMessage]
    /\ head = 0 /\ tail = 0 /\ count = 0
    /\ call = <<>> /\ reply = <<"ok">>

ChanSend(message) ==
    /\ count < ChannelCapacity
    /\ buffer' = [buffer EXCEPT ![head] = message]
    /\ head' = After(head)
    /\ count' = count + 1
    /\ call' = <<"put", message>> /\ reply' = <<"ok">>
    /\ UNCHANGED tail

\* Mutant: a full channel drops its oldest message instead.
ChanSendFull_Drops(message) ==
    /\ count >= ChannelCapacity
    /\ buffer' = [buffer EXCEPT ![head] = message]
    /\ head' = After(head) /\ tail' = After(tail)
    /\ call' = <<"put", message>> /\ reply' = <<"ok">>
    /\ UNCHANGED count

ChanSendFull(message) ==
    /\ count >= ChannelCapacity
    /\ call' = <<"put", message>> /\ reply' = <<"full">>
    /\ UNCHANGED <<buffer, head, tail, count>>

\* Mutant: the message is read and stays in its slot.
ChanRecv_Copies ==
    /\ count > 0
    /\ call' = <<"get">> /\ reply' = <<"got", buffer[tail]>>
    /\ tail' = After(tail)
    /\ count' = count - 1
    /\ UNCHANGED <<buffer, head>>

\* The message is taken out of its slot.
ChanRecv ==
    /\ count > 0
    /\ call' = <<"get">> /\ reply' = <<"got", buffer[tail]>>
    /\ buffer' = [buffer EXCEPT ![tail] = NoMessage]
    /\ tail' = After(tail)
    /\ count' = count - 1
    /\ UNCHANGED head

ChanRecvEmpty ==
    /\ count = 0
    /\ call' = <<"get">> /\ reply' = <<"empty">>
    /\ UNCHANGED <<buffer, head, tail, count>>

ChannelNext ==
    \/ \E s \in Senders, n \in Payloads :
          ChanSend(Message(s, n)) \/ ChanSendFull(Message(s, n))
    \/ ChanRecv
    \/ ChanRecvEmpty

ChannelSpec == ChannelInit /\ [][ChannelNext]_channelVars

-----------------------------------------------------------------------------
\* The messages in the ring, the oldest first.
Waiting == [i \in 1 .. count |-> buffer[(tail + i - 1) % ChannelCapacity]]
InRing == {(tail + i) % ChannelCapacity : i \in 0 .. count - 1}

ChannelTypeOK ==
    /\ count \in 0 .. ChannelCapacity
    /\ head \in Positions /\ tail \in Positions
    /\ buffer \in [Positions -> Messages \cup {NoMessage}]

\* The positions and the count agree, and a slot is occupied exactly when it
\* lies between the read and the write position.
RingIsConsistent ==
    /\ head = (tail + count) % ChannelCapacity
    /\ \A p \in Positions : buffer[p] # NoMessage <=> p \in InRing

Queue == INSTANCE BoundedQueue WITH
    Values <- Messages, Capacity <- ChannelCapacity,
    queue <- Waiting,
    answer <- IF reply \in {<<"full">>, <<"empty">>} THEN <<"refused">> ELSE reply

\* The ring is a bounded queue: no message is lost, repeated, reordered or
\* longer than MAX_MSG_SIZE, and a call fails only on a full or empty ring.
ChannelIsAQueue == Queue!QueueSpec
=============================================================================
