---------------------------- MODULE BoundedQueue ----------------------------
(***************************************************************************)
(* What a bounded queue promises: first in, first out; a put is refused    *)
(* when, and only when, Capacity values are waiting, and a get when none   *)
(* is.                                                                     *)
(***************************************************************************)
EXTENDS Naturals, Sequences

CONSTANTS Values, Capacity

VARIABLES queue, call, answer  \* the last call, and what it returned

QueueInit == queue = <<>> /\ call = <<>> /\ answer = <<"ok">>

Refuse == answer' = <<"refused">> /\ UNCHANGED queue

Put(v) ==
    /\ call' = <<"put", v>>
    /\ IF Len(queue) < Capacity
         THEN queue' = Append(queue, v) /\ answer' = <<"ok">>
         ELSE Refuse

Get ==
    /\ call' = <<"get">>
    /\ IF queue # <<>>
         THEN queue' = Tail(queue) /\ answer' = <<"got", Head(queue)>>
         ELSE Refuse

QueueNext == Get \/ \E v \in Values : Put(v)

QueueSpec == QueueInit /\ [][QueueNext]_<<queue, call, answer>>
=============================================================================
