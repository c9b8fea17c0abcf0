----------------------------- MODULE BoundedMap -----------------------------
(***************************************************************************)
(* What a named store promises: one value per key; a put fails if the key  *)
(* or the value is not acceptable, or if the key is new and Capacity keys  *)
(* are there already; a get and a delete fail if there is no such key.     *)
(***************************************************************************)
EXTENDS Naturals, FiniteSets

CONSTANTS Keys, GoodKeys, Values, GoodValues, Capacity

VARIABLES map, call, answer  \* the last call, and what it returned

MapInit == map = [k \in {} |-> 0] /\ call = <<>> /\ answer = <<"ok">>

Refuse == answer' = <<"refused">> /\ UNCHANGED map

Acceptable(k, v) ==
    /\ k \in GoodKeys /\ v \in GoodValues
    /\ k \in DOMAIN map \/ Cardinality(DOMAIN map) < Capacity

PutKey(k, v) ==
    /\ call' = <<"put", k, v>>
    /\ IF Acceptable(k, v)
         THEN /\ map' = [j \in DOMAIN map \cup {k} |-> IF j = k THEN v ELSE map[j]]
              /\ answer' = <<"ok">>
         ELSE Refuse

GetKey(k) ==
    /\ call' = <<"get", k>>
    /\ IF k \in DOMAIN map THEN answer' = <<"got", map[k]>> /\ UNCHANGED map
                           ELSE Refuse

DeleteKey(k) ==
    /\ call' = <<"delete", k>>
    /\ IF k \in DOMAIN map
         THEN map' = [j \in DOMAIN map \ {k} |-> map[j]] /\ answer' = <<"ok">>
         ELSE Refuse

MapNext ==
    \/ \E k \in Keys, v \in Values : PutKey(k, v)
    \/ \E k \in Keys : GetKey(k) \/ DeleteKey(k)

MapSpec == MapInit /\ [][MapNext]_<<map, call, answer>>
=============================================================================
