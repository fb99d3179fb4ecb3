------------------------------- MODULE PayOnce ------------------------------
(***************************************************************************)
(* What the payment path of THOrs promises for each payment hash, whoever  *)
(* asks, however often and whatever fails in between: the payment is put   *)
(* on record before the node is asked for it, the node is asked at most    *)
(* once, the record takes the node's verdict and nothing else, and a       *)
(* success is announced at most once, after it is on record.               *)
(***************************************************************************)
EXTENDS Integers

CONSTANT Hashes

VARIABLES
    record,     \* status on record for each hash, "none" before it has one
    node,       \* what the node is doing about the payment of each hash
    asked,      \* how often the node was asked to pay each hash
    announced   \* how often the success of each hash was announced

vars == <<record, node, asked, announced>>

Init ==
    /\ record = [h \in Hashes |-> "none"]
    /\ node = [h \in Hashes |-> "none"]
    /\ asked = [h \in Hashes |-> 0]
    /\ announced = [h \in Hashes |-> 0]

Accept(h) ==
    /\ record[h] = "none"
    /\ record' = [record EXCEPT ![h] = "pending"]
    /\ UNCHANGED <<node, asked, announced>>

(* The node takes the payment on or refuses it.                            *)
Dispatch(h) ==
    /\ record[h] = "pending"
    /\ asked[h] = 0
    /\ asked' = [asked EXCEPT ![h] = 1]
    /\ node' \in {node, [node EXCEPT ![h] = "inflight"]}
    /\ UNCHANGED <<record, announced>>

Resolve(h) ==
    /\ node[h] = "inflight"
    /\ \E verdict \in {"succeeded", "failed"} :
            node' = [node EXCEPT ![h] = verdict]
    /\ UNCHANGED <<record, asked, announced>>

Settle(h) ==
    /\ record[h] = "pending"
    /\ node[h] \in {"succeeded", "failed"}
    /\ record' = [record EXCEPT ![h] = node[h]]
    /\ UNCHANGED <<node, asked, announced>>

Announce(h) ==
    /\ record[h] = "succeeded"
    /\ announced[h] = 0
    /\ announced' = [announced EXCEPT ![h] = 1]
    /\ UNCHANGED <<record, node, asked>>

Next ==
    \E h \in Hashes :
        Accept(h) \/ Dispatch(h) \/ Resolve(h) \/ Settle(h) \/ Announce(h)

Spec == Init /\ [][Next]_vars

=============================================================================
