---------------------------- MODULE RecordOutcome ----------------------------
(***************************************************************************)
(* What the record path promises a child, without MQTT, ledgers, retries   *)
(* or processes: Oracle gains records and never loses one, and the child   *)
(* learns at most one outcome of each record: "delivered", only of a       *)
(* record Oracle has, or "refused".  Neither is ever taken back, but for   *)
(* what a child that loses power forgets of them.                          *)
(***************************************************************************)

CONSTANTS
    Records,
    MayForget    (* whether the child may lose power      *)

VARIABLES
    committed,   (* the records Oracle has                *)
    outcome      (* what the child knows of each record   *)

Init ==
    /\ committed = {}
    /\ outcome = [r \in Records |-> "unknown"]

Commit ==
    /\ \E new \in SUBSET (Records \ committed) :
        /\ new # {}
        /\ committed' = committed \cup new
    /\ UNCHANGED outcome

Deliver(r) ==
    /\ r \in committed
    /\ outcome[r] = "unknown"
    /\ outcome' = [outcome EXCEPT ![r] = "delivered"]
    /\ UNCHANGED committed

Refuse(r) ==
    /\ outcome[r] = "unknown"
    /\ outcome' = [outcome EXCEPT ![r] = "refused"]
    /\ UNCHANGED committed

Forget ==
    /\ MayForget
    /\ \E lost \in SUBSET Records :
        outcome' = [r \in Records |-> IF r \in lost THEN "unknown" ELSE outcome[r]]
    /\ UNCHANGED committed

Next == Commit \/ Forget \/ \E r \in Records : Deliver(r) \/ Refuse(r)

Spec == Init /\ [][Next]_<<committed, outcome>>
=============================================================================
