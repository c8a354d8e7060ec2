---------------------------- MODULE RecordPipeline ----------------------------
(***************************************************************************)
(* The record path end to end: one child Pi (ChildDelivery), the broker    *)
(* (RecordChannel) and the hub's bridge with Oracle (RecordBridge).  Each  *)
(* part steps by itself; they meet only in the topics.                     *)
(***************************************************************************)
EXTENDS RecordBridge, ChildDelivery

vars == <<channelVars, bridgeVars, childVars>>

TypeOK == ChannelTypeOK /\ BridgeTypeOK /\ ChildTypeOK

Init == ChannelInit /\ BridgeInit /\ ChildInit

Next ==
    \/ BridgeStep /\ UNCHANGED childVars
    \/ ChildStep /\ UNCHANGED bridgeVars
    \/ Lose /\ UNCHANGED <<bridgeVars, childVars>>

Spec == Init /\ [][Next]_vars

-----------------------------------------------------------------------------
(* What the system promises of each record, and that it keeps it.          *)

Delivered(m) == InOracle(ContentOf(m))

(* sent/ holds only files every row of which Oracle has committed          *)
(* (child/docs/2026-09-25-child-nack-design.md:163): across both ledgers,  *)
(* lost and repeated messages, restarts and power losses on either side.   *)
SentFilesAreInOracle ==
    \A f \in sent : \A m \in Lines[f] : m # Bad /\ Delivered(m)

(* A file in nacked/ explains itself: a row its sidecar does not list is   *)
(* in Oracle (archive_to_destination, whatever crash came in between).     *)
SidecarListsTheRest ==
    \A f \in nacked : \A m \in Lines[f] :
        m # Bad /\ (Delivered(m) \/ m.event_id \in sidecar[f])

(* The child's own view: a row its ledger holds as acked is in Oracle, and *)
(* so is every ack on its way to it.                                       *)
AckedIsInOracle ==
    /\ \A i \in EventIds : Has(i, "acked") => Delivered(store[i].rec)
    /\ ConfirmedIsInOracle

-----------------------------------------------------------------------------
(* The abstract specification and the refinement mapping.                  *)

OutcomeOf(m) ==
    IF Has(m.event_id, "acked") /\ store[m.event_id].rec = m THEN "delivered"
    ELSE IF Has(m.event_id, "nacked") /\ store[m.event_id].rec = m THEN "refused"
    ELSE "unknown"

Abstract == INSTANCE RecordOutcome WITH
                Records <- Messages,
                MayForget <- ChildPowerMayFail,
                committed <- {m \in Messages : Delivered(m)},
                outcome <- [m \in Messages |-> OutcomeOf(m)]

(* The whole path does no more than RecordOutcome: an outcome the child has *)
(* learnt changes only by a power loss that returns the ledger to its last *)
(* fsync, and "delivered" is only learnt of a record in Oracle.            *)
Implements == Abstract!Spec
=============================================================================
