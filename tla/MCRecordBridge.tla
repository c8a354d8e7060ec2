--------------------------- MODULE MCRecordBridge ---------------------------
(* Instances of RecordBridge for TLC.  r1 and r2 collide on the primary key *)
(* (same MK_DATE and station, another T1_STATUS); r3 is r1's event_id with  *)
(* other content.                                                          *)
EXTENDS RecordBridge

CONSTANTS e1, e2, k1

r1 == [event_id |-> e1, mk_date |-> k1, t1_status |-> 1]
r2 == [event_id |-> e2, mk_date |-> k1, t1_status |-> 2]
r3 == [event_id |-> e1, mk_date |-> k1, t1_status |-> 2]

MCAll == {r1, r2, r3}

(* Bounds on the interleavings: one message under way at a time, or one     *)
(* MERGE left running, which ends before the next starts (MCPipelineOne has *)
(* the next one race it).                                                   *)
OneUnderWay ==
    /\ Cardinality(recordTopic) + Cardinality(ackTopic) + Cardinality(nackTopic)
          + Cardinality(late) <= 1
    /\ late # {} => at \in {"answered", "loop", "idle"}
=============================================================================
