--------------------------- MODULE MCRecordPipeline ---------------------------
(* Instances of RecordPipeline for TLC.                                     *)
EXTENDS RecordPipeline, TLC

CONSTANTS e1, k1, f1, f2

a == [event_id |-> e1, mk_date |-> k1, t1_status |-> 1]

(* One row, in a good file and again in a file with a bad line.             *)
MCOne == {a}
MCOneLines == (f1 :> {a}) @@ (f2 :> {a, Bad})

(* Bounds on the interleavings: one message under way at a time, or MERGEs  *)
(* left running, which may race the next one.                               *)
OneMessage == Cardinality(recordTopic) + Cardinality(ackTopic) + Cardinality(nackTopic) <= 1
MessageOrLate == late # {} => recordTopic \cup ackTopic \cup nackTopic = {}
=============================================================================
