---------------------------- MODULE MCRecordTurns ----------------------------
(* Instances of RecordTurns for TLC: two rows of one file, each of which    *)
(* may have to wait for the other's turn.                                   *)
EXTENDS RecordTurns

CONSTANTS e1, e2, k1, k2, f1

a == [event_id |-> e1, mk_date |-> k1, t1_status |-> 1]
b == [event_id |-> e2, mk_date |-> k2, t1_status |-> 1]

MCTwo == {a, b}
MCTwoLines == [f \in {f1} |-> {a, b}]

(* a is the file's first line, so it never is the one left to do (only     *)
(* walks that deliver_file can make).                                       *)
InOrder == todo # {a}

(* Bounds on the interleavings: one message under way at a time, and none  *)
(* while the hub is on no profile's network; no MERGE left running without *)
(* its client; the hub receives a record between two of its rounds; the    *)
(* child's session is up, with both subscriptions, whenever it walks a     *)
(* file.                                                                   *)
OneMessage == Cardinality(recordTopic) + Cardinality(ackTopic) + Cardinality(nackTopic) <= 1
QuietOffNetwork ==
    target = NoProfile => rxRec = NoRecord /\ recordTopic \cup ackTopic \cup nackTopic = {}
NoLate == late = {}
QuietHub == rxRec # NoRecord => at = "idle" /\ recordTopic = {}
LinkedWalks == link # "ready" => pc = "poll"
BothSubscriptions == link # "refused" /\ nackEnabled = (link = "ready")
=============================================================================
