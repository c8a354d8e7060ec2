----------------------------- MODULE MCEventPath -----------------------------
(* Instances of EventPath for TLC.  Monotonic time is 1 or 2; the wall      *)
(* clock is 10 ahead of it in the first boot (or 11, after an NTP step) and *)
(* 20 ahead in the second.                                                 *)
EXTENDS EventPath

CONSTANTS e1, e2

enter == [event_id |-> e1, t1_status |-> 1, mono |-> 1, mk_date |-> NoDate]
exit == [event_id |-> e2, t1_status |-> 2, mono |-> 2, mk_date |-> 12]

(* An undated ENTER and a dated EXIT; after an NTP step they can collide.   *)
MCBoth == {enter, exit}
MCEnter == {enter}
MCExit == {exit}

MCSteady == <<{10}>>
MCStepped == <<{10, 11}>>
MCTwoBoots == <<{10}, {20}>>

(* Bounds on the interleavings.  For two events: no MERGE left running by a *)
(* lost connection, no lost ack subscription, one message each way at a     *)
(* time and both of one event, and only the ENTER's failures taken for      *)
(* successes.  For one event: a message under way, or MERGEs left running,  *)
(* which may race the next one.                                             *)
NoneLeftRunning == late = {}
SubscriptionKept == ackSubscribed
OneMessageEachWay ==
    /\ Cardinality(eventTopic) <= 1 /\ Cardinality(eventAckTopic) <= 1
    /\ \A e \in eventTopic, a \in eventAckTopic : a.event_id = e.event_id
EnterMisread == misread \subseteq {enter}
MessageOrLate == late # {} => eventTopic = {} /\ eventAckTopic = {}
=============================================================================
