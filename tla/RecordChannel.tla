--------------------------- MODULE RecordChannel ---------------------------
(***************************************************************************)
(* The MQTT topics between a child Pi and the hub's bridge, on the record  *)
(* path: presence/record (child to bridge), presence/record/ack and        *)
(* presence/record/nack (bridge to child).                                 *)
(*                                                                         *)
(* The broker (docker/mosquitto, "persistence false") and the paho clients *)
(* are not part of src/: a topic is the set of messages published and not  *)
(* yet handed to the subscriber for the last time.  The sets leave the     *)
(* order open; a message may be lost: both clients connect with a clean    *)
(* session, so what is published while the subscriber is away is gone      *)
(* although the publisher saw its PUBCOMP; and the bridge subscribes to    *)
(* presence/record with QoS 1 (subscribe_text), so a record may reach it   *)
(* more than once.  Acks and nacks are QoS 2 at both ends.                 *)
(***************************************************************************)
EXTENDS Columns

CONSTANT Messages  (* the records some child may ever publish               *)

Record == [event_id : EventIds, mk_date : MkDates, t1_status : T1Statuses]

ASSUME MessagesAssumption == Messages \subseteq Record

VARIABLES
    recordTopic,  (* SUBSET Messages *)
    ackTopic,     (* SUBSET Ack      *)
    nackTopic     (* SUBSET EventIds *)

channelVars == <<recordTopic, ackTopic, nackTopic>>

ChannelTypeOK ==
    /\ recordTopic \in SUBSET Messages
    /\ ackTopic \in SUBSET Ack
    /\ nackTopic \in SUBSET EventIds

ChannelInit ==
    /\ recordTopic = {}
    /\ ackTopic = {}
    /\ nackTopic = {}

LoseRecord ==
    /\ \E m \in recordTopic : recordTopic' = recordTopic \ {m}
    /\ UNCHANGED <<ackTopic, nackTopic>>

LoseAck ==
    /\ \E a \in ackTopic : ackTopic' = ackTopic \ {a}
    /\ UNCHANGED <<recordTopic, nackTopic>>

LoseNack ==
    /\ \E n \in nackTopic : nackTopic' = nackTopic \ {n}
    /\ UNCHANGED <<recordTopic, ackTopic>>

Lose == LoseRecord \/ LoseAck \/ LoseNack

(* The bridge echoes the record's own MK_DATE; a nack carries the event_id *)
(* only.                                                                   *)
AckOf(m) == [event_id |-> m.event_id, mk_date |-> m.mk_date]
=============================================================================
