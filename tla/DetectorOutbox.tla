--------------------------- MODULE DetectorOutbox ---------------------------
(***************************************************************************)
(* The detector's outbox (services/detector/src): buffer.py and the parts  *)
(* of main.py and mqtt_client.py that persist a transition, publish it,    *)
(* publish it again until it is acked, and take the acks.                  *)
(*                                                                         *)
(* The main loop and paho's network thread interleave.  A retry's back-off *)
(* is an event of the environment.  The buffer's ring_evict has no caller. *)
(***************************************************************************)
EXTENDS EventChannel

CONSTANTS
    NoEntry,      (* no row of that event_id                                *)
    NoEvent       (* no transition in hand                                  *)

VARIABLES
    buffer,       (* the table pending_events                               *)
    born,         (* the boot in which an event was confirmed, 0 if not yet *)
    step,         (* where the main loop is                                 *)
    fresh,        (* the transition _emit_transition works on               *)
    todo          (* the rows retry_pending has fetched and not yet sent    *)

detectorVars == <<buffer, born, step, fresh, todo>>

Entry == [status : {"pending", "sent", "acked"}, event : Events, due : BOOLEAN]

ASSUME DetectorAssumption == NoEntry \notin Entry /\ NoEvent \notin Events

DetectorTypeOK ==
    /\ buffer \in [EventIds -> Entry \cup {NoEntry}]
    /\ born \in [EventIds -> Boots \cup {0}]
    /\ step \in {"idle", "inserted", "published", "pending", "sent"}
    /\ fresh \in Events \cup {NoEvent}
    /\ (step \in {"inserted", "published"} => fresh \in Events)
    /\ todo \in SUBSET Events

DetectorInit ==
    /\ buffer = [i \in EventIds |-> NoEntry]
    /\ born = [i \in EventIds |-> 0]
    /\ step = "idle"
    /\ fresh = NoEvent
    /\ todo = {}

Buffered(i) == buffer[i] # NoEntry

(* A transition is confirmed under a fresh uuid4, dated by the wall clock  *)
(* if that is synchronised, and stored.                                    *)
EmitTransition(e) ==
    /\ step = "idle"
    /\ born[e.event_id] = 0
    /\ e.mk_date \in {NoDate} \cup {MkDateAt(e.mono, o) : o \in OffsetsOf[boot]}
    /\ buffer' = [buffer EXCEPT ![e.event_id] =
                    [status |-> "pending", event |-> e, due |-> TRUE]]
    /\ born' = [born EXCEPT ![e.event_id] = boot]
    /\ fresh' = e
    /\ step' = "inserted"
    /\ UNCHANGED <<todo, eventChannelVars>>

PublishEvent ==
    /\ step = "inserted"
    /\ eventTopic' = eventTopic \cup {fresh}
    /\ step' = "published"
    /\ UNCHANGED <<buffer, born, fresh, todo, ackSubscribed, boot, eventAckTopic>>

(* UPDATE ... SET status='sent', whatever the status is by now.            *)
MarkPublished ==
    /\ step = "published"
    /\ buffer' = [buffer EXCEPT ![fresh.event_id].status = "sent"]
    /\ fresh' = NoEvent
    /\ step' = "idle"
    /\ UNCHANGED <<born, todo, eventChannelVars>>

DueEntries(s) ==
    {buffer[i].event : i \in {j \in EventIds :
        Buffered(j) /\ buffer[j].status = s /\ buffer[j].due}}

(* As RetryScan, with the sent rows left to QoS 2. *)
RetryScanPendingOnly ==
    /\ \/ step = "idle" /\ step' = "pending" /\ todo' = DueEntries("pending")
       \/ step = "pending" /\ todo = {} /\ step' = "sent" /\ UNCHANGED todo
    /\ UNCHANGED <<buffer, born, fresh, eventChannelVars>>

(* retry_pending scans the pending rows first and the sent ones second; a  *)
(* scan fetches its rows before the first is sent.                         *)
RetryScan ==
    /\ \/ step = "idle" /\ step' = "pending"
       \/ step = "pending" /\ todo = {} /\ step' = "sent"
    /\ todo' = DueEntries(step')
    /\ UNCHANGED <<buffer, born, fresh, eventChannelVars>>

(* As Resend, marking the row as after the first publication. *)
ResendMarksSent ==
    /\ step \in {"pending", "sent"}
    /\ \E e \in todo :
        /\ eventTopic' = eventTopic \cup {e}
        /\ buffer' = [buffer EXCEPT ![e.event_id] = [@ EXCEPT !.due = FALSE, !.status = "sent"]]
        /\ todo' = todo \ {e}
    /\ UNCHANGED <<born, step, fresh, ackSubscribed, boot, eventAckTopic>>

(* The row's payload again, and update_retry_metadata: not its status.     *)
Resend ==
    /\ step \in {"pending", "sent"}
    /\ \E e \in todo :
        /\ eventTopic' = eventTopic \cup {e}
        /\ buffer' = [buffer EXCEPT ![e.event_id].due = FALSE]
        /\ todo' = todo \ {e}
    /\ UNCHANGED <<born, step, fresh, ackSubscribed, boot, eventAckTopic>>

RetryEnds ==
    /\ step = "sent" /\ todo = {}
    /\ step' = "idle"
    /\ UNCHANGED <<buffer, born, fresh, todo, eventChannelVars>>

(* paho's thread: _on_message, _on_ack, mark_acked.                        *)
OnAck(a) ==
    /\ ackSubscribed
    /\ a \in eventAckTopic
    /\ eventAckTopic' = eventAckTopic \ {a}
    /\ buffer' = IF Buffered(a.event_id)
                 THEN [buffer EXCEPT ![a.event_id].status = "acked"] ELSE buffer
    /\ UNCHANGED <<born, step, fresh, todo, ackSubscribed, boot, eventTopic>>

(* A dropped connection: paho reconnects by itself, with a clean session,  *)
(* and nobody subscribes again (the client has no on_connect).             *)
SessionLost ==
    /\ ackSubscribed
    /\ ackSubscribed' = FALSE
    /\ eventAckTopic' = {}
    /\ UNCHANGED <<detectorVars, boot, eventTopic>>

RetryDue ==
    /\ \E i \in EventIds :
        /\ Buffered(i) /\ ~buffer[i].due
        /\ buffer' = [buffer EXCEPT ![i].due = TRUE]
    /\ UNCHANGED <<born, step, fresh, todo, eventChannelVars>>

(* A new process; the uuid in hand is forgotten, its row is not.           *)
DetectorStarts ==
    /\ step' = "idle" /\ fresh' = NoEvent /\ todo' = {}
    /\ ackSubscribed' = TRUE
    /\ UNCHANGED <<buffer, born>>

DetectorRestart == DetectorStarts /\ UNCHANGED <<boot, eventTopic, eventAckTopic>>

DetectorStep ==
    \/ \E e \in Events : EmitTransition(e)
    \/ PublishEvent \/ MarkPublished
    \/ RetryScan \/ Resend \/ RetryEnds
    \/ \E a \in eventAckTopic : OnAck(a)
    \/ SessionLost \/ RetryDue \/ DetectorRestart
=============================================================================
