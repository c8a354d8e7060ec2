---------------------------- MODULE EventOutcome ----------------------------
(***************************************************************************)
(* What the event path promises of a confirmed transition, without MQTT,   *)
(* inbox, retries, boots or processes.  Oracle gets a row only of an event *)
(* that was confirmed, under a date that event may bear, and never loses   *)
(* it; an event is never forgotten or exchanged for another of its id, and *)
(* it is settled only once it is written, or once the path has misread a   *)
(* failure of it as success.  What is settled stays so, but for the event  *)
(* just confirmed and still in hand: when the detector lets go of it, it   *)
(* may be open again.                                                      *)
(***************************************************************************)

CONSTANTS
    Events, Profiles,
    NoEvent,
    DatesOf       (* the MK_DATEs each event may bear                       *)

VARIABLES
    confirmed,    (* the events so far                                      *)
    inHand,       (* the one just confirmed                                 *)
    written,      (* the rows in each profile's table                       *)
    misread,      (* the events of which a failure was taken for success    *)
    settled       (* the events nobody works on any more                    *)

RowOf(e, d) == [mk_date |-> d, t1_status |-> e.t1_status]

Init ==
    /\ confirmed = {} /\ misread = {} /\ settled = {}
    /\ inHand = NoEvent
    /\ written = [p \in Profiles |-> {}]

Confirm(e) ==
    /\ inHand = NoEvent
    /\ \A c \in confirmed : c.event_id # e.event_id
    /\ confirmed' = confirmed \cup {e}
    /\ inHand' = e
    /\ UNCHANGED <<written, misread, settled>>

LetGo ==
    /\ inHand # NoEvent
    /\ inHand' = NoEvent
    /\ settled' \in {settled, settled \ {inHand}}
    /\ UNCHANGED <<confirmed, misread, written>>

(* MK_DATE is the table's key.                                             *)
Write(e, p, d) ==
    /\ e \in confirmed /\ d \in DatesOf[e]
    /\ \A r \in written[p] : r.mk_date # d
    /\ written' = [written EXCEPT ![p] = @ \cup {RowOf(e, d)}]
    /\ UNCHANGED <<confirmed, inHand, misread, settled>>

Misread(e) ==
    /\ e \in confirmed
    /\ misread' = misread \cup {e}
    /\ UNCHANGED <<confirmed, inHand, written, settled>>

Settle(e) ==
    /\ e \in confirmed
    /\ \/ \E p \in Profiles, d \in DatesOf[e] : RowOf(e, d) \in written[p]
       \/ e \in misread
    /\ settled' = settled \cup {e}
    /\ UNCHANGED <<confirmed, inHand, misread, written>>

Next ==
    \/ \E e \in Events : Confirm(e) \/ Misread(e) \/ Settle(e)
    \/ \E e \in Events, p \in Profiles : \E d \in DatesOf[e] : Write(e, p, d)
    \/ LetGo

Spec == Init /\ [][Next]_<<confirmed, inHand, written, misread, settled>>
=============================================================================
