---------------------------- MODULE EventChannel ----------------------------
(***************************************************************************)
(* What the detector and the bridge of one Pi share on the event path: the *)
(* topics presence/event and presence/event/ack, and the machine's clocks. *)
(*                                                                         *)
(* Both clients connect with a clean session and use QoS 2: a message is   *)
(* handed over at most once, and is lost when the subscriber or the broker *)
(* ("persistence false") is down.  A topic is the set of messages that are *)
(* published and not yet handed over; order is left open.                  *)
(*                                                                         *)
(* time.monotonic_ns() starts again at each boot.  In boot b the wall      *)
(* clock, once synchronised, reads monotonic + o for some o in OffsetsOf[b]*)
(* (several, because NTP steps the clock).                                 *)
(***************************************************************************)
EXTENDS Columns, Integers

CONSTANTS
    Instants,     (* monotonic_ns of the confirmed transitions              *)
    OffsetsOf,    (* a set of wall - monotonic for each boot                *)
    MaxBoot,      (* bound on the boots                                     *)
    NoDate,       (* event_time null: the wall clock is not synchronised    *)
    Events        (* the payloads a detector may publish                    *)

Boots == 1..MaxBoot
Offsets == UNION {OffsetsOf[b] : b \in Boots}

(* correct_event_wall, formatted by format_mk_date_jst.                    *)
MkDateAt(mono, offset) == mono + offset

(* event is ENTER or EXIT; wall_clock_synced is mk_date # NoDate.          *)
Event == [event_id : EventIds, t1_status : T1Statuses, mono : Instants,
          mk_date : MkDates \cup {NoDate}]

ASSUME EventChannelAssumption ==
    /\ MaxBoot \in Nat \ {0}
    /\ OffsetsOf \in [Boots -> SUBSET Int]
    /\ Instants \subseteq Int
    /\ \A i \in Instants, o \in Offsets : MkDateAt(i, o) \in MkDates
    /\ NoDate \notin MkDates
    /\ Events \subseteq Event

VARIABLES
    boot,            (* how often the Pi has booted                         *)
    eventTopic,      (* SUBSET Events *)
    eventAckTopic,   (* SUBSET Ack    *)
    ackSubscribed    (* whether the broker knows the detector's subscription *)

eventChannelVars == <<boot, eventTopic, eventAckTopic, ackSubscribed>>

EventChannelTypeOK ==
    /\ boot \in Boots
    /\ eventTopic \in SUBSET Events
    /\ eventAckTopic \in SUBSET Ack
    /\ ackSubscribed \in BOOLEAN

EventChannelInit ==
    /\ boot = 1
    /\ eventTopic = {} /\ eventAckTopic = {}
    /\ ackSubscribed = TRUE

(* The broker drops what nobody has subscribed to.                         *)
SendEventAck(a) ==
    eventAckTopic' = IF ackSubscribed THEN eventAckTopic \cup {a} ELSE eventAckTopic

LoseEvent ==
    /\ \E e \in eventTopic : eventTopic' = eventTopic \ {e}
    /\ UNCHANGED <<boot, eventAckTopic, ackSubscribed>>

LoseEventAck ==
    /\ \E a \in eventAckTopic : eventAckTopic' = eventAckTopic \ {a}
    /\ UNCHANGED <<boot, eventTopic, ackSubscribed>>
=============================================================================
