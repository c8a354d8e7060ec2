----------------------------- MODULE EventPath -----------------------------
(***************************************************************************)
(* One Pi: the detector, the broker, the bridge's event path and the       *)
(* profiles' Oracles, from a confirmed transition to the ack that stops    *)
(* its retries.                                                            *)
(***************************************************************************)
EXTENDS DetectorOutbox, EventBridge

eventPathVars == <<eventChannelVars, detectorVars, eventBridgeVars>>

Init == EventChannelInit /\ DetectorInit /\ EventBridgeInit

(* The Pi boots: both services and the broker start again, and so does the *)
(* monotonic clock.                                                        *)
Reboot ==
    /\ boot < MaxBoot
    /\ boot' = boot + 1
    /\ eventTopic' = {} /\ eventAckTopic' = {}
    /\ DetectorStarts
    /\ BridgeStarts

Next ==
    \/ DetectorStep /\ UNCHANGED eventBridgeVars
    \/ EventBridgeStep /\ UNCHANGED detectorVars
    \/ (LoseEvent \/ LoseEventAck) /\ UNCHANGED <<detectorVars, eventBridgeVars>>
    \/ Reboot

Spec == Init /\ [][Next]_eventPathVars

-----------------------------------------------------------------------------
(* Safety.                                                                 *)

EventTypeOK == EventChannelTypeOK /\ DetectorTypeOK /\ EventBridgeTypeOK

Written(e, d) == InOracle(ContentAt(e, d))

(* What is reported as done is done: a row the inbox keeps as sent, an ack  *)
(* on its way and an event the detector stopped resending are in Oracle,   *)
(* under the MK_DATE reported (sender.py _send_one), across restarts,      *)
(* resends, eviction and late answers.  The only events reported without   *)
(* being written are those of which one MERGE failed without an ORA code,  *)
(* which sender.py:123 reads as success; and nothing else is lost with it. *)
ConfirmedEvents ==
    /\ \A i \in RowsOf("sent") :
        \/ Written(inbox[i].event, inbox[i].committed)
        \/ inbox[i].event \in misread
    /\ \A a \in eventAckTopic :
        \E e \in Events :
            e.event_id = a.event_id /\ (Written(e, a.mk_date) \/ e \in misread)
    /\ \A i \in EventIds : Buffered(i) /\ buffer[i].status = "acked" =>
        \/ \E d \in MkDates : Written(buffer[i].event, d)
        \/ buffer[i].event \in misread

(* inbox.py: an event waiting for Oracle leaves the inbox by becoming sent, *)
(* or by ring_evict when every row left is waiting too.                    *)
WaitingEventsDroppedLast ==
    [][\A i \in RowsOf("received") :
            inbox'[i] = NoRow =>
                \A j \in EventIds : inbox'[j] # NoRow => inbox'[j].status = "received"
      ]_eventPathVars

(* inbox.py insert_received: a row once sent is deleted or stays as it is:  *)
(* no resend revives it, and its committed MK_DATE is not rewritten.       *)
SentEventStays ==
    [][\A i \in RowsOf("sent") : inbox'[i] \in {inbox[i], NoRow}]_eventPathVars

(* docs/superpowers/specs/2026-04-27-presence-logger-design.md:463, of the  *)
(* five columns of the ON clause: no second row on resends and restarts.   *)
OneRowPerEvent ==
    \A e \in Events : \A p \in Profiles :
        Cardinality({d \in MkDates : ContentAt(e, d) \in oracle[p]}) <= 1

-----------------------------------------------------------------------------
(* Liveness.  The detector's main loop, the hub's and paho's threads are   *)
(* loops without an exit, and the pauses they wait for end (WF).  run_once *)
(* is called on every pass of the hub's loop, among other calls, hence SF. *)
(* Nothing is assumed of the network, of Oracle's answers, of the clock or *)
(* of the processes' lives.                                                *)

Bridge(A) == A /\ UNCHANGED detectorVars
Detector(A) == A /\ UNCHANGED eventBridgeVars

DetectorLoop == PublishEvent \/ MarkPublished \/ RetryScan \/ Resend \/ RetryEnds
MergeStep == MergeInserts \/ MergeMatches \/ MergeCollides \/ MergeFails \/ AnswerLost
SendStep == SkipUndated \/ StartMerge \/ LoopEnds \/ MarkSent \/ PublishAck \/ Retry
ReclaimStep == DropSent \/ RingEvict \/ EvictRow \/ ReclaimEnds

Fairness ==
    /\ WF_eventPathVars(Detector(DetectorLoop)) /\ WF_eventPathVars(Detector(RetryDue))
    /\ WF_eventPathVars(Detector(\E a \in eventAckTopic : OnAck(a)))
    /\ WF_eventPathVars(Bridge(\E e \in eventTopic : OnEvent(e)))
    /\ SF_eventPathVars(Bridge(RunOnce))
    /\ WF_eventPathVars(Bridge(MergeStep)) /\ WF_eventPathVars(Bridge(SendStep))
    /\ WF_eventPathVars(Bridge(ReclaimStep))
    /\ WF_eventPathVars(Bridge(BackoffElapses)) /\ WF_eventPathVars(Bridge(CooldownElapses))

FairSpec == Spec /\ Fairness

(* What the path is built to survive when it happens only finitely often.  *)
(* (A step that is also a regular one is no trouble: a message that is     *)
(* ignored looks like a lost one, and a restart may look like RetryEnds.)  *)
Delivery == (\E e \in eventTopic : OnEvent(e)) \/ (\E a \in eventAckTopic : OnAck(a))

Trouble ==
    \/ /\ (LoseEvent \/ LoseEventAck) /\ ~Delivery
       /\ UNCHANGED <<detectorVars, eventBridgeVars>>
    \/ Bridge(MergeFails \/ AnswerLost \/ BridgeRestart)
    \/ Detector(SessionLost \/ (DetectorRestart /\ ~RetryEnds))
    \/ Reboot

TroubleEnds ==
    /\ <>[][~Trouble]_eventPathVars
    /\ <>[](ssid \in Profiles /\ baseline # NoBaseline /\ ackSubscribed)

Confirmed(e) == Buffered(e.event_id) /\ buffer[e.event_id].event = e

(* A confirmed transition is written: once the trouble is over, the hub on *)
(* a profile's network and its clock synchronised, whatever was lost,      *)
(* evicted, refused or restarted before (retry_pending, run_once); unless  *)
(* a failure of its MERGE was taken for a success (sender.py:123).         *)
EventReachesOracle ==
    TroubleEnds =>
        \A e \in Events : Confirmed(e) ~> (e \in misread \/ \E d \in MkDates : Written(e, d))

(* The same design document, line 203: a resent event is acked again, so   *)
(* that the detector stops resending.                                      *)
EventIsAcked ==
    TroubleEnds =>
        \A i \in EventIds : Buffered(i) ~> (Buffered(i) /\ buffer[i].status = "acked")

-----------------------------------------------------------------------------
(* The abstract specification and the refinement mapping.                  *)

(* Its own date, or one that some boot's clock gives its monotonic time.   *)
MayBear(e) ==
    IF e.mk_date # NoDate THEN {e.mk_date} ELSE {MkDateAt(e.mono, o) : o \in Offsets}

Outcome == INSTANCE EventOutcome WITH
               DatesOf <- [e \in Events |-> MayBear(e)],
               confirmed <- {e \in Events : Confirmed(e)},
               inHand <- fresh,
               written <- oracle,
               settled <- {e \in Events : Confirmed(e) /\ buffer[e.event_id].status = "acked"}

(* The whole path, with its topics, tables, restarts, reboots and late     *)
(* answers, does no more than EventOutcome: no row without its event or    *)
(* under another's date, no event lost, none settled that is neither       *)
(* written nor misread.                                                    *)
ImplementsOutcome == Outcome!Spec
=============================================================================
