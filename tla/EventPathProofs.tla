--------------------------- MODULE EventPathProofs ---------------------------
(***************************************************************************)
(* What the event path promises, proved for every set of events, profiles, *)
(* dates, clocks and ORA codes, and every policy for unknown SSIDs: its    *)
(* type invariant, that what it reports as written is written, and what a  *)
(* step may do to the inbox.                                               *)
(***************************************************************************)
EXTENDS EventPath, FiniteSetTheorems, TLAPS

-----------------------------------------------------------------------------
(* The helpers' types.                                                     *)

(* An event's parts (_emit_transition builds complete payloads only).      *)
LEMMA EventType ==
    ASSUME NEW e \in Events
    PROVE /\ e.event_id \in EventIds
          /\ e.mono \in Instants
          /\ e.mk_date \in MkDates \cup {NoDate}
          /\ \A d \in MkDates : ContentAt(e, d) \in Content
BY EventChannelAssumption DEF Event, ContentAt, Content

(* The circuit breaker's operations keep an entry an entry.                *)
LEMMA BreakerType ==
    ASSUME NEW e \in BreakerEntry, NEW c
    PROVE /\ NewEntry \in BreakerEntry
          /\ state_for(e) \in BreakerEntry
          /\ record_failure(e, c) \in BreakerEntry
          /\ record_success(e) \in BreakerEntry
          /\ CooldownRunsOut(e) \in BreakerEntry
BY DEF BreakerEntry, NewEntry, state_for, record_failure, record_success, CooldownRunsOut

(* The reclaim block deletes a natural number of rows.                     *)
LEMMA ExcessType ==
    ASSUME NEW S, S \subseteq EventIds, NEW limit \in Nat
    PROVE Excess(Cardinality(S), limit) \in Nat
<1>1. IsFiniteSet(S)
  BY EventBridgeAssumption, FS_Subset
<1>2. Cardinality(S) \in Nat
  BY <1>1, FS_CardinalityType
<1> QED
  BY <1>2 DEF Excess

(* A date that _resolve_mk_date finds is a date the table can hold.        *)
LEMMA ResolvedType ==
    ASSUME NEW e \in Events, baseline \in Offsets \cup {NoBaseline}
    PROVE resolve_mk_date(e) \in MkDates \cup {NoDate}
<1>1. CASE e.mk_date # NoDate
  BY <1>1, EventType DEF resolve_mk_date
<1>2. CASE e.mk_date = NoDate /\ baseline # NoBaseline
  <2>1. MkDateAt(e.mono, baseline) \in MkDates
    BY <1>2, EventType, EventChannelAssumption
  <2> QED
    BY <1>2, <2>1 DEF resolve_mk_date
<1>3. CASE e.mk_date = NoDate /\ baseline = NoBaseline
  BY <1>3 DEF resolve_mk_date
<1> QED
  BY <1>1, <1>2, <1>3

(* What the baseline may be is what some boot's clock reads.               *)
LEMMA BaselineType ==
    ASSUME boot \in Boots
    PROVE OffsetsOf[boot] \subseteq Offsets
BY DEF Offsets

LEMMA DueEventsType ==
    ASSUME inbox \in [EventIds -> Row \cup {NoRow}]
    PROVE DueEvents \subseteq Events
BY DEF DueEvents, RowsOf, Present, Row

LEMMA DueEntriesType ==
    ASSUME buffer \in [EventIds -> Entry \cup {NoEntry}], NEW s
    PROVE DueEntries(s) \subseteq Events
BY DEF DueEntries, Buffered, Entry

LEMMA AnswersType ==
    /\ NoAnswer \in MergeResult
    /\ Accepted \in MergeResult
    /\ \A c \in OraCodes \cup {NoCode} : Refused(c) \in MergeResult
BY OracleAssumption DEF NoAnswer, Accepted, Refused, MergeResult

-----------------------------------------------------------------------------
(* The type invariant.                                                     *)

LEMMA InitType == Init => EventTypeOK
<1> SUFFICES ASSUME Init PROVE EventTypeOK
  OBVIOUS
<1>1. EventChannelTypeOK
  BY EventChannelAssumption DEF Init, EventChannelInit, EventChannelTypeOK, Boots
<1>2. DetectorTypeOK
  BY DEF Init, DetectorInit, DetectorTypeOK
<1>3. NewEntry \in BreakerEntry
  BY DEF NewEntry, BreakerEntry
<1>4. EventBridgeTypeOK
  BY <1>3, AnswersType, EventBridgeAssumption
  DEF Init, EventBridgeInit, EventBridgeTypeOK, OracleInit, OracleTypeOK
<1> QED
  BY <1>1, <1>2, <1>4 DEF EventTypeOK

(* The statements that write the detector's buffer keep it a table.        *)
LEMMA BufferWrites ==
    ASSUME buffer \in [EventIds -> Entry \cup {NoEntry}], NEW i \in EventIds, Buffered(i)
    PROVE /\ \A s \in {"pending", "sent", "acked"} :
                [buffer EXCEPT ![i].status = s] \in [EventIds -> Entry \cup {NoEntry}]
          /\ \A b \in BOOLEAN :
                [buffer EXCEPT ![i].due = b] \in [EventIds -> Entry \cup {NoEntry}]
<1>1. buffer[i] \in Entry
  BY DEF Buffered
<1> QED
  BY <1>1 DEF Entry

(* The statements that write the inbox keep it a table.                    *)
LEMMA InboxWrites ==
    ASSUME inbox \in [EventIds -> Row \cup {NoRow}], NEW i \in EventIds
    PROVE /\ Remove(i) => inbox' \in [EventIds -> Row \cup {NoRow}]
          /\ Present(i) => \A b \in BOOLEAN :
                [inbox EXCEPT ![i].due = b] \in [EventIds -> Row \cup {NoRow}]
          /\ Present(i) => \A d \in MkDates :
                [inbox EXCEPT ![i].status = "sent", ![i].committed = d]
                    \in [EventIds -> Row \cup {NoRow}]
          /\ \A e \in Events :
                [inbox EXCEPT ![i] = [status |-> "received", event |-> e, due |-> TRUE,
                                      committed |-> NoDate]]
                    \in [EventIds -> Row \cup {NoRow}]
<1>1. Present(i) => inbox[i] \in Row
  BY DEF Present
<1>2. Remove(i) => inbox' \in [EventIds -> Row \cup {NoRow}]
  BY DEF Remove
<1>3. Present(i) => \A b \in BOOLEAN :
        [inbox EXCEPT ![i].due = b] \in [EventIds -> Row \cup {NoRow}]
  BY <1>1 DEF Row
<1>4. Present(i) => \A d \in MkDates :
        [inbox EXCEPT ![i].status = "sent", ![i].committed = d]
            \in [EventIds -> Row \cup {NoRow}]
  BY <1>1 DEF Row
<1>5. \A e \in Events :
        [inbox EXCEPT ![i] = [status |-> "received", event |-> e, due |-> TRUE,
                              committed |-> NoDate]]
            \in [EventIds -> Row \cup {NoRow}]
  BY DEF Row
<1> QED
  BY <1>2, <1>3, <1>4, <1>5

(* The detector works only on events it has stored, and stores each once.  *)
DetectorInv ==
    /\ \A i \in EventIds : Buffered(i) => born[i] # 0 /\ buffer[i].event.event_id = i
    /\ \A e \in todo : Confirmed(e)
    /\ (step \in {"inserted", "published"} => Confirmed(fresh))

(* A write of a buffered row's status or due time keeps the rows known.    *)
LEMMA BufferUpdate ==
    ASSUME buffer \in [EventIds -> Entry \cup {NoEntry}],
           NEW i \in EventIds, Buffered(i),
           \/ \E s \in {"pending", "sent", "acked"} : buffer' = [buffer EXCEPT ![i].status = s]
           \/ \E b \in BOOLEAN : buffer' = [buffer EXCEPT ![i].due = b]
    PROVE /\ buffer' \in [EventIds -> Entry \cup {NoEntry}]
          /\ \A j \in EventIds : Buffered(j)' <=> Buffered(j)
          /\ \A j \in EventIds : Buffered(j) => buffer'[j].event = buffer[j].event
<1>1. buffer' \in [EventIds -> Entry \cup {NoEntry}]
  <2>1. CASE \E s \in {"pending", "sent", "acked"} : buffer' = [buffer EXCEPT ![i].status = s]
    BY <2>1, BufferWrites
  <2>2. CASE \E b \in BOOLEAN : buffer' = [buffer EXCEPT ![i].due = b]
    BY <2>2, BufferWrites
  <2> QED
    BY <2>1, <2>2
<1>2. buffer[i] \in Entry
  BY DEF Buffered
<1>3. buffer'[i] \in Entry /\ buffer'[i].event = buffer[i].event
  BY <1>2 DEF Entry
<1>4. \A j \in EventIds : j # i => buffer'[j] = buffer[j]
  OBVIOUS
<1> QED
  BY <1>1, <1>3, <1>4, DetectorAssumption DEF Buffered

(* What a step of the detector does to the events it has stored.           *)
DetectorKeeps ==
    /\ DetectorTypeOK'
    /\ DetectorInv'
    /\ \A e \in Events : Confirmed(e) => Confirmed(e)'

LEMMA DetectorStepKeeps ==
    ASSUME EventChannelTypeOK, DetectorTypeOK, DetectorInv, DetectorStep
    PROVE DetectorKeeps /\ EventChannelTypeOK'
<1> USE DEF EventChannelTypeOK, eventChannelVars
<1>1. ASSUME NEW e \in Events, EmitTransition(e) PROVE DetectorKeeps /\ EventChannelTypeOK'
  <2>1. /\ e.event_id \in EventIds /\ ~Buffered(e.event_id)
        /\ step' = "inserted" /\ fresh' = e /\ todo' = todo
        /\ buffer' = [buffer EXCEPT ![e.event_id] =
                        [status |-> "pending", event |-> e, due |-> TRUE]]
        /\ born' = [born EXCEPT ![e.event_id] = boot]
        /\ boot \in Boots /\ boot # 0
    BY <1>1, EventType DEF EmitTransition, DetectorInv, Boots
  <2>2. [status |-> "pending", event |-> e, due |-> TRUE] \in Entry
    BY DEF Entry
  <2>3. DetectorTypeOK'
    BY <2>1, <2>2 DEF DetectorTypeOK
  <2>4. \A f \in Events : Confirmed(f) => Confirmed(f)'
    BY <2>1 DEF Confirmed, Buffered, DetectorTypeOK
  <2>5. Confirmed(e)'
    BY <2>1, <2>2, DetectorAssumption DEF Confirmed, Buffered, DetectorTypeOK
  <2>6. \A f \in todo : Confirmed(f)'
    BY <2>4 DEF DetectorInv, DetectorTypeOK
  <2>7. \A i \in EventIds : Buffered(i)' => born'[i] # 0 /\ buffer'[i].event.event_id = i
    BY <2>1 DEF DetectorInv, Buffered, DetectorTypeOK
  <2>8. DetectorInv'
    BY <2>1, <2>5, <2>6, <2>7 DEF DetectorInv
  <2> QED
    BY <1>1, <2>3, <2>4, <2>8 DEF DetectorKeeps, EmitTransition
<1>2. ASSUME NEW i \in EventIds, Buffered(i),
             \/ \E s \in {"pending", "sent", "acked"} :
                    buffer' = [buffer EXCEPT ![i].status = s]
             \/ \E b \in BOOLEAN : buffer' = [buffer EXCEPT ![i].due = b],
             born' = born, todo' \subseteq todo,
             \/ step' = step /\ fresh' = fresh
             \/ step' = "idle" /\ fresh' = NoEvent
      PROVE DetectorKeeps
  <2>1. /\ buffer' \in [EventIds -> Entry \cup {NoEntry}]
        /\ \A j \in EventIds : Buffered(j)' <=> Buffered(j)
        /\ \A j \in EventIds : Buffered(j) => buffer'[j].event = buffer[j].event
    BY <1>2, BufferUpdate DEF DetectorTypeOK
  <2>2. \A e \in Events : Confirmed(e) => Confirmed(e)'
    BY <2>1, EventType DEF Confirmed
  <2>3. DetectorTypeOK'
    BY <1>2, <2>1 DEF DetectorTypeOK
  <2>4. \A j \in EventIds : Buffered(j)' => born'[j] # 0 /\ buffer'[j].event.event_id = j
    BY <1>2, <2>1 DEF DetectorInv
  <2>5. \A e \in todo' : Confirmed(e)'
    BY <1>2, <2>2 DEF DetectorInv, DetectorTypeOK
  <2>6. step' \in {"inserted", "published"} => Confirmed(fresh)'
    <3>1. CASE step' = step /\ fresh' = fresh /\ step \in {"inserted", "published"}
      <4>1. fresh \in Events /\ Confirmed(fresh)
        BY <3>1 DEF DetectorInv, DetectorTypeOK
      <4>2. PICK e \in Events : e = fresh /\ Confirmed(e)
        BY <4>1
      <4> QED
        BY <2>2, <3>1, <4>2 DEF Confirmed
    <3> QED
      BY <1>2, <3>1
  <2> QED
    BY <2>2, <2>3, <2>4, <2>5, <2>6 DEF DetectorKeeps, DetectorInv
<1>3. ASSUME UNCHANGED <<buffer, born>>,
             \A e \in todo' : e \in Events /\ Confirmed(e),
             step' \in {"idle", "inserted", "published", "pending", "sent"},
             fresh' \in Events \cup {NoEvent},
             step' \in {"inserted", "published"} => fresh' \in Events /\ Confirmed(fresh')
      PROVE DetectorKeeps
  <2>1. \A e \in Events : Confirmed(e) => Confirmed(e)'
    BY <1>3 DEF Confirmed, Buffered
  <2>2. DetectorTypeOK'
    BY <1>3 DEF DetectorTypeOK
  <2>3. \A i \in EventIds : Buffered(i)' => born'[i] # 0 /\ buffer'[i].event.event_id = i
    BY <1>3 DEF DetectorInv, Buffered
  <2>4. \A e \in todo' : Confirmed(e)'
    BY <1>3, <2>1
  <2>5. step' \in {"inserted", "published"} => Confirmed(fresh)'
    BY <1>3 DEF Confirmed, Buffered
  <2> QED
    BY <2>1, <2>2, <2>3, <2>4, <2>5 DEF DetectorKeeps, DetectorInv
<1>4. \A e \in todo : e \in Events /\ Confirmed(e) /\ e.event_id \in EventIds
  BY EventType DEF DetectorInv, DetectorTypeOK
<1>5. /\ fresh \in Events \cup {NoEvent}
      /\ step \in {"inserted", "published"} =>
            fresh \in Events /\ Confirmed(fresh) /\ fresh.event_id \in EventIds
  BY EventType DEF DetectorInv, DetectorTypeOK
<1>6. CASE PublishEvent
  <2>1. DetectorKeeps
    BY <1>3, <1>4, <1>5, <1>6 DEF PublishEvent
  <2> QED
    BY <1>5, <1>6, <2>1 DEF PublishEvent
<1>7. CASE MarkPublished
  <2>1. Buffered(fresh.event_id)
    BY <1>5, <1>7 DEF MarkPublished, Confirmed
  <2>2. DetectorKeeps
    BY <1>2, <1>5, <1>7, <2>1 DEF MarkPublished
  <2> QED
    BY <1>7, <2>2 DEF MarkPublished
<1>8. CASE RetryScan
  <2>1. \A s : \A e \in DueEntries(s) : e \in Events /\ Confirmed(e)
    BY DEF DueEntries, Confirmed, DetectorInv, DetectorTypeOK, Buffered, Entry
  <2>2. DetectorKeeps
    BY <1>3, <1>5, <1>8, <2>1 DEF RetryScan
  <2> QED
    BY <1>8, <2>2 DEF RetryScan
<1>9. CASE Resend
  <2>1. PICK e \in todo : /\ eventTopic' = eventTopic \cup {e}
                          /\ buffer' = [buffer EXCEPT ![e.event_id].due = FALSE]
                          /\ todo' = todo \ {e}
    BY <1>9 DEF Resend
  <2>2. Buffered(e.event_id)
    BY <1>4 DEF Confirmed
  <2>3. DetectorKeeps
    BY <1>2, <1>4, <1>9, <2>1, <2>2 DEF Resend
  <2> QED
    BY <1>4, <1>9, <2>1, <2>3 DEF Resend
<1>10. CASE RetryEnds
  <2>1. DetectorKeeps
    BY <1>3, <1>4, <1>5, <1>10 DEF RetryEnds
  <2> QED
    BY <1>10, <2>1 DEF RetryEnds
<1>11. ASSUME NEW a \in eventAckTopic, OnAck(a) PROVE DetectorKeeps /\ EventChannelTypeOK'
  <2>1. a.event_id \in EventIds
    BY <1>11 DEF Ack
  <2>2. CASE Buffered(a.event_id)
    <3>1. DetectorKeeps
      BY <1>2, <1>11, <2>1, <2>2 DEF OnAck
    <3> QED
      BY <1>11, <3>1 DEF OnAck
  <2>3. CASE ~Buffered(a.event_id)
    <3>1. DetectorKeeps
      BY <1>3, <1>4, <1>5, <1>11, <2>3 DEF OnAck, DetectorTypeOK
    <3> QED
      BY <1>11, <3>1 DEF OnAck
  <2> QED
    BY <2>2, <2>3
<1>12. CASE SessionLost
  <2>1. DetectorKeeps
    BY <1>3, <1>4, <1>5, <1>12 DEF SessionLost, detectorVars, DetectorTypeOK
  <2> QED
    BY <1>12, <2>1 DEF SessionLost
<1>13. CASE RetryDue
  <2>1. DetectorKeeps
    BY <1>2, <1>13 DEF RetryDue
  <2> QED
    BY <1>13, <2>1 DEF RetryDue
<1>14. CASE DetectorRestart
  <2>1. DetectorKeeps
    BY <1>3, <1>14 DEF DetectorRestart, DetectorStarts
  <2> QED
    BY <1>14, <2>1 DEF DetectorRestart, DetectorStarts
<1> QED
  BY <1>1, <1>6, <1>7, <1>8, <1>9, <1>10, <1>11, <1>12, <1>13, <1>14 DEF DetectorStep

(* Every step of the bridge keeps the types, whatever the detector does.   *)
LEMMA BridgeStepType ==
    ASSUME EventChannelTypeOK, EventBridgeTypeOK, EventBridgeStep
    PROVE EventChannelTypeOK' /\ EventBridgeTypeOK'
<1> USE DEF EventChannelTypeOK, EventBridgeTypeOK, OracleTypeOK, eventChannelVars, hubVars,
            loopVars, work, dbVars
<1>1. ASSUME NEW e \in eventTopic, OnEvent(e) PROVE EventChannelTypeOK' /\ EventBridgeTypeOK'
  <2>1. e \in Events /\ e.event_id \in EventIds
    BY EventType
  <2>2. inbox' \in [EventIds -> Row \cup {NoRow}]
    <3>1. [inbox EXCEPT ![e.event_id] = [status |-> "received", event |-> e, due |-> TRUE,
                                         committed |-> NoDate]]
            \in [EventIds -> Row \cup {NoRow}]
      BY <2>1, InboxWrites
    <3> QED
      BY <1>1, <3>1 DEF OnEvent
  <2> QED
    BY <1>1, <2>2 DEF OnEvent
<1>2. CASE NetworkPoll
  BY <1>2 DEF NetworkPoll
<1>3. CASE SyncAcquired
  BY <1>3, BaselineType DEF SyncAcquired
<1>4. CASE SyncLost
  BY <1>4 DEF SyncLost
<1>5. CASE RunOnce
  <2>1. profile' \in Profiles /\ lastKnown' \in Profiles \cup {NoProfile}
    BY <1>5 DEF RunOnce, MaySend, Remember
  <2>2. breaker' \in [Profiles -> BreakerEntry]
    BY <1>5, <2>1, BreakerType DEF RunOnce
  <2>3. batch' \in SUBSET Events
    BY <1>5, DueEventsType DEF RunOnce
  <2> QED
    BY <1>5, <2>1, <2>2, <2>3 DEF RunOnce
<1>6. CASE RunNothing
  BY <1>6 DEF RunNothing, Remember
<1>7. CASE SkipUndated
  BY <1>7 DEF SkipUndated
<1>8. CASE StartMerge
  <2>1. PICK e \in batch : /\ resolve_mk_date(e) # NoDate
                           /\ cur' = e
                           /\ curDate' = resolve_mk_date(e)
                           /\ matched' = (ContentAt(e, curDate') \in oracle[profile])
                           /\ batch' = batch \ {e}
    BY <1>8 DEF StartMerge
  <2>2. curDate' \in MkDates
    BY <2>1, ResolvedType
  <2> QED
    BY <1>8, <2>1, <2>2 DEF StartMerge
<1>9. CASE LoopEnds
  BY <1>9 DEF LoopEnds
<1>10. CASE MergeInserts
  <2>1. Current \in Content
    BY <1>10, EventType DEF MergeInserts, Current
  <2> QED
    BY <1>10, <2>1, AnswersType DEF MergeInserts, Commit, Answered
<1>11. CASE MergeMatches
  BY <1>11, AnswersType DEF MergeMatches, Answered
<1>12. CASE MergeCollides
  BY <1>12, AnswersType, OracleAssumption DEF MergeCollides, Answered
<1>13. CASE MergeFails
  <2>1. PICK c \in (OraCodes \ {DupCode}) \cup {NoCode} : Answered(Refused(c))
    BY <1>13 DEF MergeFails
  <2>2. Refused(c) \in MergeResult
    BY AnswersType
  <2> QED
    BY <1>13, <2>1, <2>2 DEF MergeFails, Answered
<1>14. CASE AnswerLost
  <2>1. Current \in Content
    BY <1>14, EventType DEF AnswerLost, Current
  <2>2. PICK c \in (OraCodes \ (Permanent \cup {DupCode})) \cup {NoCode} : Answered(Refused(c))
    BY <1>14 DEF AnswerLost
  <2>3. Refused(c) \in MergeResult
    BY AnswersType
  <2>4. late' \in SUBSET (Profiles \X Content) /\ oracle' = oracle
    BY <1>14, <2>1 DEF AnswerLost
  <2> QED
    BY <1>14, <2>2, <2>3, <2>4 DEF AnswerLost, Answered
<1>15. CASE LateCommit
  BY <1>15 DEF LateCommit, FinishLate, Commit
<1>16. CASE LateRollback
  BY <1>16 DEF LateRollback, RollBackLate
<1>17. CASE MarkSent
  <2>1. cur.event_id \in EventIds /\ curDate \in MkDates /\ profile \in Profiles
    BY <1>17, EventType DEF MarkSent
  <2>2. inbox' \in [EventIds -> Row \cup {NoRow}]
    BY <1>17, <2>1, InboxWrites DEF MarkSent
  <2>3. breaker' \in [Profiles -> BreakerEntry]
    BY <1>17, <2>1, BreakerType DEF MarkSent
  <2> QED
    BY <1>17, <2>2, <2>3 DEF MarkSent
<1>18. CASE PublishAck
  <2>1. [event_id |-> cur.event_id, mk_date |-> curDate] \in Ack
    BY <1>18, EventType DEF PublishAck, Ack
  <2> QED
    BY <1>18, <2>1, AnswersType DEF PublishAck, SendEventAck, Return
<1>19. CASE Retry
  <2>1. cur.event_id \in EventIds /\ profile \in Profiles
    BY <1>19, EventType DEF Retry
  <2>2. inbox' \in [EventIds -> Row \cup {NoRow}]
    BY <1>19, <2>1, InboxWrites DEF Retry
  <2>3. breaker' \in [Profiles -> BreakerEntry]
    BY <1>19, <2>1, BreakerType DEF Retry
  <2> QED
    BY <1>19, <2>2, <2>3, AnswersType DEF Retry, Return
<1>20. CASE DeleteSent
  <2>1. excess' \in Nat
    BY <1>20, ExcessType, EventBridgeAssumption DEF DeleteSent, RowsOf
  <2> QED
    BY <1>20, <2>1 DEF DeleteSent, Reclaim
<1>21. CASE DropSent
  <2>1. inbox' \in [EventIds -> Row \cup {NoRow}]
    BY <1>21, InboxWrites DEF DropSent, RowsOf
  <2> QED
    BY <1>21, <2>1 DEF DropSent, Reclaim
<1>22. CASE RingEvict
  <2>1. excess' \in Nat
    BY <1>22, ExcessType, EventBridgeAssumption DEF RingEvict
  <2> QED
    BY <1>22, <2>1 DEF RingEvict, Reclaim
<1>23. CASE EvictRow
  <2>1. inbox' \in [EventIds -> Row \cup {NoRow}]
    BY <1>23, InboxWrites DEF EvictRow, Evictable, RowsOf
  <2> QED
    BY <1>23, <2>1 DEF EvictRow, Reclaim
<1>24. CASE ReclaimEnds
  BY <1>24 DEF ReclaimEnds, Reclaim
<1>25. CASE BackoffElapses
  <2>1. inbox' \in [EventIds -> Row \cup {NoRow}]
    <3>1. PICK i \in RowsOf("received") : inbox' = [inbox EXCEPT ![i].due = TRUE]
      BY <1>25 DEF BackoffElapses
    <3>2. i \in EventIds /\ Present(i)
      BY DEF RowsOf
    <3> QED
      BY <3>1, <3>2, InboxWrites
  <2> QED
    BY <1>25, <2>1 DEF BackoffElapses
<1>26. CASE CooldownElapses
  BY <1>26, BreakerType DEF CooldownElapses
<1>27. CASE BridgeRestart
  <2>1. NewEntry \in BreakerEntry
    BY DEF NewEntry, BreakerEntry
  <2>2. late' \in SUBSET (Profiles \X Content)
    BY <1>27, EventType DEF BridgeRestart, BridgeStarts, Current
  <2> QED
    BY <1>27, <2>1, <2>2, AnswersType DEF BridgeRestart, BridgeStarts
<1> QED
  BY <1>1, <1>2, <1>3, <1>4, <1>5, <1>6, <1>7, <1>8, <1>9, <1>10, <1>11, <1>12, <1>13, <1>14,
     <1>15, <1>16, <1>17, <1>18, <1>19, <1>20, <1>21, <1>22, <1>23, <1>24, <1>25, <1>26, <1>27
  DEF EventBridgeStep

LEMMA BridgeUnchangedType ==
    ASSUME EventBridgeTypeOK, UNCHANGED eventBridgeVars
    PROVE EventBridgeTypeOK'
BY DEF EventBridgeTypeOK, OracleTypeOK, eventBridgeVars, hubVars, loopVars, work, dbVars

(* A detector that does nothing, or restarts, keeps what it has stored.    *)
LEMMA DetectorUnchanged ==
    ASSUME DetectorTypeOK, DetectorInv, UNCHANGED detectorVars \/ DetectorStarts
    PROVE DetectorKeeps
<1>1. CASE UNCHANGED detectorVars
  BY <1>1 DEF DetectorKeeps, DetectorTypeOK, DetectorInv, Confirmed, Buffered, detectorVars
<1>2. CASE DetectorStarts
  BY <1>2 DEF DetectorKeeps, DetectorTypeOK, DetectorInv, Confirmed, Buffered, DetectorStarts
<1> QED
  BY <1>1, <1>2

(* A boot of the Pi is a restart of both services and an empty broker.      *)
LEMMA RebootType ==
    ASSUME EventChannelTypeOK, EventBridgeTypeOK, Reboot
    PROVE EventChannelTypeOK' /\ EventBridgeTypeOK'
<1>1. EventChannelTypeOK'
  <2>1. boot' \in Boots
    BY EventChannelAssumption DEF Reboot, EventChannelTypeOK, Boots
  <2> QED
    BY <2>1 DEF Reboot, EventChannelTypeOK, DetectorStarts
<1>2. EventBridgeTypeOK'
  <2>1. BridgeStarts /\ NewEntry \in BreakerEntry
    BY DEF Reboot, NewEntry, BreakerEntry
  <2>2. late' \in SUBSET (Profiles \X Content)
    BY <2>1, EventType DEF BridgeStarts, Current, EventBridgeTypeOK, OracleTypeOK
  <2> QED
    BY <2>1, <2>2, AnswersType DEF BridgeStarts, EventBridgeTypeOK, OracleTypeOK
<1> QED
  BY <1>1, <1>2

TypeInv == EventTypeOK /\ DetectorInv

LEMMA NextType ==
    ASSUME TypeInv, [Next]_eventPathVars
    PROVE TypeInv' /\ DetectorKeeps
<1> USE DEF TypeInv, EventTypeOK
<1>1. CASE DetectorStep /\ UNCHANGED eventBridgeVars
  BY <1>1, DetectorStepKeeps, BridgeUnchangedType DEF DetectorKeeps
<1>2. CASE EventBridgeStep /\ UNCHANGED detectorVars
  BY <1>2, BridgeStepType, DetectorUnchanged DEF DetectorKeeps
<1>3. CASE (LoseEvent \/ LoseEventAck) /\ UNCHANGED <<detectorVars, eventBridgeVars>>
  <2>1. EventChannelTypeOK'
    BY <1>3 DEF LoseEvent, LoseEventAck, EventChannelTypeOK
  <2>2. UNCHANGED detectorVars /\ UNCHANGED eventBridgeVars
    BY <1>3
  <2> QED
    BY <2>1, <2>2, BridgeUnchangedType, DetectorUnchanged DEF DetectorKeeps
<1>4. CASE Reboot
  BY <1>4, RebootType, DetectorUnchanged DEF Reboot, DetectorKeeps
<1>5. CASE UNCHANGED eventPathVars
  <2>1. UNCHANGED detectorVars /\ UNCHANGED eventBridgeVars /\ UNCHANGED eventChannelVars
    BY <1>5 DEF eventPathVars
  <2>2. EventChannelTypeOK'
    BY <2>1 DEF EventChannelTypeOK, eventChannelVars
  <2> QED
    BY <2>1, <2>2, BridgeUnchangedType, DetectorUnchanged DEF DetectorKeeps
<1> QED
  BY <1>1, <1>2, <1>3, <1>4, <1>5 DEF Next

LEMMA InitTypeInv == Init => TypeInv
<1> SUFFICES ASSUME Init PROVE TypeInv
  OBVIOUS
<1>1. EventTypeOK
  BY InitType
<1>2. DetectorInv
  BY DEF Init, DetectorInit, DetectorInv, Buffered
<1> QED
  BY <1>1, <1>2 DEF TypeInv

LEMMA TypesHold == Spec => []TypeInv
<1>1. TypeInv /\ [Next]_eventPathVars => TypeInv'
  BY NextType
<1> QED
  BY <1>1, InitTypeInv, PTL DEF Spec

(* The path's state is always well formed: in particular every MERGE has a  *)
(* date the table can hold and a known profile, and every ack an event_id. *)
THEOREM EventTypeCorrect == Spec => []EventTypeOK
<1>1. TypeInv => EventTypeOK
  BY DEF TypeInv
<1> QED
  BY <1>1, TypesHold, PTL

-----------------------------------------------------------------------------
(* What the tables hold, and what run_once has in hand.                    *)

(* The event is in the inbox, waiting for Oracle.                          *)
Waiting(e) ==
    /\ Present(e.event_id)
    /\ inbox[e.event_id].event = e
    /\ inbox[e.event_id].status = "received"

(* A message is of a stored event, and a row is filed under its event_id.  *)
Filed ==
    /\ \A e \in eventTopic : Confirmed(e)
    /\ \A i \in EventIds : Present(i) => Confirmed(inbox[i].event) /\ inbox[i].event.event_id = i

(* What run_once works on stays in the inbox, waiting, until its own mark.  *)
SendingInv ==
    /\ (at \in {"idle", "trim", "evict"} => batch = {})
    /\ \A e \in batch : Waiting(e) /\ e # cur
    /\ (at \in {"merging", "answered"} => Waiting(cur))
    /\ (at = "sent" => Confirmed(cur))
    /\ (at \in {"idle", "loop", "trim", "evict"} => cur = NoWork)

StoreInv == Filed /\ SendingInv

(* A row's due time or mark changes: what the other fields say stays.      *)
LEMMA RowUpdate ==
    ASSUME inbox \in [EventIds -> Row \cup {NoRow}], NEW i \in EventIds, Present(i),
           \/ \E b \in BOOLEAN : inbox' = [inbox EXCEPT ![i].due = b]
           \/ \E d \in MkDates :
                inbox' = [inbox EXCEPT ![i].status = "sent", ![i].committed = d]
    PROVE /\ \A j \in EventIds : Present(j)' <=> Present(j)
          /\ \A j \in EventIds : Present(j) => inbox'[j].event = inbox[j].event
          /\ \A j \in EventIds : j # i => inbox'[j] = inbox[j]
<1>1. inbox[i] \in Row
  BY DEF Present
<1>2. CASE \E b \in BOOLEAN : inbox' = [inbox EXCEPT ![i].due = b]
  <2>1. PICK b \in BOOLEAN : inbox' = [inbox EXCEPT ![i].due = b]
    BY <1>2
  <2>2. inbox'[i] \in Row /\ inbox'[i].event = inbox[i].event
    BY <1>1, <2>1 DEF Row
  <2>3. \A j \in EventIds : j # i => inbox'[j] = inbox[j]
    BY <2>1
  <2> QED
    BY <2>2, <2>3, EventBridgeAssumption DEF Present
<1>3. CASE \E d \in MkDates : inbox' = [inbox EXCEPT ![i].status = "sent", ![i].committed = d]
  <2>1. PICK d \in MkDates : inbox' = [inbox EXCEPT ![i].status = "sent", ![i].committed = d]
    BY <1>3
  <2>2. inbox'[i] \in Row /\ inbox'[i].event = inbox[i].event
    BY <1>1, <2>1 DEF Row
  <2>3. \A j \in EventIds : j # i => inbox'[j] = inbox[j]
    BY <2>1
  <2> QED
    BY <2>2, <2>3, EventBridgeAssumption DEF Present
<1> QED
  BY <1>2, <1>3

(* The detector's steps: they publish stored events only, and run_once is  *)
(* not concerned.                                                          *)
LEMMA DetectorFiles ==
    ASSUME TypeInv, StoreInv, DetectorKeeps,
           UNCHANGED <<inbox, at, batch, cur>>,
           \A e \in eventTopic' : e \in Events /\ Confirmed(e)
    PROVE StoreInv'
<1> USE DEF TypeInv, EventTypeOK
<1>1. \A e \in Events : Confirmed(e) => Confirmed(e)'
  BY DEF DetectorKeeps
<1>2. \A e \in eventTopic' : Confirmed(e)'
  BY <1>1
<1>3. \A i \in EventIds : Present(i)' => Confirmed(inbox[i].event)' /\ inbox'[i].event.event_id = i
  <2> SUFFICES ASSUME NEW i \in EventIds, Present(i)
               PROVE Confirmed(inbox[i].event)' /\ inbox[i].event.event_id = i
    BY DEF Present
  <2>1. inbox[i].event \in Events /\ Confirmed(inbox[i].event) /\ inbox[i].event.event_id = i
    BY DEF StoreInv, Filed, Present, EventBridgeTypeOK, Row
  <2>2. PICK e \in Events : e = inbox[i].event /\ Confirmed(e)
    BY <2>1
  <2> QED
    BY <1>1, <2>1, <2>2 DEF Confirmed
<1>4. at = "sent" => Confirmed(cur)'
  <2> SUFFICES ASSUME at = "sent" PROVE Confirmed(cur)'
    OBVIOUS
  <2>1. PICK e \in Events : e = cur /\ Confirmed(e)
    BY DEF StoreInv, SendingInv, EventBridgeTypeOK
  <2> QED
    BY <1>1, <2>1 DEF Confirmed
<1>5. SendingInv'
  BY <1>4 DEF StoreInv, SendingInv, Waiting, Present
<1> QED
  BY <1>2, <1>3, <1>5 DEF StoreInv, Filed

(* What a bridge step may do without unsettling run_once: leave the waiting *)
(* rows alone.                                                             *)
LEMMA SendingLasts ==
    ASSUME TypeInv, StoreInv, UNCHANGED <<detectorVars, at, batch, cur>>,
           \A i \in EventIds : Waiting(inbox[i].event) /\ Present(i) =>
                Present(i)' /\ inbox'[i].event = inbox[i].event
                /\ inbox'[i].status = "received"
    PROVE SendingInv'
<1> USE DEF TypeInv, EventTypeOK
<1>1. \A e \in Events : Waiting(e) => Waiting(e)'
  BY EventType DEF Waiting, Present
<1>2. \A e \in batch' : Waiting(e)' /\ e # cur'
  BY <1>1 DEF StoreInv, SendingInv, EventBridgeTypeOK
<1>3. at' \in {"merging", "answered"} => Waiting(cur)'
  <2>1. at \in {"merging", "answered"} => Waiting(cur) /\ cur \in Events
    BY DEF StoreInv, SendingInv, EventBridgeTypeOK
  <2> QED
    BY <1>1, <2>1, EventType DEF Waiting, Present
<1>4. at' = "sent" => Confirmed(cur)'
  BY DEF StoreInv, SendingInv, Confirmed, Buffered, detectorVars
<1> QED
  BY <1>2, <1>3, <1>4 DEF StoreInv, SendingInv

(* A table whose rows are old ones, at most marked or due again, is filed.  *)
LEMMA FiledLasts ==
    ASSUME Filed, UNCHANGED detectorVars, eventTopic' \subseteq eventTopic,
           \A i \in EventIds : Present(i)' => Present(i) /\ inbox'[i].event = inbox[i].event
    PROVE Filed'
BY DEF Filed, Confirmed, Buffered, detectorVars

(* paho's thread: a new row is a stored event's, and disturbs no other.     *)
LEMMA OnEventStores ==
    ASSUME TypeInv, StoreInv, UNCHANGED detectorVars, NEW e \in eventTopic, OnEvent(e)
    PROVE StoreInv'
<1> USE DEF TypeInv, EventTypeOK
<1>1. e \in Events /\ e.event_id \in EventIds /\ Confirmed(e)
  BY EventType DEF StoreInv, Filed, EventChannelTypeOK
<1>2. /\ eventTopic' \subseteq eventTopic /\ UNCHANGED <<at, batch, cur>>
      /\ inbox' = inbox \/ inbox' = [inbox EXCEPT ![e.event_id] =
                                        [status |-> "received", event |-> e, due |-> TRUE,
                                         committed |-> NoDate]]
      /\ \A i \in EventIds : Present(i) => inbox'[i] = inbox[i]
  BY <1>1 DEF OnEvent, loopVars, work, EventBridgeTypeOK
<1>3. Filed'
  <2>1. \A f \in eventTopic' : Confirmed(f)'
    BY <1>2 DEF StoreInv, Filed, Confirmed, Buffered, detectorVars
  <2>2. \A i \in EventIds : Present(i)' =>
            \/ Present(i) /\ inbox'[i] = inbox[i]
            \/ i = e.event_id /\ inbox'[i].event = e
    BY <1>1, <1>2 DEF Present, EventBridgeTypeOK
  <2>3. \A i \in EventIds : Present(i)' => Confirmed(inbox[i].event)' /\ inbox'[i].event.event_id = i
    BY <1>1, <2>2 DEF StoreInv, Filed, Confirmed, Buffered, detectorVars
  <2> QED
    BY <2>1, <2>3 DEF Filed
<1>4. \A i \in EventIds : Waiting(inbox[i].event) /\ Present(i) =>
            Present(i)' /\ inbox'[i].event = inbox[i].event /\ inbox'[i].status = "received"
  BY <1>2 DEF Waiting, Present, StoreInv, Filed
<1>5. SendingInv'
  BY <1>2, <1>4, SendingLasts
<1> QED
  BY <1>3, <1>5 DEF StoreInv

(* run_once fetches, skips and starts; none of it writes the inbox.         *)
LEMMA RunOnceStores ==
    ASSUME TypeInv, StoreInv, UNCHANGED detectorVars,
           RunOnce \/ SkipUndated \/ StartMerge \/ LoopEnds
    PROVE StoreInv'
<1> USE DEF TypeInv, EventTypeOK
<1>1. UNCHANGED <<inbox, eventTopic>>
  BY DEF RunOnce, SkipUndated, StartMerge, LoopEnds, eventChannelVars
<1>2. Filed'
  BY <1>1, FiledLasts DEF StoreInv, Present
<1>3. \A e \in Events : Waiting(e) => Waiting(e)'
  BY <1>1 DEF Waiting, Present
<1>4. CASE RunOnce
  <2>1. at' = "loop" /\ cur' = NoWork /\ batch' = DueEvents
    BY <1>4 DEF RunOnce, StoreInv, SendingInv, work
  <2>2. \A e \in DueEvents : e \in Events /\ Waiting(e) /\ e # NoWork
    BY DueEventsType, EventBridgeAssumption
    DEF DueEvents, RowsOf, Waiting, Present, StoreInv, Filed, EventBridgeTypeOK
  <2>3. SendingInv'
    BY <1>3, <2>1, <2>2 DEF SendingInv
  <2> QED
    BY <1>2, <2>3 DEF StoreInv
<1>5. CASE SkipUndated
  <2>1. at' = "loop" /\ cur' = cur /\ cur = NoWork /\ batch' \subseteq batch
    BY <1>5 DEF SkipUndated, StoreInv, SendingInv, work
  <2>2. SendingInv'
    BY <1>3, <2>1 DEF StoreInv, SendingInv, EventBridgeTypeOK
  <2> QED
    BY <1>2, <2>2 DEF StoreInv
<1>6. CASE StartMerge
  <2>1. PICK e \in batch : cur' = e /\ batch' = batch \ {e}
    BY <1>6 DEF StartMerge
  <2>2. at' = "merging"
    BY <1>6 DEF StartMerge
  <2>3. e \in Events /\ Waiting(e) /\ Waiting(e)'
    BY <1>3 DEF StoreInv, SendingInv, EventBridgeTypeOK
  <2>4. Waiting(cur)'
    BY <2>1, <2>3 DEF Waiting, Present
  <2>5. SendingInv'
    BY <1>3, <2>1, <2>2, <2>4 DEF StoreInv, SendingInv, EventBridgeTypeOK
  <2> QED
    BY <1>2, <2>5 DEF StoreInv
<1>7. CASE LoopEnds
  <2>1. at' = "idle" /\ batch' = {} /\ cur' = NoWork
    BY <1>7 DEF LoopEnds, StoreInv, SendingInv, work
  <2> QED
    BY <1>2, <2>1 DEF StoreInv, SendingInv
<1> QED
  BY <1>4, <1>5, <1>6, <1>7

(* _send_one's answer, mark, ack and back-off.                             *)
LEMMA SendOneStores ==
    ASSUME TypeInv, StoreInv, UNCHANGED detectorVars,
           \/ MergeInserts \/ MergeMatches \/ MergeCollides \/ MergeFails \/ AnswerLost
           \/ MarkSent \/ PublishAck \/ Retry
    PROVE StoreInv'
<1> USE DEF TypeInv, EventTypeOK
<1>1. CASE MergeInserts \/ MergeMatches \/ MergeCollides \/ MergeFails \/ AnswerLost
  <2>1. at = "merging" /\ at' = "answered" /\ UNCHANGED <<inbox, eventTopic, batch, cur>>
    BY <1>1 DEF MergeInserts, MergeMatches, MergeCollides, MergeFails, AnswerLost, Answered,
                eventChannelVars
  <2>2. Filed'
    BY <2>1, FiledLasts DEF StoreInv, Present
  <2>3. SendingInv'
    BY <2>1 DEF StoreInv, SendingInv, Waiting, Present
  <2> QED
    BY <2>2, <2>3 DEF StoreInv
<1>2. CASE MarkSent \/ Retry
  <2>1. /\ at = "answered" /\ cur \in Events /\ curDate \in MkDates
        /\ cur.event_id \in EventIds /\ Waiting(cur)
        /\ UNCHANGED <<eventTopic, batch>>
    BY <1>2, EventType DEF MarkSent, Retry, Return, StoreInv, SendingInv, EventBridgeTypeOK,
                           eventChannelVars
  <2>2. \/ inbox' = [inbox EXCEPT ![cur.event_id].due = FALSE]
        \/ inbox' = [inbox EXCEPT ![cur.event_id].status = "sent",
                                  ![cur.event_id].committed = curDate]
    BY <1>2, <2>1 DEF MarkSent, Retry, Waiting
  <2>3. /\ \A j \in EventIds : Present(j)' <=> Present(j)
        /\ \A j \in EventIds : Present(j) => inbox'[j].event = inbox[j].event
        /\ \A j \in EventIds : j # cur.event_id => inbox'[j] = inbox[j]
    BY <2>1, <2>2, RowUpdate DEF Waiting, EventBridgeTypeOK
  <2>4. Filed'
    BY <2>1, <2>3, FiledLasts DEF StoreInv
  <2>5. \A e \in batch' : Waiting(e)' /\ e # cur
    <3> SUFFICES ASSUME NEW e \in batch PROVE Waiting(e)' /\ e # cur
      BY <2>1
    <3>1. Waiting(e) /\ e # cur /\ e.event_id \in EventIds
      BY EventType DEF StoreInv, SendingInv, EventBridgeTypeOK
    <3>2. e.event_id # cur.event_id
      BY <2>1, <3>1 DEF Waiting
    <3> QED
      BY <2>3, <3>1, <3>2 DEF Waiting, Present
  <2>6. CASE MarkSent
    <3>1. at' = "sent" /\ cur' = cur /\ Confirmed(cur) /\ Confirmed(cur)'
      BY <2>1, <2>6 DEF MarkSent, work, StoreInv, Filed, Waiting, Confirmed, Buffered, detectorVars
    <3> QED
      BY <2>4, <2>5, <3>1 DEF StoreInv, SendingInv
  <2>7. CASE Retry
    <3>1. at' = "loop" /\ cur' = NoWork /\ NoWork \notin batch'
      BY <2>1, <2>7, EventBridgeAssumption DEF Retry, Return, EventBridgeTypeOK
    <3> QED
      BY <2>4, <2>5, <3>1 DEF StoreInv, SendingInv
  <2> QED
    BY <1>2, <2>6, <2>7
<1>3. CASE PublishAck
  <2>1. /\ at = "sent" /\ at' = "loop" /\ cur' = NoWork /\ NoWork \notin batch
        /\ UNCHANGED <<inbox, eventTopic, batch>>
    BY <1>3, EventBridgeAssumption DEF PublishAck, Return, EventBridgeTypeOK
  <2>2. Filed'
    BY <2>1, FiledLasts DEF StoreInv, Present
  <2>3. SendingInv'
    BY <2>1 DEF StoreInv, SendingInv, Waiting, Present
  <2> QED
    BY <2>2, <2>3 DEF StoreInv
<1> QED
  BY <1>1, <1>2, <1>3

(* The reclaim block deletes while run_once has nothing in hand.            *)
LEMMA ReclaimStores ==
    ASSUME TypeInv, StoreInv, UNCHANGED detectorVars,
           DeleteSent \/ DropSent \/ RingEvict \/ EvictRow \/ ReclaimEnds
    PROVE StoreInv'
<1> USE DEF TypeInv, EventTypeOK
<1>1. /\ at \in {"idle", "trim", "evict"} /\ at' \in {"idle", "trim", "evict"}
      /\ UNCHANGED <<eventTopic, batch, cur>>
  BY DEF DeleteSent, DropSent, RingEvict, EvictRow, ReclaimEnds, Reclaim, eventChannelVars, work
<1>2. \A i \in EventIds : inbox'[i] \in {inbox[i], NoRow}
  BY DEF DeleteSent, DropSent, RingEvict, EvictRow, Evictable, ReclaimEnds, Remove, RowsOf,
         EventBridgeTypeOK
<1>3. Filed'
  BY <1>1, <1>2, FiledLasts DEF StoreInv, Present
<1>4. SendingInv'
  BY <1>1 DEF StoreInv, SendingInv
<1> QED
  BY <1>3, <1>4 DEF StoreInv

(* Network, clock, Oracle's late answers and the pauses.                   *)
LEMMA EnvironmentStores ==
    ASSUME TypeInv, StoreInv, UNCHANGED detectorVars,
           \/ NetworkPoll \/ SyncAcquired \/ SyncLost \/ RunNothing
           \/ LateCommit \/ LateRollback \/ BackoffElapses \/ CooldownElapses
    PROVE StoreInv'
<1> USE DEF TypeInv, EventTypeOK
<1>1. UNCHANGED <<eventTopic, at, batch, cur>>
  BY DEF NetworkPoll, SyncAcquired, SyncLost, RunNothing, LateCommit, LateRollback,
         BackoffElapses, CooldownElapses, eventChannelVars, loopVars, work
<1>2. \A i \in EventIds :
        /\ (inbox'[i] # NoRow) = (inbox[i] # NoRow)
        /\ inbox[i] # NoRow =>
                inbox'[i].event = inbox[i].event /\ inbox'[i].status = inbox[i].status
  <2>1. CASE BackoffElapses
    <3>1. PICK i \in RowsOf("received") : inbox' = [inbox EXCEPT ![i].due = TRUE]
      BY <2>1 DEF BackoffElapses
    <3>2. i \in EventIds /\ Present(i) /\ inbox[i] \in Row
      BY <3>1 DEF RowsOf, Present, EventBridgeTypeOK
    <3>3. inbox'[i].status = inbox[i].status
      BY <3>1, <3>2 DEF Row, EventBridgeTypeOK
    <3> QED
      BY <3>1, <3>2, <3>3, RowUpdate DEF EventBridgeTypeOK, Present
  <2>2. CASE UNCHANGED inbox
    BY <2>2
  <2> QED
    BY <2>1, <2>2 DEF NetworkPoll, SyncAcquired, SyncLost, RunNothing, LateCommit, LateRollback,
                      CooldownElapses
<1>3. Filed'
  <2>1. \A i \in EventIds : Present(i)' => Present(i) /\ inbox'[i].event = inbox[i].event
    BY <1>2 DEF Present
  <2> QED
    BY <1>1, <2>1, FiledLasts DEF StoreInv
<1>4. \A i \in EventIds : Waiting(inbox[i].event) /\ Present(i) =>
            Present(i)' /\ inbox'[i].event = inbox[i].event /\ inbox'[i].status = "received"
  <2> SUFFICES ASSUME NEW i \in EventIds, Waiting(inbox[i].event), Present(i)
               PROVE Present(i)' /\ inbox'[i].event = inbox[i].event
                     /\ inbox'[i].status = "received"
    OBVIOUS
  <2>1. inbox[i].event.event_id = i
    BY DEF StoreInv, Filed
  <2> QED
    BY <1>2, <2>1 DEF Waiting, Present
<1>5. SendingInv'
  BY <1>1, <1>4, SendingLasts
<1> QED
  BY <1>3, <1>5 DEF StoreInv

(* New processes have nothing in hand; the tables are on disk.              *)
LEMMA RestartStores ==
    ASSUME TypeInv, StoreInv, UNCHANGED buffer, BridgeStarts, eventTopic' \subseteq eventTopic
    PROVE StoreInv'
<1>1. Filed'
  BY DEF BridgeStarts, StoreInv, Filed, Present, Confirmed, Buffered
<1>2. SendingInv'
  BY DEF BridgeStarts, SendingInv
<1> QED
  BY <1>1, <1>2 DEF StoreInv

LEMMA BridgeStores ==
    ASSUME TypeInv, StoreInv, EventBridgeStep, UNCHANGED detectorVars
    PROVE StoreInv'
<1>1. CASE BridgeRestart
  BY <1>1, RestartStores DEF BridgeRestart, detectorVars, eventChannelVars
<1> QED
  BY <1>1, OnEventStores, RunOnceStores, SendOneStores, ReclaimStores, EnvironmentStores
  DEF EventBridgeStep

(* What the detector publishes is in its buffer.                           *)
LEMMA DetectorStores ==
    ASSUME TypeInv, StoreInv, DetectorKeeps, DetectorStep, UNCHANGED eventBridgeVars
    PROVE StoreInv'
<1> USE DEF TypeInv, EventTypeOK
<1>1. UNCHANGED <<inbox, at, batch, cur>>
  BY DEF eventBridgeVars, loopVars, work
<1>2. \A e \in eventTopic : e \in Events /\ Confirmed(e)
  BY DEF StoreInv, Filed, EventChannelTypeOK
<1>3. \A e \in eventTopic' : e \in Events /\ Confirmed(e)
  <2>1. CASE PublishEvent
    BY <1>2, <2>1 DEF PublishEvent, DetectorTypeOK, DetectorInv
  <2>2. CASE Resend
    BY <1>2, <2>2 DEF Resend, DetectorTypeOK, DetectorInv
  <2>3. CASE UNCHANGED eventTopic
    BY <1>2, <2>3
  <2> QED
    BY <2>1, <2>2, <2>3
    DEF DetectorStep, EmitTransition, MarkPublished, RetryScan, RetryEnds, OnAck, SessionLost,
        RetryDue, DetectorRestart, eventChannelVars
<1> QED
  BY <1>1, <1>3, DetectorFiles

LEMMA NextStores ==
    ASSUME TypeInv, StoreInv, [Next]_eventPathVars
    PROVE StoreInv'
<1>1. DetectorKeeps
  BY NextType
<1>2. CASE DetectorStep /\ UNCHANGED eventBridgeVars
  BY <1>1, <1>2, DetectorStores
<1>3. CASE EventBridgeStep /\ UNCHANGED detectorVars
  BY <1>3, BridgeStores
<1>4. CASE UNCHANGED <<detectorVars, eventBridgeVars>> /\ eventTopic' \subseteq eventTopic
  <2>1. \A e \in eventTopic' : e \in Events /\ Confirmed(e)
    BY <1>4 DEF TypeInv, EventTypeOK, EventChannelTypeOK, StoreInv, Filed
  <2>2. UNCHANGED <<inbox, at, batch, cur>>
    BY <1>4 DEF eventBridgeVars, loopVars, work
  <2> QED
    BY <1>1, <2>1, <2>2, DetectorFiles
<1>5. CASE Reboot
  <2>1. UNCHANGED buffer /\ BridgeStarts /\ eventTopic' \subseteq eventTopic
    BY <1>5 DEF Reboot, DetectorStarts
  <2> QED
    BY <2>1, RestartStores
<1> QED
  BY <1>2, <1>3, <1>4, <1>5
  DEF Next, LoseEvent, LoseEventAck, eventPathVars, eventChannelVars

LEMMA StoresHold == Spec => [](TypeInv /\ StoreInv)
<1>1. Init => StoreInv
  BY DEF Init, EventChannelInit, EventBridgeInit, StoreInv, Filed, SendingInv, Present
<1>2. TypeInv /\ StoreInv /\ [Next]_eventPathVars => StoreInv'
  BY NextStores
<1> QED
  BY <1>1, <1>2, TypesHold, PTL DEF Spec

-----------------------------------------------------------------------------
(* What a step may do to the inbox.                                        *)

(* The writers of the inbox, and the rows they write: an absent one        *)
(* (insert_received), one still waiting (mark_sent, the back-off), or one  *)
(* they delete (the reclaim block).                                        *)
LEMMA InboxChanges ==
    ASSUME TypeInv, StoreInv, [Next]_eventPathVars, NEW i \in EventIds, Present(i)
    PROVE \/ inbox'[i] = inbox[i]
          \/ inbox[i].status = "received" /\ inbox'[i] # NoRow
          \/ inbox'[i] = NoRow /\ (DropSent \/ EvictRow)
<1> USE DEF TypeInv, EventTypeOK
<1>1. ASSUME NEW e \in eventTopic, OnEvent(e) PROVE inbox'[i] = inbox[i]
  <2>1. e.event_id \in EventIds
    BY EventType DEF EventChannelTypeOK
  <2> QED
    BY <1>1, <2>1 DEF OnEvent, EventBridgeTypeOK
<1>2. CASE MarkSent \/ Retry
  <2>1. /\ cur \in Events /\ curDate \in MkDates /\ cur.event_id \in EventIds /\ Waiting(cur)
    BY <1>2, EventType DEF MarkSent, Retry, StoreInv, SendingInv, EventBridgeTypeOK
  <2>2. \/ inbox' = [inbox EXCEPT ![cur.event_id].due = FALSE]
        \/ inbox' = [inbox EXCEPT ![cur.event_id].status = "sent",
                                  ![cur.event_id].committed = curDate]
    BY <1>2, <2>1 DEF MarkSent, Retry, Waiting
  <2>3. /\ \A j \in EventIds : Present(j)' <=> Present(j)
        /\ \A j \in EventIds : j # cur.event_id => inbox'[j] = inbox[j]
    BY <2>1, <2>2, RowUpdate DEF Waiting, EventBridgeTypeOK
  <2> QED
    BY <2>1, <2>3 DEF Waiting, Present
<1>3. CASE DropSent \/ EvictRow
  BY <1>3 DEF DropSent, EvictRow, Evictable, Remove, RowsOf, EventBridgeTypeOK
<1>4. CASE BackoffElapses
  <2>1. PICK k \in RowsOf("received") : inbox' = [inbox EXCEPT ![k].due = TRUE]
    BY <1>4 DEF BackoffElapses
  <2>2. k \in EventIds /\ Present(k) /\ inbox[k].status = "received"
    BY <2>1 DEF RowsOf
  <2>3. /\ \A j \in EventIds : Present(j)' <=> Present(j)
        /\ \A j \in EventIds : j # k => inbox'[j] = inbox[j]
    BY <2>1, <2>2, RowUpdate DEF EventBridgeTypeOK
  <2> QED
    BY <2>2, <2>3 DEF Present
<1>5. CASE UNCHANGED inbox
  BY <1>5
<1> QED
  BY <1>1, <1>2, <1>3, <1>4, <1>5
  DEF Next, EventBridgeStep, NetworkPoll, SyncAcquired, SyncLost, RunOnce, RunNothing,
      SkipUndated, StartMerge, LoopEnds, MergeInserts, MergeMatches, MergeCollides, MergeFails,
      AnswerLost, Answered, LateCommit, LateRollback, PublishAck, DeleteSent, RingEvict,
      ReclaimEnds, CooldownElapses, BridgeRestart, BridgeStarts, Reboot, eventBridgeVars,
      eventPathVars

(* Whatever is resent, restarted or answered late, a sent row of the inbox  *)
(* is only ever deleted, and its committed MK_DATE never rewritten.        *)
THEOREM SentEventsStay == Spec => SentEventStays
<1>1. TypeInv /\ StoreInv /\ [Next]_eventPathVars
        => [\A i \in RowsOf("sent") : inbox'[i] \in {inbox[i], NoRow}]_eventPathVars
  BY InboxChanges DEF RowsOf
<1> QED
  BY <1>1, StoresHold, PTL DEF Spec, SentEventStays

(* An event still waiting for Oracle leaves the inbox only when every row   *)
(* left is waiting too, however resends interleave with the reclaim block. *)
THEOREM WaitingEventsAreDroppedLast == Spec => WaitingEventsDroppedLast
<1> DEFINE Last(i) ==
        inbox'[i] = NoRow =>
            \A j \in EventIds : inbox'[j] # NoRow => inbox'[j].status = "received"
<1>1. TypeInv /\ StoreInv /\ [Next]_eventPathVars
        => [\A i \in RowsOf("received") : Last(i)]_eventPathVars
  <2> SUFFICES ASSUME TypeInv, StoreInv, [Next]_eventPathVars,
                      NEW i \in RowsOf("received"), inbox'[i] = NoRow,
                      NEW j \in EventIds, inbox'[j] # NoRow
               PROVE inbox'[j].status = "received"
    OBVIOUS
  <2>1. /\ i \in EventIds /\ Present(i) /\ inbox[i].status = "received" /\ inbox[i] # NoRow
        /\ inbox \in [EventIds -> Row \cup {NoRow}]
    BY DEF RowsOf, Present, TypeInv, EventTypeOK, EventBridgeTypeOK
  <2>2. DropSent \/ EvictRow
    BY <2>1, InboxChanges
  <2>3. CASE DropSent
    BY <2>1, <2>3 DEF DropSent, Remove, RowsOf
  <2>4. CASE EvictRow
    <3>1. PICK k \in Evictable : Remove(k)
      BY <2>4 DEF EvictRow
    <3>2. k = i
      BY <2>1, <3>1 DEF Remove
    <3>3. RowsOf("sent") = {}
      BY <2>1, <3>2 DEF Evictable, RowsOf
    <3>4. inbox'[j] = inbox[j] /\ inbox[j] \in Row
      BY <2>1, <3>1, <3>2 DEF Remove
    <3> QED
      BY <3>3, <3>4 DEF RowsOf, Present, Row
  <2> QED
    BY <2>2, <2>3, <2>4
<1> QED
  BY <1>1, StoresHold, PTL DEF Spec, WaitingEventsDroppedLast

-----------------------------------------------------------------------------
(* Confirmations.                                                          *)

(* Written, or misread: the most the path may report as done.              *)
Reported(e, d) == Written(e, d) \/ e \in misread

SentRowsTrue ==
    \A i \in EventIds : Present(i) /\ inbox[i].status = "sent" =>
        Reported(inbox[i].event, inbox[i].committed)

AcksTrue ==
    \A a \in eventAckTopic :
        \E e \in Events : e.event_id = a.event_id /\ Confirmed(e) /\ Reported(e, a.mk_date)

AckedTrue ==
    \A i \in EventIds : Buffered(i) /\ buffer[i].status = "acked" =>
        \E d \in MkDates : Reported(buffer[i].event, d)

(* A success follows an answer that only Oracle's commit causes, or that   *)
(* has no ORA code.                                                        *)
AnswerTrue ==
    /\ (at = "merging" /\ matched => Current \in oracle[profile])
    /\ (at = "answered" /\ IsSuccess(answer) =>
            Written(cur, curDate) \/ answer = Refused(NoCode))
    /\ (at = "sent" => Reported(cur, curDate))

(* Why ConfirmedEvents holds: every report on its way (an answer in hand, a *)
(* sent row, an ack, an acked entry) is true already.                      *)
EventInv == SentRowsTrue /\ AcksTrue /\ AckedTrue /\ AnswerTrue

(* Oracle never loses a row: MERGE inserts, it never updates or deletes;   *)
(* and the history is not rewritten.                                       *)
LEMMA OracleGrows ==
    ASSUME EventBridgeTypeOK, [Next]_eventPathVars
    PROVE (\A p \in Profiles : oracle[p] \subseteq oracle'[p]) /\ misread \subseteq misread'
<1>1. CASE MergeInserts
  BY <1>1 DEF MergeInserts, Commit, Answered, EventBridgeTypeOK, OracleTypeOK
<1>2. CASE LateCommit
  BY <1>2 DEF LateCommit, FinishLate, Commit, EventBridgeTypeOK, OracleTypeOK
<1>3. CASE UNCHANGED oracle /\ misread \subseteq misread'
  BY <1>3
<1> QED
  BY <1>1, <1>2, <1>3
  DEF Next, EventBridgeStep, OnEvent, NetworkPoll, SyncAcquired, SyncLost, RunOnce, RunNothing,
      SkipUndated, StartMerge, LoopEnds, MergeMatches, MergeCollides, MergeFails, AnswerLost,
      LateRollback, RollBackLate, MarkSent, Answered, PublishAck, Retry, Return, DeleteSent, DropSent,
      RingEvict, EvictRow, ReclaimEnds, Reclaim, BackoffElapses, CooldownElapses, BridgeRestart,
      BridgeStarts, Reboot, eventBridgeVars, eventPathVars, dbVars

(* What is written stays written.                                          *)
LEMMA WrittenLasts ==
    ASSUME \A p \in Profiles : oracle[p] \subseteq oracle'[p], misread \subseteq misread'
    PROVE \A e, d : Reported(e, d) => Reported(e, d)'
BY DEF Reported, Written, InOracle, ContentAt

(* The reports nobody touches stay true.                                   *)
LEMMA ReportsLast ==
    ASSUME \A e, d : Reported(e, d) => Reported(e, d)'
    PROVE /\ SentRowsTrue /\ (\A i \in EventIds : Present(i)' =>
                    inbox'[i] = inbox[i] \/ inbox'[i].status = "received")
             => SentRowsTrue'
          /\ AcksTrue /\ UNCHANGED buffer /\ eventAckTopic' \subseteq eventAckTopic => AcksTrue'
          /\ AckedTrue /\ UNCHANGED buffer => AckedTrue'
<1>1. ASSUME SentRowsTrue, \A i \in EventIds : Present(i)' =>
                    inbox'[i] = inbox[i] \/ inbox'[i].status = "received"
      PROVE SentRowsTrue'
  <2> SUFFICES ASSUME NEW i \in EventIds, inbox'[i] # NoRow, inbox'[i].status = "sent"
               PROVE Reported(inbox[i].event, inbox[i].committed)'
    BY DEF SentRowsTrue, Present
  <2>1. inbox'[i] = inbox[i] /\ Reported(inbox[i].event, inbox[i].committed)
    BY <1>1 DEF SentRowsTrue, Present
  <2>2. PICK e, d : e = inbox[i].event /\ d = inbox[i].committed /\ Reported(e, d)
    BY <2>1
  <2> QED
    BY <2>1, <2>2 DEF Reported, Written, InOracle, ContentAt
<1>2. ASSUME AcksTrue, UNCHANGED buffer, eventAckTopic' \subseteq eventAckTopic
      PROVE AcksTrue'
  BY <1>2 DEF AcksTrue, Confirmed, Buffered
<1>3. ASSUME AckedTrue, UNCHANGED buffer
      PROVE AckedTrue'
  <2> SUFFICES ASSUME NEW i \in EventIds, Buffered(i), buffer[i].status = "acked"
               PROVE (\E d \in MkDates : Reported(buffer[i].event, d))'
    BY <1>3 DEF AckedTrue, Buffered
  <2>1. PICK d \in MkDates : \E e : e = buffer[i].event /\ Reported(e, d)
    BY <1>3 DEF AckedTrue
  <2> QED
    BY <1>3, <2>1 DEF Reported, Written, InOracle, ContentAt
<1> QED
  BY <1>1, <1>2, <1>3

(* A step that leaves run_once alone leaves its answer true.                *)
LEMMA AnswerLasts ==
    ASSUME EventBridgeTypeOK, AnswerTrue, UNCHANGED <<at, profile, work>>,
           \A p \in Profiles : oracle[p] \subseteq oracle'[p], misread \subseteq misread'
    PROVE AnswerTrue'
<1>1. UNCHANGED <<at, profile, cur, curDate, matched, answer>>
  BY DEF work
<1>2. at' = "merging" /\ matched' => Current' \in oracle'[profile']
  BY <1>1 DEF AnswerTrue, Current, ContentAt, EventBridgeTypeOK
<1>3. /\ Reported(cur, curDate) => Reported(cur, curDate)'
      /\ Written(cur, curDate) => Written(cur, curDate)'
  BY <1>1 DEF Reported, Written, InOracle, ContentAt
<1> QED
  BY <1>1, <1>2, <1>3 DEF AnswerTrue, IsSuccess

(* The detector's steps: an ack that arrives is true of the event it stops. *)
LEMMA DetectorConfirms ==
    ASSUME TypeInv, StoreInv, EventInv, DetectorKeeps, DetectorStep, UNCHANGED eventBridgeVars
    PROVE EventInv'
<1> USE DEF TypeInv, EventTypeOK
<1>1. UNCHANGED <<inbox, at, profile, work, oracle, misread>>
  BY DEF eventBridgeVars, loopVars, dbVars
<1>2. \A e, d : Reported(e, d) => Reported(e, d)'
  BY <1>1 DEF Reported, Written, InOracle, ContentAt
<1>3. SentRowsTrue' /\ AnswerTrue'
  BY <1>1, <1>2, ReportsLast, AnswerLasts DEF EventInv
<1>4. AcksTrue'
  <2>1. eventAckTopic' \subseteq eventAckTopic
    BY DEF DetectorStep, EmitTransition, PublishEvent, MarkPublished, RetryScan, Resend,
           RetryEnds, OnAck, SessionLost, RetryDue, DetectorRestart, eventChannelVars
  <2> SUFFICES ASSUME NEW a \in eventAckTopic
               PROVE \E e \in Events : e.event_id = a.event_id /\ Confirmed(e)'
                                       /\ Reported(e, a.mk_date)'
    BY <2>1 DEF AcksTrue, Reported, Written, InOracle, ContentAt
  <2>2. PICK e \in Events : e.event_id = a.event_id /\ Confirmed(e) /\ Reported(e, a.mk_date)
    BY DEF EventInv, AcksTrue
  <2> QED
    BY <1>2, <2>2 DEF DetectorKeeps
<1>5. ASSUME NEW i \in EventIds, Buffered(i)', buffer'[i].status = "acked"
      PROVE \E d \in MkDates, e \in Events : e = buffer'[i].event /\ Reported(e, d)
  <2> DEFINE Done == Buffered(i) /\ buffer[i].status = "acked"
                     /\ buffer'[i].event = buffer[i].event
  <2>1. CASE Done
    <3>1. buffer[i].event \in Events
      BY <2>1 DEF Buffered, DetectorTypeOK, Entry
    <3> QED
      BY <2>1, <3>1 DEF EventInv, AckedTrue
  <2>2. ASSUME NEW e \in Events, EmitTransition(e) PROVE Done
    BY <1>5, <2>2, EventType DEF EmitTransition, Buffered, DetectorTypeOK
  <2>3. CASE MarkPublished
    <3>1. /\ fresh.event_id \in EventIds /\ Buffered(fresh.event_id)
          /\ buffer[fresh.event_id] \in Entry
      BY <2>3, EventType
      DEF MarkPublished, DetectorTypeOK, DetectorInv, Confirmed, Buffered
    <3>2. buffer' = [buffer EXCEPT ![fresh.event_id].status = "sent"]
      BY <2>3 DEF MarkPublished
    <3>3. buffer'[fresh.event_id].status = "sent"
      BY <3>1, <3>2 DEF DetectorTypeOK, Entry
    <3>4. i # fresh.event_id
      BY <1>5, <3>3
    <3>5. buffer'[i] = buffer[i]
      BY <3>2, <3>4
    <3>6. Done
      BY <1>5, <3>5 DEF Buffered
    <3> QED
      BY <2>1, <3>6
  <2>4. ASSUME NEW j \in EventIds, Buffered(j), NEW b \in BOOLEAN,
               buffer' = [buffer EXCEPT ![j].due = b]
        PROVE Done
    <3>1. buffer[j] \in Entry
      BY <2>4 DEF Buffered, DetectorTypeOK
    <3>2. buffer'[j].status = buffer[j].status /\ buffer'[j].event = buffer[j].event
      BY <2>4, <3>1 DEF DetectorTypeOK, Entry
    <3>3. j # i => buffer'[i] = buffer[i]
      BY <2>4
    <3> QED
      BY <1>5, <2>4, <3>2, <3>3 DEF Buffered
  <2>5. CASE Resend
    <3>1. PICK e \in todo : buffer' = [buffer EXCEPT ![e.event_id].due = FALSE]
      BY <2>5 DEF Resend
    <3>2. e.event_id \in EventIds /\ Buffered(e.event_id)
      BY EventType DEF DetectorTypeOK, DetectorInv, Confirmed
    <3> QED
      BY <2>1, <2>4, <3>1, <3>2
  <2>6. CASE RetryDue
    BY <2>1, <2>4, <2>6 DEF RetryDue
  <2>7. ASSUME NEW a \in eventAckTopic, OnAck(a)
        PROVE \E d \in MkDates, e \in Events : e = buffer'[i].event /\ Reported(e, d)
    <3>1. a.event_id \in EventIds /\ a.mk_date \in MkDates
      BY DEF EventChannelTypeOK, Ack
    <3>2. PICK e \in Events : e.event_id = a.event_id /\ Confirmed(e) /\ Reported(e, a.mk_date)
      BY DEF EventInv, AcksTrue
    <3>3. Buffered(a.event_id) /\ buffer[a.event_id] \in Entry
      BY <3>1, <3>2 DEF Confirmed, Buffered, DetectorTypeOK
    <3>4. buffer' = [buffer EXCEPT ![a.event_id].status = "acked"]
      BY <2>7, <3>3 DEF OnAck
    <3>5. CASE i = a.event_id
      <4>1. buffer'[i].event = e
        BY <3>1, <3>2, <3>3, <3>4, <3>5 DEF Confirmed, DetectorTypeOK, Entry
      <4> QED
        BY <3>1, <3>2, <4>1
    <3>6. CASE i # a.event_id
      <4>1. Done
        BY <1>5, <3>4, <3>6 DEF Buffered
      <4> QED
        BY <2>1, <4>1
    <3> QED
      BY <3>5, <3>6
  <2>8. CASE UNCHANGED buffer
    <3>1. Done
      BY <1>5, <2>8 DEF Buffered
    <3> QED
      BY <2>1, <3>1
  <2>9. \/ \E e \in Events : EmitTransition(e)
        \/ \E a \in eventAckTopic : OnAck(a)
        \/ MarkPublished \/ Resend \/ RetryDue \/ UNCHANGED buffer
    BY DEF DetectorStep, PublishEvent, RetryScan, RetryEnds, SessionLost, DetectorRestart,
           DetectorStarts, detectorVars
  <2> QED
    BY <2>1, <2>2, <2>3, <2>5, <2>6, <2>7, <2>8, <2>9
<1>6. AckedTrue'
  <2> SUFFICES ASSUME NEW i \in EventIds, Buffered(i)', buffer'[i].status = "acked"
               PROVE (\E d \in MkDates : Reported(buffer[i].event, d))'
    BY DEF AckedTrue
  <2>1. PICK d \in MkDates, e \in Events : e = buffer'[i].event /\ Reported(e, d)
    BY <1>5
  <2>2. Reported(e, d)'
    BY <1>2, <2>1
  <2> QED
    BY <2>1, <2>2 DEF Reported, Written, InOracle, ContentAt
<1> QED
  BY <1>3, <1>4, <1>6 DEF EventInv

(* Oracle's answer: a result without a code means that the row is          *)
(* committed, or that the failure itself had none.                         *)
LEMMA MergeConfirms ==
    ASSUME TypeInv, EventInv, UNCHANGED detectorVars,
           \A p \in Profiles : oracle[p] \subseteq oracle'[p], misread \subseteq misread',
           MergeInserts \/ MergeMatches \/ MergeCollides \/ MergeFails \/ AnswerLost
    PROVE EventInv'
<1> USE DEF TypeInv, EventTypeOK
<1>1. /\ at = "merging" /\ at' = "answered" /\ matched' = FALSE
      /\ UNCHANGED <<inbox, profile, cur, curDate, buffer, eventAckTopic>>
      /\ cur \in Events /\ curDate \in MkDates /\ profile \in Profiles \cup {NoProfile}
  BY DEF MergeInserts, MergeMatches, MergeCollides, MergeFails, AnswerLost, Answered,
         eventChannelVars, detectorVars, EventBridgeTypeOK
<1>2. SentRowsTrue' /\ AcksTrue' /\ AckedTrue'
  BY <1>1, WrittenLasts, ReportsLast DEF EventInv
<1>3. ASSUME IsSuccess(answer'), answer' # Refused(NoCode) PROVE InOracle(Current)'
  <2>1. profile \in Profiles
    BY <1>1 DEF EventBridgeTypeOK
  <2>2. CASE MergeInserts
    <3>1. oracle'[profile] = oracle[profile] \cup {Current}
      BY <2>1, <2>2 DEF MergeInserts, Commit, EventBridgeTypeOK, OracleTypeOK
    <3> QED
      BY <1>1, <2>1, <3>1 DEF InOracle, Current, ContentAt
  <2>3. CASE MergeMatches
    <3>1. Current \in oracle[profile]
      BY <1>1, <2>3 DEF MergeMatches, EventInv, AnswerTrue
    <3> QED
      BY <1>1, <2>1, <3>1 DEF InOracle, Current, ContentAt
  <2>4. CASE MergeCollides \/ MergeFails \/ AnswerLost
    <3>1. PICK c \in OraCodes : answer' = Refused(c)
      BY <1>3, <2>4, OracleAssumption
      DEF MergeCollides, MergeFails, AnswerLost, Answered
    <3>2. answer'.code \in OraCodes
      BY <3>1 DEF Refused
    <3> QED
      BY <1>3, <3>2, BreakerAssumption DEF IsSuccess
  <2> QED
    BY <2>2, <2>3, <2>4
<1>4. AnswerTrue'
  BY <1>1, <1>3 DEF AnswerTrue, Written, IsSuccess, InOracle, Current
<1> QED
  BY <1>2, <1>4 DEF EventInv

(* The mark and the ack: each repeats a report already true.                *)
LEMMA MarkConfirms ==
    ASSUME TypeInv, StoreInv, EventInv, UNCHANGED detectorVars, MarkSent
    PROVE EventInv'
<1> USE DEF TypeInv, EventTypeOK
<1>1. /\ at = "answered" /\ at' = "sent" /\ IsSuccess(answer) /\ Waiting(cur)
      /\ UNCHANGED <<cur, curDate, oracle, buffer, eventAckTopic>>
      /\ misread' = IF answer = Refused(NoCode) THEN misread \cup {cur} ELSE misread
      /\ cur \in Events /\ curDate \in MkDates /\ cur.event_id \in EventIds
  BY EventType DEF MarkSent, StoreInv, SendingInv, EventBridgeTypeOK, work, dbVars,
                   detectorVars, eventChannelVars
<1>2. \A e, d : Reported(e, d) => Reported(e, d)'
  BY <1>1 DEF Reported, Written, InOracle, ContentAt
<1>3. ASSUME NEW e, NEW d, e = cur, d = curDate PROVE Reported(e, d)'
  BY <1>1, <1>3 DEF EventInv, AnswerTrue, Reported, Written, InOracle, ContentAt
<1>4. AcksTrue' /\ AckedTrue'
  BY <1>1, <1>2, ReportsLast DEF EventInv
<1>5. AnswerTrue'
  BY <1>1, <1>3 DEF AnswerTrue, Reported, Written, InOracle, ContentAt
<1>6. ASSUME NEW i \in EventIds, inbox'[i] # NoRow, inbox'[i].status = "sent"
      PROVE \E e, d : e = inbox'[i].event /\ d = inbox'[i].committed /\ Reported(e, d)'
  <2>1. inbox' = [inbox EXCEPT ![cur.event_id].status = "sent",
                               ![cur.event_id].committed = curDate]
    BY <1>1 DEF MarkSent, Waiting
  <2>2. CASE i = cur.event_id
    <3>1. inbox[i] \in Row
      BY <1>1, <2>2 DEF Waiting, Present, EventBridgeTypeOK
    <3>2. inbox'[i].event = cur /\ inbox'[i].committed = curDate
      BY <1>1, <2>1, <2>2, <3>1 DEF Waiting, Row, EventBridgeTypeOK
    <3> QED
      BY <1>3, <3>2
  <2>3. CASE i # cur.event_id
    <3>1. inbox'[i] = inbox[i]
      BY <1>1, <2>1, <2>3 DEF EventBridgeTypeOK
    <3> QED
      BY <1>2, <1>6, <3>1 DEF EventInv, SentRowsTrue, Present
  <2> QED
    BY <2>2, <2>3
<1>7. SentRowsTrue'
  <2> SUFFICES ASSUME NEW i \in EventIds, inbox'[i] # NoRow, inbox'[i].status = "sent"
               PROVE Reported(inbox[i].event, inbox[i].committed)'
    BY DEF SentRowsTrue, Present
  <2>1. PICK e, d : e = inbox'[i].event /\ d = inbox'[i].committed /\ Reported(e, d)'
    BY <1>6
  <2> QED
    BY <2>1 DEF Reported, Written, InOracle, ContentAt
<1> QED
  BY <1>4, <1>5, <1>7 DEF EventInv

LEMMA AckConfirms ==
    ASSUME TypeInv, StoreInv, EventInv, UNCHANGED detectorVars, PublishAck
    PROVE EventInv'
<1> USE DEF TypeInv, EventTypeOK
<1> DEFINE ack == [event_id |-> cur.event_id, mk_date |-> curDate]
<1>1. /\ at = "sent" /\ at' = "loop" /\ UNCHANGED <<inbox, oracle, misread, buffer>>
      /\ cur \in Events /\ Confirmed(cur) /\ eventAckTopic' \subseteq eventAckTopic \cup {ack}
  BY DEF PublishAck, Return, SendEventAck, StoreInv, SendingInv, EventBridgeTypeOK, dbVars,
         detectorVars
<1>2. \A e, d : Reported(e, d) => Reported(e, d)'
  BY <1>1 DEF Reported, Written, InOracle, ContentAt
<1>3. SentRowsTrue' /\ AckedTrue'
  BY <1>1, <1>2, ReportsLast DEF EventInv
<1>4. \A a \in eventAckTopic \cup {ack} :
        \E e \in Events : e.event_id = a.event_id /\ Confirmed(e) /\ Reported(e, a.mk_date)
  <2>1. Reported(cur, curDate)
    BY <1>1 DEF EventInv, AnswerTrue
  <2> QED
    BY <1>1, <2>1 DEF EventInv, AcksTrue
<1>5. AcksTrue'
  <2> SUFFICES ASSUME NEW a \in eventAckTopic'
               PROVE \E e \in Events : e.event_id = a.event_id /\ Confirmed(e)'
                                       /\ Reported(e, a.mk_date)'
    BY DEF AcksTrue, Reported, Written, InOracle, ContentAt
  <2> QED
    BY <1>1, <1>2, <1>4 DEF Confirmed, Buffered
<1>6. AnswerTrue'
  BY <1>1 DEF AnswerTrue
<1> QED
  BY <1>3, <1>5, <1>6 DEF EventInv

(* run_once takes its rows and starts a MERGE: nothing is answered yet.     *)
LEMMA StartConfirms ==
    ASSUME TypeInv, EventInv, UNCHANGED detectorVars,
           RunOnce \/ StartMerge \/ LoopEnds
    PROVE EventInv'
<1> USE DEF TypeInv, EventTypeOK
<1>1. UNCHANGED <<inbox, oracle, misread, buffer, eventAckTopic>>
  BY DEF RunOnce, StartMerge, LoopEnds, dbVars, eventChannelVars, detectorVars
<1>2. SentRowsTrue' /\ AcksTrue' /\ AckedTrue'
  <2>1. \A e, d : Reported(e, d) => Reported(e, d)'
    BY <1>1 DEF Reported, Written, InOracle, ContentAt
  <2> QED
    BY <1>1, <2>1, ReportsLast DEF EventInv
<1>3. CASE RunOnce \/ LoopEnds
  BY <1>2, <1>3 DEF RunOnce, LoopEnds, EventInv, AnswerTrue
<1>4. CASE StartMerge
  <2>1. /\ at' = "merging" /\ UNCHANGED profile
        /\ matched' = (Current' \in oracle[profile])
    BY <1>4 DEF StartMerge, Current, ContentAt
  <2>2. AnswerTrue'
    BY <1>1, <2>1 DEF AnswerTrue
  <2> QED
    BY <1>2, <2>2 DEF EventInv
<1> QED
  BY <1>3, <1>4

(* A failure: the row waits for its next attempt.                          *)
LEMMA RetryConfirms ==
    ASSUME TypeInv, StoreInv, EventInv, UNCHANGED detectorVars, Retry
    PROVE EventInv'
<1> USE DEF TypeInv, EventTypeOK
<1>1. /\ at = "answered" /\ at' = "loop" /\ UNCHANGED <<oracle, misread, buffer, eventAckTopic>>
      /\ cur \in Events /\ cur.event_id \in EventIds /\ Waiting(cur)
      /\ inbox' = [inbox EXCEPT ![cur.event_id].due = FALSE]
  BY EventType DEF Retry, Return, StoreInv, SendingInv, EventBridgeTypeOK, dbVars,
                   detectorVars, Waiting
<1>2. \A i \in EventIds : inbox'[i] = inbox[i] \/ inbox'[i].status = "received"
  <2>1. inbox[cur.event_id] \in Row
    BY <1>1 DEF Waiting, Present, EventBridgeTypeOK
  <2>2. inbox'[cur.event_id].status = "received"
    BY <1>1, <2>1 DEF Waiting, Row, EventBridgeTypeOK
  <2>3. \A i \in EventIds : i # cur.event_id => inbox'[i] = inbox[i]
    BY <1>1 DEF EventBridgeTypeOK
  <2> QED
    BY <2>2, <2>3
<1>3. SentRowsTrue' /\ AcksTrue' /\ AckedTrue'
  <2>1. \A e, d : Reported(e, d) => Reported(e, d)'
    BY <1>1 DEF Reported, Written, InOracle, ContentAt
  <2> QED
    BY <1>1, <1>2, <2>1, ReportsLast DEF EventInv
<1>4. AnswerTrue'
  BY <1>1 DEF AnswerTrue
<1> QED
  BY <1>3, <1>4 DEF EventInv

(* The steps that leave run_once alone: deliveries, losses, the reclaim    *)
(* block, the network, the clock and Oracle's late answers.                *)
LEMMA OtherStepsConfirm ==
    ASSUME TypeInv, EventInv, UNCHANGED buffer, eventAckTopic' \subseteq eventAckTopic,
           \A p \in Profiles : oracle[p] \subseteq oracle'[p], misread \subseteq misread',
           \A i \in EventIds :
                inbox'[i] # NoRow => inbox'[i] = inbox[i] \/ inbox'[i].status = "received",
           \/ UNCHANGED <<at, profile, work>>
           \/ at \in {"idle", "trim", "evict"} /\ at' \in {"idle", "trim", "evict"}
    PROVE EventInv'
<1>1. SentRowsTrue' /\ AcksTrue' /\ AckedTrue'
  BY WrittenLasts, ReportsLast DEF EventInv, Present
<1>2. CASE UNCHANGED <<at, profile, work>>
  BY <1>1, <1>2, AnswerLasts DEF EventInv, TypeInv, EventTypeOK
<1>3. CASE at' \in {"idle", "trim", "evict"}
  BY <1>1, <1>3 DEF EventInv, AnswerTrue
<1> QED
  BY <1>2, <1>3

(* New processes: no answer in hand, and nothing else has changed.          *)
LEMMA RestartConfirms ==
    ASSUME EventInv, at' = "idle", UNCHANGED <<inbox, oracle, misread, buffer>>,
           eventAckTopic' \subseteq eventAckTopic
    PROVE EventInv'
<1>1. \A e, d : Reported(e, d) => Reported(e, d)'
  BY DEF Reported, Written, InOracle, ContentAt
<1>2. SentRowsTrue' /\ AcksTrue' /\ AckedTrue'
  BY <1>1, ReportsLast DEF EventInv
<1> QED
  BY <1>2 DEF EventInv, AnswerTrue

LEMMA BridgeConfirms ==
    ASSUME TypeInv, StoreInv, EventInv, EventBridgeStep, UNCHANGED detectorVars
    PROVE EventInv'
<1> USE DEF TypeInv, EventTypeOK
<1>1. (\A p \in Profiles : oracle[p] \subseteq oracle'[p]) /\ misread \subseteq misread'
  BY OracleGrows DEF Next
<1>2. UNCHANGED buffer
  BY DEF detectorVars
<1>3. ASSUME NEW e \in eventTopic, OnEvent(e) PROVE EventInv'
  <2>1. e.event_id \in EventIds
    BY EventType DEF EventChannelTypeOK
  <2>2. \A i \in EventIds : inbox'[i] = inbox[i] \/ inbox'[i].status = "received"
    BY <1>3, <2>1 DEF OnEvent, EventBridgeTypeOK
  <2>3. UNCHANGED <<at, profile, work>> /\ eventAckTopic' \subseteq eventAckTopic
    BY <1>3 DEF OnEvent, loopVars
  <2> QED
    BY <1>1, <1>2, <2>2, <2>3, OtherStepsConfirm
<1>4. CASE \/ NetworkPoll \/ SyncAcquired \/ SyncLost \/ RunNothing \/ SkipUndated
           \/ LateCommit \/ LateRollback \/ CooldownElapses
  <2>1. UNCHANGED <<inbox, at, profile, work>> /\ eventAckTopic' \subseteq eventAckTopic
    BY <1>4 DEF NetworkPoll, SyncAcquired, SyncLost, RunNothing, SkipUndated, LateCommit,
                LateRollback, CooldownElapses, loopVars, eventChannelVars
  <2> QED
    BY <1>1, <1>2, <2>1, OtherStepsConfirm
<1>5. CASE BackoffElapses
  <2>1. UNCHANGED <<at, profile, work>> /\ eventAckTopic' \subseteq eventAckTopic
    BY <1>5 DEF BackoffElapses, loopVars, eventChannelVars
  <2>2. PICK k \in RowsOf("received") : inbox' = [inbox EXCEPT ![k].due = TRUE]
    BY <1>5 DEF BackoffElapses
  <2>3. k \in EventIds /\ inbox[k] \in Row /\ inbox[k].status = "received"
    BY <2>2 DEF RowsOf, Present, EventBridgeTypeOK
  <2>4. inbox'[k].status = "received"
    BY <2>2, <2>3 DEF Row, EventBridgeTypeOK
  <2>5. \A i \in EventIds : i # k => inbox'[i] = inbox[i]
    BY <2>2 DEF EventBridgeTypeOK
  <2> QED
    BY <1>1, <1>2, <2>1, <2>4, <2>5, OtherStepsConfirm
<1>6. CASE DeleteSent \/ DropSent \/ RingEvict \/ EvictRow \/ ReclaimEnds
  <2>1. /\ at \in {"idle", "trim", "evict"} /\ at' \in {"idle", "trim", "evict"}
        /\ eventAckTopic' \subseteq eventAckTopic
    BY <1>6 DEF DeleteSent, DropSent, RingEvict, EvictRow, ReclaimEnds, Reclaim,
                eventChannelVars
  <2>2. \A i \in EventIds : inbox'[i] \in {inbox[i], NoRow}
    BY <1>6 DEF DeleteSent, DropSent, RingEvict, EvictRow, Evictable, ReclaimEnds, Remove,
                RowsOf, EventBridgeTypeOK
  <2> QED
    BY <1>1, <1>2, <2>1, <2>2, OtherStepsConfirm
<1>7. CASE BridgeRestart
  <2>1. /\ at' = "idle" /\ UNCHANGED <<inbox, oracle, misread, buffer>>
        /\ eventAckTopic' \subseteq eventAckTopic
    BY <1>2, <1>7 DEF BridgeRestart, BridgeStarts, eventChannelVars
  <2> QED
    BY <2>1, RestartConfirms
<1> QED
  BY <1>1, <1>3, <1>4, <1>5, <1>6, <1>7, StartConfirms, MergeConfirms, MarkConfirms,
     AckConfirms, RetryConfirms
  DEF EventBridgeStep

LEMMA NextConfirms ==
    ASSUME TypeInv, StoreInv, EventInv, [Next]_eventPathVars
    PROVE EventInv'
<1>1. DetectorKeeps
  BY NextType
<1>2. CASE DetectorStep /\ UNCHANGED eventBridgeVars
  BY <1>1, <1>2, DetectorConfirms
<1>3. CASE EventBridgeStep /\ UNCHANGED detectorVars
  BY <1>3, BridgeConfirms
<1>4. CASE UNCHANGED <<detectorVars, eventBridgeVars>> /\ eventAckTopic' \subseteq eventAckTopic
  <2>1. UNCHANGED <<inbox, oracle, misread, buffer, at, profile, work>>
    BY <1>4 DEF eventBridgeVars, detectorVars, loopVars, dbVars
  <2> QED
    BY <1>4, <2>1, OtherStepsConfirm
<1>5. CASE Reboot
  <2>1. /\ at' = "idle" /\ UNCHANGED <<inbox, oracle, misread, buffer>>
        /\ eventAckTopic' \subseteq eventAckTopic
    BY <1>5 DEF Reboot, DetectorStarts, BridgeStarts
  <2> QED
    BY <2>1, RestartConfirms
<1> QED
  BY <1>2, <1>3, <1>4, <1>5
  DEF Next, LoseEvent, LoseEventAck, eventPathVars, eventChannelVars

(* A sent row, an ack on its way and an event the detector stopped         *)
(* resending are in Oracle, under the date reported, whatever is lost,     *)
(* resent, evicted, restarted or answered late; the only other ones are of *)
(* events of which a failure without an ORA code was taken for a success   *)
(* (sender.py:123).                                                        *)
THEOREM EventConfirmationsAreTrue == Spec => []ConfirmedEvents
<1>1. Init => EventInv
  BY DEF Init, EventChannelInit, DetectorInit, EventBridgeInit, EventInv, SentRowsTrue,
         AcksTrue, AckedTrue, AnswerTrue, Present, Buffered
<1>2. TypeInv /\ StoreInv /\ EventInv /\ [Next]_eventPathVars => EventInv'
  BY NextConfirms
<1>3. EventInv => ConfirmedEvents
  BY DEF EventInv, SentRowsTrue, AcksTrue, AckedTrue, Reported, ConfirmedEvents, RowsOf
<1> QED
  BY <1>1, <1>2, <1>3, StoresHold, PTL DEF Spec

-----------------------------------------------------------------------------
(* The path implements EventOutcome.                                       *)

(* The detector has an event in hand exactly from its insert to its mark.  *)
HandInv == fresh # NoEvent <=> step \in {"inserted", "published"}

(* Whatever may still become a row or an ack is of a confirmed event and   *)
(* under a date that event may bear: the MERGE under way and its answer,   *)
(* the statements left running, the acks under way.                        *)
WorkDated == at \in {"merging", "answered", "sent"} => curDate \in MayBear(cur)

LateDated ==
    \A s \in late : \E e \in Events : \E d \in MayBear(e) :
        Confirmed(e) /\ s[2] = ContentAt(e, d)

AcksDated ==
    \A a \in eventAckTopic : \E e \in Events :
        e.event_id = a.event_id /\ Confirmed(e) /\ a.mk_date \in MayBear(e)

DatedInv == WorkDated /\ LateDated /\ AcksDated

(* The date resolved for an event is one it may bear, and the table's.     *)
LEMMA MayBearType ==
    ASSUME NEW e \in Events
    PROVE /\ MayBear(e) \subseteq MkDates
          /\ baseline \in Offsets \cup {NoBaseline} /\ resolve_mk_date(e) # NoDate
                => resolve_mk_date(e) \in MayBear(e)
<1>1. CASE e.mk_date # NoDate
  BY <1>1, EventType DEF MayBear, resolve_mk_date
<1>2. CASE e.mk_date = NoDate
  <2>1. MayBear(e) = {MkDateAt(e.mono, o) : o \in Offsets}
    BY <1>2 DEF MayBear
  <2>2. MayBear(e) \subseteq MkDates
    BY <2>1, EventType, EventChannelAssumption
  <2>3. resolve_mk_date(e) # NoDate =>
            baseline # NoBaseline /\ resolve_mk_date(e) = MkDateAt(e.mono, baseline)
    BY <1>2 DEF resolve_mk_date
  <2> QED
    BY <2>1, <2>2, <2>3
<1> QED
  BY <1>1, <1>2

LEMMA HandKept ==
    ASSUME HandInv, [Next]_eventPathVars
    PROVE HandInv'
<1>1. CASE UNCHANGED <<fresh, step>>
  BY <1>1 DEF HandInv
<1>2. ASSUME NEW e \in Events, EmitTransition(e) PROVE HandInv'
  BY <1>2, DetectorAssumption DEF EmitTransition, HandInv
<1>3. CASE PublishEvent \/ MarkPublished \/ RetryScan \/ RetryEnds \/ DetectorStarts
  BY <1>3 DEF PublishEvent, MarkPublished, RetryScan, RetryEnds, DetectorStarts, HandInv
<1> QED
  BY <1>1, <1>2, <1>3
  DEF Next, DetectorStep, Resend, OnAck, SessionLost, RetryDue, DetectorRestart, Reboot,
      detectorVars, eventPathVars

(* What is dated stays dated while nothing is added.                       *)
LEMMA DatedLasts ==
    ASSUME \A e \in Events : Confirmed(e) => Confirmed(e)'
    PROVE /\ LateDated /\ late' \subseteq late => LateDated'
          /\ AcksDated /\ eventAckTopic' \subseteq eventAckTopic => AcksDated'
<1>1. ASSUME LateDated, late' \subseteq late PROVE LateDated'
  <2> SUFFICES ASSUME NEW s \in late
               PROVE \E e \in Events : \E d \in MayBear(e) :
                        Confirmed(e)' /\ s[2] = ContentAt(e, d)
    BY <1>1 DEF LateDated, MayBear, ContentAt
  <2> QED
    BY <1>1 DEF LateDated
<1>2. ASSUME AcksDated, eventAckTopic' \subseteq eventAckTopic PROVE AcksDated'
  <2> SUFFICES ASSUME NEW a \in eventAckTopic
               PROVE \E e \in Events : /\ e.event_id = a.event_id /\ Confirmed(e)'
                                       /\ a.mk_date \in MayBear(e)
    BY <1>2 DEF AcksDated, MayBear
  <2> QED
    BY <1>2 DEF AcksDated
<1> QED
  BY <1>1, <1>2

(* A MERGE starts with a date of its event, and its ack reports that date. *)
LEMMA WorkIsDated ==
    ASSUME TypeInv, StoreInv, DatedInv, UNCHANGED detectorVars,
           StartMerge \/ PublishAck
    PROVE DatedInv'
<1> USE DEF TypeInv, EventTypeOK
<1>1. \A e \in Events : Confirmed(e) => Confirmed(e)'
  BY DEF Confirmed, Buffered, detectorVars
<1>2. CASE StartMerge
  <2>1. PICK e \in batch : resolve_mk_date(e) # NoDate /\ cur' = e /\ curDate' = resolve_mk_date(e)
    BY <1>2 DEF StartMerge
  <2>2. e \in Events /\ baseline \in Offsets \cup {NoBaseline}
    BY DEF EventBridgeTypeOK
  <2>3. curDate' \in MayBear(cur')
    BY <2>1, <2>2, MayBearType
  <2>4. WorkDated'
    BY <2>3 DEF WorkDated, MayBear
  <2>5. late' = late /\ eventAckTopic' = eventAckTopic
    BY <1>2 DEF StartMerge, dbVars, eventChannelVars
  <2> QED
    BY <1>1, <2>4, <2>5, DatedLasts DEF DatedInv
<1>3. CASE PublishAck
  <2> DEFINE ack == [event_id |-> cur.event_id, mk_date |-> curDate]
  <2>1. /\ at = "sent" /\ at' = "loop" /\ late' = late
        /\ eventAckTopic' \subseteq eventAckTopic \cup {ack}
    BY <1>3 DEF PublishAck, Return, SendEventAck, dbVars
  <2>2. cur \in Events /\ Confirmed(cur) /\ curDate \in MayBear(cur)
    BY <2>1 DEF DatedInv, WorkDated, StoreInv, SendingInv, EventBridgeTypeOK
  <2>3. \A a \in eventAckTopic \cup {ack} : \E e \in Events :
            e.event_id = a.event_id /\ Confirmed(e) /\ a.mk_date \in MayBear(e)
    BY <2>2 DEF DatedInv, AcksDated
  <2>4. AcksDated'
    <3> SUFFICES ASSUME NEW a \in eventAckTopic'
                 PROVE \E e \in Events : /\ e.event_id = a.event_id /\ Confirmed(e)'
                                         /\ a.mk_date \in MayBear(e)
      BY DEF AcksDated, MayBear
    <3> QED
      BY <1>1, <2>1, <2>3
  <2>5. WorkDated'
    BY <2>1 DEF WorkDated
  <2> QED
    BY <1>1, <2>1, <2>4, <2>5, DatedLasts DEF DatedInv
<1> QED
  BY <1>2, <1>3

(* A statement left running is of the event the loop works on.             *)
LEMMA LateIsDated ==
    ASSUME TypeInv, StoreInv, DatedInv, UNCHANGED buffer,
           at = "merging" /\ late' = late \cup {<<profile, Current>>}
    PROVE LateDated'
<1> USE DEF TypeInv, EventTypeOK
<1>1. \A e \in Events : Confirmed(e) => Confirmed(e)'
  BY DEF Confirmed, Buffered
<1>2. cur \in Events /\ curDate \in MayBear(cur)
  BY DEF DatedInv, WorkDated, EventBridgeTypeOK
<1>3. Confirmed(cur)
  BY <1>2, EventType DEF StoreInv, SendingInv, Waiting, Filed
<1>4. <<profile, Current>>[2] = ContentAt(cur, curDate)
  BY DEF Current
<1>5. \A s \in late' : \E e \in Events : \E d \in MayBear(e) :
          Confirmed(e)' /\ s[2] = ContentAt(e, d)
  BY <1>1, <1>2, <1>3, <1>4 DEF DatedInv, LateDated
<1> QED
  BY <1>5 DEF LateDated, MayBear, ContentAt

LEMMA NextDates ==
    ASSUME TypeInv, StoreInv, DatedInv, [Next]_eventPathVars
    PROVE DatedInv'
<1> USE DEF TypeInv, EventTypeOK
<1>1. \A e \in Events : Confirmed(e) => Confirmed(e)'
  BY NextType DEF DetectorKeeps
<1>2. ASSUME UNCHANGED <<cur, curDate>>,
             at' \in {"merging", "answered", "sent"} => at \in {"merging", "answered", "sent"}
      PROVE WorkDated'
  BY <1>2 DEF DatedInv, WorkDated, MayBear
<1>3. ASSUME at' \in {"idle", "loop", "trim", "evict"} PROVE WorkDated'
  BY <1>3 DEF WorkDated
<1>4. ASSUME WorkDated', late' \subseteq late, eventAckTopic' \subseteq eventAckTopic
      PROVE DatedInv'
  BY <1>1, <1>4, DatedLasts DEF DatedInv
<1>5. CASE DetectorStep /\ UNCHANGED eventBridgeVars
  <2>1. eventAckTopic' \subseteq eventAckTopic
    BY <1>5 DEF DetectorStep, EmitTransition, PublishEvent, MarkPublished, RetryScan, Resend,
           RetryEnds, OnAck, SessionLost, RetryDue, DetectorRestart, eventChannelVars
  <2> QED
    BY <1>2, <1>4, <1>5, <2>1 DEF eventBridgeVars, loopVars, work, dbVars
<1>6. CASE EventBridgeStep /\ UNCHANGED detectorVars
  <2>1. CASE StartMerge \/ PublishAck
    BY <1>6, <2>1, WorkIsDated
  <2>2. CASE AnswerLost
    <3>1. /\ at = "merging" /\ late' = late \cup {<<profile, Current>>} /\ at' = "answered"
          /\ UNCHANGED <<cur, curDate, eventAckTopic>>
      BY <2>2 DEF AnswerLost, Answered, eventChannelVars
    <3>2. LateDated'
      BY <1>6, <3>1, LateIsDated DEF detectorVars
    <3> QED
      BY <1>1, <1>2, <3>1, <3>2, DatedLasts DEF DatedInv
  <2>3. CASE BridgeRestart
    <3>1. at' = "idle" /\ eventAckTopic' = eventAckTopic
      BY <2>3 DEF BridgeRestart, BridgeStarts, eventChannelVars
    <3>2. late' = late \/ (at = "merging" /\ late' = late \cup {<<profile, Current>>})
      BY <2>3 DEF BridgeRestart, BridgeStarts
    <3>3. LateDated'
      BY <1>1, <1>6, <3>2, LateIsDated, DatedLasts DEF DatedInv, detectorVars
    <3> QED
      BY <1>1, <1>3, <3>1, <3>3, DatedLasts DEF DatedInv
  <2>4. CASE \/ \E e \in eventTopic : OnEvent(e)
             \/ NetworkPoll \/ SyncAcquired \/ SyncLost \/ RunNothing \/ SkipUndated
             \/ LateCommit \/ LateRollback \/ BackoffElapses \/ CooldownElapses
    <3>1. /\ UNCHANGED <<at, cur, curDate>> /\ late' \subseteq late
          /\ eventAckTopic' \subseteq eventAckTopic
      BY <2>4 DEF OnEvent, NetworkPoll, SyncAcquired, SyncLost, RunNothing, SkipUndated,
                  LateCommit, LateRollback, FinishLate, RollBackLate, BackoffElapses,
                  CooldownElapses, loopVars, work, dbVars, eventChannelVars
    <3> QED
      BY <1>2, <1>4, <3>1
  <2>5. CASE MergeInserts \/ MergeMatches \/ MergeCollides \/ MergeFails \/ MarkSent
    <3>1. /\ UNCHANGED <<cur, curDate>> /\ late' \subseteq late
          /\ eventAckTopic' \subseteq eventAckTopic
          /\ at \in {"merging", "answered"}
      BY <2>5 DEF MergeInserts, MergeMatches, MergeCollides, MergeFails, MarkSent, Answered,
                  work, dbVars, eventChannelVars
    <3> QED
      BY <1>2, <1>4, <3>1
  <2>6. CASE \/ RunOnce \/ LoopEnds \/ Retry \/ DeleteSent \/ DropSent \/ RingEvict
             \/ EvictRow \/ ReclaimEnds
    <3>1. /\ at' \in {"idle", "loop", "trim", "evict"} /\ late' \subseteq late
          /\ eventAckTopic' \subseteq eventAckTopic
      BY <2>6 DEF RunOnce, LoopEnds, Retry, Return, DeleteSent, DropSent, RingEvict, EvictRow,
                  ReclaimEnds, Reclaim, dbVars, eventChannelVars
    <3> QED
      BY <1>3, <1>4, <3>1
  <2> QED
    BY <1>6, <2>1, <2>2, <2>3, <2>4, <2>5, <2>6 DEF EventBridgeStep
<1>7. CASE UNCHANGED <<detectorVars, eventBridgeVars>> /\ eventAckTopic' \subseteq eventAckTopic
  BY <1>2, <1>4, <1>7 DEF eventBridgeVars, loopVars, work, dbVars
<1>8. CASE Reboot
  <2>1. at' = "idle" /\ eventAckTopic' = {} /\ UNCHANGED buffer
    BY <1>8 DEF Reboot, BridgeStarts, DetectorStarts
  <2>2. late' = late \/ (at = "merging" /\ late' = late \cup {<<profile, Current>>})
    BY <1>8 DEF Reboot, BridgeStarts
  <2>3. LateDated'
    BY <1>1, <2>1, <2>2, LateIsDated, DatedLasts DEF DatedInv
  <2> QED
    BY <1>1, <1>3, <2>1, <2>3, DatedLasts DEF DatedInv
<1> QED
  BY <1>5, <1>6, <1>7, <1>8
  DEF Next, LoseEvent, LoseEventAck, eventPathVars, eventChannelVars

-----------------------------------------------------------------------------
(* What a step does to the detector's table, as EventOutcome sees it.      *)

Settled(e) == Confirmed(e) /\ buffer[e.event_id].status = "acked"

OutcomeVars ==
    <<{e \in Events : Confirmed(e)}, fresh, oracle, misread, {e \in Events : Settled(e)}>>

(* An entry's due time changes nothing; its status settles its event or    *)
(* opens it again.                                                         *)
LEMMA EntryUpdate ==
    ASSUME TypeInv, NEW e \in Events, Confirmed(e)
    PROVE /\ \A b \in BOOLEAN :
                buffer' = [buffer EXCEPT ![e.event_id].due = b] =>
                    \A c \in Events : /\ Confirmed(c)' <=> Confirmed(c)
                                      /\ Settled(c)' <=> Settled(c)
          /\ \A s \in {"sent", "acked"} :
                buffer' = [buffer EXCEPT ![e.event_id].status = s] =>
                    \A c \in Events : /\ Confirmed(c)' <=> Confirmed(c)
                                      /\ Settled(c)' <=> IF c = e THEN s = "acked"
                                                         ELSE Settled(c)
<1> USE DEF TypeInv, EventTypeOK, DetectorTypeOK
<1>1. /\ e.event_id \in EventIds /\ buffer[e.event_id] \in Entry
      /\ buffer[e.event_id].event = e
  BY EventType DEF Confirmed, Buffered
<1>2. ASSUME NEW t \in Entry, t.event = e, buffer' = [buffer EXCEPT ![e.event_id] = t]
      PROVE \A c \in Events : /\ Confirmed(c)' <=> Confirmed(c)
                              /\ c # e => (Settled(c)' <=> Settled(c))
                              /\ Settled(e)' <=> t.status = "acked"
  <2>1. buffer'[e.event_id] = t /\ t # NoEntry
    BY <1>1, <1>2, DetectorAssumption
  <2>2. Confirmed(e) /\ Confirmed(e)' /\ (Settled(e)' <=> t.status = "acked")
    BY <1>2, <2>1 DEF Confirmed, Buffered, Settled
  <2>3. ASSUME NEW c \in Events, c # e
        PROVE (Confirmed(c)' <=> Confirmed(c)) /\ (Settled(c)' <=> Settled(c))
    <3>1. CASE c.event_id = e.event_id
      BY <1>1, <1>2, <2>1, <2>3, <3>1 DEF Confirmed, Settled
    <3>2. CASE c.event_id # e.event_id
      <4>1. buffer'[c.event_id] = buffer[c.event_id]
        BY <1>2, <3>2, EventType
      <4> QED
        BY <4>1 DEF Confirmed, Buffered, Settled
    <3> QED
      BY <3>1, <3>2
  <2> QED
    BY <2>2, <2>3
<1>3. ASSUME NEW b \in BOOLEAN, buffer' = [buffer EXCEPT ![e.event_id].due = b]
      PROVE \A c \in Events : (Confirmed(c)' <=> Confirmed(c)) /\ (Settled(c)' <=> Settled(c))
  <2> DEFINE t == [buffer[e.event_id] EXCEPT !.due = b]
  <2>1. /\ t \in Entry /\ t.event = e /\ t.status = buffer[e.event_id].status
        /\ buffer' = [buffer EXCEPT ![e.event_id] = t]
    BY <1>1, <1>3 DEF Entry
  <2> HIDE DEF t
  <2> QED
    BY <1>2, <2>1 DEF Settled
<1>4. ASSUME NEW s \in {"sent", "acked"}, buffer' = [buffer EXCEPT ![e.event_id].status = s]
      PROVE \A c \in Events : /\ Confirmed(c)' <=> Confirmed(c)
                              /\ Settled(c)' <=> IF c = e THEN s = "acked" ELSE Settled(c)
  <2> DEFINE t == [buffer[e.event_id] EXCEPT !.status = s]
  <2>1. /\ t \in Entry /\ t.event = e /\ t.status = s
        /\ buffer' = [buffer EXCEPT ![e.event_id] = t]
    BY <1>1, <1>4 DEF Entry
  <2> HIDE DEF t
  <2> QED
    BY <1>2, <2>1
<1> QED
  BY <1>3, <1>4

LEMMA OutcomeInit == Init => Outcome!Init
<1> SUFFICES ASSUME Init PROVE Outcome!Init
  OBVIOUS
<1>1. \A e \in Events : ~Confirmed(e)
  BY EventType DEF Init, DetectorInit, Confirmed, Buffered
<1> QED
  BY <1>1 DEF Init, DetectorInit, EventBridgeInit, OracleInit, Outcome!Init

(* The detector's steps: it confirms, lets go, settles what is written or  *)
(* misread.                                                                *)
LEMMA DetectorOutcome ==
    ASSUME TypeInv, EventInv, DatedInv, HandInv, DetectorStep, UNCHANGED eventBridgeVars
    PROVE [Outcome!Next]_OutcomeVars
<1> USE DEF TypeInv, EventTypeOK, OutcomeVars
<1>1. UNCHANGED <<oracle, misread>>
  BY DEF eventBridgeVars, dbVars
<1>2. ASSUME UNCHANGED fresh,
             \A c \in Events : (Confirmed(c)' <=> Confirmed(c)) /\ (Settled(c)' <=> Settled(c))
      PROVE UNCHANGED OutcomeVars
  BY <1>1, <1>2
<1>3. ASSUME UNCHANGED buffer
      PROVE /\ \A c \in Events : (Confirmed(c)' <=> Confirmed(c)) /\ (Settled(c)' <=> Settled(c))
            /\ {c \in Events : Confirmed(c)}' = {c \in Events : Confirmed(c)}
            /\ {c \in Events : Settled(c)}' = {c \in Events : Settled(c)}
  BY <1>3 DEF Confirmed, Settled, Buffered
<1>4. ASSUME NEW e \in Events, EmitTransition(e) PROVE Outcome!Confirm(e)
  <2>1. /\ e.event_id \in EventIds /\ ~Buffered(e.event_id) /\ fresh = NoEvent /\ fresh' = e
        /\ buffer' = [buffer EXCEPT ![e.event_id] =
                        [status |-> "pending", event |-> e, due |-> TRUE]]
    BY <1>4, EventType DEF EmitTransition, DetectorInv, HandInv
  <2>2. [status |-> "pending", event |-> e, due |-> TRUE] # NoEntry
    <3>1. [status |-> "pending", event |-> e, due |-> TRUE] \in Entry
      BY DEF Entry
    <3> QED
      BY <3>1, DetectorAssumption
  <2>3. buffer'[e.event_id] = [status |-> "pending", event |-> e, due |-> TRUE]
    BY <2>1 DEF DetectorTypeOK
  <2>4. ~Confirmed(e) /\ Confirmed(e)' /\ ~Settled(e) /\ ~Settled(e)'
    BY <2>1, <2>2, <2>3 DEF Confirmed, Settled, Buffered
  <2>5. ASSUME NEW c \in Events, c # e
        PROVE (Confirmed(c)' <=> Confirmed(c)) /\ (Settled(c)' <=> Settled(c))
    <3>1. CASE c.event_id = e.event_id
      BY <2>1, <2>3, <2>5, <3>1 DEF Confirmed, Settled
    <3>2. CASE c.event_id # e.event_id
      <4>1. buffer'[c.event_id] = buffer[c.event_id]
        BY <2>1, <3>2, EventType DEF DetectorTypeOK
      <4> QED
        BY <4>1 DEF Confirmed, Buffered, Settled
    <3> QED
      BY <3>1, <3>2
  <2>6. {c \in Events : Confirmed(c)}' = {c \in Events : Confirmed(c)} \cup {e}
    BY <2>4, <2>5
  <2>7. {c \in Events : Settled(c)}' = {c \in Events : Settled(c)}
    BY <2>4, <2>5
  <2>8. \A c \in {f \in Events : Confirmed(f)} : c.event_id # e.event_id
    BY <2>1 DEF Confirmed
  <2> QED
    BY <1>1, <2>1, <2>6, <2>7, <2>8 DEF Outcome!Confirm, Settled
<1>5. CASE MarkPublished
  <2>1. fresh \in Events /\ Confirmed(fresh) /\ fresh # NoEvent /\ fresh' = NoEvent
    BY <1>5, DetectorAssumption DEF MarkPublished, DetectorTypeOK, DetectorInv
  <2>2. buffer' = [buffer EXCEPT ![fresh.event_id].status = "sent"]
    BY <1>5 DEF MarkPublished
  <2>3. \A c \in Events : /\ Confirmed(c)' <=> Confirmed(c)
                          /\ Settled(c)' <=> (Settled(c) /\ c # fresh)
    BY <2>1, <2>2, EntryUpdate
  <2>4. {c \in Events : Confirmed(c)}' = {c \in Events : Confirmed(c)}
    BY <2>3
  <2>5. {c \in Events : Settled(c)}' = {c \in Events : Settled(c)} \ {fresh}
    BY <2>3
  <2> QED
    BY <1>1, <2>1, <2>4, <2>5 DEF Outcome!LetGo, Outcome!Next, Settled
<1>6. CASE Resend
  <2>1. PICK e \in todo : buffer' = [buffer EXCEPT ![e.event_id].due = FALSE]
    BY <1>6 DEF Resend
  <2>2. e \in Events /\ Confirmed(e) /\ fresh' = fresh
    BY <1>6 DEF DetectorTypeOK, DetectorInv, Resend
  <2> QED
    BY <1>2, <2>1, <2>2, EntryUpdate
<1>7. CASE RetryDue
  <2>1. PICK i \in EventIds : Buffered(i) /\ buffer' = [buffer EXCEPT ![i].due = TRUE]
    BY <1>7 DEF RetryDue
  <2>2. PICK e \in Events : e = buffer[i].event /\ e.event_id = i /\ Confirmed(e)
    BY <2>1 DEF Confirmed, Buffered, DetectorInv, DetectorTypeOK, Entry
  <2> QED
    BY <1>2, <1>7, <2>1, <2>2, EntryUpdate DEF RetryDue
<1>8. ASSUME NEW a \in eventAckTopic, OnAck(a) PROVE [Outcome!Next]_OutcomeVars
  <2>1. PICK e \in Events : /\ e.event_id = a.event_id /\ Confirmed(e)
                            /\ a.mk_date \in MayBear(e)
    BY DEF DatedInv, AcksDated
  <2>2. Reported(e, a.mk_date)
    BY <2>1 DEF EventInv, AcksTrue, Confirmed
  <2>3. fresh' = fresh /\ buffer' = [buffer EXCEPT ![e.event_id].status = "acked"]
    BY <1>8, <2>1 DEF OnAck, Confirmed
  <2>4. \A c \in Events : /\ Confirmed(c)' <=> Confirmed(c)
                          /\ Settled(c)' <=> (Settled(c) \/ c = e)
    BY <2>1, <2>3, EntryUpdate
  <2>5. {c \in Events : Confirmed(c)}' = {c \in Events : Confirmed(c)}
    BY <2>4
  <2>6. {c \in Events : Settled(c)}' = {c \in Events : Settled(c)} \cup {e}
    BY <2>4
  <2>7. (\E p \in Profiles : ContentAt(e, a.mk_date) \in oracle[p]) \/ e \in misread
    BY <2>2 DEF Reported, Written, InOracle
  <2>8. Outcome!Settle(e)
    BY <1>1, <2>1, <2>3, <2>5, <2>6, <2>7
    DEF Outcome!Settle, Outcome!RowOf, ContentAt, Settled
  <2> QED
    BY <2>1, <2>8 DEF Outcome!Next
<1>9. CASE UNCHANGED <<buffer, fresh>>
  BY <1>2, <1>3, <1>9
<1>10. CASE UNCHANGED buffer /\ fresh' = NoEvent
  BY <1>1, <1>3, <1>9, <1>10 DEF Outcome!LetGo, Outcome!Next, Settled
<1> QED
  BY <1>4, <1>5, <1>6, <1>7, <1>8, <1>9, <1>10
  DEF DetectorStep, PublishEvent, RetryScan, RetryEnds, SessionLost, DetectorRestart,
      DetectorStarts, detectorVars, Outcome!Next

(* A row is only written by a commit, of what the loop or a statement left *)
(* running works on; and only the event in hand is misread.                *)
LEMMA BridgeOutcome ==
    ASSUME TypeInv, StoreInv, DatedInv, EventBridgeStep, UNCHANGED detectorVars
    PROVE [Outcome!Next]_OutcomeVars
<1> USE DEF TypeInv, EventTypeOK, OutcomeVars
<1>1. UNCHANGED <<buffer, fresh>>
  BY DEF detectorVars
<1>2. /\ {c \in Events : Confirmed(c)}' = {c \in Events : Confirmed(c)}
      /\ {c \in Events : Settled(c)}' = {c \in Events : Settled(c)}
  BY <1>1 DEF Confirmed, Settled, Buffered
<1>3. ASSUME NEW p \in Profiles, NEW c, Commit(p, c), UNCHANGED misread, ~KeyTaken(p, c),
             NEW e \in Events, NEW d \in MayBear(e), Confirmed(e), c = ContentAt(e, d)
      PROVE Outcome!Next
  <2>1. \A r \in oracle[p] : r.mk_date # d
    BY <1>3 DEF KeyTaken, ContentAt
  <2>2. oracle' = [oracle EXCEPT ![p] = @ \cup {Outcome!RowOf(e, d)}]
    BY <1>3 DEF Commit, Outcome!RowOf, ContentAt
  <2>3. Outcome!Write(e, p, d)
    BY <1>1, <1>2, <1>3, <2>1, <2>2 DEF Outcome!Write, Settled
  <2> QED
    BY <1>3, <2>3 DEF Outcome!Next
<1>4. CASE MergeInserts
  <2>1. /\ at = "merging" /\ cur \in Events /\ profile \in Profiles
        /\ ~KeyTaken(profile, Current) /\ Commit(profile, Current) /\ UNCHANGED misread
    BY <1>4 DEF MergeInserts, Answered, EventBridgeTypeOK
  <2>2. Confirmed(cur) /\ curDate \in MayBear(cur)
    BY <2>1, EventType DEF StoreInv, SendingInv, Waiting, Filed, DatedInv, WorkDated
  <2> QED
    BY <1>3, <2>1, <2>2 DEF Current
<1>5. CASE UNCHANGED <<oracle, misread>>
  BY <1>1, <1>2, <1>5
<1>6. CASE LateCommit
  <2>1. PICK s \in late :
            IF KeyTaken(s[1], s[2]) THEN UNCHANGED oracle ELSE Commit(s[1], s[2])
    BY <1>6 DEF LateCommit, FinishLate
  <2> UNCHANGED misread
    BY <1>6 DEF LateCommit
  <2>2. s[1] \in Profiles
    BY DEF EventBridgeTypeOK, OracleTypeOK
  <2>3. PICK e \in Events : \E d \in MayBear(e) : Confirmed(e) /\ s[2] = ContentAt(e, d)
    BY DEF DatedInv, LateDated
  <2> QED
    BY <1>3, <1>5, <2>1, <2>2, <2>3
<1>7. CASE MarkSent
  <2>1. /\ cur \in Events /\ Confirmed(cur) /\ UNCHANGED oracle
        /\ misread' = misread \/ misread' = misread \cup {cur}
    BY <1>7, EventType DEF MarkSent, StoreInv, SendingInv, Waiting, Filed, EventBridgeTypeOK, dbVars
  <2>2. CASE misread' = misread \cup {cur}
    <3>1. Outcome!Misread(cur)
      BY <1>1, <1>2, <2>1, <2>2 DEF Outcome!Misread, Settled
    <3> QED
      BY <2>1, <3>1 DEF Outcome!Next
  <2> QED
    BY <1>5, <2>1, <2>2
<1> QED
  BY <1>4, <1>5, <1>6, <1>7
  DEF EventBridgeStep, OnEvent, NetworkPoll, SyncAcquired, SyncLost, RunOnce, RunNothing,
      SkipUndated, StartMerge, LoopEnds, MergeMatches, MergeCollides, MergeFails, AnswerLost,
      LateRollback, RollBackLate, Answered, PublishAck, Retry, Return, DeleteSent, DropSent,
      RingEvict, EvictRow, ReclaimEnds, Reclaim, BackoffElapses, CooldownElapses, BridgeRestart,
      BridgeStarts, dbVars

LEMMA NextOutcome ==
    ASSUME TypeInv, StoreInv, EventInv, DatedInv, HandInv, [Next]_eventPathVars
    PROVE [Outcome!Next]_OutcomeVars
<1>1. ASSUME UNCHANGED <<buffer, oracle, misread>>, fresh' \in {fresh, NoEvent}
      PROVE [Outcome!Next]_OutcomeVars
  <2>1. /\ {c \in Events : Confirmed(c)}' = {c \in Events : Confirmed(c)}
        /\ {c \in Events : Settled(c)}' = {c \in Events : Settled(c)}
    BY <1>1 DEF Confirmed, Settled, Buffered
  <2> QED
    BY <1>1, <2>1 DEF OutcomeVars, Outcome!LetGo, Outcome!Next, Settled
<1>2. CASE Reboot
  BY <1>1, <1>2 DEF Reboot, DetectorStarts, BridgeStarts
<1> QED
  BY <1>1, <1>2, DetectorOutcome, BridgeOutcome
  DEF Next, detectorVars, eventBridgeVars, dbVars, eventPathVars

(* The event path does no more than EventOutcome: whatever is lost, resent, *)
(* evicted, restarted, rebooted or answered late, a row in Oracle is of a  *)
(* confirmed event and under one of its dates, no event is lost or         *)
(* exchanged, none is settled that is neither written nor misread, and an  *)
(* ack is undone only by the mark of its first publication (main.py        *)
(* _emit_transition, sender.py _send_one).                                 *)
THEOREM PathImplementsEventOutcome == Spec => ImplementsOutcome
<1> DEFINE Inv == TypeInv /\ StoreInv /\ EventInv /\ DatedInv /\ HandInv
<1>1. Init => EventInv /\ DatedInv /\ HandInv
  BY DEF Init, EventChannelInit, DetectorInit, EventBridgeInit, OracleInit, EventInv,
         SentRowsTrue, AcksTrue, AckedTrue, AnswerTrue, Present, Buffered, DatedInv, WorkDated,
         LateDated, AcksDated, HandInv
<1>2. Inv /\ [Next]_eventPathVars => EventInv' /\ DatedInv' /\ HandInv'
  BY NextConfirms, NextDates, HandKept
<1>3. Inv /\ [Next]_eventPathVars => [Outcome!Next]_OutcomeVars
  BY NextOutcome
<1>4. Spec => []Inv
  BY <1>1, <1>2, StoresHold, PTL DEF Spec
<1> QED
  BY <1>3, <1>4, OutcomeInit, PTL
  DEF Spec, ImplementsOutcome, Outcome!Spec, OutcomeVars, Settled
=============================================================================
