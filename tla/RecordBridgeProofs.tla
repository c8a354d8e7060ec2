-------------------------- MODULE RecordBridgeProofs --------------------------
(***************************************************************************)
(* What RecordBridge promises, proved for every set of records, profiles   *)
(* and ORA codes, whether or not the hub loses power: its type invariant,  *)
(* that what it confirms is in Oracle, and that verdicts stand.            *)
(***************************************************************************)
EXTENDS RecordBridge, FiniteSetTheorems, TLAPS

-----------------------------------------------------------------------------
(* The helpers' types.                                                     *)

(* A message's parts: event_id, MK_DATE and the content MERGE compares      *)
(* (parse_record_payload yields complete records only).                    *)
LEMMA MessageType ==
    ASSUME NEW m \in Messages
    PROVE /\ m.event_id \in EventIds
          /\ ContentOf(m) \in Content
          /\ AckOf(m) \in Ack
BY MessagesAssumption DEF Record, ContentOf, Content, AckOf, Ack

(* The circuit breaker's operations keep an entry an entry.                *)
LEMMA BreakerType ==
    ASSUME NEW e \in BreakerEntry, NEW c
    PROVE /\ NewEntry \in BreakerEntry
          /\ state_for(e) \in BreakerEntry
          /\ record_failure(e, c) \in BreakerEntry
          /\ record_success(e) \in BreakerEntry
          /\ CooldownRunsOut(e) \in BreakerEntry
BY DEF BreakerEntry, NewEntry, state_for, record_failure, record_success, CooldownRunsOut

(* The reclaim block deletes a natural number of rows.                     *)
LEMMA ExcessType ==
    ASSUME NEW S, S \subseteq EventIds, NEW limit \in Nat
    PROVE Excess(Cardinality(S), limit) \in Nat
<1>1. IsFiniteSet(S)
  BY BridgeAssumption, FS_Subset
<1>2. Cardinality(S) \in Nat
  BY <1>1, FS_CardinalityType
<1> QED
  BY <1>2 DEF Excess

(* Every due row is a message.                                             *)
LEMMA DueRowsType ==
    ASSUME inbox \in [EventIds -> Row \cup {NoRow}]
    PROVE DueRows \subseteq Messages
BY DEF DueRows, RowsOf, Present, Row

-----------------------------------------------------------------------------
(* The type invariant.                                                     *)

LEMMA InitType == BridgeSystemInit => BridgeSystemTypeOK
<1> SUFFICES ASSUME BridgeSystemInit PROVE BridgeSystemTypeOK
  OBVIOUS
<1>1. ChannelTypeOK
  BY DEF BridgeSystemInit, ChannelInit, ChannelTypeOK
<1>2. NoAnswer \in MergeResult
  BY DEF NoAnswer, MergeResult
<1>3. NewEntry \in BreakerEntry
  BY DEF NewEntry, BreakerEntry
<1>4. BridgeTypeOK
  BY <1>2, <1>3, BridgeAssumption
  DEF BridgeSystemInit, BridgeInit, BridgeTypeOK, OracleInit, OracleTypeOK
<1> QED
  BY <1>1, <1>4 DEF BridgeSystemTypeOK

(* The statements that write the inbox keep it a table.                    *)
LEMMA InboxWrites ==
    ASSUME inbox \in [EventIds -> Row \cup {NoRow}], NEW i \in EventIds
    PROVE /\ \A s \in {"received", "sent", "failed"} :
                SetStatus(i, s) => inbox' \in [EventIds -> Row \cup {NoRow}]
          /\ Remove(i) => inbox' \in [EventIds -> Row \cup {NoRow}]
          /\ Present(i) => \A b \in BOOLEAN :
                [inbox EXCEPT ![i].due = b] \in [EventIds -> Row \cup {NoRow}]
          /\ \A m \in Messages, b \in BOOLEAN :
                [inbox EXCEPT ![i] = [status |-> "received", rec |-> m, due |-> b]]
                    \in [EventIds -> Row \cup {NoRow}]
<1>1. Present(i) => inbox[i] \in Row
  BY DEF Present
<1>2. \A s \in {"received", "sent", "failed"} :
        SetStatus(i, s) => inbox' \in [EventIds -> Row \cup {NoRow}]
  BY <1>1 DEF SetStatus, Row
<1>3. Remove(i) => inbox' \in [EventIds -> Row \cup {NoRow}]
  BY DEF Remove
<1>4. Present(i) => \A b \in BOOLEAN :
        [inbox EXCEPT ![i].due = b] \in [EventIds -> Row \cup {NoRow}]
  BY <1>1 DEF Row
<1>5. \A m \in Messages, b \in BOOLEAN :
        [inbox EXCEPT ![i] = [status |-> "received", rec |-> m, due |-> b]]
            \in [EventIds -> Row \cup {NoRow}]
  BY DEF Row
<1> QED
  BY <1>2, <1>3, <1>4, <1>5

(* Every step of the bridge, alone or in a larger system, keeps the types. *)
LEMMA BridgeStepType ==
    ASSUME ChannelTypeOK, BridgeTypeOK, BridgeStep
    PROVE ChannelTypeOK' /\ BridgeTypeOK'
<1> USE DEF ChannelTypeOK, BridgeTypeOK, OracleTypeOK, channelVars, rxVars, dbVars, mainVars
<1>1. ASSUME NEW m \in Messages, ReceiveGet(m) PROVE ChannelTypeOK' /\ BridgeTypeOK'
  BY <1>1, MessageType DEF ReceiveGet
<1>2. CASE Receive
  <2>1. rxRec # NoRecord => rxRec \in Messages /\ rxRec.event_id \in EventIds
    BY MessageType
  <2>2. rxRow # NoRow => AckOf(rxRow.rec) \in Ack
    BY MessageType DEF Row
  <2>3. CASE InsertReceived
    BY <2>1, <2>3, InboxWrites DEF InsertReceived, ReceiveDone
  <2>4. CASE ReNack
    BY <2>1, <2>4 DEF ReNack, ReceiveDone
  <2>5. CASE ReAck
    BY <2>2, <2>5 DEF ReAck, ReceiveDone
  <2>6. CASE IgnoreWaiting
    BY <2>6 DEF IgnoreWaiting, ReceiveDone
  <2> QED
    BY <1>2, <2>3, <2>4, <2>5, <2>6 DEF Receive
<1>3. CASE RunOnce
  BY <1>3, BreakerType, DueRowsType DEF RunOnce
<1>4. CASE StartMerge
  BY <1>4 DEF StartMerge
<1>5. CASE LoopEnds
  BY <1>5 DEF LoopEnds
<1>6. CASE MergeInserts
  <2>1. Accepted \in MergeResult
    BY OracleAssumption DEF Accepted, MergeResult
  <2>2. ContentOf(cur) \in Content
    BY <1>6, MessageType DEF MergeInserts
  <2> QED
    BY <1>6, <2>1, <2>2 DEF MergeInserts, Commit, Answered
<1>7. CASE MergeMatches
  BY <1>7, OracleAssumption DEF MergeMatches, Answered, Accepted, MergeResult
<1>8. CASE MergeCollides
  BY <1>8, OracleAssumption DEF MergeCollides, Answered, Refused, MergeResult
<1>9. CASE MergeFails
  <2>1. PICK c \in (OraCodes \ {DupCode}) \cup {NoCode} : Answered(Refused(c))
    BY <1>9 DEF MergeFails
  <2>2. Refused(c) \in MergeResult
    BY DEF Refused, MergeResult
  <2> QED
    BY <1>9, <2>1, <2>2 DEF MergeFails, Answered
<1>10. CASE AnswerLost
  <2>1. ContentOf(cur) \in Content
    BY <1>10, MessageType DEF AnswerLost
  <2>2. PICK c \in (OraCodes \ (Permanent \cup Unretryable \cup {DupCode})) \cup {NoCode} :
            Answered(Refused(c))
    BY <1>10 DEF AnswerLost
  <2>3. Refused(c) \in MergeResult
    BY DEF Refused, MergeResult
  <2>4. late' \in SUBSET (Profiles \X Content)
    BY <1>10, <2>1 DEF AnswerLost
  <2>5. oracle' = oracle
    BY <1>10 DEF AnswerLost
  <2> QED
    BY <1>10, <2>2, <2>3, <2>4, <2>5 DEF AnswerLost, Answered
<1>11. CASE LateCommit
  BY <1>11 DEF LateCommit, FinishLate, Commit
<1>12. CASE LateRollback
  BY <1>12 DEF LateRollback, RollBackLate
<1>13. CASE MarkSent
  <2>1. cur.event_id \in EventIds
    BY <1>13, MessageType DEF MarkSent
  <2>2. NoAnswer \in MergeResult
    BY DEF NoAnswer, MergeResult
  <2>3. inbox' \in [EventIds -> Row \cup {NoRow}]
    BY <1>13, <2>1, InboxWrites DEF MarkSent
  <2> QED
    BY <1>13, <2>2, <2>3, BreakerType DEF MarkSent
<1>14. CASE PublishAck
  <2>1. NoAnswer \in MergeResult
    BY DEF NoAnswer, MergeResult
  <2>2. cur.event_id \in EventIds /\ AckOf(cur) \in Ack
    BY <1>14, MessageType DEF PublishAck
  <2> QED
    BY <1>14, <2>1, <2>2 DEF PublishAck, Return
<1>15. CASE MarkFailed
  <2>1. cur.event_id \in EventIds
    BY <1>15, MessageType DEF MarkFailed
  <2>2. NoAnswer \in MergeResult
    BY DEF NoAnswer, MergeResult
  <2>3. inbox' \in [EventIds -> Row \cup {NoRow}]
    BY <1>15, <2>1, InboxWrites DEF MarkFailed
  <2> QED
    BY <1>15, <2>2, <2>3 DEF MarkFailed
<1>16. CASE PublishNack
  <2>1. NoAnswer \in MergeResult
    BY DEF NoAnswer, MergeResult
  <2>2. cur.event_id \in EventIds /\ AckOf(cur) \in Ack
    BY <1>16, MessageType DEF PublishNack
  <2> QED
    BY <1>16, <2>1, <2>2 DEF PublishNack, Return
<1>17. CASE Retry
  <2>1. cur.event_id \in EventIds
    BY <1>17, MessageType DEF Retry
  <2>2. NoAnswer \in MergeResult
    BY DEF NoAnswer, MergeResult
  <2>3. inbox' \in [EventIds -> Row \cup {NoRow}]
    BY <1>17, <2>1, InboxWrites DEF Retry
  <2>4. breaker' \in [Profiles -> BreakerEntry]
    BY <1>17, BreakerType DEF Retry
  <2> QED
    BY <1>17, <2>2, <2>3, <2>4 DEF Retry, Return
<1>18. CASE NetworkPoll
  BY <1>18 DEF NetworkPoll
<1>19. CASE EventSenderRuns
  <2>1. breaker' \in [Profiles -> BreakerEntry]
    BY <1>19, BreakerType DEF EventSenderRuns
  <2> QED
    BY <1>19, <2>1 DEF EventSenderRuns
<1>20. CASE DeleteSent
  <2>1. excess' \in Nat
    BY <1>20, ExcessType, BridgeAssumption DEF DeleteSent, RowsOf
  <2> QED
    BY <1>20, <2>1 DEF DeleteSent, Reclaim
<1>21. CASE DropSent
  <2>1. inbox' \in [EventIds -> Row \cup {NoRow}]
    BY <1>21, InboxWrites DEF DropSent, RowsOf
  <2> QED
    BY <1>21, <2>1 DEF DropSent, Reclaim
<1>22. CASE RingEvict
  <2>1. excess' \in Nat
    BY <1>22, ExcessType, BridgeAssumption DEF RingEvict
  <2> QED
    BY <1>22, <2>1 DEF RingEvict, Reclaim
<1>23. CASE EvictRow
  <2>1. inbox' \in [EventIds -> Row \cup {NoRow}]
    BY <1>23, InboxWrites DEF EvictRow
  <2> QED
    BY <1>23, <2>1 DEF EvictRow, Reclaim
<1>24. CASE ReclaimEnds
  BY <1>24 DEF ReclaimEnds, Reclaim
<1>25. CASE BackoffElapses
  <2>1. PICK i \in RowsOf("received") : inbox' = [inbox EXCEPT ![i].due = TRUE]
    BY <1>25 DEF BackoffElapses
  <2>2. i \in EventIds /\ Present(i)
    BY <2>1 DEF RowsOf
  <2>3. inbox' \in [EventIds -> Row \cup {NoRow}]
    BY <2>1, <2>2, InboxWrites
  <2> QED
    BY <1>25, <2>3 DEF BackoffElapses
<1>26. CASE CooldownElapses
  BY <1>26, BreakerType DEF CooldownElapses
<1>27. CASE Fsync
  BY <1>27 DEF Fsync
<1>28. ASSUME Restart, inbox' = inbox \/ inbox' = disk
       PROVE ChannelTypeOK' /\ BridgeTypeOK'
  <2>1. NoAnswer \in MergeResult /\ NewEntry \in BreakerEntry
    BY DEF NoAnswer, MergeResult, NewEntry, BreakerEntry
  <2>2. late' \in SUBSET (Profiles \X Content)
    BY <1>28, MessageType DEF Restart
  <2>3. ChannelTypeOK' /\ oracle' = oracle /\ disk' = disk
    BY <1>28 DEF Restart
  <2> QED
    BY <1>28, <2>1, <2>2, <2>3 DEF Restart
<1> QED
  BY <1>1, <1>2, <1>3, <1>4, <1>5, <1>6, <1>7, <1>8, <1>9, <1>10, <1>11, <1>12, <1>13, <1>14,
     <1>15, <1>16, <1>17, <1>18, <1>19, <1>20, <1>21, <1>22, <1>23, <1>24, <1>25, <1>26, <1>27,
     <1>28
  DEF BridgeStep, Crash, PowerLoss

(* What the children and the broker do to the topics keeps the types.      *)
LEMMA LoseType ==
    ASSUME ChannelTypeOK, Lose
    PROVE ChannelTypeOK'
BY DEF ChannelTypeOK, Lose, LoseRecord, LoseAck, LoseNack

LEMMA BridgeUnchangedType ==
    ASSUME BridgeTypeOK, UNCHANGED bridgeVars
    PROVE BridgeTypeOK'
BY DEF BridgeTypeOK, OracleTypeOK, bridgeVars

LEMMA NextType ==
    ASSUME BridgeSystemTypeOK, [BridgeSystemNext]_bridgeSystemVars
    PROVE BridgeSystemTypeOK'
<1> USE DEF BridgeSystemTypeOK
<1>1. CASE BridgeStep
  BY <1>1, BridgeStepType
<1>2. CASE Publish /\ UNCHANGED bridgeVars
  <2>1. ChannelTypeOK'
    BY <1>2 DEF Publish, ChannelTypeOK
  <2> QED
    BY <1>2, <2>1, BridgeUnchangedType
<1>3. CASE Lose /\ UNCHANGED bridgeVars
  BY <1>3, LoseType, BridgeUnchangedType
<1>4. CASE UNCHANGED bridgeSystemVars
  <2>1. ChannelTypeOK'
    BY <1>4 DEF bridgeSystemVars, channelVars, ChannelTypeOK
  <2>2. UNCHANGED bridgeVars
    BY <1>4 DEF bridgeSystemVars
  <2> QED
    BY <2>1, <2>2, BridgeUnchangedType
<1> QED
  BY <1>1, <1>2, <1>3, <1>4 DEF BridgeSystemNext

(* The bridge's state is always well formed: in particular every merge,    *)
(* verdict and answer concerns a record in hand and a known profile.       *)
THEOREM BridgeTypeCorrect == BridgeSpec => []BridgeSystemTypeOK
BY InitType, NextType, PTL DEF BridgeSpec

-----------------------------------------------------------------------------
(* Confirmations.                                                          *)

(* A table's rows are filed under their own event_id, and its sent rows     *)
(* are in Oracle.                                                          *)
Truthful(table) ==
    \A i \in EventIds :
        table[i] # NoRow =>
            /\ table[i].rec.event_id = i
            /\ (table[i].status = "sent" => InOracle(ContentOf(table[i].rec)))

(* The record is in the inbox, waiting for its verdict.                    *)
Waiting(m) ==
    /\ Present(m.event_id)
    /\ inbox[m.event_id].rec = m
    /\ inbox[m.event_id].status = "received"

AcksTrue ==
    \A a \in ackTopic : \E m \in Messages : AckOf(m) = a /\ InOracle(ContentOf(m))

(* The row receive() found is one it may vouch for.                        *)
FoundTrue == rxRow # NoRow /\ rxRow.status = "sent" => InOracle(ContentOf(rxRow.rec))

(* What run_once works on stays in the inbox, waiting, until its own verdict *)
(* is written; and a success follows an answer only Oracle's commit causes. *)
SendInv ==
    /\ (at \in {"idle", "trim", "evict"} => batch = {})
    /\ \A m \in batch : Waiting(m) /\ m # cur
    /\ (at \in {"merging", "answered"} => Waiting(cur))
    /\ (at \in {"loop", "idle", "trim", "evict"} => cur = NoRecord)
    /\ (at = "merging" /\ matched => ContentOf(cur) \in oracle[profile])
    /\ (at = "answered" /\ IsSuccess(answer) => InOracle(ContentOf(cur)))
    /\ (at = "sent" => InOracle(ContentOf(cur)))

(* Why ConfirmedIsInOracle holds: every copy of a verdict (in the inbox, in *)
(* its fsynced state, in receive()'s hands, in an ack) is true.            *)
ConfirmInv == Truthful(inbox) /\ Truthful(disk) /\ FoundTrue /\ AcksTrue /\ SendInv

(* Oracle never loses a row: MERGE inserts, it never updates or deletes.   *)
LEMMA OracleGrows ==
    ASSUME BridgeTypeOK, BridgeStep
    PROVE \A p \in Profiles : oracle[p] \subseteq oracle'[p]
<1>1. CASE MergeInserts
  BY <1>1 DEF MergeInserts, Commit, BridgeTypeOK, OracleTypeOK
<1>2. CASE LateCommit
  BY <1>2 DEF LateCommit, FinishLate, Commit, BridgeTypeOK, OracleTypeOK
<1>3. CASE UNCHANGED oracle
  BY <1>3
<1> QED
  BY <1>1, <1>2, <1>3
  DEF BridgeStep, ReceiveGet, Receive, InsertReceived, ReNack, ReAck, IgnoreWaiting, ReceiveDone,
      RunOnce, StartMerge, LoopEnds, MergeMatches, MergeCollides, MergeFails, AnswerLost,
      LateRollback, RollBackLate, MarkSent, PublishAck, MarkFailed, PublishNack, Return, Retry, NetworkPoll,
      EventSenderRuns, DeleteSent, DropSent, RingEvict, EvictRow, ReclaimEnds, Reclaim,
      BackoffElapses, CooldownElapses, Fsync, Crash, PowerLoss, Restart, dbVars

(* The same of a table or a topic that does not change while Oracle grows. *)
LEMMA TruthLasts ==
    ASSUME \A p \in Profiles : oracle[p] \subseteq oracle'[p]
    PROVE /\ Truthful(inbox) /\ UNCHANGED inbox => Truthful(inbox)'
          /\ Truthful(disk) /\ UNCHANGED disk => Truthful(disk)'
          /\ FoundTrue /\ UNCHANGED rxRow => FoundTrue'
          /\ AcksTrue /\ UNCHANGED ackTopic => AcksTrue'
          /\ \A c : InOracle(c) => InOracle(c)'
BY DEF Truthful, FoundTrue, AcksTrue, InOracle, ContentOf, AckOf

(* run_once's part is untouched by a step that leaves the main loop and the *)
(* waiting rows alone.                                                     *)
LEMMA SendingLasts ==
    ASSUME BridgeTypeOK, SendInv, UNCHANGED mainVars,
           \A p \in Profiles : oracle[p] \subseteq oracle'[p],
           \A i \in EventIds :
                Present(i) /\ inbox[i].status = "received" =>
                    inbox'[i] # NoRow /\ inbox'[i].rec = inbox[i].rec
                    /\ inbox'[i].status = "received"
    PROVE SendInv'
<1>1. \A m \in Messages : Waiting(m) => Waiting(m)'
  BY MessageType DEF Waiting, Present
<1>2. \A m \in batch' : Waiting(m)' /\ m # cur'
  BY <1>1 DEF SendInv, BridgeTypeOK, mainVars
<1>3. at' \in {"merging", "answered"} => Waiting(cur)'
  <2>1. at \in {"merging", "answered"} => Waiting(cur) /\ cur \in Messages
    BY DEF SendInv, BridgeTypeOK
  <2> QED
    BY <2>1, MessageType DEF Waiting, Present, mainVars
<1>4. at' = "merging" /\ matched' => (ContentOf(cur) \in oracle[profile])'
  BY DEF SendInv, BridgeTypeOK, mainVars, ContentOf
<1>5. /\ at' = "answered" /\ IsSuccess(answer)' => InOracle(ContentOf(cur))'
      /\ at' = "sent" => InOracle(ContentOf(cur))'
  BY DEF SendInv, mainVars, InOracle, ContentOf, IsSuccess
<1> QED
  BY <1>2, <1>3, <1>4, <1>5 DEF SendInv, mainVars

(* One more ack, for a row in Oracle.                                      *)
LEMMA AckAdded ==
    ASSUME AcksTrue, \A p \in Profiles : oracle[p] \subseteq oracle'[p],
           NEW m \in Messages, InOracle(ContentOf(m)),
           ackTopic' \subseteq ackTopic \cup {AckOf(m)}
    PROVE AcksTrue'
<1> SUFFICES ASSUME NEW a \in ackTopic'
             PROVE \E n \in Messages :
                        AckOf(n) = a /\ \E p \in Profiles : ContentOf(n) \in oracle'[p]
  BY DEF AcksTrue, InOracle, AckOf, ContentOf
<1>1. CASE a \in ackTopic
  BY <1>1 DEF AcksTrue, InOracle
<1>2. CASE a = AckOf(m)
  BY <1>2 DEF InOracle
<1> QED
  BY <1>1, <1>2

(* The steps of paho's thread.                                             *)
LEMMA ReceiveConfirm ==
    ASSUME ChannelTypeOK, BridgeTypeOK, ConfirmInv,
           \A p \in Profiles : oracle[p] \subseteq oracle'[p],
           Receive \/ \E m \in Messages : ReceiveGet(m)
    PROVE ConfirmInv'
<1> USE DEF ConfirmInv
<1>1. ASSUME NEW m \in Messages, ReceiveGet(m) PROVE ConfirmInv'
  <2>1. FoundTrue'
    <3>1. rxRow' = inbox[m.event_id] /\ m.event_id \in EventIds
      BY <1>1, MessageType DEF ReceiveGet
    <3>2. rxRow' # NoRow /\ rxRow'.status = "sent" => InOracle(ContentOf(rxRow'.rec))
      BY <3>1 DEF Truthful
    <3> QED
      BY <3>2 DEF FoundTrue, InOracle, ContentOf
  <2>2. UNCHANGED <<inbox, disk, ackTopic, mainVars>>
    BY <1>1 DEF ReceiveGet
  <2> QED
    BY <2>1, <2>2, TruthLasts, SendingLasts DEF Present
<1>2. CASE InsertReceived
  <2>1. /\ rxRec.event_id \in EventIds
        /\ UNCHANGED <<disk, ackTopic, mainVars>> /\ rxRow' = NoRow
        /\ inbox' = IF Present(rxRec.event_id) THEN inbox
                    ELSE [inbox EXCEPT ![rxRec.event_id] =
                            [status |-> "received", rec |-> rxRec, due |-> TRUE]]
    BY <1>2, MessageType DEF InsertReceived, ReceiveDone, BridgeTypeOK
  <2>2. Truthful(inbox)'
    BY <2>1 DEF Truthful, Present, InOracle, ContentOf, BridgeTypeOK
  <2>3. \A i \in EventIds : Present(i) => inbox'[i] = inbox[i]
    BY <2>1 DEF BridgeTypeOK
  <2>4. SendInv'
    BY <2>1, <2>3, SendingLasts DEF Present
  <2>5. FoundTrue'
    BY <2>1 DEF FoundTrue
  <2> QED
    BY <2>1, <2>2, <2>4, <2>5, TruthLasts
<1>3. CASE ReNack \/ IgnoreWaiting
  <2>1. UNCHANGED <<inbox, disk, ackTopic, mainVars>> /\ rxRow' = NoRow
    BY <1>3 DEF ReNack, IgnoreWaiting, ReceiveDone
  <2>2. FoundTrue'
    BY <2>1 DEF FoundTrue
  <2> QED
    BY <2>1, <2>2, TruthLasts, SendingLasts DEF Present
<1>4. CASE ReAck
  <2>1. /\ UNCHANGED <<inbox, disk, mainVars>> /\ rxRow' = NoRow
        /\ rxRow # NoRow /\ rxRow \in Row /\ rxRow.status = "sent"
        /\ ackTopic' \subseteq ackTopic \cup {AckOf(rxRow.rec)}
    BY <1>4 DEF ReAck, ReceiveDone, BridgeTypeOK
  <2>2. FoundTrue'
    BY <2>1 DEF FoundTrue
  <2>3. rxRow.rec \in Messages /\ InOracle(ContentOf(rxRow.rec))
    BY <2>1 DEF FoundTrue, Row
  <2>4. AcksTrue'
    BY <2>1, <2>3, AckAdded
  <2> QED
    BY <2>1, <2>2, <2>4, TruthLasts, SendingLasts DEF Present
<1> QED
  BY <1>1, <1>2, <1>3, <1>4 DEF Receive

(* The steps of run_once.  A step that writes the inbox writes the row of  *)
(* the record in hand, and no other record being sent shares its row.      *)
LEMMA CurrentRow ==
    ASSUME BridgeTypeOK, SendInv, at = "answered",
           \A i \in EventIds : i # cur.event_id => inbox'[i] = inbox[i]
    PROVE \A m \in batch : Waiting(m)'
<1> SUFFICES ASSUME NEW m \in batch PROVE Waiting(m)'
  OBVIOUS
<1>1. Waiting(m) /\ m # cur /\ m \in Messages
  BY DEF SendInv, BridgeTypeOK
<1>2. Waiting(cur)
  BY DEF SendInv
<1> QED
  BY <1>1, <1>2, MessageType DEF Waiting, Present

LEMMA RunOnceConfirm ==
    ASSUME ChannelTypeOK, BridgeTypeOK, ConfirmInv,
           \A p \in Profiles : oracle[p] \subseteq oracle'[p],
           RunOnce \/ StartMerge \/ LoopEnds
    PROVE ConfirmInv'
<1> USE DEF ConfirmInv
<1>1. UNCHANGED <<inbox, disk, rxRow, ackTopic, oracle>>
  BY DEF RunOnce, StartMerge, LoopEnds, rxVars, dbVars, channelVars
<1>2. SendInv'
  <2>1. CASE RunOnce
    <3>1. at' = "loop" /\ cur' = NoRecord /\ batch' = DueRows
      BY <2>1 DEF RunOnce, SendInv
    <3>2. \A m \in DueRows : Waiting(m) /\ m # NoRecord
      BY DueRowsType, BridgeAssumption
      DEF DueRows, RowsOf, Waiting, Present, Truthful, BridgeTypeOK
    <3> QED
      BY <1>1, <3>1, <3>2 DEF SendInv, Waiting, Present
  <2>2. CASE StartMerge
    <3>1. PICK m \in batch : /\ cur' = m
                             /\ batch' = batch \ {m}
                             /\ matched' = (ContentOf(m) \in oracle[profile])
      BY <2>2 DEF StartMerge
    <3>2. at' = "merging" /\ profile' = profile
      BY <2>2 DEF StartMerge
    <3> QED
      BY <1>1, <3>1, <3>2 DEF SendInv, Waiting, Present, ContentOf
  <2>3. CASE LoopEnds
    <3>1. at' = "idle" /\ batch' = {} /\ cur' = NoRecord
      BY <2>3 DEF LoopEnds, SendInv
    <3> QED
      BY <3>1 DEF SendInv
  <2> QED
    BY <2>1, <2>2, <2>3
<1> QED
  BY <1>1, <1>2, TruthLasts

(* The MERGE's answer: success is only ever reported of a row in Oracle.    *)
LEMMA MergeConfirm ==
    ASSUME ChannelTypeOK, BridgeTypeOK, ConfirmInv,
           \A p \in Profiles : oracle[p] \subseteq oracle'[p],
           MergeInserts \/ MergeMatches \/ MergeCollides \/ MergeFails \/ AnswerLost
    PROVE ConfirmInv'
<1> USE DEF ConfirmInv
<1>1. /\ at = "merging" /\ at' = "answered"
      /\ UNCHANGED <<inbox, disk, rxRow, ackTopic, batch, cur>>
  BY DEF MergeInserts, MergeMatches, MergeCollides, MergeFails, AnswerLost, Answered, rxVars,
         channelVars
<1>2. profile \in Profiles /\ cur \in Messages
  BY <1>1 DEF BridgeTypeOK
<1>3. IsSuccess(answer)' => InOracle(ContentOf(cur))'
  <2>1. CASE MergeInserts
    BY <1>1, <1>2, <2>1 DEF MergeInserts, Commit, BridgeTypeOK, OracleTypeOK, InOracle, ContentOf
  <2>2. CASE MergeMatches
    BY <1>1, <1>2, <2>2 DEF MergeMatches, SendInv, InOracle, ContentOf, dbVars
  <2>3. CASE MergeCollides \/ MergeFails \/ AnswerLost
    BY <2>3 DEF MergeCollides, MergeFails, AnswerLost, Answered, Refused, IsSuccess
  <2> QED
    BY <2>1, <2>2, <2>3
<1>4. (\A m \in batch : Waiting(m))' /\ Waiting(cur)'
  BY <1>1 DEF SendInv, Waiting, Present
<1>5. SendInv'
  BY <1>1, <1>3, <1>4 DEF SendInv
<1> QED
  BY <1>1, <1>5, TruthLasts

(* The verdict: mark_sent, mark_failed or update_retry, then the answer to  *)
(* the child.                                                              *)
LEMMA VerdictConfirm ==
    ASSUME ChannelTypeOK, BridgeTypeOK, ConfirmInv,
           \A p \in Profiles : oracle[p] \subseteq oracle'[p],
           MarkSent \/ MarkFailed \/ Retry
    PROVE ConfirmInv'
<1> USE DEF ConfirmInv
<1>1. at = "answered" /\ cur \in Messages /\ cur.event_id \in EventIds
  BY MessageType DEF MarkSent, MarkFailed, Retry, BridgeTypeOK
<1>2. Waiting(cur) /\ inbox[cur.event_id] \in Row
  BY <1>1 DEF SendInv, Waiting, Present, BridgeTypeOK
<1>3. UNCHANGED <<disk, rxRow, ackTopic, batch, oracle>>
  BY DEF MarkSent, MarkFailed, Retry, Return, rxVars, dbVars, channelVars
<1>4. /\ \A i \in EventIds : i # cur.event_id => inbox'[i] = inbox[i]
      /\ inbox'[cur.event_id].rec = cur
      /\ inbox'[cur.event_id].status = "sent" => IsSuccess(answer)
  <2>1. CASE MarkSent
    BY <1>1, <1>2, <2>1 DEF MarkSent, SetStatus, Waiting, Row, BridgeTypeOK
  <2>2. CASE MarkFailed
    BY <1>1, <1>2, <2>2 DEF MarkFailed, SetStatus, Waiting, Row, BridgeTypeOK
  <2>3. CASE Retry
    BY <1>1, <1>2, <2>3 DEF Retry, Waiting, Row, BridgeTypeOK
  <2> QED
    BY <2>1, <2>2, <2>3
<1>5. IsSuccess(answer) => InOracle(ContentOf(cur))
  BY <1>1 DEF SendInv
<1>6. Truthful(inbox)'
  <2> SUFFICES ASSUME NEW i \in EventIds, inbox'[i] # NoRow
               PROVE /\ inbox'[i].rec.event_id = i
                     /\ inbox'[i].status = "sent" => InOracle(ContentOf(inbox'[i].rec))
    BY <1>3 DEF Truthful, InOracle, ContentOf
  <2>1. CASE i = cur.event_id
    BY <1>4, <1>5, <2>1
  <2>2. CASE i # cur.event_id
    BY <1>4, <2>2 DEF Truthful
  <2> QED
    BY <2>1, <2>2
<1>7. (\A m \in batch : Waiting(m))'
  BY <1>1, <1>3, <1>4, CurrentRow
<1>8. SendInv'
  <2>1. CASE MarkSent
    <3>1. at' = "sent" /\ cur' = cur /\ IsSuccess(answer)
      BY <2>1 DEF MarkSent
    <3> QED
      BY <1>3, <1>5, <1>7, <3>1 DEF SendInv, InOracle, ContentOf
  <2>2. CASE MarkFailed
    <3>1. at' = "givenup" /\ cur' = cur
      BY <2>2 DEF MarkFailed
    <3> QED
      BY <1>3, <1>7, <3>1 DEF SendInv
  <2>3. CASE Retry
    <3>1. at' = "loop" /\ cur' = NoRecord /\ NoRecord \notin batch
      BY <2>3, BridgeAssumption DEF Retry, Return, BridgeTypeOK
    <3> QED
      BY <1>3, <1>7, <3>1 DEF SendInv
  <2> QED
    BY <2>1, <2>2, <2>3
<1> QED
  BY <1>3, <1>6, <1>8, TruthLasts

LEMMA AnswerConfirm ==
    ASSUME ChannelTypeOK, BridgeTypeOK, ConfirmInv,
           \A p \in Profiles : oracle[p] \subseteq oracle'[p],
           PublishAck \/ PublishNack
    PROVE ConfirmInv'
<1> USE DEF ConfirmInv
<1>1. /\ at \in {"sent", "givenup"} /\ at' = "loop" /\ cur' = NoRecord /\ NoRecord \notin batch
      /\ UNCHANGED <<inbox, disk, rxRow, batch>>
  BY BridgeAssumption DEF PublishAck, PublishNack, Return, BridgeTypeOK, rxVars
<1>2. AcksTrue'
  <2>1. CASE PublishAck
    BY <2>1, AckAdded DEF PublishAck, SendInv, BridgeTypeOK
  <2>2. CASE PublishNack
    BY <2>2, TruthLasts DEF PublishNack
  <2> QED
    BY <2>1, <2>2
<1>3. SendInv'
  BY <1>1 DEF SendInv, Waiting, Present
<1> QED
  BY <1>1, <1>2, <1>3, TruthLasts

(* The reclaim block deletes rows while nothing is being sent.             *)
LEMMA ReclaimConfirm ==
    ASSUME ChannelTypeOK, BridgeTypeOK, ConfirmInv,
           \A p \in Profiles : oracle[p] \subseteq oracle'[p],
           DeleteSent \/ DropSent \/ RingEvict \/ EvictRow \/ ReclaimEnds
    PROVE ConfirmInv'
<1> USE DEF ConfirmInv
<1>1. /\ at \in {"idle", "trim", "evict"} /\ at' \in {"idle", "trim", "evict"}
      /\ UNCHANGED <<disk, rxRow, ackTopic, batch, cur, oracle>>
  BY DEF DeleteSent, DropSent, RingEvict, EvictRow, ReclaimEnds, Reclaim, rxVars, dbVars,
         channelVars
<1>2. \A i \in EventIds : inbox'[i] \in {inbox[i], NoRow}
  BY DEF DeleteSent, DropSent, RingEvict, EvictRow, ReclaimEnds, Remove, RowsOf, BridgeTypeOK
<1>3. Truthful(inbox)'
  BY <1>1, <1>2 DEF Truthful, InOracle, ContentOf
<1>4. SendInv'
  BY <1>1 DEF SendInv
<1> QED
  BY <1>1, <1>3, <1>4, TruthLasts

(* The network, the other sender, Oracle, the clock and the file system.   *)
LEMMA EnvironmentConfirm ==
    ASSUME ChannelTypeOK, BridgeTypeOK, ConfirmInv,
           \A p \in Profiles : oracle[p] \subseteq oracle'[p],
           \/ NetworkPoll \/ EventSenderRuns \/ LateCommit \/ LateRollback
           \/ BackoffElapses \/ CooldownElapses \/ Fsync
    PROVE ConfirmInv'
<1> USE DEF ConfirmInv
<1>1. UNCHANGED <<rxRow, ackTopic, mainVars>>
  BY DEF NetworkPoll, EventSenderRuns, LateCommit, LateRollback, BackoffElapses,
         CooldownElapses, Fsync, rxVars, channelVars
<1>2. \A i \in EventIds : /\ inbox'[i] = NoRow <=> inbox[i] = NoRow
                         /\ inbox'[i].rec = inbox[i].rec
                         /\ inbox'[i].status = inbox[i].status
  <2>1. CASE BackoffElapses
    <3>1. PICK i \in RowsOf("received") : inbox' = [inbox EXCEPT ![i].due = TRUE]
      BY <2>1 DEF BackoffElapses
    <3>2. inbox[i] \in Row /\ i \in EventIds
      BY DEF RowsOf, Present, BridgeTypeOK
    <3>3. [inbox[i] EXCEPT !.due = TRUE] \in Row
      BY <3>2 DEF Row
    <3> QED
      BY <3>1, <3>2, <3>3, BridgeAssumption DEF BridgeTypeOK, Row, RowsOf, Present
  <2>2. CASE UNCHANGED inbox
    BY <2>2
  <2> QED
    BY <2>1, <2>2 DEF NetworkPoll, EventSenderRuns, LateCommit, LateRollback, CooldownElapses,
                      Fsync
<1>3. Truthful(inbox)'
  BY <1>2 DEF Truthful, InOracle, ContentOf
<1>4. Truthful(disk)'
  <2>1. UNCHANGED disk \/ disk' = inbox
    BY DEF NetworkPoll, EventSenderRuns, LateCommit, LateRollback, BackoffElapses,
           CooldownElapses, Fsync
  <2>2. CASE UNCHANGED disk
    BY <2>2, TruthLasts
  <2>3. CASE disk' = inbox
    BY <2>3 DEF Truthful, InOracle, ContentOf
  <2> QED
    BY <2>1, <2>2, <2>3
<1>5. SendInv'
  BY <1>1, <1>2, SendingLasts DEF Present
<1> QED
  BY <1>1, <1>3, <1>4, <1>5, TruthLasts

(* A restart forgets what was in hand; a power loss also goes back to the   *)
(* last fsync, whose verdicts were true then and still are.                *)
LEMMA RestartConfirm ==
    ASSUME BridgeTypeOK, ConfirmInv,
           \A p \in Profiles : oracle[p] \subseteq oracle'[p],
           Crash \/ PowerLoss
    PROVE ConfirmInv'
<1> USE DEF ConfirmInv
<1>1. /\ at' = "idle" /\ batch' = {} /\ cur' = NoRecord /\ rxRow' = NoRow
      /\ UNCHANGED <<disk, ackTopic>>
      /\ inbox' = inbox \/ inbox' = disk
  BY DEF Crash, PowerLoss, Restart, channelVars
<1>2. Truthful(inbox)'
  BY <1>1 DEF Truthful, InOracle, ContentOf
<1>3. SendInv' /\ FoundTrue'
  BY <1>1 DEF SendInv, FoundTrue
<1> QED
  BY <1>1, <1>2, <1>3, TruthLasts

LEMMA BridgeStepConfirm ==
    ASSUME ChannelTypeOK, BridgeTypeOK, ConfirmInv, BridgeStep
    PROVE ConfirmInv'
<1>1. \A p \in Profiles : oracle[p] \subseteq oracle'[p]
  BY OracleGrows
<1> QED
  BY <1>1, ReceiveConfirm, RunOnceConfirm, MergeConfirm, VerdictConfirm, AnswerConfirm,
     ReclaimConfirm, EnvironmentConfirm, RestartConfirm
  DEF BridgeStep

(* The bridge stands still while acks reach their child or are lost.        *)
LEMMA BridgeUnchangedConfirm ==
    ASSUME BridgeTypeOK, ConfirmInv, UNCHANGED bridgeVars, ackTopic' \subseteq ackTopic
    PROVE ConfirmInv'
<1>1. AcksTrue'
  BY DEF ConfirmInv, AcksTrue, InOracle, ContentOf, AckOf, bridgeVars
<1>2. Truthful(inbox)' /\ Truthful(disk)' /\ FoundTrue' /\ SendInv'
  <2>1. \A p \in Profiles : oracle[p] \subseteq oracle'[p]
    BY DEF bridgeVars
  <2>2. UNCHANGED mainVars
    BY DEF bridgeVars, mainVars
  <2> QED
    BY <2>1, <2>2, TruthLasts, SendingLasts DEF ConfirmInv, bridgeVars, Present
<1> QED
  BY <1>1, <1>2 DEF ConfirmInv

LEMMA InitConfirm == BridgeSystemInit => ConfirmInv
BY DEF BridgeSystemInit, BridgeInit, ChannelInit, ConfirmInv, Truthful, FoundTrue, AcksTrue,
       SendInv

LEMMA NextConfirm ==
    ASSUME BridgeSystemTypeOK, ConfirmInv, [BridgeSystemNext]_bridgeSystemVars
    PROVE ConfirmInv'
<1> USE DEF BridgeSystemTypeOK
<1>1. CASE BridgeStep
  BY <1>1, BridgeStepConfirm
<1>2. CASE Publish /\ UNCHANGED bridgeVars
  BY <1>2, BridgeUnchangedConfirm DEF Publish
<1>3. CASE Lose /\ UNCHANGED bridgeVars
  BY <1>3, BridgeUnchangedConfirm DEF Lose, LoseRecord, LoseAck, LoseNack
<1>4. CASE UNCHANGED bridgeSystemVars
  BY <1>4, BridgeUnchangedConfirm DEF bridgeSystemVars, channelVars
<1> QED
  BY <1>1, <1>2, <1>3, <1>4 DEF BridgeSystemNext

LEMMA ConfirmSuffices == ConfirmInv => ConfirmedIsInOracle
BY DEF ConfirmInv, ConfirmedIsInOracle, Truthful, AcksTrue, RowsOf, Present

(* Whatever is lost, resent, restarted or answered late, a row the bridge   *)
(* keeps as sent and an ack it has let out stand for a row Oracle has      *)
(* committed.                                                              *)
THEOREM ConfirmationsAreTrue == BridgeSpec => []ConfirmedIsInOracle
<1>1. BridgeSystemInit => ConfirmInv
  BY InitConfirm
<1>2. BridgeSystemTypeOK /\ ConfirmInv /\ [BridgeSystemNext]_bridgeSystemVars => ConfirmInv'
  BY NextConfirm
<1>3. BridgeSpec => []ConfirmInv
  BY <1>1, <1>2, BridgeTypeCorrect, PTL DEF BridgeSpec
<1> QED
  BY <1>3, ConfirmSuffices, PTL

-----------------------------------------------------------------------------
(* What a step may do to the inbox.                                        *)

(* The only writers of the inbox, and the rows they write: an absent one    *)
(* (insert_received), one still waiting (the verdicts and the back-off), or *)
(* one they delete (the reclaim block); a power loss replaces them all.     *)
LEMMA InboxChanges ==
    ASSUME ChannelTypeOK, BridgeTypeOK, ConfirmInv, BridgeStep
    PROVE \/ inbox' = disk
          \/ \A i \in EventIds :
                \/ inbox'[i] = inbox[i]
                \/ ~Present(i)
                \/ inbox[i].status = "received" /\ inbox'[i] # NoRow
                \/ inbox'[i] = NoRow /\ (DropSent \/ EvictRow)
<1> USE DEF BridgeTypeOK
<1>1. CASE InsertReceived
  BY <1>1 DEF InsertReceived, Present
<1>2. CASE MarkSent \/ MarkFailed \/ Retry
  <2>1. at = "answered" /\ cur \in Messages /\ cur.event_id \in EventIds
    BY <1>2, MessageType DEF MarkSent, MarkFailed, Retry
  <2>2. Waiting(cur) /\ inbox[cur.event_id] \in Row
    BY <2>1 DEF ConfirmInv, SendInv, Waiting, Present
  <2>3. /\ \A i \in EventIds : i # cur.event_id => inbox'[i] = inbox[i]
        /\ inbox'[cur.event_id] \in Row
    <3>1. CASE MarkSent
      BY <2>1, <2>2, <3>1 DEF MarkSent, SetStatus, Row
    <3>2. CASE MarkFailed
      BY <2>1, <2>2, <3>2 DEF MarkFailed, SetStatus, Row
    <3>3. CASE Retry
      BY <2>1, <2>2, <3>3 DEF Retry, Row
    <3> QED
      BY <1>2, <3>1, <3>2, <3>3
  <2>4. inbox'[cur.event_id] # NoRow
    BY <2>3, BridgeAssumption DEF Row
  <2> QED
    BY <2>1, <2>2, <2>3, <2>4 DEF Waiting
<1>3. CASE DropSent \/ EvictRow
  BY <1>3 DEF DropSent, EvictRow, Remove, RowsOf
<1>4. CASE BackoffElapses
  <2>1. PICK i \in RowsOf("received") : inbox' = [inbox EXCEPT ![i].due = TRUE]
    BY <1>4 DEF BackoffElapses
  <2>2. inbox[i] \in Row /\ i \in EventIds /\ inbox[i].status = "received"
    BY <2>1 DEF RowsOf, Present
  <2>3. [inbox[i] EXCEPT !.due = TRUE] \in Row
    BY <2>2 DEF Row
  <2>4. inbox'[i] # NoRow
    BY <2>1, <2>2, <2>3, BridgeAssumption DEF Row
  <2> QED
    BY <2>1, <2>2, <2>4
<1>5. CASE PowerLoss
  BY <1>5 DEF PowerLoss
<1>6. CASE UNCHANGED inbox
  BY <1>6
<1> QED
  BY <1>1, <1>2, <1>3, <1>4, <1>5, <1>6
  DEF BridgeStep, ReceiveGet, Receive, ReNack, ReAck, IgnoreWaiting, RunOnce, StartMerge,
      LoopEnds, MergeInserts, MergeMatches, MergeCollides, MergeFails, AnswerLost, Answered,
      LateCommit, LateRollback, PublishAck, PublishNack, NetworkPoll, EventSenderRuns,
      DeleteSent, RingEvict, ReclaimEnds, CooldownElapses, Fsync, Crash

(* ring_evict takes a waiting row only when no sent or failed row is left.  *)
LEMMA EvictsWaitingLast ==
    ASSUME BridgeTypeOK, EvictRow,
           NEW i \in EventIds, Present(i), inbox[i].status = "received", inbox'[i] = NoRow,
           NEW j \in EventIds, inbox'[j] # NoRow
    PROVE inbox'[j].status = "received"
<1>1. PICK k \in EventIds :
        /\ Present(k)
        /\ \A l \in EventIds : Present(l) => EvictRank(k) <= EvictRank(l)
        /\ Remove(k)
  BY DEF EvictRow
<1>2. k = i
  BY <1>1 DEF Remove, Present, BridgeTypeOK
<1>3. j # i /\ inbox'[j] = inbox[j] /\ inbox[j] \in Row
  BY <1>1, <1>2 DEF Remove, BridgeTypeOK
<1>4. EvictRank(i) = 2 /\ 2 <= EvictRank(j)
  BY <1>1, <1>2, <1>3 DEF EvictRank, Present
<1> QED
  BY <1>3, <1>4 DEF EvictRank, Row

(* The invariants hold of both ends of every step.                         *)
LEMMA Invariants == BridgeSpec => [](BridgeSystemTypeOK /\ ConfirmInv)
<1>1. BridgeSystemTypeOK /\ ConfirmInv /\ [BridgeSystemNext]_bridgeSystemVars => ConfirmInv'
  BY NextConfirm
<1> QED
  BY <1>1, InitConfirm, BridgeTypeCorrect, PTL DEF BridgeSpec

(* Whatever duplicate, late answer or restart comes, a verdict the bridge   *)
(* has written is only ever deleted, or lost with the power.               *)
THEOREM VerdictsStand == BridgeSpec => VerdictStands
<1> DEFINE Stands(i) ==
        inbox[i] # NoRow /\ inbox[i].status # "received" =>
            \/ inbox'[i] \in {inbox[i], NoRow}
            \/ inbox' = disk
<1>1. BridgeSystemTypeOK /\ ConfirmInv /\ [BridgeSystemNext]_bridgeSystemVars
        => [\A i \in EventIds : Stands(i)]_bridgeSystemVars
  <2> SUFFICES ASSUME BridgeSystemTypeOK, ConfirmInv, BridgeSystemNext, NEW i \in EventIds
               PROVE Stands(i)
    OBVIOUS
  <2>1. CASE BridgeStep
    BY <2>1, InboxChanges DEF BridgeSystemTypeOK, Present
  <2>2. CASE UNCHANGED bridgeVars
    BY <2>2 DEF bridgeVars
  <2> QED
    BY <2>1, <2>2 DEF BridgeSystemNext
<1> QED
  BY <1>1, Invariants, PTL DEF BridgeSpec, VerdictStands

(* The records still waiting for Oracle are the last that the disk bound    *)
(* costs, however the two threads interleave.                              *)
THEOREM WaitingIsDroppedLast == BridgeSpec => WaitingDroppedLast
<1> DEFINE Last(i) ==
        inbox'[i] = NoRow /\ inbox' # disk =>
            \A j \in EventIds : inbox'[j] # NoRow => inbox'[j].status = "received"
<1>1. BridgeSystemTypeOK /\ ConfirmInv /\ [BridgeSystemNext]_bridgeSystemVars
        => [\A i \in RowsOf("received") : Last(i)]_bridgeSystemVars
  <2> SUFFICES ASSUME BridgeSystemTypeOK, ConfirmInv, BridgeSystemNext,
                      NEW i \in RowsOf("received"), inbox'[i] = NoRow, inbox' # disk,
                      NEW j \in EventIds, inbox'[j] # NoRow
               PROVE inbox'[j].status = "received"
    OBVIOUS
  <2>1. i \in EventIds /\ Present(i) /\ inbox[i].status = "received"
    BY DEF RowsOf
  <2>2. CASE BridgeStep
    <3>1. DropSent \/ EvictRow
      BY <2>1, <2>2, InboxChanges DEF BridgeSystemTypeOK, Present
    <3>2. CASE DropSent
      BY <2>1, <3>2 DEF DropSent, Remove, RowsOf, Present, BridgeSystemTypeOK, BridgeTypeOK
    <3>3. CASE EvictRow
      BY <2>1, <3>3, EvictsWaitingLast DEF BridgeSystemTypeOK
    <3> QED
      BY <3>1, <3>2, <3>3
  <2>3. CASE UNCHANGED bridgeVars
    BY <2>1, <2>3 DEF bridgeVars, Present
  <2> QED
    BY <2>2, <2>3 DEF BridgeSystemNext
<1> QED
  BY <1>1, Invariants, PTL DEF BridgeSpec, WaitingDroppedLast
=============================================================================
