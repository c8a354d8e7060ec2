---------------------------- MODULE RecordBridge ----------------------------
(***************************************************************************)
(* The hub's record path (services/bridge/src): record_inbox.py (durable   *)
(* buffer), record_sender.py (receive and run_once), the part of main.py   *)
(* that drives them, the circuit breaker they share with the event Sender, *)
(* and Oracle's table HHC001 behind the adapter.                           *)
(*                                                                         *)
(* Two threads interleave: paho's network thread runs receive() (the       *)
(* variables rx...), the main loop runs run_once() and the reclaim block   *)
(* (`at` is its program counter).  The loop's one-second pace, the back-off *)
(* times and the breaker's timeout are events of the environment.  The     *)
(* process may be killed at any step; a power loss also rolls SQLite back  *)
(* to its last fsync, because the inbox runs WAL with synchronous=NORMAL.  *)
(***************************************************************************)
EXTENDS RecordChannel, OracleTable, Naturals, FiniteSets

CONSTANTS
    NoProfile,     (* peek() decides hold or drop                           *)
    NoRow,         (* no row of that event_id                               *)
    NoRecord,      (* nothing in hand                                       *)
    Unretryable,   (* circuit_breaker.unretryable_ora_codes                 *)
    KeepSent,      (* the keep_newest values keep_sent_for_free may return  *)
    MaxRows,       (* record.max_rows                                       *)
    PowerMayFail   (* whether this hub loses power, not just its container  *)

ASSUME BridgeAssumption ==
    /\ IsFiniteSet(EventIds)
    /\ NoProfile \notin Profiles
    /\ Unretryable \subseteq OraCodes
    /\ NoRow \notin [status : {"received", "sent", "failed"}, rec : Messages, due : BOOLEAN]
    /\ NoRecord \notin Messages
    /\ KeepSent \subseteq Nat
    /\ MaxRows \in Nat
    /\ PowerMayFail \in BOOLEAN

VARIABLES
    inbox,         (* the table record_inbox                                *)
    disk,          (* what of it survives a power loss                      *)
    rxRec, rxRow,  (* receive(): the record in hand and the row get() found *)
    at,            (* where the main loop is                                *)
    target,        (* what resolver.peek(network.cached_ssid) decides       *)
    profile,       (* the profile of the run_once in progress               *)
    batch,         (* the due rows fetched and not yet sent                 *)
    cur,           (* the record _send_one works on                         *)
    matched,       (* the MERGE's read snapshot holds the record's row      *)
    answer,        (* the MergeResult                                       *)
    excess,        (* the rows the reclaim block has still to delete        *)
    breaker        (* CircuitBreaker._entries                               *)

rxVars == <<rxRec, rxRow>>
mainVars == <<at, profile, batch, cur, matched, answer, excess>>
bridgeVars == <<inbox, disk, rxRec, rxRow, at, target, profile, batch, cur, matched,
                answer, excess, breaker, oracle, late>>

Row == [status : {"received", "sent", "failed"}, rec : Messages, due : BOOLEAN]

ContentOf(m) == [mk_date |-> m.mk_date, t1_status |-> m.t1_status]

BridgeTypeOK ==
    /\ inbox \in [EventIds -> Row \cup {NoRow}]
    /\ disk \in [EventIds -> Row \cup {NoRow}]
    /\ rxRec \in Messages \cup {NoRecord}
    /\ rxRow \in Row \cup {NoRow}
    /\ at \in {"idle", "loop", "merging", "answered", "sent", "givenup", "trim", "evict"}
    /\ target \in Profiles \cup {NoProfile}
    /\ profile \in Profiles \cup {NoProfile}
    /\ (at \in {"loop", "merging", "answered", "sent", "givenup"} => profile \in Profiles)
    /\ batch \in SUBSET Messages
    /\ cur \in Messages \cup {NoRecord}
    /\ (at \in {"merging", "answered", "sent", "givenup"} => cur \in Messages)
    /\ matched \in BOOLEAN
    /\ answer \in MergeResult
    /\ excess \in Nat
    /\ breaker \in [Profiles -> BreakerEntry]
    /\ OracleTypeOK

BridgeInit ==
    /\ inbox = [i \in EventIds |-> NoRow]
    /\ disk = [i \in EventIds |-> NoRow]
    /\ rxRec = NoRecord /\ rxRow = NoRow
    /\ at = "idle"
    /\ target = NoProfile /\ profile = NoProfile
    /\ batch = {} /\ cur = NoRecord
    /\ matched = FALSE /\ answer = NoAnswer /\ excess = 0
    /\ breaker = [p \in Profiles |-> NewEntry]
    /\ OracleInit

Present(i) == inbox[i] # NoRow
RowsOf(s) == {i \in EventIds : Present(i) /\ inbox[i].status = s}

-----------------------------------------------------------------------------
(* paho's network thread: _on_record and RecordSender.receive.             *)

(* The message is parsed and get(event_id) reads the row.  QoS 1: it may   *)
(* come again.                                                             *)
ReceiveGet(m) ==
    /\ rxRec = NoRecord
    /\ m \in recordTopic
    /\ recordTopic' \in {recordTopic, recordTopic \ {m}}
    /\ rxRec' = m
    /\ rxRow' = inbox[m.event_id]
    /\ UNCHANGED <<inbox, disk, mainVars, target, breaker, dbVars, ackTopic, nackTopic>>

ContentMatches(stored, incoming) == stored = incoming

ReceiveDone ==
    /\ rxRec' = NoRecord
    /\ rxRow' = NoRow
    /\ UNCHANGED <<disk, mainVars, target, breaker, dbVars, recordTopic>>

(* As InsertReceived, with INSERT OR REPLACE and no look at the row.       *)
InsertReceivedOrReplace ==
    /\ rxRec # NoRecord
    /\ inbox' = [inbox EXCEPT ![rxRec.event_id] =
                    [status |-> "received", rec |-> rxRec, due |-> TRUE]]
    /\ ReceiveDone
    /\ UNCHANGED <<ackTopic, nackTopic>>

(* No row was there: insert_received, ON CONFLICT(event_id) DO NOTHING.    *)
InsertReceived ==
    /\ rxRec # NoRecord
    /\ rxRow = NoRow
    /\ inbox' = IF Present(rxRec.event_id) THEN inbox
                ELSE [inbox EXCEPT ![rxRec.event_id] =
                        [status |-> "received", rec |-> rxRec, due |-> TRUE]]
    /\ ReceiveDone
    /\ UNCHANGED <<ackTopic, nackTopic>>

(* A duplicate of a given-up row: the nack again, if the content is equal. *)
ReNack ==
    /\ rxRec # NoRecord
    /\ rxRow # NoRow /\ rxRow.status = "failed"
    /\ nackTopic' = IF ContentMatches(rxRow.rec, rxRec)
                    THEN nackTopic \cup {rxRec.event_id} ELSE nackTopic
    /\ ReceiveDone
    /\ UNCHANGED <<inbox, ackTopic>>

(* As ReAck, answering a duplicate of any row that was not given up.       *)
ReAckUnlessFailed ==
    /\ rxRec # NoRecord
    /\ rxRow # NoRow /\ rxRow.status # "failed"
    /\ ackTopic' = IF ContentMatches(rxRow.rec, rxRec)
                   THEN ackTopic \cup {AckOf(rxRow.rec)} ELSE ackTopic
    /\ ReceiveDone
    /\ UNCHANGED <<inbox, nackTopic>>

(* A duplicate of a committed row: the ack again, if the content is equal. *)
ReAck ==
    /\ rxRec # NoRecord
    /\ rxRow # NoRow /\ rxRow.status = "sent"
    /\ ackTopic' = IF ContentMatches(rxRow.rec, rxRec)
                   THEN ackTopic \cup {AckOf(rxRow.rec)} ELSE ackTopic
    /\ ReceiveDone
    /\ UNCHANGED <<inbox, nackTopic>>

(* A duplicate of a row still waiting: its outcome will be published later. *)
IgnoreWaiting ==
    /\ rxRec # NoRecord
    /\ rxRow # NoRow /\ rxRow.status = "received"
    /\ ReceiveDone
    /\ UNCHANGED <<inbox, ackTopic, nackTopic>>

Receive == InsertReceived \/ ReNack \/ ReAck \/ IgnoreWaiting

-----------------------------------------------------------------------------
(* The main loop: RecordSender.run_once.                                   *)

(* As DueRows, selecting the event_ids alone. *)
DueRowIds == {i \in RowsOf("received") : inbox[i].due}

(* iter_received_due fetches every due row before the first is sent.       *)
DueRows == {inbox[i].rec : i \in {j \in RowsOf("received") : inbox[j].due}}

RunOnce ==
    /\ at = "idle"
    /\ target \in Profiles
    /\ LET e == state_for(breaker[target]) IN
        /\ e.state # "open"
        /\ breaker' = [breaker EXCEPT ![target] = e]
    /\ at' = "loop"
    /\ profile' = target
    /\ batch' = DueRows
    /\ UNCHANGED <<inbox, disk, rxVars, target, cur, matched, answer, excess, dbVars, channelVars>>

(* _send_one is over: its locals go out of scope.                          *)
Return ==
    /\ at' = "loop"
    /\ cur' = NoRecord /\ answer' = NoAnswer
    /\ UNCHANGED <<disk, rxVars, target, profile, batch, matched, excess, dbVars>>

(* The next row's MERGE starts.  The rows' order (received_at_iso, a wall  *)
(* clock) is left open.  `matched` is the statement's read consistency: it *)
(* sees what is committed when it starts.                                  *)
StartMerge ==
    /\ at = "loop"
    /\ \E m \in batch :
        /\ cur' = m
        /\ batch' = batch \ {m}
        /\ matched' = (ContentOf(m) \in oracle[profile])
    /\ at' = "merging"
    /\ UNCHANGED <<inbox, disk, rxVars, target, profile, answer, excess, breaker, dbVars,
                   channelVars>>

LoopEnds ==
    /\ at = "loop"
    /\ batch = {}
    /\ at' = "idle"
    /\ profile' = NoProfile
    /\ UNCHANGED <<inbox, disk, rxVars, target, batch, cur, matched, answer, excess, breaker,
                   dbVars, channelVars>>

Answered(r) ==
    /\ at' = "answered"
    /\ answer' = r
    /\ matched' = FALSE
    /\ UNCHANGED <<inbox, disk, rxVars, target, profile, batch, cur, excess, breaker, channelVars>>

(* WHEN NOT MATCHED THEN INSERT, and the adapter commits.                  *)
MergeInserts ==
    /\ at = "merging"
    /\ ~matched
    /\ ~KeyTaken(profile, ContentOf(cur))
    /\ Commit(profile, ContentOf(cur))
    /\ Answered(Accepted)
    /\ UNCHANGED late

(* The row is already there: the MERGE has nothing to do and succeeds.     *)
MergeMatches ==
    /\ at = "merging"
    /\ matched
    /\ Answered(Accepted)
    /\ UNCHANGED dbVars

(* Not matched when it started, and the primary key is taken: ORA-00001.   *)
MergeCollides ==
    /\ at = "merging"
    /\ ~matched
    /\ KeyTaken(profile, ContentOf(cur))
    /\ Answered(Refused(DupCode))
    /\ UNCHANGED dbVars

(* The statement was not run: no connection, no privilege, sidecar away... *)
MergeFails ==
    /\ at = "merging"
    /\ \E c \in (OraCodes \ {DupCode}) \cup {NoCode} : Answered(Refused(c))
    /\ UNCHANGED dbVars

(* The connection or the HTTP request is given up while the statement may  *)
(* still run to its commit.                                                *)
AnswerLost ==
    /\ at = "merging"
    /\ \E c \in (OraCodes \ (Permanent \cup Unretryable \cup {DupCode})) \cup {NoCode} :
            Answered(Refused(c))
    /\ late' = late \cup {<<profile, ContentOf(cur)>>}
    /\ UNCHANGED oracle

LateCommit ==
    /\ FinishLate
    /\ UNCHANGED <<inbox, disk, rxVars, mainVars, target, breaker, channelVars>>

LateRollback ==
    /\ RollBackLate
    /\ UNCHANGED <<inbox, disk, rxVars, mainVars, target, breaker, channelVars>>

IsSuccess(r) == r.code = NoCode /\ r.message = "none"

(* UPDATE ... WHERE event_id=?: no effect on a row that is gone.           *)
SetStatus(i, s) ==
    inbox' = IF Present(i) THEN [inbox EXCEPT ![i].status = s] ELSE inbox

MarkSent ==
    /\ at = "answered"
    /\ IsSuccess(answer)
    /\ SetStatus(cur.event_id, "sent")
    /\ breaker' = [breaker EXCEPT ![profile] = record_success(@)]
    /\ at' = "sent"
    /\ answer' = NoAnswer
    /\ UNCHANGED <<disk, rxVars, target, profile, batch, cur, matched, excess, dbVars, channelVars>>

PublishAck ==
    /\ at = "sent"
    /\ ackTopic' = ackTopic \cup {AckOf(cur)}
    /\ Return
    /\ UNCHANGED <<inbox, breaker, recordTopic, nackTopic>>

MarkFailed ==
    /\ at = "answered"
    /\ ~IsSuccess(answer)
    /\ answer.code \in Unretryable
    /\ SetStatus(cur.event_id, "failed")
    /\ at' = "givenup"
    /\ answer' = NoAnswer
    /\ UNCHANGED <<disk, rxVars, target, profile, batch, cur, matched, excess, breaker, dbVars,
                   channelVars>>

PublishNack ==
    /\ at = "givenup"
    /\ nackTopic' = nackTopic \cup {cur.event_id}
    /\ Return
    /\ UNCHANGED <<inbox, breaker, recordTopic, ackTopic>>

(* update_retry: the row waits for next_retry_at_iso.                      *)
Retry ==
    /\ at = "answered"
    /\ ~IsSuccess(answer)
    /\ answer.code \notin Unretryable
    /\ breaker' = [breaker EXCEPT ![profile] = record_failure(@, answer.code)]
    /\ inbox' = IF Present(cur.event_id)
                THEN [inbox EXCEPT ![cur.event_id].due = FALSE] ELSE inbox
    /\ Return
    /\ UNCHANGED channelVars

-----------------------------------------------------------------------------
(* The rest of the main loop.                                              *)

(* network.get_current_ssid, and the resolver's decision with it.          *)
NetworkPoll ==
    /\ at = "idle"
    /\ target' \in Profiles \cup {NoProfile}
    /\ UNCHANGED <<inbox, disk, rxVars, mainVars, breaker, dbVars, channelVars>>

(* sender.run_once: the other user of the breaker, on the same profile.    *)
EventSenderRuns ==
    /\ at = "idle"
    /\ target \in Profiles
    /\ LET e == state_for(breaker[target]) IN
        /\ e.state # "open"
        /\ \E f \in {record_success(e)} \cup {record_failure(e, c) : c \in OraCodes} :
                breaker' = [breaker EXCEPT ![target] = f]
    /\ UNCHANGED <<inbox, disk, rxVars, mainVars, target, dbVars, channelVars>>

(* The stats block: delete_sent(keep_newest), then ring_evict(max_rows).   *)
(* SQLite autocommits, so each first counts (`excess`) and then deletes    *)
(* row by row, while the other thread may insert.  Both order the rows by  *)
(* wall clocks, which is left open.                                        *)
Remove(i) == inbox' = [inbox EXCEPT ![i] = NoRow]

Reclaim ==
    UNCHANGED <<disk, rxVars, target, profile, batch, cur, matched, answer, breaker, dbVars,
                channelVars>>

Excess(n, limit) == IF n > limit THEN n - limit ELSE 0

DeleteSent ==
    /\ at = "idle"
    /\ \E keep \in KeepSent : excess' = Excess(Cardinality(RowsOf("sent")), keep)
    /\ at' = "trim"
    /\ UNCHANGED inbox
    /\ Reclaim

DropSent ==
    /\ at = "trim" /\ excess > 0
    /\ \E i \in RowsOf("sent") : Remove(i)
    /\ excess' = excess - 1
    /\ UNCHANGED at
    /\ Reclaim

RingEvict ==
    /\ at = "trim" /\ excess = 0
    /\ excess' = Excess(Cardinality({i \in EventIds : Present(i)}), MaxRows)
    /\ at' = "evict"
    /\ UNCHANGED inbox
    /\ Reclaim

(* As EvictRank, the waiting rows before the given-up ones.                *)
EvictRankWaitingSecond(i) ==
    CASE inbox[i].status = "sent" -> 0
      [] inbox[i].status = "received" -> 1
      [] inbox[i].status = "failed" -> 2

EvictRank(i) ==
    CASE inbox[i].status = "sent" -> 0
      [] inbox[i].status = "failed" -> 1
      [] inbox[i].status = "received" -> 2

EvictRow ==
    /\ at = "evict" /\ excess > 0
    /\ \E i \in EventIds :
        /\ Present(i)
        /\ \A k \in EventIds : Present(k) => EvictRank(i) <= EvictRank(k)
        /\ Remove(i)
    /\ excess' = excess - 1
    /\ UNCHANGED at
    /\ Reclaim

ReclaimEnds ==
    /\ at = "evict" /\ excess = 0
    /\ at' = "idle"
    /\ UNCHANGED <<inbox, excess>>
    /\ Reclaim

-----------------------------------------------------------------------------
(* Time and failures.                                                      *)

BackoffElapses ==
    /\ \E i \in RowsOf("received") :
        /\ ~inbox[i].due
        /\ inbox' = [inbox EXCEPT ![i].due = TRUE]
    /\ UNCHANGED <<disk, rxVars, mainVars, target, breaker, dbVars, channelVars>>

CooldownElapses ==
    /\ \E p \in Profiles :
        /\ breaker[p].state = "open" /\ ~breaker[p].elapsed
        /\ breaker' = [breaker EXCEPT ![p] = CooldownRunsOut(@)]
    /\ UNCHANGED <<inbox, disk, rxVars, mainVars, target, dbVars, channelVars>>

Fsync ==
    /\ PowerMayFail
    /\ disk' = inbox
    /\ UNCHANGED <<inbox, rxVars, mainVars, target, breaker, dbVars, channelVars>>

(* A new process: nothing in memory, cached_ssid None; a MERGE under way   *)
(* has lost its client.                                                    *)
Restart ==
    /\ rxRec' = NoRecord /\ rxRow' = NoRow
    /\ at' = "idle" /\ target' = NoProfile /\ profile' = NoProfile
    /\ batch' = {} /\ cur' = NoRecord /\ matched' = FALSE /\ answer' = NoAnswer
    /\ excess' = 0
    /\ breaker' = [p \in Profiles |-> NewEntry]
    /\ late' = IF at = "merging" THEN late \cup {<<profile, ContentOf(cur)>>} ELSE late
    /\ UNCHANGED <<disk, oracle, channelVars>>

Crash == Restart /\ UNCHANGED inbox

PowerLoss == PowerMayFail /\ Restart /\ inbox' = disk

BridgeStep ==
    \/ \E m \in Messages : ReceiveGet(m)
    \/ Receive
    \/ RunOnce \/ StartMerge \/ LoopEnds
    \/ MergeInserts \/ MergeMatches \/ MergeCollides \/ MergeFails \/ AnswerLost
    \/ LateCommit \/ LateRollback
    \/ MarkSent \/ PublishAck \/ MarkFailed \/ PublishNack \/ Retry
    \/ NetworkPoll \/ EventSenderRuns
    \/ DeleteSent \/ DropSent \/ RingEvict \/ EvictRow \/ ReclaimEnds
    \/ BackoffElapses \/ CooldownElapses \/ Fsync
    \/ Crash \/ PowerLoss

-----------------------------------------------------------------------------
(* The bridge by itself: children publish any of Messages at any time, and *)
(* what the bridge publishes is taken or lost.                             *)

Publish ==
    /\ \E m \in Messages : recordTopic' = recordTopic \cup {m}
    /\ UNCHANGED <<ackTopic, nackTopic>>

bridgeSystemVars == <<channelVars, bridgeVars>>

BridgeSystemInit == ChannelInit /\ BridgeInit

BridgeSystemNext ==
    \/ BridgeStep
    \/ Publish /\ UNCHANGED bridgeVars
    \/ Lose /\ UNCHANGED bridgeVars

BridgeSpec == BridgeSystemInit /\ [][BridgeSystemNext]_bridgeSystemVars

-----------------------------------------------------------------------------
(* Properties.                                                             *)

BridgeSystemTypeOK == ChannelTypeOK /\ BridgeTypeOK

(* What the bridge vouches for is true: a row it keeps as sent, on disk or  *)
(* not, and an ack it has let out, however old, stand for a row Oracle has  *)
(* committed (record_sender.py _send_one and receive, across restarts,      *)
(* power losses, resends and lost MERGE answers).                          *)
ConfirmedIsInOracle ==
    /\ \A i \in RowsOf("sent") : InOracle(ContentOf(inbox[i].rec))
    /\ \A a \in ackTopic :
        \E m \in Messages : AckOf(m) = a /\ InOracle(ContentOf(m))

(* A verdict is not taken back: a sent or failed row changes only by being *)
(* deleted, or by a power loss that returns the table to its last fsync    *)
(* (receive()'s insert and _send_one's updates never revive it).           *)
VerdictStands ==
    [][\A i \in EventIds :
            inbox[i] # NoRow /\ inbox[i].status # "received" =>
                \/ inbox'[i] \in {inbox[i], NoRow}
                \/ inbox' = disk]_bridgeSystemVars

(* A record still waiting for Oracle is dropped for space only when every  *)
(* row left is waiting too (ring_evict's order), whatever was received and *)
(* settled since the reclaim block began.                                  *)
WaitingDroppedLast ==
    [][\A i \in RowsOf("received") :
            inbox'[i] = NoRow /\ inbox' # disk =>
                \A j \in EventIds : inbox'[j] # NoRow => inbox'[j].status = "received"
      ]_bridgeSystemVars

(* record_inbox.py:7: "retry until Oracle accepts, then mark sent": once   *)
(* the MERGE is accepted, the main loop's next step marks the row.         *)
AcceptedIsMarkedSent ==
    [][at = "answered" /\ answer = Accepted /\ at' \notin {"answered", "idle"} =>
            at' = "sent"]_bridgeSystemVars
=============================================================================
