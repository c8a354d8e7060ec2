---------------------------- MODULE EventBridge ----------------------------
(***************************************************************************)
(* The hub's event path (services/bridge/src): _on_event and the main loop *)
(* of main.py, inbox.py, sender.py, profile_resolver.py, network_watcher.py *)
(* and time_watcher.py with time_correction.py.                            *)
(*                                                                         *)
(* paho's thread runs OnEvent; the main loop (`at` is its program counter) *)
(* runs everything else in turn.  The back-off times, the breaker's timeout *)
(* and the reachable SSID are events of the environment.                   *)
(***************************************************************************)
EXTENDS EventChannel, OracleTable, FiniteSets

CONSTANTS
    Policy,            (* unknown_ssid_policy                               *)
    NoProfile,         (* an SSID without profile, or no decision to send   *)
    NoRow,             (* no row of that event_id                           *)
    NoWork,            (* no event in hand                                  *)
    NoBaseline,        (* the wall clock is not synchronised                *)
    KeepSent,          (* what keep_sent_for_free may return                *)
    MaxRows            (* buffer.max_rows                                   *)

VARIABLES
    inbox,         (* the table inbox                                       *)
    ssid,          (* network.cached_ssid                                   *)
    lastKnown,     (* resolver._last_known                                  *)
    baseline,      (* time_watcher.baseline, as wall - monotonic            *)
    at,            (* where the main loop is                                *)
    profile,       (* the profile of the run_once in progress               *)
    batch,         (* the due events fetched and not yet looked at          *)
    cur, curDate,  (* the event _send_one works on, and its MK_DATE         *)
    matched,       (* the MERGE's read snapshot holds the row               *)
    answer,        (* the MergeResult                                       *)
    excess,        (* the rows the reclaim block has still to delete        *)
    breaker,       (* CircuitBreaker._entries                               *)
    misread        (* history: the events whose MERGE failed without an ORA *)
                   (* code and was taken for a success                      *)

work == <<cur, curDate, matched, answer>>
loopVars == <<at, profile, batch, excess>>
hubVars == <<ssid, lastKnown, baseline>>
eventBridgeVars == <<inbox, hubVars, loopVars, work, breaker, misread, dbVars>>

Row == [status : {"received", "sent"}, event : Events, due : BOOLEAN,
        committed : MkDates \cup {NoDate}]

ASSUME EventBridgeAssumption ==
    /\ Policy \in {"hold", "drop", "use_last"}
    /\ NoProfile \notin Profiles
    /\ NoRow \notin Row
    /\ NoWork \notin Events
    /\ NoBaseline \notin Offsets
    /\ KeepSent \subseteq Nat
    /\ MaxRows \in Nat
    /\ IsFiniteSet(EventIds)

EventBridgeTypeOK ==
    /\ inbox \in [EventIds -> Row \cup {NoRow}]
    /\ ssid \in Profiles \cup {NoProfile}
    /\ lastKnown \in Profiles \cup {NoProfile}
    /\ baseline \in Offsets \cup {NoBaseline}
    /\ at \in {"idle", "loop", "merging", "answered", "sent", "trim", "evict"}
    /\ profile \in Profiles \cup {NoProfile}
    /\ (at \in {"loop", "merging", "answered", "sent"} => profile \in Profiles)
    /\ batch \in SUBSET Events
    /\ cur \in Events \cup {NoWork}
    /\ curDate \in MkDates \cup {NoDate}
    /\ (at \in {"merging", "answered", "sent"} => cur \in Events /\ curDate \in MkDates)
    /\ matched \in BOOLEAN
    /\ answer \in MergeResult
    /\ excess \in Nat
    /\ breaker \in [Profiles -> BreakerEntry]
    /\ misread \subseteq Events
    /\ OracleTypeOK

EventBridgeInit ==
    /\ inbox = [i \in EventIds |-> NoRow]
    /\ ssid = NoProfile /\ lastKnown = NoProfile /\ baseline = NoBaseline
    /\ at = "idle" /\ profile = NoProfile /\ batch = {} /\ excess = 0
    /\ cur = NoWork /\ curDate = NoDate /\ matched = FALSE /\ answer = NoAnswer
    /\ breaker = [p \in Profiles |-> NewEntry] /\ misread = {}
    /\ OracleInit

Present(i) == inbox[i] # NoRow
RowsOf(s) == {i \in EventIds : Present(i) /\ inbox[i].status = s}

-----------------------------------------------------------------------------
(* ProfileResolver: the profile to send to, or the policy's answer.        *)

peek(s) ==
    CASE s \in Profiles -> s
      [] s \notin Profiles /\ Policy = "use_last" -> lastKnown
      [] OTHER -> NoProfile

Drops(s) == peek(s) = NoProfile /\ Policy = "drop"

(* resolve(): as peek(), and the profile becomes the last one known.       *)
Remember(s) == lastKnown' = IF s \in Profiles THEN s ELSE lastKnown

-----------------------------------------------------------------------------
(* paho's network thread: _on_event, and insert_received with ON           *)
(* CONFLICT(event_id) DO NOTHING.                                          *)

(* As OnEvent, with INSERT OR REPLACE. *)
OnEventOrReplace(e) ==
    /\ e \in eventTopic
    /\ eventTopic' = eventTopic \ {e}
    /\ inbox' = IF Drops(ssid) THEN inbox
                ELSE [inbox EXCEPT ![e.event_id] =
                        [status |-> "received", event |-> e, due |-> TRUE,
                         committed |-> NoDate]]
    /\ UNCHANGED <<boot, eventAckTopic, ackSubscribed, hubVars, loopVars, work, breaker, misread, dbVars>>

OnEvent(e) ==
    /\ e \in eventTopic
    /\ eventTopic' = eventTopic \ {e}
    /\ inbox' = IF Drops(ssid) \/ Present(e.event_id) THEN inbox
                ELSE [inbox EXCEPT ![e.event_id] =
                        [status |-> "received", event |-> e, due |-> TRUE,
                         committed |-> NoDate]]
    /\ UNCHANGED <<boot, eventAckTopic, ackSubscribed, hubVars, loopVars, work, breaker, misread, dbVars>>

-----------------------------------------------------------------------------
(* The main loop.                                                          *)

(* network.get_current_ssid: nmcli's answer, or the cached one.            *)
NetworkPoll ==
    /\ at = "idle"
    /\ ssid' \in Profiles \cup {NoProfile}
    /\ UNCHANGED <<inbox, lastKnown, baseline, loopVars, work, breaker, misread, dbVars,
                   eventChannelVars>>

(* time_watcher.poll: a baseline is taken when synchronisation is acquired *)
(* and dropped when it is lost; in between it is kept.                     *)
SyncAcquired ==
    /\ at = "idle"
    /\ baseline = NoBaseline
    /\ baseline' \in OffsetsOf[boot]
    /\ UNCHANGED <<inbox, ssid, lastKnown, loopVars, work, breaker, misread, dbVars,
                   eventChannelVars>>

SyncLost ==
    /\ at = "idle"
    /\ baseline # NoBaseline
    /\ baseline' = NoBaseline
    /\ UNCHANGED <<inbox, ssid, lastKnown, loopVars, work, breaker, misread, dbVars,
                   eventChannelVars>>

(* As DueEvents, selecting the event_ids alone. *)
DueEventIds == {i \in RowsOf("received") : inbox[i].due}

DueEvents == {inbox[i].event : i \in {j \in RowsOf("received") : inbox[j].due}}

MaySend(p) == p \in Profiles /\ state_for(breaker[p]).state # "open"

(* Sender.run_once: the SSID, the resolver, the breaker, the due rows.     *)
RunOnce ==
    /\ at = "idle"
    /\ ssid' \in Profiles \cup {NoProfile}
    /\ Remember(ssid')
    /\ MaySend(peek(ssid'))
    /\ profile' = peek(ssid')
    /\ breaker' = [breaker EXCEPT ![profile'] = state_for(@)]
    /\ batch' = DueEvents
    /\ at' = "loop"
    /\ UNCHANGED <<inbox, baseline, excess, work, misread, dbVars, eventChannelVars>>

(* run_once returns without a row sent: hold, drop, or an open breaker.    *)
RunNothing ==
    /\ at = "idle"
    /\ ssid' \in Profiles \cup {NoProfile}
    /\ Remember(ssid')
    /\ ~MaySend(peek(ssid'))
    /\ UNCHANGED <<inbox, baseline, loopVars, work, breaker, misread, dbVars, eventChannelVars>>

(* _resolve_mk_date: the event's own, or the one its monotonic time has    *)
(* under the present baseline, or none.                                    *)
resolve_mk_date(e) ==
    CASE e.mk_date # NoDate -> e.mk_date
      [] e.mk_date = NoDate /\ baseline # NoBaseline -> MkDateAt(e.mono, baseline)
      [] OTHER -> NoDate

(* The row _send_one merges for an event.                                  *)
ContentAt(e, d) == [mk_date |-> d, t1_status |-> e.t1_status]
Current == ContentAt(cur, curDate)

SkipUndated ==
    /\ at = "loop"
    /\ \E e \in batch : resolve_mk_date(e) = NoDate /\ batch' = batch \ {e}
    /\ UNCHANGED <<inbox, hubVars, at, profile, excess, work, breaker, misread, dbVars,
                   eventChannelVars>>

StartMerge ==
    /\ at = "loop"
    /\ \E e \in batch :
        /\ resolve_mk_date(e) # NoDate
        /\ cur' = e
        /\ curDate' = resolve_mk_date(e)
        /\ matched' = (ContentAt(e, curDate') \in oracle[profile])
        /\ batch' = batch \ {e}
    /\ at' = "merging"
    /\ UNCHANGED <<inbox, hubVars, profile, excess, answer, breaker, misread, dbVars,
                   eventChannelVars>>

LoopEnds ==
    /\ at = "loop" /\ batch = {}
    /\ at' = "idle"
    /\ profile' = NoProfile
    /\ UNCHANGED <<inbox, hubVars, batch, excess, work, breaker, misread, dbVars,
                   eventChannelVars>>

Answered(r) ==
    /\ at' = "answered"
    /\ answer' = r
    /\ matched' = FALSE
    /\ UNCHANGED <<inbox, hubVars, profile, batch, excess, cur, curDate, breaker, misread,
                   eventChannelVars>>

MergeInserts ==
    /\ at = "merging" /\ ~matched
    /\ ~KeyTaken(profile, Current)
    /\ Commit(profile, Current)
    /\ Answered(Accepted)
    /\ UNCHANGED late

MergeMatches ==
    /\ at = "merging" /\ matched
    /\ Answered(Accepted)
    /\ UNCHANGED dbVars

MergeCollides ==
    /\ at = "merging" /\ ~matched
    /\ KeyTaken(profile, Current)
    /\ Answered(Refused(DupCode))
    /\ UNCHANGED dbVars

(* A failure of the transport has no ORA code (the JDBC client, the sidecar). *)
MergeFails ==
    /\ at = "merging"
    /\ \E c \in (OraCodes \ {DupCode}) \cup {NoCode} : Answered(Refused(c))
    /\ UNCHANGED dbVars

(* The client gives up; the statement may still run to its commit.         *)
AnswerLost ==
    /\ at = "merging"
    /\ \E c \in (OraCodes \ (Permanent \cup {DupCode})) \cup {NoCode} : Answered(Refused(c))
    /\ late' = late \cup {<<profile, Current>>}
    /\ UNCHANGED oracle

LateCommit ==
    /\ FinishLate
    /\ UNCHANGED <<inbox, hubVars, loopVars, work, breaker, misread, eventChannelVars>>

LateRollback ==
    /\ RollBackLate
    /\ UNCHANGED <<inbox, hubVars, loopVars, work, breaker, misread, eventChannelVars>>

(* As IsSuccess, for an adapter that raises on failure. *)
IsSuccessOnceBack(r) == TRUE

IsSuccess(r) == r.code = NoCode

MarkSent ==
    /\ at = "answered"
    /\ IsSuccess(answer)
    /\ inbox' = IF Present(cur.event_id)
                THEN [inbox EXCEPT ![cur.event_id].status = "sent",
                                   ![cur.event_id].committed = curDate]
                ELSE inbox
    /\ breaker' = [breaker EXCEPT ![profile] = record_success(@)]
    /\ misread' = IF answer = Refused(NoCode) THEN misread \cup {cur} ELSE misread
    /\ at' = "sent"
    /\ UNCHANGED <<hubVars, profile, batch, excess, work, dbVars, eventChannelVars>>

(* _send_one is over. *)
Return ==
    /\ at' = "loop"
    /\ cur' = NoWork /\ curDate' = NoDate /\ answer' = NoAnswer
    /\ UNCHANGED <<hubVars, profile, batch, excess, matched, dbVars, boot, eventTopic,
                   ackSubscribed>>

PublishAck ==
    /\ at = "sent"
    /\ SendEventAck([event_id |-> cur.event_id, mk_date |-> curDate])
    /\ Return
    /\ UNCHANGED <<inbox, breaker, misread>>

Retry ==
    /\ at = "answered"
    /\ ~IsSuccess(answer)
    /\ breaker' = [breaker EXCEPT ![profile] = record_failure(@, answer.code)]
    /\ inbox' = IF Present(cur.event_id)
                THEN [inbox EXCEPT ![cur.event_id].due = FALSE] ELSE inbox
    /\ Return
    /\ UNCHANGED <<eventAckTopic, misread>>

(* The reclaim block, statement by statement (each autocommits).           *)
Reclaim ==
    /\ UNCHANGED <<hubVars, profile, batch, work, breaker, misread, dbVars, eventChannelVars>>

Remove(i) == inbox' = [inbox EXCEPT ![i] = NoRow]
Excess(n, limit) == IF n > limit THEN n - limit ELSE 0

DeleteSent ==
    /\ at = "idle"
    /\ \E keep \in KeepSent : excess' = Excess(Cardinality(RowsOf("sent")), keep)
    /\ at' = "trim"
    /\ UNCHANGED inbox
    /\ Reclaim

DropSent ==
    /\ at = "trim" /\ excess > 0
    /\ \E i \in RowsOf("sent") : Remove(i)
    /\ excess' = excess - 1
    /\ UNCHANGED at
    /\ Reclaim

RingEvict ==
    /\ at = "trim" /\ excess = 0
    /\ excess' = Excess(Cardinality({i \in EventIds : Present(i)}), MaxRows)
    /\ at' = "evict"
    /\ UNCHANGED inbox
    /\ Reclaim

(* As Evictable, oldest first whatever the status. *)
EvictableInOrder == {i \in EventIds : Present(i)}

(* Sent rows go first. *)
Evictable == IF RowsOf("sent") # {} THEN RowsOf("sent") ELSE RowsOf("received")

EvictRow ==
    /\ at = "evict" /\ excess > 0
    /\ \E i \in Evictable : Remove(i)
    /\ excess' = excess - 1
    /\ UNCHANGED at
    /\ Reclaim

ReclaimEnds ==
    /\ at = "evict" /\ excess = 0
    /\ at' = "idle"
    /\ UNCHANGED <<inbox, excess>>
    /\ Reclaim

-----------------------------------------------------------------------------
(* Time and failures.                                                      *)

BackoffElapses ==
    /\ \E i \in RowsOf("received") :
        /\ ~inbox[i].due
        /\ inbox' = [inbox EXCEPT ![i].due = TRUE]
    /\ UNCHANGED <<hubVars, loopVars, work, breaker, misread, dbVars, eventChannelVars>>

CooldownElapses ==
    /\ \E p \in Profiles :
        /\ breaker[p].state = "open" /\ ~breaker[p].elapsed
        /\ breaker' = [breaker EXCEPT ![p] = CooldownRunsOut(@)]
    /\ UNCHANGED <<inbox, hubVars, loopVars, work, misread, dbVars, eventChannelVars>>

(* A new process: a MERGE under way has lost its client; main() promises   *)
(* nothing to the rows whose ack was not published.                        *)
BridgeStarts ==
    /\ ssid' = NoProfile /\ lastKnown' = NoProfile /\ baseline' = NoBaseline
    /\ at' = "idle" /\ profile' = NoProfile /\ batch' = {} /\ excess' = 0
    /\ cur' = NoWork /\ curDate' = NoDate /\ matched' = FALSE /\ answer' = NoAnswer
    /\ breaker' = [p \in Profiles |-> NewEntry]
    /\ late' = IF at = "merging" THEN late \cup {<<profile, Current>>} ELSE late
    /\ UNCHANGED <<inbox, misread, oracle>>

BridgeRestart == BridgeStarts /\ UNCHANGED eventChannelVars

EventBridgeStep ==
    \/ \E e \in eventTopic : OnEvent(e)
    \/ NetworkPoll \/ SyncAcquired \/ SyncLost
    \/ RunOnce \/ RunNothing \/ SkipUndated \/ StartMerge \/ LoopEnds
    \/ MergeInserts \/ MergeMatches \/ MergeCollides \/ MergeFails \/ AnswerLost
    \/ LateCommit \/ LateRollback
    \/ MarkSent \/ PublishAck \/ Retry
    \/ DeleteSent \/ DropSent \/ RingEvict \/ EvictRow \/ ReclaimEnds
    \/ BackoffElapses \/ CooldownElapses \/ BridgeRestart
=============================================================================
