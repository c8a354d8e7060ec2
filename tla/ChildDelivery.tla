---------------------------- MODULE ChildDelivery ----------------------------
(***************************************************************************)
(* The child Pi's CSV sender: child/child-csv-to-mqtt.py (the polling loop *)
(* and the archive) over child/ack_delivery.py (the ledger DeliveryStore,  *)
(* the MQTT session AckSession and deliver_file).                          *)
(*                                                                         *)
(* The main thread walks the files line by line (`pc`); paho's thread runs *)
(* the callbacks, which write the ledger while the main thread waits for   *)
(* an answer.  The 600 s resend pause, the 5 s wait and the 30 s cycle are *)
(* events that may happen at any time.                                     *)
(*                                                                         *)
(* A file is complete when it appears (docs/2026-09-23-child-oracle-ack-   *)
(* design.md:20 requires producers to rename it in), so its size and mtime *)
(* do not change while it is read.  A line is a record or Bad: Bad stands  *)
(* for a line parse_line rejects and for a last line without newline, both *)
(* of which keep the file from being complete.                             *)
(***************************************************************************)
EXTENDS RecordChannel

CONSTANTS
    Files,         (* the CSV files that may be put into WATCH_DIR          *)
    Bad,           (* a line that yields no record                          *)
    Lines,         (* the lines of each file                                *)
    NoFile, NoLine, NoEntry,
    ChildPowerMayFail

ASSUME ChildAssumption ==
    /\ Lines \in [Files -> SUBSET (Messages \cup {Bad})]
    /\ Bad \notin Messages
    /\ NoFile \notin Files
    /\ NoLine \notin Messages
    /\ NoEntry \notin [status : {"pending", "acked", "nacked"}, rec : Messages, recent : BOOLEAN]
    /\ ChildPowerMayFail \in BOOLEAN

(* SHA1 over the device and the line: one child gives an event_id to one   *)
(* content only, and here all of Messages are the one child's.             *)
ASSUME EventIdAssumption ==
    \A m, n \in Messages : m.event_id = n.event_id => m = n

VARIABLES
    outbox, sent, nacked,  (* the files in WATCH_DIR, ARCHIVE_DIR, NACKED_DIR *)
    sidecar,               (* the files with a .nack.jsonl: its event_ids     *)
    store,                 (* DeliveryStore: the ledger's row of an event_id  *)
    ledger,                (* what of the ledger survives a power loss        *)
    link,                  (* the MQTT session, and the answer of its SUBACK  *)
    nackEnabled,           (* AckSession._nack_enabled                        *)
    pc,                    (* where the main thread is                        *)
    file, todo, line,      (* deliver_file: the file, lines to do, the record *)
    tally                  (* deliver_file: the DeliveryResult so far         *)

dirVars == <<outbox, sent, nacked, sidecar>>
sessionVars == <<link, nackEnabled>>
walkVars == <<pc, file, todo, line, tally>>
childVars == <<outbox, sent, nacked, sidecar, store, ledger, link, nackEnabled,
               pc, file, todo, line, tally>>

Entry == [status : {"pending", "acked", "nacked"}, rec : Messages, recent : BOOLEAN]
Tally == [pending : BOOLEAN, invalid : BOOLEAN, nacked : SUBSET EventIds]
NoTally == [pending |-> FALSE, invalid |-> FALSE, nacked |-> {}]

ChildTypeOK ==
    /\ outbox \in SUBSET Files /\ sent \in SUBSET Files /\ nacked \in SUBSET Files
    /\ sidecar \in [Files -> SUBSET EventIds]
    /\ store \in [EventIds -> Entry \cup {NoEntry}]
    /\ ledger \in [EventIds -> Entry \cup {NoEntry}]
    /\ link \in {"down", "connecting", "ready", "refused"}
    /\ nackEnabled \in BOOLEAN
    /\ pc \in {"poll", "lines", "saved", "waiting", "sidecar"}
    /\ file \in Files \cup {NoFile}
    /\ (pc # "poll" => file \in outbox)
    /\ todo \in SUBSET (Messages \cup {Bad})
    /\ line \in Messages \cup {NoLine}
    /\ (pc \in {"saved", "waiting"} => line \in Messages)
    /\ tally \in Tally

ChildInit ==
    /\ outbox = {} /\ sent = {} /\ nacked = {}
    /\ sidecar = [f \in Files |-> {}]
    /\ store = [i \in EventIds |-> NoEntry]
    /\ ledger = [i \in EventIds |-> NoEntry]
    /\ link = "down" /\ nackEnabled = FALSE
    /\ pc = "poll" /\ file = NoFile
    /\ todo = {} /\ line = NoLine /\ tally = NoTally

Known(i) == store[i] # NoEntry
Has(i, s) == Known(i) /\ store[i].status = s

-----------------------------------------------------------------------------
(* paho's thread: the callbacks of AckSession.                             *)

Connect ==
    /\ link = "down"
    /\ link' = "connecting" /\ nackEnabled' = FALSE
    /\ UNCHANGED <<dirVars, store, ledger, walkVars, channelVars>>

(* SUBACK: without the ack topic nothing is sent; without the nack topic   *)
(* the session works as it did before there were nacks.                    *)
Subscribed ==
    /\ link = "connecting"
    /\ \E ackOk, nackOk \in BOOLEAN :
        /\ link' = IF ackOk THEN "ready" ELSE "refused"
        /\ nackEnabled' = nackOk
    /\ UNCHANGED <<dirVars, store, ledger, walkVars, channelVars>>

Disconnect ==
    /\ link # "down"
    /\ link' = "down" /\ nackEnabled' = FALSE
    /\ UNCHANGED <<dirVars, store, ledger, walkVars, channelVars>>

(* _handle_ack: only a pending row whose mk_date is the committed one.     *)
HandleAck(a) ==
    /\ link \in {"connecting", "ready"}
    /\ a \in ackTopic
    /\ ackTopic' = ackTopic \ {a}
    /\ store' = IF Has(a.event_id, "pending") /\ store[a.event_id].rec.mk_date = a.mk_date
                THEN [store EXCEPT ![a.event_id].status = "acked"] ELSE store
    /\ UNCHANGED <<dirVars, ledger, sessionVars, walkVars, recordTopic, nackTopic>>

(* As HandleNack, marking any row the ledger knows. *)
HandleNackAnyRow(n) ==
    /\ link # "down"
    /\ n \in nackTopic
    /\ nackTopic' = nackTopic \ {n}
    /\ store' = IF nackEnabled /\ Known(n)
                THEN [store EXCEPT ![n].status = "nacked"] ELSE store
    /\ UNCHANGED <<dirVars, ledger, sessionVars, walkVars, recordTopic, ackTopic>>

(* _handle_nack and mark_nacked: only a pending row.                       *)
HandleNack(n) ==
    /\ link # "down"
    /\ n \in nackTopic
    /\ nackTopic' = nackTopic \ {n}
    /\ store' = IF nackEnabled /\ Has(n, "pending")
                THEN [store EXCEPT ![n].status = "nacked"] ELSE store
    /\ UNCHANGED <<dirVars, ledger, sessionVars, walkVars, recordTopic, ackTopic>>

-----------------------------------------------------------------------------
(* The main thread: deliver_file and AckSession.send.                      *)

NewFile ==
    /\ \E f \in Files \ (outbox \cup sent \cup nacked) : outbox' = outbox \cup {f}
    /\ UNCHANGED <<sent, nacked, sidecar, store, ledger, sessionVars, walkVars, channelVars>>

OpenFile ==
    /\ pc = "poll"
    /\ \E f \in outbox :
        /\ file' = f
        /\ todo' = Lines[f]
    /\ pc' = "lines"
    /\ UNCHANGED <<dirVars, store, ledger, sessionVars, line, tally, channelVars>>

(* The outcome of send for record m, counted by deliver_file.              *)
CountPending == tally' = [tally EXCEPT !.pending = TRUE]
CountNacked(m) == tally' = [tally EXCEPT !.nacked = @ \cup {m.event_id}]

BadLine ==
    /\ pc = "lines"
    /\ Bad \in todo
    /\ todo' = todo \ {Bad}
    /\ tally' = [tally EXCEPT !.invalid = TRUE]
    /\ UNCHANGED <<dirVars, store, ledger, sessionVars, pc, file, line, channelVars>>

(* As SendSettled, any verdict in the ledger counting as ACKED. *)
SendSettledAnyVerdict(m) ==
    /\ pc = "lines"
    /\ m \in todo \ {Bad}
    /\ \/ link # "ready" /\ CountPending
       \/ link = "ready" /\ Known(m.event_id) /\ ~Has(m.event_id, "pending") /\ UNCHANGED tally
       \/ link = "ready" /\ Has(m.event_id, "pending") /\ store[m.event_id].recent
          /\ CountPending
    /\ todo' = todo \ {m}
    /\ UNCHANGED <<dirVars, store, ledger, sessionVars, pc, file, line, channelVars>>

(* send returns without publishing: no SUBACK yet, or the ledger already   *)
(* knows the outcome, or the last attempt is under 600 s old.              *)
SendSettled(m) ==
    /\ pc = "lines"
    /\ m \in todo \ {Bad}
    /\ \/ link # "ready" /\ CountPending
       \/ link = "ready" /\ Has(m.event_id, "acked") /\ UNCHANGED tally
       \/ link = "ready" /\ Has(m.event_id, "nacked") /\ CountNacked(m)
       \/ link = "ready" /\ Has(m.event_id, "pending") /\ store[m.event_id].recent
          /\ CountPending
    /\ todo' = todo \ {m}
    /\ UNCHANGED <<dirVars, store, ledger, sessionVars, pc, file, line, channelVars>>

(* As SavePending, with no look at the time of the last attempt. *)
SavePendingAtOnce(m) ==
    /\ pc = "lines"
    /\ m \in todo \ {Bad}
    /\ link = "ready"
    /\ ~Known(m.event_id) \/ Has(m.event_id, "pending")
    /\ store' = [store EXCEPT ![m.event_id] = [status |-> "pending", rec |-> m, recent |-> TRUE]]
    /\ line' = m
    /\ todo' = todo \ {m}
    /\ pc' = "saved"
    /\ UNCHANGED <<dirVars, ledger, sessionVars, file, tally, channelVars>>

(* save_pending for a new record, touch_pending for one to send again.     *)
SavePending(m) ==
    /\ pc = "lines"
    /\ m \in todo \ {Bad}
    /\ link = "ready"
    /\ \/ /\ ~Known(m.event_id)
          /\ store' = [store EXCEPT ![m.event_id] =
                        [status |-> "pending", rec |-> m, recent |-> TRUE]]
       \/ /\ Has(m.event_id, "pending") /\ ~store[m.event_id].recent
          /\ store' = [store EXCEPT ![m.event_id].recent = TRUE]
    /\ line' = m
    /\ todo' = todo \ {m}
    /\ pc' = "saved"
    /\ UNCHANGED <<dirVars, ledger, sessionVars, file, tally, channelVars>>

(* publish(QoS 2): accepted, then _publish_and_wait polls the ledger...    *)
PublishRecord ==
    /\ pc = "saved"
    /\ link # "down"
    /\ recordTopic' = recordTopic \cup {line}
    /\ pc' = "waiting"
    /\ UNCHANGED <<dirVars, store, ledger, sessionVars, file, todo, line, tally,
                   ackTopic, nackTopic>>

(* ... or rc # 0 (not connected): PENDING, and paho keeps the message and  *)
(* sends it after the reconnect.                                           *)
PublishQueued ==
    /\ pc = "saved"
    /\ link = "down"
    /\ recordTopic' = recordTopic \cup {line}
    /\ CountPending
    /\ line' = NoLine
    /\ pc' = "lines"
    /\ UNCHANGED <<dirVars, store, ledger, sessionVars, file, todo, ackTopic, nackTopic>>

WaitOver ==
    /\ pc = "waiting"
    /\ \/ Has(line.event_id, "acked") /\ UNCHANGED tally
       \/ Has(line.event_id, "nacked") /\ CountNacked(line)
       \/ Has(line.event_id, "pending") /\ CountPending
    /\ line' = NoLine
    /\ pc' = "lines"
    /\ UNCHANGED <<dirVars, store, ledger, sessionVars, file, todo, channelVars>>

(* max_seconds has run out, checked before each line but never before the  *)
(* first: the rest of the file is left for the next round (truncated),     *)
(* which is one more way not to be complete.                               *)
CycleOver ==
    /\ pc = "lines"
    /\ todo # {} /\ todo # Lines[file]
    /\ todo' = {}
    /\ CountPending
    /\ UNCHANGED <<dirVars, store, ledger, sessionVars, pc, file, line, channelVars>>

(* As Complete, without the count of invalid lines. *)
CompleteDespiteInvalid == todo = {} /\ ~tally.pending

(* DeliveryResult.complete.                                                *)
Complete == todo = {} /\ ~tally.pending /\ ~tally.invalid

NextFile ==
    /\ pc' = "poll" /\ file' = NoFile /\ tally' = NoTally
    /\ UNCHANGED <<store, ledger, sessionVars, todo, line, channelVars>>

KeepFile ==
    /\ pc = "lines"
    /\ todo = {} /\ ~Complete
    /\ NextFile
    /\ UNCHANGED dirVars

(* archive_to_destination: every line acked, to sent/.                     *)
ArchiveSent ==
    /\ pc = "lines"
    /\ Complete /\ tally.nacked = {}
    /\ outbox' = outbox \ {file} /\ sent' = sent \cup {file}
    /\ NextFile
    /\ UNCHANGED <<nacked, sidecar>>

(* Some line nacked: first the sidecar (tmp + rename) ...                  *)
WriteSidecar ==
    /\ pc = "lines"
    /\ Complete /\ tally.nacked # {}
    /\ sidecar' = [sidecar EXCEPT ![file] = tally.nacked]
    /\ pc' = "sidecar"
    /\ UNCHANGED <<outbox, sent, nacked, store, ledger, sessionVars, file, todo, line, tally,
                   channelVars>>

(* ... then the file, to nacked/.                                          *)
ArchiveNacked ==
    /\ pc = "sidecar"
    /\ outbox' = outbox \ {file} /\ nacked' = nacked \cup {file}
    /\ NextFile
    /\ UNCHANGED <<sent, sidecar>>

-----------------------------------------------------------------------------
(* Time and failures.                                                      *)

ResendDue ==
    /\ \E i \in EventIds :
        /\ Has(i, "pending") /\ store[i].recent
        /\ store' = [store EXCEPT ![i].recent = FALSE]
    /\ UNCHANGED <<dirVars, ledger, sessionVars, walkVars, channelVars>>

ChildFsync ==
    /\ ChildPowerMayFail
    /\ ledger' = store
    /\ UNCHANGED <<dirVars, store, sessionVars, walkVars, channelVars>>

ChildRestart ==
    /\ link' = "down" /\ nackEnabled' = FALSE
    /\ pc' = "poll" /\ file' = NoFile
    /\ todo' = {} /\ line' = NoLine /\ tally' = NoTally
    /\ UNCHANGED <<dirVars, ledger, channelVars>>

ChildCrash == ChildRestart /\ UNCHANGED store

(* The ledger runs WAL with synchronous=NORMAL: back to its last fsync.    *)
ChildPowerLoss == ChildPowerMayFail /\ ChildRestart /\ store' = ledger

ChildStep ==
    \/ Connect \/ Subscribed \/ Disconnect
    \/ \E a \in ackTopic : HandleAck(a)
    \/ \E n \in nackTopic : HandleNack(n)
    \/ NewFile \/ OpenFile \/ BadLine
    \/ \E m \in Messages : SendSettled(m) \/ SavePending(m)
    \/ PublishRecord \/ PublishQueued \/ WaitOver \/ CycleOver
    \/ KeepFile \/ ArchiveSent \/ WriteSidecar \/ ArchiveNacked
    \/ ResendDue \/ ChildFsync \/ ChildCrash \/ ChildPowerLoss
=============================================================================
