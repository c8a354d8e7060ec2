------------------------------ MODULE WebSender ------------------------------
(***************************************************************************)
(* The Web server's own sender of send_logs (child/web_server.py): the     *)
(* automatic worker and the "send now" requests publish the rows of the    *)
(* CSV files that the camera application appends, and keep per file how    *)
(* many rows are done.                                                     *)
(*                                                                         *)
(* _send_lock lets one thread work at a time.  The counters live in memory *)
(* during a run and are written once, after it, by truncating the file and *)
(* writing it again.  A publish may fail, or succeed and not be confirmed  *)
(* within its 10 seconds.                                                  *)
(***************************************************************************)
EXTENDS Naturals, FiniteSets

CONSTANTS
    Files,        (* the CSV files, numbered in the order of their names    *)
    MaxRows,      (* the rows a file may get: a bound                       *)
    BadRows,      (* the rows _csv_line_to_record rejects                   *)
    Senders,      (* the threads that call do_send_logs                     *)
    AutoSender,   (* of them, _auto_send_worker                             *)
    NoSender      (* the lock is free                                       *)

AllRows == Files \X (1 .. MaxRows)

ASSUME SenderAssumption ==
    /\ Files \subseteq Nat /\ IsFiniteSet(Files)
    /\ MaxRows \in Nat
    /\ BadRows \subseteq AllRows
    /\ AutoSender \in Senders /\ NoSender \notin Senders

VARIABLES
    rows,         (* complete rows of each file                             *)
    counters,     (* what load_send_state would read                        *)
    target,       (* send_target_config.json                                *)
    sendLock,     (* the holder of _send_lock                               *)
    sending,      (* what the holder does                                   *)
    count,        (* its copy of the counters                               *)
    upto,         (* the rows of each file it read                          *)
    arrived,      (* history: the rows that reached the broker              *)
    resent,       (* history: those that reached it more than once          *)
    excused       (* history: those whose count a fault kept from the file  *)

senderVars == <<rows, counters, target, sendLock, sending, count, upto,
                arrived, resent, excused>>

Zero == [f \in Files |-> 0]

Count == [Files -> 0 .. MaxRows]

SenderTypeOK ==
    /\ rows \in Count /\ counters \in Count
    /\ count \in Count /\ upto \in Count
    /\ target \in [enabled : BOOLEAN, host : BOOLEAN]
    /\ sendLock \in Senders \cup {NoSender}
    /\ sending \in {"idle", "locked", "loaded", "publishing", "saving", "truncated"}
    /\ (sending = "idle") <=> (sendLock = NoSender)
    /\ resent \subseteq arrived /\ arrived \subseteq AllRows
    /\ excused \subseteq AllRows

SenderInit ==
    /\ rows = Zero /\ counters = Zero /\ count = Zero /\ upto = Zero
    /\ target = [enabled |-> TRUE, host |-> TRUE]
    /\ sendLock = NoSender
    /\ sending = "idle"
    /\ arrived = {} /\ resent = {} /\ excused = {}

(* SendLogger appends to the file of the day and the address: with another  *)
(* address any file may be the one that grows.  Neither program deletes one. *)
RowAppended(f) ==
    /\ rows[f] < MaxRows
    /\ rows' = [rows EXCEPT ![f] = @ + 1]
    /\ UNCHANGED <<counters, target, sendLock, sending, count, upto, arrived, resent, excused>>

SetSendTarget ==
    /\ target' \in [enabled : BOOLEAN, host : BOOLEAN]
    /\ target' # target
    /\ UNCHANGED <<rows, counters, sendLock, sending, count, upto, arrived, resent, excused>>

(* As "StartSend" without asking for _send_lock.                           *)
StartSendUnlocked(t) ==
    /\ target.host
    /\ sendLock' = t
    /\ sending' = "locked"
    /\ UNCHANGED <<rows, counters, target, count, upto, arrived, resent, excused>>

(* do_send_logs gives up when the lock is taken or no host is set; the     *)
(* worker calls it only when the automatic sending is enabled.             *)
StartSend(t) ==
    /\ sendLock = NoSender
    /\ target.host
    /\ t = AutoSender => target.enabled
    /\ sendLock' = t
    /\ sending' = "locked"
    /\ UNCHANGED <<rows, counters, target, count, upto, arrived, resent, excused>>

LoadSendState ==
    /\ sending = "locked"
    /\ count' = counters
    /\ sending' = "loaded"
    /\ UNCHANGED <<rows, counters, target, sendLock, upto, arrived, resent, excused>>

(* As "Release" without the finally.                                       *)
ReleaseKeepsLock == sending' = "idle" /\ UNCHANGED sendLock

Release ==
    /\ sending' = "idle"
    /\ sendLock' = NoSender

(* The targets: nothing to send ends the run, and so does a refused        *)
(* connection, before any counter moved.                                   *)
ReadRows ==
    /\ sending = "loaded"
    /\ upto' = rows
    /\ \/ \E f \in Files : count[f] < rows[f]
          /\ sending' = "publishing"
          /\ UNCHANGED sendLock
       \/ Release
    /\ UNCHANGED <<rows, counters, target, count, arrived, resent, excused>>

(* The row the loop is at: the files in the order of their names.          *)
AtRow(f) ==
    /\ sending = "publishing"
    /\ count[f] < upto[f]
    /\ \A g \in Files : g < f => count[g] >= upto[g]

Reaches(f) ==
    LET row == <<f, count[f] + 1>>
    IN  /\ arrived' = arrived \cup {row}
        /\ resent' = IF row \in arrived THEN resent \cup {row} ELSE resent

(* As "SkipBadRow", but the row's ValueError ends the run.                 *)
BadRowEndsRun(f) ==
    /\ AtRow(f)
    /\ <<f, count[f] + 1>> \in BadRows
    /\ Release
    /\ UNCHANGED <<rows, counters, target, count, upto, arrived, resent, excused>>

SkipBadRow(f) ==
    /\ AtRow(f)
    /\ <<f, count[f] + 1>> \in BadRows
    /\ count' = [count EXCEPT ![f] = @ + 1]
    /\ UNCHANGED <<rows, counters, target, sendLock, sending, upto, arrived, resent, excused>>

PublishRow(f) ==
    /\ AtRow(f)
    /\ <<f, count[f] + 1>> \notin BadRows
    /\ Reaches(f)
    /\ count' = [count EXCEPT ![f] = @ + 1]
    /\ UNCHANGED <<rows, counters, target, sendLock, sending, upto, excused>>

(* As "PublishFails", counting the row before its publish is waited for.   *)
PublishFailsCounted(f) ==
    /\ AtRow(f)
    /\ <<f, count[f] + 1>> \notin BadRows
    /\ count' = [count EXCEPT ![f] = @ + 1]
    /\ sending' = "saving"
    /\ UNCHANGED <<rows, counters, target, sendLock, upto, arrived, resent, excused>>

(* wait_for_publish runs out or the client raises: the exception leaves    *)
(* both loops.  The row may have arrived all the same.                     *)
PublishFails(f) ==
    /\ AtRow(f)
    /\ <<f, count[f] + 1>> \notin BadRows
    /\ \/ UNCHANGED <<arrived, resent, excused>>
       \/ Reaches(f) /\ excused' = excused \cup {<<f, count[f] + 1>>}
    /\ IF count = counters THEN Release
       ELSE sending' = "saving" /\ UNCHANGED sendLock
    /\ UNCHANGED <<rows, counters, target, count, upto>>

AllPublished ==
    /\ sending = "publishing"
    /\ \A f \in Files : count[f] >= upto[f]
    /\ sending' = "saving"
    /\ UNCHANGED <<rows, counters, target, sendLock, count, upto, arrived, resent, excused>>

(* save_send_state: open("w") empties the file, json.dump fills it.        *)
TruncateSendState ==
    /\ sending = "saving"
    /\ counters' = Zero
    /\ sending' = "truncated"
    /\ UNCHANGED <<rows, target, sendLock, count, upto, arrived, resent, excused>>

WriteSendState ==
    /\ sending = "truncated"
    /\ counters' = count
    /\ Release
    /\ UNCHANGED <<rows, target, count, upto, arrived, resent, excused>>

(* What reached the broker and is not in the file now.                     *)
Uncounted == {r \in arrived : r[2] > counters[r[1]]}

(* save_send_state swallows the error of its open or of its write.         *)
SaveSendStateFails ==
    /\ sending \in {"saving", "truncated"}
    /\ excused' = excused \cup Uncounted
    /\ Release
    /\ UNCHANGED <<rows, counters, target, count, upto, arrived, resent>>

(* The process ends: the threads, the lock and the copies are gone.        *)
SenderKilled ==
    /\ excused' = excused \cup Uncounted
    /\ Release
    /\ UNCHANGED <<rows, counters, target, count, upto, arrived, resent>>

SenderWork ==
    \/ LoadSendState
    \/ ReadRows
    \/ \E f \in Files : SkipBadRow(f) \/ PublishRow(f)
    \/ AllPublished
    \/ TruncateSendState
    \/ WriteSendState

SenderNext ==
    \/ \E f \in Files : RowAppended(f)
    \/ SetSendTarget
    \/ \E t \in Senders : StartSend(t)
    \/ SenderWork
    \/ \E f \in Files : PublishFails(f)
    \/ SaveSendStateFails

SenderSpec == SenderInit /\ [][SenderNext \/ SenderKilled]_senderVars

-----------------------------------------------------------------------------
(* No row is skipped: whatever the counters say is done is at the broker   *)
(* or can never be sent - after kills, failed publishes and lost saves,    *)
(* with several threads asking to send (_publish_lines).                   *)
CountedIsAtBroker ==
    \A f \in Files : \A i \in 1 .. counters[f] :
        <<f, i>> \in arrived \cup BadRows

(* Nothing is sent twice (_publish_lines' docstring) but what a fault kept *)
(* from being counted: two overlapping runs never send the same row.       *)
ResentOnlyAfterFault == resent \subseteq excused
=============================================================================
