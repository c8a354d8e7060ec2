------------------------- MODULE RecordPipelineProofs -------------------------
(***************************************************************************)
(* What the record path promises from end to end, proved for every set of  *)
(* records, files and profiles, with crashes, power losses on either side, *)
(* lost and repeated messages: the types, the truth of the archive, and    *)
(* that the path implements RecordOutcome.                                 *)
(***************************************************************************)
EXTENDS RecordPipeline, RecordBridgeProofs

-----------------------------------------------------------------------------
(* The type invariant.                                                     *)

(* What deliver_file counts stays a count.                                 *)
LEMMA CountType ==
    ASSUME tally \in Tally
    PROVE /\ CountPending => tally' \in Tally
          /\ tally' = [tally EXCEPT !.invalid = TRUE] => tally' \in Tally
          /\ \A m \in Messages : CountNacked(m) => tally' \in Tally
<1>1. [tally EXCEPT !.pending = TRUE] \in Tally /\ [tally EXCEPT !.invalid = TRUE] \in Tally
  BY DEF Tally
<1>2. ASSUME NEW m \in Messages PROVE [tally EXCEPT !.nacked = @ \cup {m.event_id}] \in Tally
  BY <1>2, MessageType DEF Tally
<1> QED
  BY <1>1, <1>2 DEF CountPending, CountNacked

(* Every step of the child, alone or in a larger system, keeps the types.  *)
LEMMA ChildStepType ==
    ASSUME ChannelTypeOK, ChildTypeOK, ChildStep
    PROVE ChannelTypeOK' /\ ChildTypeOK'
<1> USE DEF ChannelTypeOK, ChildTypeOK, channelVars, dirVars, sessionVars, walkVars
<1>1. NoTally \in Tally
  BY DEF NoTally, Tally
<1>2. CASE Connect \/ Subscribed \/ Disconnect
  BY <1>2 DEF Connect, Subscribed, Disconnect
<1>3. ASSUME NEW a \in ackTopic, HandleAck(a) PROVE ChannelTypeOK' /\ ChildTypeOK'
  <2>1. CASE Has(a.event_id, "pending")
    <3>1. a.event_id \in EventIds /\ store[a.event_id] \in Entry
      BY <1>3, <2>1 DEF Has, Known, Ack
    <3>2. [store[a.event_id] EXCEPT !.status = "acked"] \in Entry
      BY <3>1 DEF Entry
    <3>3. store' \in [EventIds -> Entry \cup {NoEntry}]
      BY <1>3, <3>1, <3>2 DEF HandleAck
    <3> QED
      BY <1>3, <3>3 DEF HandleAck
  <2>2. CASE ~Has(a.event_id, "pending")
    BY <1>3, <2>2 DEF HandleAck
  <2> QED
    BY <2>1, <2>2
<1>4. ASSUME NEW n \in nackTopic, HandleNack(n) PROVE ChannelTypeOK' /\ ChildTypeOK'
  <2>1. CASE Has(n, "pending")
    <3>1. n \in EventIds /\ store[n] \in Entry
      BY <1>4, <2>1 DEF Has, Known
    <3>2. [store[n] EXCEPT !.status = "nacked"] \in Entry
      BY <3>1 DEF Entry
    <3>3. store' \in [EventIds -> Entry \cup {NoEntry}]
      BY <1>4, <3>1, <3>2 DEF HandleNack
    <3> QED
      BY <1>4, <3>3 DEF HandleNack
  <2>2. CASE ~Has(n, "pending")
    BY <1>4, <2>2 DEF HandleNack
  <2> QED
    BY <2>1, <2>2
<1>5. CASE NewFile \/ OpenFile
  BY <1>5, ChildAssumption DEF NewFile, OpenFile
<1>6. CASE BadLine \/ CycleOver
  <2>1. tally' \in Tally
    BY <1>6, CountType DEF BadLine, CycleOver
  <2> QED
    BY <1>6, <2>1 DEF BadLine, CycleOver
<1>7. ASSUME NEW m \in Messages, SendSettled(m) PROVE ChannelTypeOK' /\ ChildTypeOK'
  <2>1. tally' \in Tally
    BY <1>7, CountType DEF SendSettled
  <2> QED
    BY <1>7, <2>1 DEF SendSettled
<1>8. ASSUME NEW m \in Messages, SavePending(m) PROVE ChannelTypeOK' /\ ChildTypeOK'
  <2>1. m.event_id \in EventIds
    BY MessageType
  <2>2. [status |-> "pending", rec |-> m, recent |-> TRUE] \in Entry
    BY DEF Entry
  <2>3. Has(m.event_id, "pending") =>
            [store EXCEPT ![m.event_id].recent = TRUE] \in [EventIds -> Entry \cup {NoEntry}]
    BY <2>1 DEF Has, Known, Entry
  <2>4. store' \in [EventIds -> Entry \cup {NoEntry}]
    BY <1>8, <2>1, <2>2, <2>3 DEF SavePending
  <2> QED
    BY <1>8, <2>4 DEF SavePending
<1>9. CASE PublishRecord
  BY <1>9 DEF PublishRecord
<1>10. CASE PublishQueued
  <2>1. tally' \in Tally
    BY <1>10, CountType DEF PublishQueued
  <2> QED
    BY <1>10, <2>1 DEF PublishQueued
<1>11. CASE WaitOver
  <2>1. tally' \in Tally
    BY <1>11, CountType DEF WaitOver
  <2> QED
    BY <1>11, <2>1 DEF WaitOver
<1>12. CASE KeepFile \/ ArchiveSent \/ ArchiveNacked
  BY <1>1, <1>12 DEF KeepFile, ArchiveSent, ArchiveNacked, NextFile
<1>13. CASE WriteSidecar
  BY <1>13 DEF WriteSidecar, Tally
<1>14. CASE ResendDue
  <2>1. PICK i \in EventIds : store[i] \in Entry
                              /\ store' = [store EXCEPT ![i].recent = FALSE]
    BY <1>14 DEF ResendDue, Has, Known
  <2>2. [store[i] EXCEPT !.recent = FALSE] \in Entry
    BY <2>1 DEF Entry
  <2>3. store' \in [EventIds -> Entry \cup {NoEntry}]
    BY <2>1, <2>2
  <2> QED
    BY <1>14, <2>3 DEF ResendDue
<1>15. CASE ChildFsync
  BY <1>15 DEF ChildFsync
<1>16. CASE ChildCrash \/ ChildPowerLoss
  BY <1>1, <1>16 DEF ChildCrash, ChildPowerLoss, ChildRestart
<1> QED
  BY <1>2, <1>3, <1>4, <1>5, <1>6, <1>7, <1>8, <1>9, <1>10, <1>11, <1>12, <1>13, <1>14, <1>15,
     <1>16
  DEF ChildStep

LEMMA ChildUnchangedType ==
    ASSUME ChildTypeOK, UNCHANGED childVars
    PROVE ChildTypeOK'
BY DEF ChildTypeOK, childVars

LEMMA PipelineInitType == Init => TypeOK
<1> SUFFICES ASSUME Init PROVE TypeOK
  OBVIOUS
<1>1. ChannelTypeOK /\ BridgeTypeOK
  BY InitType DEF Init, BridgeSystemInit, BridgeSystemTypeOK
<1>2. NoTally \in Tally
  BY DEF NoTally, Tally
<1>3. ChildTypeOK
  BY <1>2 DEF Init, ChildInit, ChildTypeOK
<1> QED
  BY <1>1, <1>3 DEF TypeOK

LEMMA PipelineNextType ==
    ASSUME TypeOK, [Next]_vars
    PROVE TypeOK'
<1> USE DEF TypeOK
<1>1. CASE BridgeStep /\ UNCHANGED childVars
  BY <1>1, BridgeStepType, ChildUnchangedType
<1>2. CASE ChildStep /\ UNCHANGED bridgeVars
  BY <1>2, ChildStepType, BridgeUnchangedType
<1>3. CASE Lose /\ UNCHANGED <<bridgeVars, childVars>>
  BY <1>3, LoseType, BridgeUnchangedType, ChildUnchangedType
<1>4. CASE UNCHANGED vars
  <2>1. ChannelTypeOK'
    BY <1>4 DEF vars, channelVars, ChannelTypeOK
  <2>2. UNCHANGED <<bridgeVars, childVars>>
    BY <1>4 DEF vars
  <2> QED
    BY <2>1, <2>2, BridgeUnchangedType, ChildUnchangedType
<1> QED
  BY <1>1, <1>2, <1>3, <1>4 DEF Next

(* The state of child, broker and hub together is always well formed.      *)
THEOREM PipelineTypeCorrect == Spec => []TypeOK
BY PipelineInitType, PipelineNextType, PTL DEF Spec

-----------------------------------------------------------------------------
(* The archive tells the truth.                                            *)

(* A ledger's rows are filed under their own event_id, and the acked ones   *)
(* are in Oracle.                                                          *)
LedgerTrue(table) ==
    \A i \in EventIds :
        table[i] # NoEntry =>
            /\ table[i].rec.event_id = i
            /\ (table[i].status = "acked" => Delivered(table[i].rec))

(* deliver_file has accounted for the line.                                *)
Settled(m) ==
    \/ tally.pending
    \/ m = Bad /\ tally.invalid
    \/ m # Bad /\ (Delivered(m) \/ m.event_id \in tally.nacked)

(* At every point of a file's walk, the lines behind it are accounted for. *)
WalkInv ==
    /\ (pc # "poll" => todo \subseteq Lines[file])
    /\ (pc \in {"saved", "waiting"} => line \in Lines[file])
    /\ (pc # "poll" => \A m \in Lines[file] \ todo :
            (pc \in {"saved", "waiting"} /\ m = line) \/ Settled(m))
    /\ (pc = "sidecar" => Complete /\ sidecar[file] = tally.nacked)

ArchiveInv ==
    /\ outbox \cap (sent \cup nacked) = {}
    /\ SentFilesAreInOracle
    /\ SidecarListsTheRest

(* Why the archive is right: both copies of the ledger are true, and the    *)
(* walk counts by them.                                                    *)
(* The last fsync knows no verdict that the ledger does not hold.          *)
LedgerBehind ==
    \A i \in EventIds : \A s \in {"acked", "nacked"} :
        ledger[i] # NoEntry /\ ledger[i].status = s => Has(i, s)

ChildInv == LedgerTrue(store) /\ LedgerTrue(ledger) /\ LedgerBehind /\ WalkInv /\ ArchiveInv

(* The child stands still while Oracle grows.                              *)
LEMMA ChildUnchangedInv ==
    ASSUME ChildInv, UNCHANGED childVars,
           \A p \in Profiles : oracle[p] \subseteq oracle'[p]
    PROVE ChildInv'
<1> USE DEF ChildInv, childVars
<1>1. \A m : Delivered(m) => Delivered(m)'
  BY DEF Delivered, InOracle, ContentOf
<1>2. LedgerTrue(store)' /\ LedgerTrue(ledger)'
  BY <1>1 DEF LedgerTrue
<1>3. \A m : Settled(m) => Settled(m)'
  BY <1>1 DEF Settled
<1>4. WalkInv'
  BY <1>3 DEF WalkInv, Complete
<1>5. ArchiveInv'
  BY <1>1 DEF ArchiveInv, SentFilesAreInOracle, SidecarListsTheRest
<1>6. LedgerBehind'
  BY DEF LedgerBehind, Has, Known
<1> QED
  BY <1>2, <1>4, <1>5, <1>6

(* Whoever writes the ledger: the callbacks, on an answer the bridge stands *)
(* behind, and the main thread, which settles nothing.                     *)
LEMMA LedgerStep ==
    ASSUME ChannelTypeOK, ChildTypeOK, AcksTrue, ChildInv, ChildStep, UNCHANGED oracle
    PROVE LedgerTrue(store)' /\ LedgerTrue(ledger)'
<1> USE DEF ChildInv, ChildTypeOK
<1>1. \A m : Delivered(m)' <=> Delivered(m)
  BY DEF Delivered, InOracle, ContentOf
<1>2. CASE UNCHANGED <<store, ledger>>
  BY <1>1, <1>2 DEF LedgerTrue
<1>3. ASSUME NEW a \in ackTopic, HandleAck(a) PROVE LedgerTrue(store)' /\ LedgerTrue(ledger)'
  <2>1. CASE Has(a.event_id, "pending") /\ store[a.event_id].rec.mk_date = a.mk_date
    <3>1. PICK m \in Messages : AckOf(m) = a /\ Delivered(m)
      BY DEF AcksTrue, Delivered
    <3>2. a.event_id \in EventIds /\ store[a.event_id] \in Entry
      BY <2>1, <3>1, MessageType DEF Has, Known, AckOf
    <3>3. store[a.event_id].rec = m
      BY <2>1, <3>1, <3>2, EventIdAssumption DEF LedgerTrue, Has, Known, AckOf, Entry
    <3>4. ledger' = ledger /\ store' = [store EXCEPT ![a.event_id].status = "acked"]
      BY <1>3, <2>1 DEF HandleAck
    <3>5. /\ \A i \in EventIds : i # a.event_id => store'[i] = store[i]
          /\ store'[a.event_id].rec = m /\ m.event_id = a.event_id
      BY <3>1, <3>2, <3>3, <3>4 DEF Entry, AckOf
    <3> QED
      BY <1>1, <3>1, <3>4, <3>5 DEF LedgerTrue
  <2>2. CASE ~(Has(a.event_id, "pending") /\ store[a.event_id].rec.mk_date = a.mk_date)
    BY <1>2, <1>3, <2>2 DEF HandleAck
  <2> QED
    BY <2>1, <2>2
<1>4. ASSUME NEW n \in nackTopic, HandleNack(n) PROVE LedgerTrue(store)' /\ LedgerTrue(ledger)'
  BY <1>1, <1>4 DEF HandleNack, LedgerTrue, Has, Known, Entry, ChannelTypeOK
<1>5. ASSUME NEW m \in Messages, SavePending(m) PROVE LedgerTrue(store)' /\ LedgerTrue(ledger)'
  <2>1. m.event_id \in EventIds
    BY MessageType
  <2>2. CASE store' = [store EXCEPT ![m.event_id] =
                        [status |-> "pending", rec |-> m, recent |-> TRUE]]
    BY <1>1, <1>5, <2>1, <2>2 DEF SavePending, LedgerTrue
  <2>3. CASE Has(m.event_id, "pending") /\ store' = [store EXCEPT ![m.event_id].recent = TRUE]
    BY <1>1, <1>5, <2>1, <2>3 DEF SavePending, LedgerTrue, Has, Known, Entry
  <2> QED
    BY <1>5, <2>2, <2>3 DEF SavePending
<1>6. CASE ResendDue
  BY <1>1, <1>6 DEF ResendDue, LedgerTrue, Has, Known, Entry
<1>7. CASE ChildFsync \/ ChildPowerLoss
  BY <1>1, <1>7 DEF ChildFsync, ChildPowerLoss, ChildRestart, LedgerTrue
<1> QED
  BY <1>2, <1>3, <1>4, <1>5, <1>6, <1>7
  DEF ChildStep, Connect, Subscribed, Disconnect, NewFile, OpenFile, BadLine, SendSettled,
      PublishRecord, PublishQueued, WaitOver, CycleOver, KeepFile, ArchiveSent, WriteSidecar,
      ArchiveNacked, NextFile, ChildCrash, ChildRestart

(* Verdicts are final in the ledger, so it never falls behind its fsync.   *)
LEMMA BehindStep ==
    ASSUME ChannelTypeOK, ChildTypeOK, LedgerBehind, ChildStep
    PROVE LedgerBehind'
<1> USE DEF LedgerBehind, ChildTypeOK
<1>1. CASE UNCHANGED <<store, ledger>>
  BY <1>1 DEF Has, Known
<1>2. ASSUME NEW i \in EventIds, NEW e \in Entry, ~Has(i, "acked"), ~Has(i, "nacked"),
             store' = [store EXCEPT ![i] = e], UNCHANGED ledger
      PROVE LedgerBehind'
  <2>1. \A k \in EventIds : k # i => store'[k] = store[k]
    BY <1>2
  <2>2. \A s \in {"acked", "nacked"} : ~(ledger[i] # NoEntry /\ ledger[i].status = s)
    BY <1>2
  <2> QED
    BY <1>2, <2>1, <2>2 DEF Has, Known
<1>3. ASSUME NEW i \in EventIds, Has(i, "pending")
      PROVE ~Has(i, "acked") /\ ~Has(i, "nacked") /\ store[i] \in Entry
  BY <1>3 DEF Has, Known
<1>4. ASSUME NEW a \in ackTopic, HandleAck(a), Has(a.event_id, "pending"), ~UNCHANGED store
      PROVE LedgerBehind'
  <2>1. a.event_id \in EventIds
    BY DEF ChannelTypeOK, Ack
  <2>2. PICK e \in Entry : store' = [store EXCEPT ![a.event_id] = e]
    <3>1. [store[a.event_id] EXCEPT !.status = "acked"] \in Entry
      BY <1>3, <1>4, <2>1 DEF Entry
    <3> QED
      BY <1>4, <3>1 DEF HandleAck
  <2> QED
    BY <1>2, <1>3, <1>4, <2>1, <2>2 DEF HandleAck
<1>5. ASSUME NEW n \in nackTopic, HandleNack(n), Has(n, "pending"), ~UNCHANGED store
      PROVE LedgerBehind'
  <2>1. n \in EventIds
    BY DEF ChannelTypeOK
  <2>2. PICK e \in Entry : store' = [store EXCEPT ![n] = e]
    <3>1. [store[n] EXCEPT !.status = "nacked"] \in Entry
      BY <1>3, <1>5, <2>1 DEF Entry
    <3> QED
      BY <1>5, <3>1 DEF HandleNack
  <2> QED
    BY <1>2, <1>3, <1>5, <2>1, <2>2 DEF HandleNack
<1>6. ASSUME NEW m \in Messages, SavePending(m) PROVE LedgerBehind'
  <2>1. m.event_id \in EventIds
    BY MessageType
  <2>2. ~Has(m.event_id, "acked") /\ ~Has(m.event_id, "nacked") /\ UNCHANGED ledger
    BY <1>6 DEF SavePending, Has
  <2>3. PICK e \in Entry : store' = [store EXCEPT ![m.event_id] = e]
    <3>1. CASE store' = [store EXCEPT ![m.event_id] =
                          [status |-> "pending", rec |-> m, recent |-> TRUE]]
      BY <3>1 DEF Entry
    <3>2. CASE Has(m.event_id, "pending") /\ store' = [store EXCEPT ![m.event_id].recent = TRUE]
      <4>1. [store[m.event_id] EXCEPT !.recent = TRUE] \in Entry
        BY <1>3, <2>1, <3>2 DEF Entry
      <4> QED
        BY <3>2, <4>1
    <3> QED
      BY <1>6, <3>1, <3>2 DEF SavePending
  <2> QED
    BY <1>2, <2>1, <2>2, <2>3
<1>7. CASE ResendDue
  <2>1. PICK i \in EventIds : Has(i, "pending") /\ store' = [store EXCEPT ![i].recent = FALSE]
    BY <1>7 DEF ResendDue
  <2>2. [store[i] EXCEPT !.recent = FALSE] \in Entry
    BY <1>3, <2>1 DEF Entry
  <2> QED
    BY <1>2, <1>3, <1>7, <2>1, <2>2 DEF ResendDue
<1>8. CASE ChildFsync \/ ChildPowerLoss
  BY <1>8 DEF ChildFsync, ChildPowerLoss, ChildRestart, Has, Known
<1> QED
  BY <1>1, <1>4, <1>5, <1>6, <1>7, <1>8
  DEF ChildStep, Connect, Subscribed, Disconnect, HandleAck, HandleNack, NewFile, OpenFile,
      BadLine, SendSettled, PublishRecord, PublishQueued, WaitOver, CycleOver, KeepFile,
      ArchiveSent, WriteSidecar, ArchiveNacked, NextFile, ChildCrash, ChildRestart

(* The ledger's verdict is about the very line: an event_id stands for one  *)
(* content.                                                                *)
LEMMA AckedLine ==
    ASSUME ChildTypeOK, LedgerTrue(store), NEW m \in Messages, Has(m.event_id, "acked")
    PROVE Delivered(m)
<1>1. m.event_id \in EventIds /\ store[m.event_id] \in Entry
  BY MessageType DEF Has, Known, ChildTypeOK
<1>2. store[m.event_id].rec = m
  BY <1>1, EventIdAssumption DEF LedgerTrue, Has, Known, Entry
<1> QED
  BY <1>1, <1>2 DEF LedgerTrue, Has, Known

(* Each step of the walk accounts for the line it leaves behind.           *)
LEMMA WalkStepInv ==
    ASSUME ChannelTypeOK, ChildTypeOK, ChildInv, ChildStep, UNCHANGED oracle
    PROVE WalkInv'
<1> USE DEF ChildInv
<1>1. \A m : Delivered(m)' <=> Delivered(m)
  BY DEF Delivered, InOracle, ContentOf
<1>2. CASE UNCHANGED <<walkVars, sidecar>>
  BY <1>1, <1>2 DEF WalkInv, walkVars, Settled, Complete
<1>3. CASE OpenFile
  BY <1>3 DEF OpenFile, WalkInv
<1>4. CASE BadLine
  <2>1. /\ pc = "lines" /\ pc' = "lines" /\ file' = file /\ todo' = todo \ {Bad}
        /\ tally' = [tally EXCEPT !.invalid = TRUE]
    BY <1>4 DEF BadLine
  <2>2. /\ tally'.invalid /\ tally'.pending = tally.pending /\ tally'.nacked = tally.nacked
    BY <2>1 DEF ChildTypeOK, Tally
  <2> QED
    BY <1>1, <2>1, <2>2 DEF WalkInv, Settled
<1>5. CASE CycleOver
  <2>1. tally'.pending /\ pc' = "lines" /\ todo' = {}
    BY <1>5 DEF CycleOver, CountPending, ChildTypeOK, Tally
  <2> QED
    BY <2>1 DEF WalkInv, Settled
<1>6. ASSUME NEW m \in Messages, SendSettled(m) PROVE WalkInv'
  <2>1. pc = "lines" /\ pc' = "lines" /\ file' = file /\ todo' = todo \ {m}
    BY <1>6 DEF SendSettled
  <2>2. Settled(m)' /\ \A n : Settled(n) => Settled(n)'
    <3>1. CASE CountPending
      BY <3>1 DEF CountPending, Settled, ChildTypeOK, Tally
    <3>2. CASE Has(m.event_id, "acked") /\ UNCHANGED tally
      BY <1>1, <3>2, AckedLine, ChildAssumption DEF Settled
    <3>3. CASE CountNacked(m)
      BY <1>1, <3>3, ChildAssumption DEF CountNacked, Settled, ChildTypeOK, Tally
    <3> QED
      BY <1>6, <3>1, <3>2, <3>3 DEF SendSettled
  <2> QED
    BY <2>1, <2>2 DEF WalkInv
<1>7. ASSUME NEW m \in Messages, SavePending(m) PROVE WalkInv'
  <2>1. /\ pc = "lines" /\ pc' = "saved" /\ file' = file /\ line' = m /\ m \in todo
        /\ todo' = todo \ {m} /\ tally' = tally
    BY <1>7 DEF SavePending
  <2>2. m \in Lines[file]
    BY <2>1 DEF WalkInv
  <2>3. \A n : Settled(n) => Settled(n)'
    BY <1>1, <2>1 DEF Settled
  <2> QED
    BY <2>1, <2>2, <2>3 DEF WalkInv
<1>8. CASE PublishRecord
  BY <1>1, <1>8 DEF PublishRecord, WalkInv, Settled
<1>9. CASE PublishQueued
  <2>1. /\ pc' = "lines" /\ file' = file /\ todo' = todo /\ tally'.pending
    BY <1>9 DEF PublishQueued, CountPending, ChildTypeOK, Tally
  <2> QED
    BY <1>9, <2>1 DEF PublishQueued, WalkInv, Settled
<1>10. CASE WaitOver
  <2>1. pc = "waiting" /\ pc' = "lines" /\ file' = file /\ todo' = todo /\ line \in Messages
    BY <1>10 DEF WaitOver, ChildTypeOK
  <2>2. PICK m \in Messages : m = line
    BY <2>1
  <2>3. Settled(m)' /\ \A n : Settled(n) => Settled(n)'
    <3>1. CASE CountPending
      BY <3>1 DEF CountPending, Settled, ChildTypeOK, Tally
    <3>2. CASE Has(m.event_id, "acked") /\ UNCHANGED tally
      BY <1>1, <3>2, AckedLine, ChildAssumption DEF Settled
    <3>3. CASE CountNacked(m)
      BY <1>1, <3>3, ChildAssumption DEF CountNacked, Settled, ChildTypeOK, Tally
    <3> QED
      BY <1>10, <2>2, <3>1, <3>2, <3>3 DEF WaitOver
  <2> QED
    BY <2>1, <2>2, <2>3 DEF WalkInv
<1>11. CASE KeepFile \/ ArchiveSent \/ ArchiveNacked \/ ChildCrash \/ ChildPowerLoss
  <2>1. pc' = "poll"
    BY <1>11 DEF KeepFile, ArchiveSent, ArchiveNacked, NextFile, ChildCrash, ChildPowerLoss,
                 ChildRestart
  <2> QED
    BY <2>1 DEF WalkInv
<1>12. CASE WriteSidecar
  <2>1. /\ pc = "lines" /\ pc' = "sidecar" /\ Complete /\ file \in Files
        /\ UNCHANGED <<file, todo, line, tally>>
        /\ sidecar' = [sidecar EXCEPT ![file] = tally.nacked]
    BY <1>12 DEF WriteSidecar, ChildTypeOK
  <2>2. sidecar'[file] = tally.nacked
    BY <2>1 DEF ChildTypeOK
  <2> QED
    BY <1>1, <2>1, <2>2 DEF WalkInv, Settled, Complete
<1> QED
  BY <1>2, <1>3, <1>4, <1>5, <1>6, <1>7, <1>8, <1>9, <1>10, <1>11, <1>12
  DEF ChildStep, Connect, Subscribed, Disconnect, HandleAck, HandleNack, NewFile, ResendDue,
      ChildFsync, dirVars, walkVars

(* A file whose walk is complete has every line in Oracle or in the nacks. *)
LEMMA CompleteFile ==
    ASSUME ChildTypeOK, WalkInv, Complete, pc \in {"lines", "sidecar"}
    PROVE /\ file \in Files
          /\ \A m \in Lines[file] : m # Bad /\ (Delivered(m) \/ m.event_id \in tally.nacked)
BY DEF WalkInv, Settled, Complete, ChildTypeOK

(* Only complete files are archived, and what is archived stays as it is.  *)
LEMMA ArchiveStep ==
    ASSUME ChannelTypeOK, ChildTypeOK, ChildInv, ChildStep, UNCHANGED oracle
    PROVE ArchiveInv'
<1> USE DEF ChildInv
<1>1. \A m : Delivered(m)' <=> Delivered(m)
  BY DEF Delivered, InOracle, ContentOf
<1>2. CASE UNCHANGED dirVars
  BY <1>1, <1>2 DEF dirVars, ArchiveInv, SentFilesAreInOracle, SidecarListsTheRest
<1>3. CASE NewFile
  BY <1>1, <1>3 DEF NewFile, ArchiveInv, SentFilesAreInOracle, SidecarListsTheRest
<1>4. CASE ArchiveSent
  <2>1. /\ outbox' = outbox \ {file} /\ sent' = sent \cup {file}
        /\ UNCHANGED <<nacked, sidecar>>
    BY <1>4 DEF ArchiveSent
  <2>2. \A m \in Lines[file] : m # Bad /\ Delivered(m)
    BY <1>4, CompleteFile DEF ArchiveSent
  <2>3. file \in outbox
    BY <1>4 DEF ArchiveSent, ChildTypeOK
  <2> QED
    BY <1>1, <2>1, <2>2, <2>3 DEF ArchiveInv, SentFilesAreInOracle, SidecarListsTheRest
<1>5. CASE WriteSidecar
  <2>1. file \in outbox /\ UNCHANGED <<outbox, sent, nacked>>
        /\ sidecar' = [sidecar EXCEPT ![file] = tally.nacked]
    BY <1>5 DEF WriteSidecar, ChildTypeOK
  <2>2. \A f \in nacked : sidecar'[f] = sidecar[f]
    BY <2>1 DEF ArchiveInv, ChildTypeOK
  <2> QED
    BY <1>1, <2>1, <2>2 DEF ArchiveInv, SentFilesAreInOracle, SidecarListsTheRest
<1>6. CASE ArchiveNacked
  <2>1. /\ pc = "sidecar" /\ outbox' = outbox \ {file} /\ nacked' = nacked \cup {file}
        /\ UNCHANGED <<sent, sidecar>>
    BY <1>6 DEF ArchiveNacked
  <2>2. Complete /\ sidecar[file] = tally.nacked
    BY <2>1 DEF WalkInv
  <2>3. \A m \in Lines[file] : m # Bad /\ (Delivered(m) \/ m.event_id \in sidecar[file])
    BY <2>1, <2>2, CompleteFile
  <2> QED
    BY <1>1, <2>1, <2>3 DEF ArchiveInv, SentFilesAreInOracle, SidecarListsTheRest
<1> QED
  BY <1>2, <1>3, <1>4, <1>5, <1>6
  DEF ChildStep, Connect, Subscribed, Disconnect, HandleAck, HandleNack, OpenFile, BadLine,
      SendSettled, SavePending, PublishRecord, PublishQueued, WaitOver, CycleOver, KeepFile,
      ResendDue, ChildFsync, ChildCrash, ChildPowerLoss, ChildRestart

(* The two halves together.  The child takes acks from the topic and never *)
(* adds one.                                                               *)
PipelineInv == TypeOK /\ ConfirmInv /\ ChildInv

LEMMA AcksOnlyTaken == ASSUME ChildStep PROVE ackTopic' \subseteq ackTopic
BY DEF ChildStep, Connect, Subscribed, Disconnect, HandleAck, HandleNack, NewFile, OpenFile,
       BadLine, SendSettled, SavePending, PublishRecord, PublishQueued, WaitOver, CycleOver,
       KeepFile, ArchiveSent, WriteSidecar, ArchiveNacked, NextFile, ResendDue, ChildFsync,
       ChildCrash, ChildPowerLoss, ChildRestart, channelVars

LEMMA PipelineInit == Init => PipelineInv
<1> SUFFICES ASSUME Init PROVE PipelineInv
  OBVIOUS
<1>1. TypeOK /\ ConfirmInv
  BY PipelineInitType, InitConfirm DEF Init, BridgeSystemInit
<1>2. ChildInv
  BY DEF Init, ChildInit, ChildInv, LedgerTrue, LedgerBehind, WalkInv, ArchiveInv, SentFilesAreInOracle,
         SidecarListsTheRest
<1> QED
  BY <1>1, <1>2 DEF PipelineInv

LEMMA PipelineStep ==
    ASSUME PipelineInv, [Next]_vars
    PROVE PipelineInv'
<1> USE DEF PipelineInv
<1>1. TypeOK'
  BY PipelineNextType
<1>2. CASE BridgeStep /\ UNCHANGED childVars
  BY <1>1, <1>2, BridgeStepConfirm, OracleGrows, ChildUnchangedInv DEF TypeOK
<1>3. CASE ChildStep /\ UNCHANGED bridgeVars
  <2>1. UNCHANGED oracle /\ AcksTrue
    BY <1>3 DEF bridgeVars, ConfirmInv
  <2>2. ConfirmInv'
    BY <1>3, AcksOnlyTaken, BridgeUnchangedConfirm DEF TypeOK
  <2>3. ChildInv'
    BY <1>3, <2>1, LedgerStep, BehindStep, WalkStepInv, ArchiveStep DEF TypeOK, ChildInv
  <2> QED
    BY <1>1, <2>2, <2>3
<1>4. CASE Lose /\ UNCHANGED <<bridgeVars, childVars>>
  <2>1. ConfirmInv'
    BY <1>4, BridgeUnchangedConfirm DEF TypeOK, Lose, LoseRecord, LoseAck, LoseNack
  <2>2. ChildInv'
    BY <1>4, ChildUnchangedInv DEF bridgeVars
  <2> QED
    BY <1>1, <2>1, <2>2
<1>5. CASE UNCHANGED vars
  <2>1. UNCHANGED <<bridgeVars, childVars, ackTopic, oracle>>
    BY <1>5 DEF vars, channelVars, bridgeVars
  <2> QED
    BY <1>1, <2>1, BridgeUnchangedConfirm, ChildUnchangedInv DEF TypeOK
<1> QED
  BY <1>2, <1>3, <1>4, <1>5 DEF Next

LEMMA PipelineInvariant == Spec => []PipelineInv
BY PipelineInit, PipelineStep, PTL DEF Spec

(* sent/ holds only files every row of which Oracle has committed.         *)
THEOREM SentFilesAreTrue == Spec => []SentFilesAreInOracle
<1>1. PipelineInv => SentFilesAreInOracle
  BY DEF PipelineInv, ChildInv, ArchiveInv
<1> QED
  BY <1>1, PipelineInvariant, PTL

(* A file in nacked/ explains itself: a row its sidecar does not list is in *)
(* Oracle, whatever crash came between the sidecar and the move.           *)
THEOREM SidecarsAreComplete == Spec => []SidecarListsTheRest
<1>1. PipelineInv => SidecarListsTheRest
  BY DEF PipelineInv, ChildInv, ArchiveInv
<1> QED
  BY <1>1, PipelineInvariant, PTL

(* The child's ledger and the acks on their way to it are true.            *)
THEOREM AckedRowsAreTrue == Spec => []AckedIsInOracle
<1>1. PipelineInv => AckedIsInOracle
  BY ConfirmSuffices
  DEF PipelineInv, ChildInv, LedgerTrue, AckedIsInOracle, Has, Known
<1> QED
  BY <1>1, PipelineInvariant, PTL

-----------------------------------------------------------------------------
(* The path implements RecordOutcome; a child's loss of power is Forget.    *)

AbstractVars == <<{m \in Messages : Delivered(m)}, [m \in Messages |-> OutcomeOf(m)]>>

(* The callbacks decide at most one record's outcome, and only an unknown   *)
(* one; nothing else the child does touches an outcome while it has power. *)
LEMMA OutcomeStep ==
    ASSUME PipelineInv, LedgerTrue(store)', ChildTypeOK', ChildStep, UNCHANGED oracle,
           ~ChildPowerLoss
    PROVE \/ \A m \in Messages : OutcomeOf(m)' = OutcomeOf(m)
          \/ \E m \in Messages :
                /\ OutcomeOf(m) = "unknown"
                /\ \/ OutcomeOf(m)' = "delivered" /\ Delivered(m)
                   \/ OutcomeOf(m)' = "refused"
                /\ \A n \in Messages \ {m} : OutcomeOf(n)' = OutcomeOf(n)
<1> USE DEF PipelineInv, TypeOK, ChildInv, ChildTypeOK
<1>1. \A m \in Messages : UNCHANGED store => OutcomeOf(m)' = OutcomeOf(m)
  BY DEF OutcomeOf, Has, Known
<1>2. ASSUME NEW i \in EventIds, Has(i, "pending"), NEW s \in {"acked", "nacked"},
             store' = [store EXCEPT ![i].status = s]
      PROVE \E m \in Messages :
            /\ m = store[i].rec /\ OutcomeOf(m) = "unknown"
            /\ OutcomeOf(m)' = IF s = "acked" THEN "delivered" ELSE "refused"
            /\ \A n \in Messages \ {m} : OutcomeOf(n)' = OutcomeOf(n)
  <2>1. PICK m \in Messages : m = store[i].rec /\ m.event_id = i
    BY <1>2 DEF Has, Known, Entry, LedgerTrue
  <2>2. store[i] \in Entry
    BY <1>2 DEF Has, Known
  <2>3. store'[i] \in Entry /\ store'[i].status = s /\ store'[i].rec = m
    BY <1>2, <2>1, <2>2 DEF Entry
  <2>4. OutcomeOf(m) = "unknown"
    BY <1>2, <2>1 DEF OutcomeOf, Has
  <2>5. store'[i] # NoEntry
    BY <2>3, ChildAssumption DEF Entry
  <2>6. OutcomeOf(m)' = IF s = "acked" THEN "delivered" ELSE "refused"
    BY <1>2, <2>1, <2>3, <2>5 DEF OutcomeOf, Has, Known
  <2>7. ASSUME NEW n \in Messages \ {m} PROVE OutcomeOf(n)' = OutcomeOf(n)
    <3>1. n.event_id # i /\ n.event_id \in EventIds
      BY <2>1, MessageType, EventIdAssumption
    <3> QED
      BY <1>2, <3>1 DEF OutcomeOf, Has, Known
  <2> QED
    BY <2>1, <2>4, <2>6, <2>7
<1>3. ASSUME NEW a \in ackTopic, HandleAck(a), ~UNCHANGED store
      PROVE \E m \in Messages :
                /\ OutcomeOf(m) = "unknown" /\ OutcomeOf(m)' = "delivered" /\ Delivered(m)
                /\ \A n \in Messages \ {m} : OutcomeOf(n)' = OutcomeOf(n)
  <2>1. /\ Has(a.event_id, "pending") /\ a.event_id \in EventIds
        /\ store' = [store EXCEPT ![a.event_id].status = "acked"]
    BY <1>3 DEF HandleAck, ChannelTypeOK, Ack
  <2>2. PICK m \in Messages : AckOf(m) = a /\ Delivered(m)
    BY DEF ConfirmInv, AcksTrue, Delivered
  <2>3. m = store[a.event_id].rec
    BY <2>1, <2>2, EventIdAssumption DEF AckOf, LedgerTrue, Has, Known, Entry
  <2> QED
    BY <1>2, <2>1, <2>2, <2>3
<1>4. ASSUME NEW n \in nackTopic, HandleNack(n), ~UNCHANGED store
      PROVE \E m \in Messages :
                /\ OutcomeOf(m) = "unknown" /\ OutcomeOf(m)' = "refused"
                /\ \A k \in Messages \ {m} : OutcomeOf(k)' = OutcomeOf(k)
  <2>1. /\ Has(n, "pending") /\ n \in EventIds
        /\ store' = [store EXCEPT ![n].status = "nacked"]
    BY <1>4 DEF HandleNack, ChannelTypeOK
  <2> QED
    BY <1>2, <2>1
<1>5. ASSUME NEW m \in Messages, SavePending(m)
      PROVE \A n \in Messages : OutcomeOf(n)' = OutcomeOf(n)
  <2> SUFFICES ASSUME NEW n \in Messages PROVE OutcomeOf(n)' = OutcomeOf(n)
    OBVIOUS
  <2>1. \A s \in {"acked", "nacked"} : Has(n.event_id, s)' <=> Has(n.event_id, s)
    <3>1. m.event_id \in EventIds /\ n.event_id \in EventIds
      BY MessageType
    <3>2. \A s \in {"acked", "nacked"} : ~Has(m.event_id, s)
      BY <1>5 DEF SavePending, Has
    <3>3. store'[m.event_id].status = "pending"
      BY <1>5, <3>1 DEF SavePending, Has, Known, Entry
    <3>4. \A i \in EventIds : i # m.event_id => store'[i] = store[i]
      BY <1>5 DEF SavePending
    <3> QED
      BY <3>1, <3>2, <3>3, <3>4 DEF Has, Known
  <2>2. Known(n.event_id) => store[n.event_id].rec = n
    BY MessageType, EventIdAssumption DEF LedgerTrue, Known, Entry
  <2>3. Known(n.event_id)' => store'[n.event_id].rec = n
    BY MessageType, EventIdAssumption DEF LedgerTrue, Known, Entry
  <2> QED
    BY <2>1, <2>2, <2>3 DEF OutcomeOf, Has
<1>6. CASE ResendDue
  <2>1. PICK i \in EventIds : Known(i) /\ store' = [store EXCEPT ![i].recent = FALSE]
    BY <1>6 DEF ResendDue, Has
  <2>2. store[i] \in Entry
    BY <2>1 DEF Known
  <2>3. /\ store'[i].status = store[i].status /\ store'[i].rec = store[i].rec
        /\ store'[i] \in Entry
    BY <2>1, <2>2 DEF Entry
  <2>4. NoEntry \notin Entry
    BY ChildAssumption DEF Entry
  <2>5. \A j \in EventIds : j # i => store'[j] = store[j]
    BY <2>1
  <2>6. \A j \in EventIds, s \in {"acked", "nacked"} :
            /\ Has(j, s)' <=> Has(j, s)
            /\ store'[j].rec = store[j].rec
    BY <2>2, <2>3, <2>4, <2>5 DEF Has, Known
  <2>7. \A m \in Messages : m.event_id \in EventIds
    BY MessageType
  <2>8. \A m \in Messages : OutcomeOf(m)' = OutcomeOf(m)
    BY <2>6, <2>7 DEF OutcomeOf
  <2> QED
    BY <2>8
<1> QED
  BY <1>1, <1>3, <1>4, <1>5, <1>6
  DEF ChildStep, Connect, Subscribed, Disconnect, NewFile, OpenFile, BadLine, SendSettled,
      PublishRecord, PublishQueued, WaitOver, CycleOver, KeepFile, ArchiveSent, WriteSidecar,
      ArchiveNacked, NextFile, ChildFsync, ChildCrash

(* A power loss returns outcomes to unknown and changes none otherwise: the *)
(* last fsync is behind the ledger.                                        *)
LEMMA PowerLossForgets ==
    ASSUME PipelineInv, LedgerTrue(store)', ChildTypeOK', ChildPowerLoss, NEW m \in Messages
    PROVE OutcomeOf(m)' \in {"unknown", OutcomeOf(m)}
<1> USE DEF PipelineInv, TypeOK, ChildInv, ChildTypeOK
<1>1. store' = ledger /\ m.event_id \in EventIds
  BY MessageType DEF ChildPowerLoss
<1>2. \A s \in {"acked", "nacked"} : Has(m.event_id, s)' => Has(m.event_id, s)
  BY <1>1 DEF LedgerBehind, Has, Known
<1>3. Known(m.event_id) => store[m.event_id].rec = m
  BY MessageType, EventIdAssumption DEF LedgerTrue, Known, Entry
<1>4. CASE Has(m.event_id, "acked")'
  <2>1. OutcomeOf(m) = "delivered"
    BY <1>2, <1>3, <1>4 DEF OutcomeOf, Has
  <2> QED
    BY <1>4, <2>1 DEF OutcomeOf, Has
<1>5. CASE Has(m.event_id, "nacked")'
  <2>1. OutcomeOf(m) = "refused"
    BY <1>2, <1>3, <1>5 DEF OutcomeOf, Has
  <2> QED
    BY <1>5, <2>1 DEF OutcomeOf, Has
<1>6. CASE ~Has(m.event_id, "acked")' /\ ~Has(m.event_id, "nacked")'
  BY <1>6 DEF OutcomeOf
<1> QED
  BY <1>4, <1>5, <1>6

LEMMA AbstractInit == Init => Abstract!Init
<1> SUFFICES ASSUME Init PROVE Abstract!Init
  OBVIOUS
<1>1. \A m \in Messages : ~Delivered(m)
  BY DEF Init, BridgeInit, OracleInit, Delivered, InOracle
<1>2. \A m \in Messages : OutcomeOf(m) = "unknown"
  BY MessageType DEF Init, ChildInit, OutcomeOf, Has, Known
<1> QED
  BY <1>1, <1>2 DEF Abstract!Init

LEMMA AbstractStep ==
    ASSUME PipelineInv, PipelineInv', [Next]_vars
    PROVE [Abstract!Next]_AbstractVars
<1> USE DEF AbstractVars
<1>1. CASE BridgeStep /\ UNCHANGED childVars
  <2>1. [m \in Messages |-> OutcomeOf(m)]' = [m \in Messages |-> OutcomeOf(m)]
    BY <1>1 DEF childVars, OutcomeOf, Has, Known
  <2>2. \A m \in Messages : Delivered(m) => Delivered(m)'
    BY <1>1, OracleGrows DEF PipelineInv, TypeOK, Delivered, InOracle, ContentOf
  <2> DEFINE new == {m \in Messages : Delivered(m)' /\ ~Delivered(m)}
  <2>3. /\ new \in SUBSET (Messages \ {m \in Messages : Delivered(m)})
        /\ {m \in Messages : Delivered(m)}' = {m \in Messages : Delivered(m)} \cup new
    BY <2>2
  <2> HIDE DEF new
  <2>4. new # {} => Abstract!Commit
    BY <2>1, <2>3 DEF Abstract!Commit
  <2> QED
    BY <2>1, <2>3, <2>4 DEF Abstract!Next
<1>2. CASE ChildStep /\ UNCHANGED bridgeVars
  <2>1. UNCHANGED oracle
    BY <1>2 DEF bridgeVars
  <2>2. {m \in Messages : Delivered(m)}' = {m \in Messages : Delivered(m)}
    BY <2>1 DEF Delivered, InOracle, ContentOf
  <2>3. CASE \A m \in Messages : OutcomeOf(m)' = OutcomeOf(m)
    BY <2>2, <2>3
  <2>4. ASSUME NEW m \in Messages,
               OutcomeOf(m) = "unknown",
               \/ OutcomeOf(m)' = "delivered" /\ Delivered(m)
               \/ OutcomeOf(m)' = "refused",
               \A n \in Messages \ {m} : OutcomeOf(n)' = OutcomeOf(n)
        PROVE Abstract!Next
    <3>1. [n \in Messages |-> OutcomeOf(n)]' =
            [[n \in Messages |-> OutcomeOf(n)] EXCEPT ![m] = OutcomeOf(m)']
      BY <2>4
    <3>2. CASE OutcomeOf(m)' = "delivered" /\ Delivered(m)
      BY <2>2, <2>4, <3>1, <3>2 DEF Abstract!Next, Abstract!Deliver
    <3>3. CASE OutcomeOf(m)' = "refused"
      BY <2>2, <2>4, <3>1, <3>3 DEF Abstract!Next, Abstract!Refuse
    <3> QED
      BY <2>4, <3>2, <3>3
  <2>5. CASE ChildPowerLoss
    <3> DEFINE lost == {m \in Messages : OutcomeOf(m)' = "unknown"}
    <3>1. \A m \in Messages : OutcomeOf(m)' = IF m \in lost THEN "unknown" ELSE OutcomeOf(m)
      BY <2>5, PowerLossForgets DEF PipelineInv, TypeOK, ChildInv
    <3>2. [m \in Messages |-> OutcomeOf(m)]' =
            [m \in Messages |-> IF m \in lost THEN "unknown"
                                ELSE [n \in Messages |-> OutcomeOf(n)][m]]
      BY <3>1
    <3>3. lost \in SUBSET Messages /\ ChildPowerMayFail
      BY <2>5 DEF ChildPowerLoss
    <3> HIDE DEF lost
    <3> QED
      BY <2>2, <3>2, <3>3 DEF Abstract!Next, Abstract!Forget
  <2> QED
    BY <1>2, <2>1, <2>3, <2>4, <2>5, OutcomeStep DEF PipelineInv, TypeOK, ChildInv
<1>3. CASE UNCHANGED <<bridgeVars, childVars>>
  BY <1>3 DEF bridgeVars, childVars, Delivered, InOracle, ContentOf, OutcomeOf, Has, Known
<1> QED
  BY <1>1, <1>2, <1>3 DEF Next, vars

(* What the child learns of a record is decided once and changes only by a  *)
(* power loss that forgets it, and "delivered" is only learnt of a record  *)
(* in Oracle.                                                              *)
THEOREM PathImplementsOutcome == Spec => Implements
<1>1. PipelineInv /\ PipelineInv' /\ [Next]_vars => [Abstract!Next]_AbstractVars
  BY AbstractStep
<1> QED
  BY <1>1, AbstractInit, PipelineInvariant, PTL
  DEF Spec, Implements, Abstract!Spec, AbstractVars
=============================================================================
