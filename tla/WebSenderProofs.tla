---------------------------- MODULE WebSenderProofs ----------------------------
(***************************************************************************)
(* What the Web server's sender promises, proved for any number of files,  *)
(* rows and threads, through failed publishes, lost saves and kills: no    *)
(* row is skipped, and only what a fault kept from being counted is sent   *)
(* twice.                                                                  *)
(***************************************************************************)
EXTENDS WebSender, TLAPS

(* What a run works from: its copy once it is loaded, else the file.       *)
Baseline == IF sending \in {"idle", "locked"} THEN counters ELSE count

(* The copy, too, counts only what is at the broker or cannot be sent.     *)
CopyIsAtBroker ==
    sending \notin {"idle", "locked"} =>
        \A f \in Files : \A i \in 1 .. count[f] : <<f, i>> \in arrived \cup BadRows

(* What is at the broker is counted where the run looks, or a fault is to  *)
(* blame; a copy just loaded is the file.                                  *)
ArrivedIsCounted ==
    /\ \A f \in Files, i \in 1 .. MaxRows :
          <<f, i>> \in arrived => i <= Baseline[f] \/ <<f, i>> \in excused
    /\ sending = "loaded" => count = counters

SenderInv ==
    /\ SenderTypeOK
    /\ CountedIsAtBroker
    /\ CopyIsAtBroker
    /\ ArrivedIsCounted
    /\ ResentOnlyAfterFault

-----------------------------------------------------------------------------
(* The counters of no file, and of one more row.                           *)
LEMMA CountType ==
    /\ Zero \in Count
    /\ \A c \in Count, f \in Files :
          c[f] < MaxRows => [c EXCEPT ![f] = @ + 1] \in Count
<1>1. Zero \in Count
  BY SenderAssumption DEF Zero, Count
<1>2. ASSUME NEW c \in Count, NEW f \in Files, c[f] < MaxRows
      PROVE [c EXCEPT ![f] = @ + 1] \in Count
  <2>1. c[f] + 1 \in 0 .. MaxRows
    BY <1>2, SenderAssumption DEF Count
  <2> QED
    BY <2>1 DEF Count
<1> QED
  BY <1>1, <1>2

(* The row at the head is one of the rows, and counting it keeps the copy. *)
LEMMA RowAtHead ==
    ASSUME SenderTypeOK, NEW f \in Files, AtRow(f)
    PROVE /\ <<f, count[f] + 1>> \in AllRows
          /\ [count EXCEPT ![f] = @ + 1] \in Count
          /\ sending = "publishing"
<1>1. /\ count[f] \in 0 .. MaxRows /\ upto[f] \in 0 .. MaxRows
      /\ count[f] < upto[f] /\ sending = "publishing"
  BY DEF SenderTypeOK, Count, AtRow
<1>2. count[f] < MaxRows /\ count[f] + 1 \in 1 .. MaxRows
  BY <1>1, SenderAssumption
<1> QED
  BY <1>1, <1>2, CountType DEF SenderTypeOK, AllRows

(* A release takes place while somebody holds the lock.                    *)
LEMMA ReleaseType ==
    Release => (sending' = "idle" <=> sendLock' = NoSender) /\ sending' = "idle"
BY DEF Release

LEMMA TypeInit == SenderInit => SenderTypeOK
BY CountType DEF SenderInit, SenderTypeOK

(* Every step keeps the types.                                             *)
LEMMA TypeStep ==
    SenderTypeOK /\ [SenderNext \/ SenderKilled]_senderVars => SenderTypeOK'
<1> SUFFICES ASSUME SenderTypeOK, [SenderNext \/ SenderKilled]_senderVars
             PROVE SenderTypeOK'
  OBVIOUS
<1> USE DEF SenderTypeOK
<1>1. ASSUME NEW f \in Files, RowAppended(f) PROVE SenderTypeOK'
  <2>1. rows' \in Count
    BY <1>1, CountType DEF RowAppended
  <2> QED
    BY <1>1, <2>1 DEF RowAppended
<1>2. CASE SetSendTarget
  BY <1>2 DEF SetSendTarget
<1>3. ASSUME NEW t \in Senders, StartSend(t) PROVE SenderTypeOK'
  BY <1>3, SenderAssumption DEF StartSend
<1>4. CASE LoadSendState
  BY <1>4 DEF LoadSendState
<1>5. CASE ReadRows
  BY <1>5, ReleaseType DEF ReadRows, Release
<1>6. ASSUME NEW f \in Files, SkipBadRow(f) PROVE SenderTypeOK'
  BY <1>6, RowAtHead DEF SkipBadRow
<1>7. ASSUME NEW f \in Files, PublishRow(f) PROVE SenderTypeOK'
  BY <1>7, RowAtHead DEF PublishRow, Reaches
<1>8. CASE AllPublished
  BY <1>8 DEF AllPublished
<1>9. CASE TruncateSendState
  BY <1>9, CountType DEF TruncateSendState
<1>10. CASE WriteSendState
  BY <1>10 DEF WriteSendState, Release
<1>11. ASSUME NEW f \in Files, PublishFails(f) PROVE SenderTypeOK'
  <2>1. <<f, count[f] + 1>> \in AllRows /\ sending = "publishing"
    BY <1>11, RowAtHead DEF PublishFails
  <2>2. arrived' \subseteq AllRows /\ resent' \subseteq arrived' /\ excused' \subseteq AllRows
    BY <1>11, <2>1 DEF PublishFails, Reaches
  <2>3. (sending' = "idle" /\ sendLock' = NoSender)
          \/ (sending' = "saving" /\ UNCHANGED sendLock)
    BY <1>11 DEF PublishFails, Release
  <2> QED
    BY <1>11, <2>1, <2>2, <2>3 DEF PublishFails
<1>12. CASE SaveSendStateFails
  BY <1>12 DEF SaveSendStateFails, Release, Uncounted
<1>13. CASE SenderKilled
  BY <1>13 DEF SenderKilled, Release, Uncounted
<1>14. CASE UNCHANGED senderVars
  BY <1>14 DEF senderVars
<1> QED
  BY <1>1, <1>2, <1>3, <1>4, <1>5, <1>6, <1>7, <1>8, <1>9, <1>10, <1>11, <1>12,
     <1>13, <1>14 DEF SenderNext, SenderWork

(* The sender's state stays what it is declared to be; in particular the   *)
(* lock is held exactly while a run is under way (_send_lock).             *)
THEOREM SenderTypeCorrect == SenderSpec => []SenderTypeOK
<1> QED
  BY TypeInit, TypeStep, PTL DEF SenderSpec

-----------------------------------------------------------------------------
(* What one more row at the head adds to the copy.                         *)
LEMMA CountedOneMore ==
    ASSUME NEW c \in Count, NEW f \in Files, NEW g \in Files,
           NEW i \in 1 .. [c EXCEPT ![f] = @ + 1][g]
    PROVE i \in 1 .. c[g] \/ (g = f /\ i = c[f] + 1)
<1>1. \A h \in Files : c[h] \in Nat
  BY SenderAssumption DEF Count
<1>2. CASE g = f
  <2>1. [c EXCEPT ![f] = @ + 1][g] = c[f] + 1
    BY <1>2 DEF Count
  <2> QED
    BY <1>1, <1>2, <2>1
<1>3. CASE g # f
  BY <1>3 DEF Count
<1> QED
  BY <1>2, <1>3

(* Nothing is counted before the first row.                                *)
LEMMA ZeroCountsNothing == \A f \in Files : 1 .. Zero[f] = {}
BY DEF Zero

LEMMA InvInit == SenderInit => SenderInv
<1> SUFFICES ASSUME SenderInit PROVE SenderInv
  OBVIOUS
<1>1. SenderTypeOK
  BY TypeInit
<1>2. CountedIsAtBroker /\ CopyIsAtBroker
  BY ZeroCountsNothing DEF SenderInit, CountedIsAtBroker, CopyIsAtBroker
<1>3. ArrivedIsCounted /\ ResentOnlyAfterFault
  BY DEF SenderInit, ArrivedIsCounted, ResentOnlyAfterFault
<1> QED
  BY <1>1, <1>2, <1>3 DEF SenderInv

(* No step makes a row that is counted, in the file or in the copy, one    *)
(* that is neither at the broker nor bad.                                  *)
LEMMA CountedStep ==
    SenderInv /\ [SenderNext \/ SenderKilled]_senderVars
        => (CountedIsAtBroker /\ CopyIsAtBroker)'
<1> SUFFICES ASSUME SenderInv, [SenderNext \/ SenderKilled]_senderVars
             PROVE (CountedIsAtBroker /\ CopyIsAtBroker)'
  OBVIOUS
<1> USE DEF SenderInv, CountedIsAtBroker, CopyIsAtBroker
<1>1. ASSUME NEW f \in Files, RowAppended(f)
      PROVE (CountedIsAtBroker /\ CopyIsAtBroker)'
  BY <1>1 DEF RowAppended
<1>2. CASE SetSendTarget
  BY <1>2 DEF SetSendTarget
<1>3. ASSUME NEW t \in Senders, StartSend(t)
      PROVE (CountedIsAtBroker /\ CopyIsAtBroker)'
  BY <1>3 DEF StartSend
<1>4. CASE LoadSendState
  BY <1>4 DEF LoadSendState
<1>5. CASE ReadRows
  BY <1>5 DEF ReadRows, Release
<1>6. ASSUME NEW f \in Files, SkipBadRow(f)
      PROVE (CountedIsAtBroker /\ CopyIsAtBroker)'
  <2>1. <<f, count[f] + 1>> \in BadRows /\ sending = "publishing"
    BY <1>6, RowAtHead DEF SkipBadRow
  <2> QED
    BY <1>6, <2>1, CountedOneMore DEF SkipBadRow, SenderTypeOK
<1>7. ASSUME NEW f \in Files, PublishRow(f)
      PROVE (CountedIsAtBroker /\ CopyIsAtBroker)'
  <2>1. /\ <<f, count[f] + 1>> \in arrived' /\ arrived \subseteq arrived'
        /\ sending = "publishing"
    BY <1>7, RowAtHead DEF PublishRow, Reaches
  <2> QED
    BY <1>7, <2>1, CountedOneMore DEF PublishRow, SenderTypeOK
<1>8. CASE AllPublished
  BY <1>8 DEF AllPublished
<1>9. CASE TruncateSendState
  BY <1>9, ZeroCountsNothing DEF TruncateSendState
<1>10. CASE WriteSendState
  BY <1>10 DEF WriteSendState, Release
<1>11. ASSUME NEW f \in Files, PublishFails(f)
       PROVE (CountedIsAtBroker /\ CopyIsAtBroker)'
  <2>1. arrived \subseteq arrived' /\ sending = "publishing"
    BY <1>11, RowAtHead DEF PublishFails, Reaches
  <2> QED
    BY <1>11, <2>1 DEF PublishFails
<1>12. CASE SaveSendStateFails
  BY <1>12 DEF SaveSendStateFails, Release
<1>13. CASE SenderKilled
  BY <1>13 DEF SenderKilled, Release
<1>14. CASE UNCHANGED senderVars
  BY <1>14 DEF senderVars
<1> QED
  BY <1>1, <1>2, <1>3, <1>4, <1>5, <1>6, <1>7, <1>8, <1>9, <1>10, <1>11, <1>12,
     <1>13, <1>14 DEF SenderNext, SenderWork

(* A step that leaves the broker alone and goes on from the same counters. *)
LEMMA SameBaseline ==
    ASSUME SenderInv, Baseline' = Baseline, arrived' = arrived, resent' = resent,
           excused \subseteq excused', sending' = "loaded" => count' = counters'
    PROVE (ArrivedIsCounted /\ ResentOnlyAfterFault)'
<1>1. ArrivedIsCounted'
  BY DEF SenderInv, ArrivedIsCounted
<1> QED
  BY <1>1 DEF SenderInv, ResentOnlyAfterFault

(* When a run ends before its save, by a fault, the rows its copy counted  *)
(* and the file does not are excused.                                      *)
LEMMA FaultExcuses ==
    ASSUME SenderInv, excused' = excused \cup Uncounted, sending' = "idle",
           counters' = counters, arrived' = arrived, resent' = resent
    PROVE (ArrivedIsCounted /\ ResentOnlyAfterFault)'
<1>1. ASSUME NEW f \in Files, NEW i \in 1 .. MaxRows, <<f, i>> \in arrived
      PROVE i <= counters[f] \/ <<f, i>> \in excused'
  <2>1. counters[f] \in Nat /\ i \in Nat
    BY SenderAssumption DEF SenderInv, SenderTypeOK, Count
  <2>2. i > counters[f] => <<f, i>> \in Uncounted
    BY <1>1 DEF Uncounted
  <2> QED
    BY <2>1, <2>2
<1>2. ArrivedIsCounted'
  BY <1>1 DEF ArrivedIsCounted, Baseline
<1> QED
  BY <1>2 DEF SenderInv, ResentOnlyAfterFault

(* A row that reaches the broker a second time was excused: it is beyond   *)
(* the copy.                                                               *)
LEMMA ReachesExcused ==
    ASSUME SenderInv, NEW f \in Files, AtRow(f), Reaches(f)
    PROVE resent' \subseteq excused
<1>1. /\ <<f, count[f] + 1>> \in AllRows /\ sending = "publishing"
      /\ count[f] \in Nat
  BY RowAtHead, SenderAssumption DEF SenderInv, SenderTypeOK, Count
<1>2. Baseline[f] = count[f] /\ count[f] + 1 \in 1 .. MaxRows
  BY <1>1 DEF Baseline, AllRows
<1>3. <<f, count[f] + 1>> \in arrived => <<f, count[f] + 1>> \in excused
  BY <1>1, <1>2 DEF SenderInv, ArrivedIsCounted
<1> QED
  BY <1>3 DEF Reaches, SenderInv, ResentOnlyAfterFault

(* No step sends a second time what no fault kept from being counted.      *)
LEMMA ResentStep ==
    SenderInv /\ [SenderNext \/ SenderKilled]_senderVars
        => (ArrivedIsCounted /\ ResentOnlyAfterFault)'
<1> SUFFICES ASSUME SenderInv, [SenderNext \/ SenderKilled]_senderVars
             PROVE (ArrivedIsCounted /\ ResentOnlyAfterFault)'
  OBVIOUS
<1>0. sending = "loaded" => count = counters
  BY DEF SenderInv, ArrivedIsCounted
<1>1. ASSUME NEW f \in Files, RowAppended(f)
      PROVE (ArrivedIsCounted /\ ResentOnlyAfterFault)'
  BY <1>0, <1>1, SameBaseline DEF RowAppended, Baseline
<1>2. CASE SetSendTarget
  BY <1>0, <1>2, SameBaseline DEF SetSendTarget, Baseline
<1>3. ASSUME NEW t \in Senders, StartSend(t)
      PROVE (ArrivedIsCounted /\ ResentOnlyAfterFault)'
  <2>1. sending = "idle"
    BY <1>3 DEF StartSend, SenderInv, SenderTypeOK
  <2> QED
    BY <1>3, <2>1, SameBaseline DEF StartSend, Baseline
<1>4. CASE LoadSendState
  BY <1>4, SameBaseline DEF LoadSendState, Baseline
<1>5. CASE ReadRows
  BY <1>0, <1>5, SameBaseline DEF ReadRows, Release, Baseline
<1>6. ASSUME NEW f \in Files, SkipBadRow(f)
      PROVE (ArrivedIsCounted /\ ResentOnlyAfterFault)'
  <2>1. \A g \in Files : Baseline'[g] >= Baseline[g] /\ Baseline[g] \in Nat
                          /\ Baseline'[g] \in Nat
    BY <1>6, RowAtHead, SenderAssumption
    DEF SkipBadRow, Baseline, SenderInv, SenderTypeOK, Count
  <2>2. ArrivedIsCounted'
    BY <1>6, <2>1, RowAtHead DEF SkipBadRow, SenderInv, ArrivedIsCounted
  <2> QED
    BY <1>6, <2>2 DEF SkipBadRow, SenderInv, ResentOnlyAfterFault
<1>7. ASSUME NEW f \in Files, PublishRow(f)
      PROVE (ArrivedIsCounted /\ ResentOnlyAfterFault)'
  <2>1. \A g \in Files : Baseline'[g] >= Baseline[g] /\ Baseline[g] \in Nat
                          /\ Baseline'[g] \in Nat
    BY <1>7, RowAtHead, SenderAssumption
    DEF PublishRow, Baseline, SenderInv, SenderTypeOK, Count
  <2>2. Baseline'[f] = count[f] + 1 /\ sending' = "publishing"
    BY <1>7, RowAtHead DEF PublishRow, Baseline, SenderInv, SenderTypeOK, Count
  <2>3. ArrivedIsCounted'
    <3>1. ASSUME NEW g \in Files, NEW i \in 1 .. MaxRows, <<g, i>> \in arrived'
          PROVE i <= Baseline'[g] \/ <<g, i>> \in excused'
      <4>1. CASE <<g, i>> \in arrived
        BY <1>7, <2>1, <4>1 DEF PublishRow, SenderInv, ArrivedIsCounted
      <4>2. CASE g = f /\ i = count[f] + 1
        BY <2>1, <2>2, <4>2
      <4> QED
        BY <1>7, <3>1, <4>1, <4>2 DEF PublishRow, Reaches
    <3> QED
      BY <2>2, <3>1 DEF ArrivedIsCounted
  <2> QED
    BY <1>7, <2>3, ReachesExcused DEF PublishRow, ResentOnlyAfterFault
<1>8. CASE AllPublished
  BY <1>8, SameBaseline DEF AllPublished, Baseline
<1>9. CASE TruncateSendState
  BY <1>9, SameBaseline DEF TruncateSendState, Baseline
<1>10. CASE WriteSendState
  BY <1>10, SameBaseline DEF WriteSendState, Release, Baseline
<1>11. ASSUME NEW f \in Files, PublishFails(f)
       PROVE (ArrivedIsCounted /\ ResentOnlyAfterFault)'
  <2>1. sending = "publishing"
    BY <1>11, RowAtHead DEF PublishFails, SenderInv
  <2>2. Baseline' = Baseline /\ sending' # "loaded"
    BY <1>11, <2>1 DEF PublishFails, Release, Baseline
  <2>3. CASE UNCHANGED <<arrived, resent, excused>>
    BY <2>2, <2>3, SameBaseline
  <2>4. CASE Reaches(f) /\ excused' = excused \cup {<<f, count[f] + 1>>}
    <3>1. ArrivedIsCounted'
      BY <2>2, <2>4 DEF Reaches, SenderInv, ArrivedIsCounted
    <3> QED
      BY <1>11, <2>4, <3>1, ReachesExcused DEF PublishFails, ResentOnlyAfterFault
  <2> QED
    BY <1>11, <2>3, <2>4 DEF PublishFails
<1>12. CASE SaveSendStateFails
  BY <1>12, FaultExcuses DEF SaveSendStateFails, Release
<1>13. CASE SenderKilled
  BY <1>13, FaultExcuses DEF SenderKilled, Release
<1>14. CASE UNCHANGED senderVars
  BY <1>0, <1>14, SameBaseline DEF senderVars, Baseline
<1> QED
  BY <1>1, <1>2, <1>3, <1>4, <1>5, <1>6, <1>7, <1>8, <1>9, <1>10, <1>11, <1>12,
     <1>13, <1>14 DEF SenderNext, SenderWork

LEMMA SenderInvariant == SenderSpec => []SenderInv
<1>1. SenderInv /\ [SenderNext \/ SenderKilled]_senderVars => SenderInv'
  BY TypeStep, CountedStep, ResentStep DEF SenderInv
<1> QED
  BY InvInit, <1>1, PTL DEF SenderSpec

(* No row is skipped: what the file of counters says is done is at the     *)
(* broker or can never be sent, through kills, failed publishes and saves  *)
(* that are lost half-way (_publish_lines, save_send_state).               *)
THEOREM CountedStaysAtBroker == SenderSpec => []CountedIsAtBroker
<1>1. SenderInv => CountedIsAtBroker
  BY DEF SenderInv
<1> QED
  BY SenderInvariant, <1>1, PTL

(* Two runs never send the same row, however many threads ask at once:     *)
(* only what a fault kept from being counted goes out twice (_send_lock).  *)
THEOREM NothingResentWithoutFault == SenderSpec => []ResentOnlyAfterFault
<1>1. SenderInv => ResentOnlyAfterFault
  BY DEF SenderInv
<1> QED
  BY SenderInvariant, <1>1, PTL
=============================================================================
