---------------------------- MODULE RecordTurns ----------------------------
(***************************************************************************)
(* The record path's liveness: every row gets its turn.  deliver_file      *)
(* walks a file from its first line on each round and stops after 30 s; a  *)
(* row it sends may cost 5 s of waiting (ack_delivery.py:356, :306).  Two  *)
(* history variables say what time allows: a walk is cut off only by       *)
(* waiting, and the 600 s between two attempts of a row are long against   *)
(* the rounds.                                                             *)
(***************************************************************************)
EXTENDS RecordPipeline

CONSTANT PauseWalks  (* the rounds a resend pause lasts at the least        *)

ASSUME TurnsAssumption == PauseWalks \in Nat

VARIABLES
    waited,          (* the walk has waited for an answer, with lines left  *)
    walks            (* the walks begun since the last attempt of a pending *)
                     (* row, up to PauseWalks                               *)

Begins == pc = "poll" /\ pc' = "lines"
Recent(i) == Has(i, "pending") /\ store[i].recent

Note ==
    /\ waited' = (todo' # {} /\ (waited \/ pc = "waiting"))
    /\ walks' = [i \in EventIds |->
                    IF Begins /\ Recent(i) /\ walks[i] < PauseWalks THEN walks[i] + 1
                    ELSE IF Recent(i) THEN walks[i] ELSE 0]

TurnsInit == Init /\ waited = FALSE /\ walks = [i \in EventIds |-> 0]

TurnsNext == Next /\ Note

-----------------------------------------------------------------------------
(* Each thread keeps running: paho's two network threads, the hub's main   *)
(* loop and the child's main thread are loops without an exit, and the     *)
(* pauses they wait for end, each row's by itself.  run_once is called on  *)
(* every pass of the main loop, among other calls, hence strong fairness;  *)
(* nothing is assumed of the network, of Oracle's answers or of the        *)
(* processes' lives.                                                       *)

Bridge(A) == A /\ UNCHANGED childVars
Child(A) == A /\ UNCHANGED bridgeVars

MergeStep == MergeInserts \/ MergeMatches \/ MergeCollides \/ MergeFails \/ AnswerLost
SendStep == StartMerge \/ LoopEnds \/ MarkSent \/ PublishAck \/ MarkFailed \/ PublishNack
            \/ Retry
ReclaimStep == DropSent \/ RingEvict \/ EvictRow \/ ReclaimEnds
WalkStep == OpenFile \/ BadLine \/ PublishRecord \/ PublishQueued \/ WaitOver \/ KeepFile
            \/ ArchiveSent \/ WriteSidecar \/ ArchiveNacked
            \/ \E m \in Messages : SendSettled(m) \/ SavePending(m)

BridgeFairness ==
    /\ SF_vars(Bridge(RunOnce))
    /\ WF_vars(Bridge(MergeStep)) /\ WF_vars(Bridge(SendStep)) /\ WF_vars(Bridge(ReclaimStep))
    /\ WF_vars(Bridge(Receive)) /\ WF_vars(Bridge(\E m \in Messages : ReceiveGet(m)))
    /\ \A i \in EventIds : WF_vars(Bridge(BackoffElapses /\ inbox'[i] # inbox[i]))
    /\ WF_vars(Bridge(CooldownElapses))

ChildFairness ==
    /\ WF_vars(Child(WalkStep))
    /\ \A i \in EventIds : WF_vars(Child(ResendDue /\ store'[i] # store[i]))
    /\ WF_vars(Child(\E a \in ackTopic : HandleAck(a)))
    /\ WF_vars(Child(\E n \in nackTopic : HandleNack(n)))

FairSpec == TurnsInit /\ [][TurnsNext]_<<vars, waited, walks>> /\ BridgeFairness /\ ChildFairness

(* What may stand in a row's way for ever, and what the path is built to   *)
(* survive when it happens only finitely often; among it a walk cut off    *)
(* before it has waited, and a row due again after fewer rounds than a     *)
(* pause lasts.  (A step that is also a regular one is no trouble: an      *)
(* answer the child ignores looks like a lost one, and the last line of a  *)
(* round may be cut off or counted pending.)                               *)
Answers == (\E a \in ackTopic : HandleAck(a)) \/ (\E n \in nackTopic : HandleNack(n))

Trouble ==
    \/ Lose /\ ~Answers /\ UNCHANGED <<bridgeVars, childVars>>
    \/ Bridge(MergeFails \/ AnswerLost \/ Crash \/ PowerLoss)
    \/ Bridge(NetworkPoll) /\ target' = NoProfile
    \/ Bridge(EventSenderRuns) /\ breaker'[target].state = "open"
    \/ Child(CycleOver) /\ ~waited /\ ~\E m \in Messages : SendSettled(m)
    \/ Child(ResendDue) /\ \E i \in EventIds :
                                store'[i] # store[i] /\ walks[i] < PauseWalks
    \/ Child(Disconnect \/ ChildCrash \/ ChildPowerLoss)

TroubleEnds ==
    /\ <>[][~Trouble]_vars
    /\ <>[](link = "ready" /\ nackEnabled /\ target \in Profiles)

(* Every row of a file in the outbox is written, or refused with a reason  *)
(* and the child told so: once the trouble is over, the child subscribed   *)
(* to both answers and the hub on a profile's network; whatever was lost,  *)
(* restarted or left unanswered before, and although an unanswered row in  *)
(* front of it is sent again and again (deliver_file, send, run_once).     *)
EveryRowIsDecided ==
    TroubleEnds =>
        \A f \in Files : \A m \in Lines[f] \ {Bad} :
            f \in outbox ~> (Delivered(m) \/ Has(m.event_id, "nacked"))
=============================================================================
