----------------------------- MODULE PresenceFSM -----------------------------
(***************************************************************************)
(* The detector's camera loop and its state machine (detector/src/fsm.py,  *)
(* main.py, camera.py): frames with or without a person become ENTER and   *)
(* EXIT, debounced in time; ten failed reads in a row force an EXIT.       *)
(*                                                                         *)
(* Time passes between frames, in units of a frame's period; a frame may   *)
(* take longer.  An event counts once insert_pending has stored it: the    *)
(* state changes before, and a kill in between loses the event.            *)
(***************************************************************************)
EXTENDS Naturals

CONSTANTS
    EnterTime, ExitTime,   (* debounce.enter_seconds, exit_seconds          *)
    LostReads,             (* failed reads that mean a lost camera (10)     *)
    MaxStep                (* the longest time from frame to frame          *)

ASSUME PresenceAssumption ==
    /\ EnterTime \in Nat /\ ExitTime \in Nat
    /\ LostReads \in Nat \ {0} /\ MaxStep \in Nat \ {0}

VARIABLES
    state,        (* PresenceFSM._state                                     *)
    candidate,    (* _candidate_state                                       *)
    since,        (* the time since _candidate_started_mono_ns              *)
    failures,     (* Camera.consecutive_failures                            *)
    toStore,      (* the transition _emit_transition has in hand            *)
    stored,       (* history: the last event in the outbox                  *)
    forgot,       (* history: a restart came after it                       *)
    streak        (* history: equal observations since the last transition  *)
                  (* and the time since the first of them                   *)

presenceVars == <<state, candidate, since, failures, toStore, stored, forgot, streak>>

States == {"ABSENT", "PRESENT"}
EventTypes == {"ENTER", "EXIT"}
None == "none"

Threshold(s) == IF s = "PRESENT" THEN EnterTime ELSE ExitTime

Longest == EnterTime + ExitTime + MaxStep

PresenceTypeOK ==
    /\ state \in States /\ candidate \in States \cup {None}
    /\ since \in 0 .. Longest
    /\ failures \in 0 .. LostReads
    /\ toStore \in EventTypes \cup {None} /\ stored \in EventTypes \cup {None}
    /\ forgot \in BOOLEAN
    /\ streak \in [of : States \cup {None}, spans : 0 .. Longest]

NoStreak == [of |-> None, spans |-> 0]

PresenceInit ==
    /\ state = "ABSENT" /\ candidate = None /\ since = 0
    /\ failures = 0
    /\ toStore = None /\ stored = None
    /\ forgot = FALSE
    /\ streak = NoStreak

Later(t, dt) == IF t + dt < Longest THEN t + dt ELSE Longest

Confirm(s) ==
    /\ state' = s
    /\ candidate' = None /\ since' = 0
    /\ toStore' = IF s = "PRESENT" THEN "ENTER" ELSE "EXIT"

(* As "Debounced", off by one: too late, too early.                        *)
DebouncedLate(t, s) == t > Threshold(s)
DebouncedEarly(t, s) == t + 1 >= Threshold(s)

Debounced(t, s) == t >= Threshold(s)

(* PresenceFSM.observe. *)
Observe(s, dt) ==
    /\ toStore = None
    /\ failures' = 0
    /\ IF s = state
       THEN candidate' = None /\ since' = 0 /\ UNCHANGED <<state, toStore>>
       ELSE IF candidate # s
       THEN candidate' = s /\ since' = 0 /\ UNCHANGED <<state, toStore>>
       ELSE IF Debounced(Later(since, dt), s) THEN Confirm(s)
       ELSE since' = Later(since, dt) /\ UNCHANGED <<state, candidate, toStore>>
    /\ streak' = IF state' # state THEN NoStreak
                 ELSE IF streak.of = s THEN [streak EXCEPT !.spans = Later(@, dt)]
                 ELSE [of |-> s, spans |-> 0]
    /\ UNCHANGED <<stored, forgot>>

(* As "ReadFails", where nobody emits what force_exit returns.             *)
ReadFailsSilently(dt) ==
    /\ toStore = None
    /\ failures' = IF failures < LostReads THEN failures + 1 ELSE failures
    /\ state' = IF failures' = LostReads THEN "ABSENT" ELSE state
    /\ candidate' = None /\ since' = 0
    /\ streak' = NoStreak
    /\ UNCHANGED <<toStore, stored, forgot>>

(* camera.read returns None; PresenceFSM.force_exit.                       *)
ReadFails(dt) ==
    /\ toStore = None
    /\ failures' = IF failures < LostReads THEN failures + 1 ELSE failures
    /\ IF failures' = LostReads /\ state = "PRESENT"
       THEN Confirm("ABSENT") /\ streak' = NoStreak
       ELSE /\ since' = IF candidate = None THEN since ELSE Later(since, dt)
            /\ streak' = IF streak.of = None THEN streak
                         ELSE [streak EXCEPT !.spans = Later(@, dt)]
            /\ UNCHANGED <<state, candidate, toStore>>
    /\ UNCHANGED <<stored, forgot>>

(* _emit_transition, up to insert_pending. *)
StoreEvent ==
    /\ toStore # None
    /\ stored' = toStore
    /\ toStore' = None
    /\ forgot' = FALSE
    /\ UNCHANGED <<state, candidate, since, failures, streak>>

(* A kill or a stop; the next process starts with ABSENT.                  *)
DetectorRestarts ==
    /\ state' = "ABSENT" /\ candidate' = None /\ since' = 0
    /\ failures' = 0
    /\ toStore' = None
    /\ forgot' = TRUE
    /\ streak' = NoStreak
    /\ UNCHANGED stored

PresenceNext ==
    \/ \E s \in States, dt \in 1 .. MaxStep : Observe(s, dt)
    \/ \E dt \in 1 .. MaxStep : ReadFails(dt)
    \/ StoreEvent

PresenceSpec == PresenceInit /\ [][PresenceNext \/ DetectorRestarts]_presenceVars

-----------------------------------------------------------------------------
(* Events tell visits: while one process lives, ENTER and EXIT alternate,  *)
(* and the last stored event says whether somebody is there - a forced     *)
(* EXIT and the debounced one never both close a visit (observe,           *)
(* force_exit).                                                            *)
LastEventTellsState ==
    ~forgot /\ toStore = None => (stored = "ENTER" <=> state = "PRESENT")

(* An ENTER or a debounced EXIT needs observations of one kind, without a  *)
(* contrary one in between, that span the whole debounce time - after an   *)
(* earlier transition too (observe).  Failed reads in between are not      *)
(* contrary observations.                                                  *)
ChangesAreEarned ==
    [][toStore' \in EventTypes \ {toStore} /\ failures' = 0
         => \E dt \in 1 .. MaxStep :
                /\ streak.of = state'
                /\ Later(streak.spans, dt) >= Threshold(state')]_presenceVars

(* No change is missed: observations of one kind that span the debounce    *)
(* time are answered by a transition at the last of them at the latest.    *)
ChangesAreMade ==
    streak.of \in States \ {state} /\ failures = 0
        => streak.spans < Threshold(streak.of) \/ streak.spans = 0
=============================================================================
