--------------------------- MODULE CircuitBreaker ---------------------------
(***************************************************************************)
(* services/bridge/src/circuit_breaker.py: the per-profile circuit breaker *)
(* the event Sender and the RecordSender share.  The operators act on one  *)
(* profile's entry.  `now - opened_at >= half_open_after_seconds` is the   *)
(* flag `elapsed`, which the environment's clock raises while the entry is *)
(* open; last_ora_code is only logged and is left out.                     *)
(***************************************************************************)

CONSTANTS
    OraCodes,         (* the ORA numbers a MERGE may end with               *)
    Permanent,        (* circuit_breaker.permanent_ora_codes (bridge.yaml)  *)
    NoCode            (* MergeResult.ora_code = None                        *)

ASSUME BreakerAssumption ==
    /\ Permanent \subseteq OraCodes
    /\ NoCode \notin OraCodes

BreakerEntry == [state : {"closed", "open", "half_open"}, elapsed : BOOLEAN]

NewEntry == [state |-> "closed", elapsed |-> FALSE]

is_permanent_error(code) == code # NoCode /\ code \in Permanent

(* The entry after state_for(profile, now): an open entry whose timeout has *)
(* run out becomes half_open, and the caller reads its state.              *)
state_for(e) ==
    IF e.state = "open" /\ e.elapsed THEN [e EXCEPT !.state = "half_open"] ELSE e

record_failure(e, code) ==
    IF is_permanent_error(code) THEN [state |-> "open", elapsed |-> FALSE] ELSE e

record_success(e) == NewEntry

(* The timeout of an open entry runs out.                                  *)
CooldownRunsOut(e) == [e EXCEPT !.elapsed = TRUE]
=============================================================================
