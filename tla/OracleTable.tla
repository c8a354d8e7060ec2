---------------------------- MODULE OracleTable ----------------------------
(***************************************************************************)
(* Oracle's table HHC001 behind the bridge's adapter (oracle_client.py,    *)
(* oracle_jdbc_client.py, the oracle-jdbc sidecar): what a MERGE may do    *)
(* and answer.  Both senders of the bridge end in the same MERGE.          *)
(***************************************************************************)
EXTENDS Columns, CircuitBreaker

CONSTANTS
    Profiles,      (* the profiles of profiles.yaml, one Oracle each        *)
    DupCode,       (* ORA-00001                                             *)
    OkMessage      (* error_message of a merge the adapter calls a success: *)
                   (* "none" (None) or "empty" ("")                         *)

ASSUME OracleAssumption ==
    /\ DupCode \in OraCodes
    /\ OkMessage \in {"none", "empty"}

VARIABLES
    oracle,        (* HHC001 of each profile                                *)
    late           (* MERGEs whose client went away, still running          *)

dbVars == <<oracle, late>>

Content == [mk_date : MkDates, t1_status : T1Statuses]
MergeResult == [code : OraCodes \cup {NoCode}, message : {"none", "empty", "error"}]

Accepted == [code |-> NoCode, message |-> OkMessage]
NoAnswer == [code |-> NoCode, message |-> "error"]
Refused(c) == [code |-> c, message |-> "error"]

OracleTypeOK ==
    /\ oracle \in [Profiles -> SUBSET Content]
    /\ late \in SUBSET (Profiles \X Content)

OracleInit ==
    /\ oracle = [p \in Profiles |-> {}]
    /\ late = {}

InOracle(c) == \E p \in Profiles : c \in oracle[p]

KeyTaken(p, c) == \E d \in oracle[p] : d.mk_date = c.mk_date

(* The row is committed.                                                   *)
Commit(p, c) == oracle' = [oracle EXCEPT ![p] = @ \cup {c}]

(* The server finishes a statement nobody waits for, or rolls it back.     *)
FinishLate ==
    \E s \in late :
        /\ late' = late \ {s}
        /\ IF KeyTaken(s[1], s[2]) THEN UNCHANGED oracle ELSE Commit(s[1], s[2])

RollBackLate ==
    /\ \E s \in late : late' = late \ {s}
    /\ UNCHANGED oracle
=============================================================================
