------------------------------ MODULE Columns ------------------------------
(***************************************************************************)
(* The values that travel from a camera to Oracle's table HHC001, on the   *)
(* record path and on the event path alike.                                *)
(***************************************************************************)

CONSTANTS
    EventIds,     (* event_id: SHA1(device_id | CSV line), or a uuid4      *)
    MkDates,      (* MK_DATE with STA_NO1..3: HHC001's primary key         *)
    T1Statuses    (* T1_STATUS, the fifth column of the MERGE's ON clause  *)

(* The body of an ack: the event_id and the MK_DATE committed.             *)
Ack == [event_id : EventIds, mk_date : MkDates]
=============================================================================
