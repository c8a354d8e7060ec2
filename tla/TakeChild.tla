------------------------------ MODULE TakeChild ------------------------------
(***************************************************************************)
(* Bringing a running child to another hub (fleet_ui/migrate.py,           *)
(* provision.py, send_target.py): take_child reaches it through the hub it *)
(* is at, installs the new hub's key, has it join the new hub's Wi-Fi,     *)
(* lists it there, aligns where its records go, and takes it off the old   *)
(* hub's list.  A child that is there already is adopted; align alone is a *)
(* command of its own.  Name and station numbers stay.                     *)
(*                                                                         *)
(* Requests of the Web UI's threads and of the terminal run side by side;  *)
(* each SSH call may fail, or do its work and lose its answer; the switch  *)
(* of the Wi-Fi is a unit of the child's own systemd.  NetworkManager is   *)
(* external: it joins a profile that has autoconnect.                      *)
(***************************************************************************)
EXTENDS Naturals, FiniteSets

CONSTANTS
    Hubs, Home,   (* Home: where the children's cards were made             *)
    NoHub,
    Kids,
    Takers,       (* requests that may run at once                          *)
    NoJob,
    MaxJobs       (* a bound                                                *)

VARIABLES
    wifi,         (* the hub whose Wi-Fi a child is in                      *)
    via,          (* the profile it is in it by: "base" came with the card  *)
    base,         (* that profile has autoconnect                           *)
    join,         (* presence-hub-join: the hub, autoconnect                *)
    unit,         (* presence-hub-join-switch, running on the child         *)
    keys,         (* the hubs in its authorized_keys                        *)
    sends,        (* where its records go: send_target_config.json, and the *)
                  (* MQTT_HOST of the running child-csv-to-mqtt             *)
    list,         (* children.conf of each hub: how often it names a child  *)
    seenBy,       (* the hubs whose ARP table may hold it                   *)
    job,          (* what each request is at                                *)
    jobs,         (* requests begun so far                                  *)
    switches,     (* history: profiles installed on a child                 *)
    told,         (* history: a hub's last word on a child was a failure    *)
    crossed,      (* history: children whose requests overlapped or were cut *)
    byHand,       (* history: "align" asked at a hub that does not list it  *)
    lost          (* history: children another's take lost from a list      *)

kidVars == <<wifi, via, base, join, unit, keys, sends>>

takeVars == <<kidVars, list, seenBy, job, jobs, switches, told, crossed,
              byHand, lost>>

Places == {"mac", "key", "wifi", "wait", "list", "append", "align", "strip", "write"}

Job == [op : {"take", "adopt", "align"}, hub : Hubs, from : Hubs, kid : Kids,
        at : Places, text : [Kids -> Nat]]

ASSUME TakeAssumption ==
    /\ Home \in Hubs /\ NoHub \notin Hubs
    /\ MaxJobs \in Nat /\ NoJob \notin Job

TakeTypeOK ==
    /\ wifi \in [Kids -> Hubs \cup {NoHub}]
    /\ via \in [Kids -> {"base", "join", "none"}]
    /\ \A k \in Kids : wifi[k] = NoHub <=> via[k] = "none"
    /\ base \in [Kids -> BOOLEAN]
    /\ join \in [Kids -> [to : Hubs \cup {NoHub}, auto : BOOLEAN]]
    /\ unit \in [Kids -> {"none", "up", "others"}]
    /\ keys \in [Kids -> SUBSET Hubs] /\ seenBy \in [Kids -> SUBSET Hubs]
    /\ sends \in [Kids -> [file : Hubs, process : Hubs]]
    /\ list \in [Hubs -> [Kids -> Nat]]
    /\ job \in [Takers -> Job \cup {NoJob}] /\ jobs \in Nat
    /\ switches \in [Kids -> Nat]
    /\ told \subseteq Hubs \X Kids /\ crossed \subseteq Kids
    /\ byHand \subseteq Hubs \X Kids /\ lost \subseteq Kids

TakeInit ==
    /\ wifi = [k \in Kids |-> Home] /\ via = [k \in Kids |-> "base"]
    /\ base = [k \in Kids |-> TRUE]
    /\ join = [k \in Kids |-> [to |-> NoHub, auto |-> FALSE]]
    /\ unit = [k \in Kids |-> "none"]
    /\ keys = [k \in Kids |-> {Home}]
    /\ sends = [k \in Kids |-> [file |-> Home, process |-> Home]]
    /\ list = [h \in Hubs |-> [k \in Kids |-> IF h = Home THEN 1 ELSE 0]]
    /\ seenBy = [k \in Kids |-> {Home}]
    /\ job = [t \in Takers |-> NoJob] /\ jobs = 0
    /\ switches = [k \in Kids |-> 0]
    /\ told = {} /\ crossed = {} /\ byHand = {} /\ lost = {}

Busy(k) == \E t \in Takers : job[t] # NoJob /\ job[t].kid = k

Reaches(h, k) == wifi[k] = h /\ h \in keys[k]

-----------------------------------------------------------------------------
(* A request.                                                              *)

Begin(t, op, h, from, k, at) ==
    /\ job[t] = NoJob /\ jobs < MaxJobs
    /\ jobs' = jobs + 1
    /\ job' = [job EXCEPT ![t] = [op |-> op, hub |-> h, from |-> from, kid |-> k, at |-> at,
                                  text |-> list[h]]]
    /\ crossed' = IF \E u \in Takers : job[u] # NoJob THEN Kids ELSE crossed
    /\ byHand' = IF op = "align" /\ list[h][k] = 0 THEN byHand \cup {<<h, k>>} ELSE byHand
    /\ UNCHANGED <<kidVars, list, seenBy, switches, told, lost>>

(* take_child, up to its first SSH call: a listed name ends it.            *)
Take(t, h, from, k) ==
    /\ h # from
    /\ list[h][k] = 0
    /\ Begin(t, "take", h, from, k, "mac")

(* adopt_keeping_identity and run_adopt: the hub's key opens the child.    *)
Adopt(t, h, k) ==
    /\ list[h][k] = 0
    /\ Reaches(h, k)
    /\ Begin(t, "adopt", h, h, k, "list")

(* cmd_align: of any child the operator names.                             *)
AlignCommand(t, h, k) == Begin(t, "align", h, h, k, "align")

At(t, at) == job[t] # NoJob /\ job[t].at = at

Goes(t, at) == job' = [job EXCEPT ![t].at = at] /\ UNCHANGED <<jobs, told, crossed>>

Ends(t, ok) ==
    /\ job' = [job EXCEPT ![t] = NoJob]
    /\ told' = IF ok THEN told \ {<<job[t].hub, job[t].kid>>}
               ELSE told \cup {<<job[t].hub, job[t].kid>>}
    /\ UNCHANGED <<jobs, crossed>>

GetMac(t) ==
    /\ At(t, "mac")
    /\ Reaches(job[t].from, job[t].kid)
    /\ Goes(t, "key")
    /\ UNCHANGED <<kidVars, list, seenBy, switches, byHand, lost>>

(* As "InstallKey", not looking for KEY_OK.                                *)
InstallKeyUnchecked(t) ==
    /\ At(t, "key")
    /\ \/ /\ Reaches(job[t].from, job[t].kid)
          /\ keys' = [keys EXCEPT ![job[t].kid] = @ \cup {job[t].hub}]
       \/ UNCHANGED keys
    /\ Goes(t, "wifi")
    /\ UNCHANGED <<wifi, via, base, join, unit, sends, list, seenBy, switches, byHand, lost>>

(* Without KEY_OK the Wi-Fi is not touched; the key may be there.          *)
InstallKey(t) ==
    LET k == job[t].kid
    IN  /\ At(t, "key")
        /\ Reaches(job[t].from, k)
        /\ keys' = [keys EXCEPT ![k] = @ \cup {job[t].hub}]
        /\ Goes(t, "wifi") \/ Ends(t, FALSE)
        /\ UNCHANGED <<wifi, via, base, join, unit, sends, list, seenBy, switches, byHand, lost>>

(* WIFI_INSTALL over the file of an earlier switch; a unit that runs is    *)
(* not started again.  The answer is not looked at.                        *)
SwitchWifi(t) ==
    LET k == job[t].kid
    IN  /\ At(t, "wifi")
        /\ \/ /\ Reaches(job[t].from, k)
              /\ join' = [join EXCEPT ![k] = [to |-> job[t].hub, auto |-> TRUE]]
              /\ unit' = [unit EXCEPT ![k] = IF @ = "none" THEN "up" ELSE @]
              /\ switches' = [switches EXCEPT ![k] = @ + 1]
           \/ UNCHANGED <<join, unit, switches>>
        /\ Goes(t, "wait")
        /\ UNCHANGED <<wifi, via, base, keys, sends, list, seenBy, byHand, lost>>

(* wait_for_return: its MAC is in the ARP table, perhaps of an earlier     *)
(* stay, and _ssh_alive never says no.                                     *)
WaitReturns(t) ==
    /\ At(t, "wait")
    /\ job[t].hub \in seenBy[job[t].kid]
    /\ Goes(t, "list")
    /\ UNCHANGED <<kidVars, list, seenBy, switches, byHand, lost>>

(* An SSH call of the way fails, the wait runs out, or the list cannot be  *)
(* written.                                                                *)
RequestFails(t) ==
    /\ \E at \in {"mac", "key", "wait", "list"} : At(t, at)
    /\ Ends(t, FALSE)
    /\ UNCHANGED <<kidVars, list, seenBy, switches, byHand, lost>>

(* register_host_key, then add_to_inventory: look, then append.            *)
LookInList(t) ==
    /\ At(t, "list")
    /\ Goes(t, IF list[job[t].hub][job[t].kid] > 0 THEN "align" ELSE "append")
    /\ UNCHANGED <<kidVars, list, seenBy, switches, byHand, lost>>

AppendToList(t) ==
    /\ At(t, "append")
    /\ list' = [list EXCEPT ![job[t].hub][job[t].kid] = @ + 1]
    /\ Goes(t, "align")
    /\ UNCHANGED <<kidVars, seenBy, switches, byHand, lost>>

(* align_remote_script: the file, the drop-in, the restart; ok only if the *)
(* new process is read back with the new address.                          *)
Align(t) ==
    LET k == job[t].kid
        h == job[t].hub
    IN  /\ At(t, "align")
        /\ Reaches(h, k)
        /\ sends' = [sends EXCEPT ![k] = [file |-> h, process |-> h]]
        /\ IF job[t].op = "take" THEN Goes(t, "strip") ELSE Ends(t, TRUE)
        /\ UNCHANGED <<wifi, via, base, join, unit, keys, list, seenBy, switches, byHand, lost>>

(* As "AlignFails", going on as after a success.                           *)
AlignFailsUnnoticed(t) ==
    /\ At(t, "align")
    /\ IF job[t].op = "take" THEN Goes(t, "strip") ELSE Ends(t, TRUE)
    /\ UNCHANGED <<kidVars, list, seenBy, switches, byHand, lost>>

(* It may have got part of the way, or all of it without an answer.        *)
AlignFails(t) ==
    LET k == job[t].kid
        h == job[t].hub
    IN  /\ At(t, "align")
        /\ \/ UNCHANGED sends
           \/ Reaches(h, k) /\ \/ sends' = [sends EXCEPT ![k].file = h]
                               \/ sends' = [sends EXCEPT ![k] = [file |-> h, process |-> h]]
        /\ Ends(t, FALSE)
        /\ UNCHANGED <<wifi, via, base, join, unit, keys, list, seenBy, switches, byHand, lost>>

Holds(t, text) ==
    job' = [job EXCEPT ![t] = [[job[t] EXCEPT !.at = "write"] EXCEPT !.text = text]]

(* As "ReadOldList", taking any answer for the list.                       *)
ReadOldListPartly(t) ==
    /\ At(t, "strip")
    /\ \E text \in {list[job[t].from], [k \in Kids |-> 0]} : Holds(t, text)
    /\ UNCHANGED <<kidVars, list, seenBy, jobs, switches, told, crossed, byHand, lost>>

(* The old hub's list: only a complete answer counts (CAT_OK); without one *)
(* the operator is asked to edit it.                                       *)
ReadOldList(t) ==
    /\ At(t, "strip")
    /\ \/ /\ Holds(t, list[job[t].from])
          /\ UNCHANGED <<jobs, told, crossed>>
       \/ Ends(t, TRUE)
    /\ UNCHANGED <<kidVars, list, seenBy, switches, byHand, lost>>

(* printf of the text without the child, into the truncated file: what is  *)
(* kept of it, and whether it is written at all, goes unnoticed.           *)
WriteOldList(t) ==
    LET text == [job[t].text EXCEPT ![job[t].kid] = 0]
    IN  /\ At(t, "write")
        /\ \/ UNCHANGED <<list, lost>>
           \/ \E kept \in SUBSET Kids :
                 /\ list' = [list EXCEPT ![job[t].from] =
                               [k \in Kids |-> IF k \in kept THEN text[k] ELSE 0]]
                 /\ lost' = lost \cup {k \in Kids \ kept : text[k] > 0}
        /\ Ends(t, TRUE)
        /\ UNCHANGED <<kidVars, seenBy, switches, byHand>>

(* The server or the terminal is ended in the middle.                      *)
RequestCut(t) ==
    /\ job[t] # NoJob
    /\ crossed' = crossed \cup {job[t].kid}
    /\ job' = [job EXCEPT ![t] = NoJob]
    /\ UNCHANGED <<kidVars, list, seenBy, jobs, switches, told, byHand, lost>>

-----------------------------------------------------------------------------
(* The child.                                                              *)

serverVars == <<keys, sends, list, job, jobs, switches, told, crossed, byHand, lost>>

Joins(k, profile) ==
    LET hub == IF profile = "join" THEN join[k].to ELSE Home
    IN  /\ wifi' = [wifi EXCEPT ![k] = hub]
        /\ via' = [via EXCEPT ![k] = profile]
        /\ seenBy' = [seenBy EXCEPT ![k] = @ \cup {hub}]

Drops(k) ==
    /\ wifi' = [wifi EXCEPT ![k] = NoHub]
    /\ via' = [via EXCEPT ![k] = "none"]
    /\ UNCHANGED seenBy

(* nmcli connection up presence-hub-join, then the others' autoconnect.    *)
SwitchUp(k) ==
    /\ unit[k] = "up"
    /\ Joins(k, "join")
    /\ unit' = [unit EXCEPT ![k] = "others"]
    /\ UNCHANGED <<base, join, serverVars>>

SwitchOthersOff(k) ==
    /\ unit[k] = "others"
    /\ base' = [base EXCEPT ![k] = FALSE]
    /\ unit' = [unit EXCEPT ![k] = "none"]
    /\ UNCHANGED <<wifi, via, join, seenBy, serverVars>>

(* As "SwitchFails" of a unit that switches the others off first.          *)
SwitchFailsOthersOff(k) ==
    /\ unit[k] = "up"
    /\ join' = [join EXCEPT ![k].auto = FALSE]
    /\ base' = [base EXCEPT ![k] = FALSE]
    /\ unit' = [unit EXCEPT ![k] = "none"]
    /\ (via[k] = "base" /\ Joins(k, "base")) \/ Drops(k)
    /\ UNCHANGED serverVars

(* The up fails: the profile is switched off, and the connection that was  *)
(* active - any but presence-hub-join - is brought up again.               *)
SwitchFails(k) ==
    /\ unit[k] = "up"
    /\ join' = [join EXCEPT ![k].auto = FALSE]
    /\ unit' = [unit EXCEPT ![k] = "none"]
    /\ (via[k] = "base" /\ Joins(k, "base")) \/ Drops(k)
    /\ UNCHANGED <<base, serverVars>>

Autoconnect(k) ==
    /\ wifi[k] = NoHub /\ unit[k] = "none"
    /\ \/ join[k].auto /\ Joins(k, "join")
       \/ base[k] /\ Joins(k, "base")
    /\ UNCHANGED <<base, join, unit, serverVars>>

(* The power goes, or the radio.                                           *)
KidOff(k) ==
    /\ wifi[k] # NoHub
    /\ Drops(k)
    /\ unit' = [unit EXCEPT ![k] = "none"]
    /\ UNCHANGED <<base, join, serverVars>>

TakeStep(t) ==
    \/ GetMac(t)
    \/ InstallKey(t)
    \/ SwitchWifi(t)
    \/ WaitReturns(t)
    \/ RequestFails(t)
    \/ LookInList(t)
    \/ AppendToList(t)
    \/ Align(t)
    \/ AlignFails(t)
    \/ ReadOldList(t)
    \/ WriteOldList(t)

KidStep(k) ==
    \/ SwitchUp(k)
    \/ SwitchOthersOff(k)
    \/ SwitchFails(k)
    \/ Autoconnect(k)
    \/ KidOff(k)

TakeNext ==
    \/ \E t \in Takers :
          \/ \E h, from \in Hubs, k \in Kids : Take(t, h, from, k)
          \/ \E h \in Hubs, k \in Kids : Adopt(t, h, k) \/ AlignCommand(t, h, k)
          \/ TakeStep(t)
          \/ RequestCut(t)
    \/ \E k \in Kids : KidStep(k)

TakeSpec == TakeInit /\ [][TakeNext]_takeVars

-----------------------------------------------------------------------------
(* A child is never out of this hub's hands: wherever a take was cut short *)
(* or its answers were lost, the hub whose Wi-Fi it was told to join, and  *)
(* every hub that lists it, has its key there (take_child).                *)
SwitchedIsReachable ==
    \A k \in Kids :
        /\ join[k].to \in keys[k] \cup {NoHub}
        /\ \A h \in Hubs : list[h][k] > 0 => h \in keys[k]

Stranded(k) == wifi[k] = NoHub /\ unit[k] = "none" /\ ~join[k].auto /\ ~base[k]

(* The switch never leaves a child without a Wi-Fi to go to: if the new    *)
(* one fails, it returns to the one it came from (WIFI_INSTALL).           *)
NoneStranded == \A k \in Kids : ~Stranded(k)

(* The same for a child's first switch: whenever the power goes and        *)
(* however the unit ends.                                                  *)
FirstSwitchIsSafe == \A k \in Kids : switches[k] <= 1 => ~Stranded(k)

(* A child that is brought over is always on a list: the old hub's is      *)
(* rewritten last, from a complete copy, and not with this child alone     *)
(* (_read_remote_inventory) - if no other request runs meanwhile.  The     *)
(* others on that list stay on it, too, unless that last write is itself   *)
(* cut off: the file is truncated first.                                   *)
NobodyForgotten ==
    \A k \in Kids \ (crossed \cup lost) : \E h \in Hubs : list[h][k] = 1

SentByHand(k) ==
    \E h \in Hubs : <<h, k>> \in byHand /\ h \in {sends[k].file, sends[k].process}

(* Records do not go astray in silence: a child on just this hub's list    *)
(* sends to this hub, or the operator was told that it does not, or the    *)
(* request is still at it, or was cut (_align_after_join) - or it sends    *)
(* where the operator had it aligned by the command, at a hub whose list   *)
(* it is not on (cmd_align).                                               *)
UnalignedIsTold ==
    \A h \in Hubs, k \in Kids \ (crossed \cup lost) :
        list[h][k] > 0 /\ (\A g \in Hubs \ {h} : list[g][k] = 0)
            => \/ sends[k] = [file |-> h, process |-> h]
               \/ <<h, k>> \in told
               \/ Busy(k)
               \/ SentByHand(k)
=============================================================================
