------------------------------ MODULE FleetProofs ------------------------------
(***************************************************************************)
(* How the hub handles its children, proved for any number of hubs,        *)
(* children, devices and requests at once: bringing a child to another     *)
(* hub, the wizard's picture of the Wi-Fi, a child's change of address.    *)
(***************************************************************************)
EXTENDS TakeChild, FleetView, IpRevert, TLAPS

-----------------------------------------------------------------------------
(* Bringing a child over: the hubs have its key, and its first switch of   *)
(* Wi-Fi leaves it one to go to.                                           *)

(* Past the check of the key, the hub's key is with the child, unless the  *)
(* operator just asks for an alignment; an old list that is about to be    *)
(* written back names nobody that hub cannot reach.                        *)
JobsAreKeyed ==
    \A t \in Takers : job[t] # NoJob =>
        /\ job[t].op = "align" => job[t].at = "align"
        /\ job[t].op # "align" /\ job[t].at \notin {"mac", "key"} =>
              job[t].hub \in keys[job[t].kid]
        /\ job[t].at = "write" =>
              \A k \in Kids : job[t].text[k] > 0 => job[t].from \in keys[k]

(* The switch and its profile are there only with a hub to join.  Up to    *)
(* its first switch the child's own profile connects by itself; from       *)
(* then on that one or the new one does, the old one as long as the new    *)
(* one may still fail.                                                     *)
OneProfileConnects ==
    \A k \in Kids :
        /\ join[k].to = NoHub => ~join[k].auto /\ unit[k] = "none"
        /\ switches[k] = 0 => base[k] /\ unit[k] = "none"
        /\ switches[k] <= 1 =>
              /\ base[k] \/ join[k].auto
              /\ unit[k] = "up" => base[k] /\ join[k].auto
              /\ unit[k] = "others" => join[k].auto

TakeInv ==
    /\ TakeTypeOK
    /\ SwitchedIsReachable
    /\ JobsAreKeyed
    /\ OneProfileConnects

-----------------------------------------------------------------------------
LEMMA TakeInvInit == TakeInit => TakeInv
<1> SUFFICES ASSUME TakeInit PROVE TakeInv
  OBVIOUS
<1>1. TakeTypeOK
  BY TakeAssumption DEF TakeInit, TakeTypeOK
<1>2. SwitchedIsReachable /\ JobsAreKeyed /\ OneProfileConnects
  BY TakeAssumption
  DEF TakeInit, SwitchedIsReachable, JobsAreKeyed, OneProfileConnects
<1> QED
  BY <1>1, <1>2 DEF TakeInv

(* A job that goes on is the same job at another place.                    *)
LEMMA JobGoesOn ==
    ASSUME NEW j \in Job, NEW at \in Places
    PROVE /\ [j EXCEPT !.at = at] \in Job
          /\ [j EXCEPT !.at = at].at = at
          /\ [j EXCEPT !.at = at].op = j.op
          /\ [j EXCEPT !.at = at].hub = j.hub
          /\ [j EXCEPT !.at = at].from = j.from
          /\ [j EXCEPT !.at = at].kid = j.kid
          /\ [j EXCEPT !.at = at].text = j.text
<1>1. PICK o \in {"take", "adopt", "align"}, h \in Hubs, f \in Hubs, k \in Kids,
           a \in Places, x \in [Kids -> Nat] :
        j = [op |-> o, hub |-> h, from |-> f, kid |-> k, at |-> a, text |-> x]
  BY DEF Job
<1>2. [j EXCEPT !.at = at]
        = [op |-> o, hub |-> h, from |-> f, kid |-> k, at |-> at, text |-> x]
  BY <1>1
<1> QED
  BY <1>1, <1>2 DEF Job

LEMMA JobHolds ==
    ASSUME NEW j \in Job, NEW text \in [Kids -> Nat]
    PROVE /\ [j EXCEPT !.text = text] \in Job
          /\ [j EXCEPT !.text = text].at = j.at
          /\ [j EXCEPT !.text = text].op = j.op
          /\ [j EXCEPT !.text = text].hub = j.hub
          /\ [j EXCEPT !.text = text].from = j.from
          /\ [j EXCEPT !.text = text].kid = j.kid
          /\ [j EXCEPT !.text = text].text = text
<1>1. PICK o \in {"take", "adopt", "align"}, h \in Hubs, f \in Hubs, k \in Kids,
           a \in Places, x \in [Kids -> Nat] :
        j = [op |-> o, hub |-> h, from |-> f, kid |-> k, at |-> a, text |-> x]
  BY DEF Job
<1>2. [j EXCEPT !.text = text]
        = [op |-> o, hub |-> h, from |-> f, kid |-> k, at |-> a, text |-> text]
  BY <1>1
<1> QED
  BY <1>1, <1>2 DEF Job

(* What a request's step leaves of the jobs: they are jobs, each keyed if  *)
(* it was, and the one that took the step if its hub's key is there.       *)
LEMMA GoesOn ==
    ASSUME TakeInv, NEW t \in Takers, job[t] # NoJob, NEW at \in Places \ {"write"},
           Goes(t, at)
    PROVE /\ job' \in [Takers -> Job \cup {NoJob}]
          /\ \A u \in Takers \ {t} : job'[u] = job[u]
          /\ job'[t] # NoJob /\ job'[t].at = at /\ job'[t].op = job[t].op
          /\ job'[t].hub = job[t].hub /\ job'[t].kid = job[t].kid
          /\ job'[t].from = job[t].from
          /\ jobs' = jobs /\ told' = told /\ crossed' = crossed
<1>1. job[t] \in Job
  BY DEF TakeInv, TakeTypeOK
<1>2. job' = [job EXCEPT ![t] = [job[t] EXCEPT !.at = at]]
  BY DEF Goes
<1> QED
  BY <1>1, <1>2, JobGoesOn, TakeAssumption DEF TakeInv, TakeTypeOK, Goes

LEMMA EndsSo ==
    ASSUME TakeInv, NEW t \in Takers, job[t] # NoJob, NEW ok \in BOOLEAN, Ends(t, ok)
    PROVE /\ job' \in [Takers -> Job \cup {NoJob}]
          /\ \A u \in Takers \ {t} : job'[u] = job[u]
          /\ job'[t] = NoJob
          /\ told' \subseteq Hubs \X Kids
          /\ jobs' = jobs /\ crossed' = crossed
<1>1. job[t].hub \in Hubs /\ job[t].kid \in Kids
  BY DEF TakeInv, TakeTypeOK, Job
<1> QED
  BY <1>1 DEF Ends, TakeInv, TakeTypeOK

-----------------------------------------------------------------------------
(* A request begins: nothing but the jobs changes.                         *)
LEMMA BeginStep ==
    ASSUME TakeInv, NEW t \in Takers, NEW op \in {"take", "adopt", "align"},
           NEW h \in Hubs, NEW from \in Hubs, NEW k \in Kids, NEW at \in Places \ {"write"},
           Begin(t, op, h, from, k, at),
           IF op = "align" THEN at = "align" ELSE at \in {"mac", "key"} \/ h \in keys[k]
    PROVE TakeInv'
<1> DEFINE j == [op |-> op, hub |-> h, from |-> from, kid |-> k, at |-> at,
                 text |-> list[h]]
<1>1. j \in Job
  BY DEF TakeInv, TakeTypeOK, Job
<1>2. /\ job' = [job EXCEPT ![t] = j]
      /\ job' \in [Takers -> Job \cup {NoJob}]
      /\ jobs' \in Nat /\ crossed' \subseteq Kids /\ byHand' \subseteq Hubs \X Kids
  BY <1>1 DEF Begin, TakeInv, TakeTypeOK
<1>3. TakeTypeOK'
  BY <1>2 DEF Begin, TakeInv, TakeTypeOK, kidVars
<1>4. JobsAreKeyed'
  <2>1. ASSUME NEW u \in Takers, job'[u] # NoJob
        PROVE /\ job'[u].op = "align" => job'[u].at = "align"
              /\ job'[u].op # "align" /\ job'[u].at \notin {"mac", "key"} =>
                    job'[u].hub \in keys'[job'[u].kid]
              /\ job'[u].at = "write" =>
                    \A g \in Kids : job'[u].text[g] > 0 => job'[u].from \in keys'[g]
    <3>1. CASE u = t
      <4>1. job'[u].at = at /\ job'[u].hub = h /\ job'[u].kid = k /\ job'[u].op = op
        BY <1>2, <3>1 DEF TakeInv, TakeTypeOK
      <4> QED
        BY <4>1 DEF Begin, kidVars
    <3>2. CASE u # t
      BY <1>2, <2>1, <3>2 DEF Begin, kidVars, TakeInv, TakeTypeOK, JobsAreKeyed
    <3> QED
      BY <3>1, <3>2
  <2> QED
    BY <2>1 DEF JobsAreKeyed
<1>5. SwitchedIsReachable' /\ OneProfileConnects'
  BY DEF Begin, kidVars, TakeInv, SwitchedIsReachable, OneProfileConnects
<1> QED
  BY <1>3, <1>4, <1>5 DEF TakeInv

(* A step that leaves the child and the lists as they are, and takes the   *)
(* request to where its key must be only if it is.                         *)
LEMMA MovesOn ==
    ASSUME TakeInv, NEW t \in Takers, job[t] # NoJob, NEW at \in Places \ {"write"},
           Goes(t, at), UNCHANGED <<kidVars, list, seenBy, switches, byHand, lost>>,
           job[t].op # "align",
           at \notin {"mac", "key"} => job[t].hub \in keys[job[t].kid]
    PROVE TakeInv'
<1>1. TakeTypeOK'
  BY GoesOn DEF TakeInv, TakeTypeOK, kidVars
<1>2. JobsAreKeyed'
  <2>1. /\ \A u \in Takers \ {t} : job'[u] = job[u]
        /\ job'[t].at = at /\ job'[t].hub = job[t].hub /\ job'[t].kid = job[t].kid
        /\ job'[t].op = job[t].op
    BY GoesOn
  <2>2. keys' = keys
    BY DEF kidVars
  <2> QED
    BY <2>1, <2>2 DEF TakeInv, JobsAreKeyed
<1>3. SwitchedIsReachable' /\ OneProfileConnects'
  BY DEF kidVars, TakeInv, SwitchedIsReachable, OneProfileConnects
<1> QED
  BY <1>1, <1>2, <1>3 DEF TakeInv

LEMMA EndsOnly ==
    ASSUME TakeInv, NEW t \in Takers, job[t] # NoJob, NEW ok \in BOOLEAN,
           Ends(t, ok), UNCHANGED <<kidVars, list, seenBy, switches, byHand, lost>>
    PROVE TakeInv'
<1>1. TakeTypeOK'
  BY EndsSo DEF TakeInv, TakeTypeOK, kidVars
<1>2. JobsAreKeyed'
  <2>1. (\A u \in Takers \ {t} : job'[u] = job[u]) /\ job'[t] = NoJob
    BY EndsSo
  <2>2. keys' = keys
    BY DEF kidVars
  <2> QED
    BY <2>1, <2>2 DEF TakeInv, JobsAreKeyed
<1>3. SwitchedIsReachable' /\ OneProfileConnects'
  BY DEF kidVars, TakeInv, SwitchedIsReachable, OneProfileConnects
<1> QED
  BY <1>1, <1>2, <1>3 DEF TakeInv

(* take_child's key: where it is installed, and where it only may be.      *)
LEMMA InstallKeyStep ==
    ASSUME TakeInv, NEW t \in Takers, InstallKey(t)
    PROVE TakeInv'
<1> DEFINE k == job[t].kid
<1>1. job[t] # NoJob /\ job[t] \in Job /\ k \in Kids /\ job[t].hub \in Hubs
  BY DEF InstallKey, At, TakeInv, TakeTypeOK, Job
<1>2. /\ keys' = [keys EXCEPT ![k] = @ \cup {job[t].hub}]
      /\ UNCHANGED <<wifi, via, base, join, unit, sends, list, seenBy, switches, byHand, lost>>
      /\ Goes(t, "wifi") \/ Ends(t, FALSE)
  BY DEF InstallKey
<1>3. /\ keys' \in [Kids -> SUBSET Hubs]
      /\ job[t].hub \in keys'[k]
      /\ \A g \in Kids : keys[g] \subseteq keys'[g]
  BY <1>1, <1>2 DEF TakeInv, TakeTypeOK
<1>4. /\ job' \in [Takers -> Job \cup {NoJob}] /\ jobs' \in Nat
      /\ told' \subseteq Hubs \X Kids /\ crossed' \subseteq Kids
      /\ \A u \in Takers \ {t} : job'[u] = job[u]
      /\ job'[t] = NoJob
           \/ (/\ job'[t].at = "wifi" /\ job'[t].hub = job[t].hub /\ job'[t].kid = k
               /\ job'[t].op # "align")
  <2>1. CASE Goes(t, "wifi")
    <3>1. /\ job' \in [Takers -> Job \cup {NoJob}]
          /\ \A u \in Takers \ {t} : job'[u] = job[u]
          /\ job'[t].at = "wifi" /\ job'[t].hub = job[t].hub /\ job'[t].kid = k
          /\ job'[t].op = job[t].op /\ job[t].op # "align"
          /\ jobs' = jobs /\ told' = told /\ crossed' = crossed
      BY <1>1, <2>1, GoesOn DEF Places, InstallKey, At, TakeInv, JobsAreKeyed
    <3> QED
      BY <3>1 DEF TakeInv, TakeTypeOK
  <2>2. CASE Ends(t, FALSE)
    <3>1. /\ job' \in [Takers -> Job \cup {NoJob}]
          /\ \A u \in Takers \ {t} : job'[u] = job[u]
          /\ job'[t] = NoJob
          /\ told' \subseteq Hubs \X Kids
          /\ jobs' = jobs /\ crossed' = crossed
      BY <1>1, <2>2, EndsSo
    <3> QED
      BY <3>1 DEF TakeInv, TakeTypeOK
  <2> QED
    BY <1>2, <2>1, <2>2
<1>5. TakeTypeOK'
  BY <1>2, <1>3, <1>4 DEF TakeInv, TakeTypeOK
<1>6. JobsAreKeyed'
  <2>1. ASSUME NEW u \in Takers \ {t}, job[u] # NoJob
        PROVE job[u] \in Job /\ job[u].kid \in Kids
    BY <2>1 DEF TakeInv, TakeTypeOK, Job
  <2> QED
    BY <1>3, <1>4, <2>1 DEF TakeInv, JobsAreKeyed
<1>7. SwitchedIsReachable' /\ OneProfileConnects'
  BY <1>2, <1>3 DEF TakeInv, SwitchedIsReachable, OneProfileConnects
<1> QED
  BY <1>5, <1>6, <1>7 DEF TakeInv

(* The switch: only a keyed request gets here, and the child's own profile *)
(* still connects the first time.                                          *)
LEMMA SwitchWifiStep ==
    ASSUME TakeInv, NEW t \in Takers, SwitchWifi(t)
    PROVE TakeInv'
<1> DEFINE k == job[t].kid
<1>1. /\ job[t] # NoJob /\ job[t] \in Job /\ k \in Kids
      /\ job[t].hub \in Hubs /\ job[t].at = "wifi"
  BY DEF SwitchWifi, At, TakeInv, TakeTypeOK, Job
<1>2. job[t].op # "align" /\ job[t].hub \in keys[k]
  BY <1>1 DEF TakeInv, JobsAreKeyed
<1>3. Goes(t, "wait")
      /\ UNCHANGED <<wifi, via, base, keys, sends, list, seenBy, byHand, lost>>
  BY DEF SwitchWifi
<1>4. CASE UNCHANGED <<join, unit, switches>>
  BY <1>1, <1>2, <1>3, <1>4, MovesOn DEF kidVars, Places
<1>5. CASE /\ join' = [join EXCEPT ![k] = [to |-> job[t].hub, auto |-> TRUE]]
           /\ unit' = [unit EXCEPT ![k] = IF @ = "none" THEN "up" ELSE @]
           /\ switches' = [switches EXCEPT ![k] = @ + 1]
  <2>1. /\ join' \in [Kids -> [to : Hubs \cup {NoHub}, auto : BOOLEAN]]
        /\ join'[k].to = job[t].hub /\ join'[k].auto = TRUE
        /\ \A g \in Kids \ {k} : join'[g] = join[g]
    BY <1>1, <1>5 DEF TakeInv, TakeTypeOK
  <2>2. /\ unit' \in [Kids -> {"none", "up", "others"}]
        /\ switches' \in [Kids -> Nat]
        /\ switches'[k] = switches[k] + 1 /\ switches[k] \in Nat
        /\ unit[k] = "none" => unit'[k] = "up"
        /\ \A g \in Kids \ {k} : unit'[g] = unit[g] /\ switches'[g] = switches[g]
    BY <1>1, <1>5 DEF TakeInv, TakeTypeOK
  <2>3. /\ job' \in [Takers -> Job \cup {NoJob}]
        /\ \A u \in Takers \ {t} : job'[u] = job[u]
        /\ job'[t].at = "wait" /\ job'[t].hub = job[t].hub /\ job'[t].kid = k
        /\ job'[t].op = job[t].op /\ jobs' = jobs /\ told' = told /\ crossed' = crossed
    BY <1>1, <1>3, GoesOn DEF Places
  <2>4. TakeTypeOK'
    BY <1>3, <2>1, <2>2, <2>3 DEF TakeInv, TakeTypeOK
  <2>5. JobsAreKeyed'
    BY <1>2, <1>3, <2>3 DEF TakeInv, JobsAreKeyed
  <2>6. SwitchedIsReachable'
    BY <1>2, <1>3, <2>1 DEF TakeInv, SwitchedIsReachable
  <2>7. OneProfileConnects'
    <3>1. switches[k] + 1 <= 1 => switches[k] = 0
      BY <2>2
    <3>2. switches'[k] # 0
      BY <2>2
    <3>3. switches'[k] <= 1 => base[k] /\ unit'[k] = "up"
      BY <1>1, <2>2, <3>1 DEF TakeInv, OneProfileConnects
    <3> QED
      BY <1>1, <1>3, <2>1, <2>2, <3>2, <3>3, TakeAssumption DEF TakeInv, OneProfileConnects
  <2> QED
    BY <2>4, <2>5, <2>6, <2>7 DEF TakeInv
<1> QED
  BY <1>4, <1>5 DEF SwitchWifi

(* A hub's list gains only a child that has the hub's key.                 *)
LEMMA AppendStep ==
    ASSUME TakeInv, NEW t \in Takers, AppendToList(t)
    PROVE TakeInv'
<1> DEFINE k == job[t].kid
           h == job[t].hub
<1>1. /\ job[t] # NoJob /\ job[t] \in Job /\ k \in Kids /\ h \in Hubs
      /\ job[t].at = "append"
  BY DEF AppendToList, At, TakeInv, TakeTypeOK, Job
<1>2. job[t].op # "align" /\ h \in keys[k]
  BY <1>1 DEF TakeInv, JobsAreKeyed
<1>3. Goes(t, "align") /\ UNCHANGED <<kidVars, seenBy, switches, byHand, lost>>
      /\ list' = [list EXCEPT ![h][k] = @ + 1]
  BY DEF AppendToList
<1>4. /\ list' \in [Hubs -> [Kids -> Nat]]
      /\ \A g \in Hubs, c \in Kids : g # h \/ c # k => list'[g][c] = list[g][c]
  BY <1>1, <1>3 DEF TakeInv, TakeTypeOK
<1>5. /\ job' \in [Takers -> Job \cup {NoJob}]
      /\ \A u \in Takers \ {t} : job'[u] = job[u]
      /\ job'[t].at = "align" /\ job'[t].hub = h /\ job'[t].kid = k
      /\ job'[t].op = job[t].op /\ jobs' = jobs /\ told' = told /\ crossed' = crossed
  BY <1>1, <1>3, GoesOn DEF Places
<1>6. TakeTypeOK'
  BY <1>3, <1>4, <1>5 DEF TakeInv, TakeTypeOK, kidVars
<1>7. JobsAreKeyed'
  BY <1>2, <1>3, <1>5 DEF TakeInv, JobsAreKeyed, kidVars
<1>8. SwitchedIsReachable' /\ OneProfileConnects'
  BY <1>2, <1>3, <1>4 DEF TakeInv, SwitchedIsReachable, OneProfileConnects, kidVars
<1> QED
  BY <1>6, <1>7, <1>8 DEF TakeInv

(* The alignment touches where the records go, and ends the request or     *)
(* sends it on to the old list.                                            *)
LEMMA AlignStep ==
    ASSUME TakeInv, NEW t \in Takers, Align(t) \/ AlignFails(t)
    PROVE TakeInv'
<1> DEFINE k == job[t].kid
           h == job[t].hub
<1>1. /\ job[t] # NoJob /\ job[t] \in Job /\ k \in Kids /\ h \in Hubs
      /\ job[t].at = "align"
  BY DEF Align, AlignFails, At, TakeInv, TakeTypeOK, Job
<1>2. job[t].op = "take" => h \in keys[k]
  BY <1>1 DEF TakeInv, JobsAreKeyed
<1>3. UNCHANGED <<wifi, via, base, join, unit, keys, list, seenBy, switches, byHand, lost>>
  BY DEF Align, AlignFails
<1>4. sends' \in [Kids -> [file : Hubs, process : Hubs]]
  <2>1. PICK f \in Hubs, p \in Hubs : sends[k] = [file |-> f, process |-> p]
    BY <1>1 DEF TakeInv, TakeTypeOK
  <2>2. [sends[k] EXCEPT !.file = h] = [file |-> h, process |-> p]
    BY <2>1
  <2>3. \/ sends' = sends
        \/ sends' = [sends EXCEPT ![k] = [file |-> h, process |-> p]]
        \/ sends' = [sends EXCEPT ![k] = [file |-> h, process |-> h]]
    BY <2>2 DEF Align, AlignFails
  <2>4. /\ [file |-> h, process |-> p] \in [file : Hubs, process : Hubs]
        /\ [file |-> h, process |-> h] \in [file : Hubs, process : Hubs]
    BY <1>1
  <2>5. sends \in [Kids -> [file : Hubs, process : Hubs]]
    BY DEF TakeInv, TakeTypeOK
  <2> QED
    BY <1>1, <2>3, <2>4, <2>5
<1>5. /\ job' \in [Takers -> Job \cup {NoJob}] /\ jobs' \in Nat
      /\ told' \subseteq Hubs \X Kids /\ crossed' \subseteq Kids
      /\ \A u \in Takers \ {t} : job'[u] = job[u]
      /\ job'[t] = NoJob
           \/ (/\ job'[t].at = "strip" /\ job'[t].hub = h /\ job'[t].kid = k
               /\ job[t].op = "take" /\ job'[t].op = "take")
  <2>1. CASE Goes(t, "strip") /\ job[t].op = "take"
    <3>1. /\ job' \in [Takers -> Job \cup {NoJob}]
          /\ \A u \in Takers \ {t} : job'[u] = job[u]
          /\ job'[t].at = "strip" /\ job'[t].hub = h /\ job'[t].kid = k
          /\ job'[t].op = job[t].op /\ jobs' = jobs /\ told' = told /\ crossed' = crossed
      BY <1>1, <2>1, GoesOn DEF Places
    <3> QED
      BY <2>1, <3>1 DEF TakeInv, TakeTypeOK
  <2>2. CASE Ends(t, TRUE) \/ Ends(t, FALSE)
    <3>1. PICK ok \in BOOLEAN : Ends(t, ok)
      BY <2>2
    <3>2. /\ job' \in [Takers -> Job \cup {NoJob}]
          /\ \A u \in Takers \ {t} : job'[u] = job[u]
          /\ job'[t] = NoJob
          /\ told' \subseteq Hubs \X Kids
          /\ jobs' = jobs /\ crossed' = crossed
      BY <1>1, <3>1, EndsSo
    <3> QED
      BY <3>2 DEF TakeInv, TakeTypeOK
  <2> QED
    BY <2>1, <2>2 DEF Align, AlignFails
<1>6. TakeTypeOK'
  BY <1>3, <1>4, <1>5 DEF TakeInv, TakeTypeOK
<1>7. JobsAreKeyed'
  BY <1>2, <1>3, <1>5 DEF TakeInv, JobsAreKeyed
<1>8. SwitchedIsReachable' /\ OneProfileConnects'
  BY <1>3 DEF TakeInv, SwitchedIsReachable, OneProfileConnects
<1> QED
  BY <1>6, <1>7, <1>8 DEF TakeInv

(* What is read from the old list names nobody without the old hub's key.  *)
LEMMA ReadOldListStep ==
    ASSUME TakeInv, NEW t \in Takers, ReadOldList(t)
    PROVE TakeInv'
<1>1. /\ job[t] # NoJob /\ job[t] \in Job /\ job[t].at = "strip"
      /\ UNCHANGED <<kidVars, list, seenBy, switches, byHand, lost>>
  BY DEF ReadOldList, At, TakeInv, TakeTypeOK
<1>2. CASE Ends(t, TRUE)
  BY <1>1, <1>2, EndsOnly
<1>3. CASE /\ Holds(t, list[job[t].from])
           /\ UNCHANGED <<jobs, told, crossed>>
  <2> DEFINE i == [job[t] EXCEPT !.at = "write"]
             f == job[t].from
             j == [i EXCEPT !.text = list[f]]
  <2>1. f \in Hubs /\ list[f] \in [Kids -> Nat]
    BY <1>1 DEF Job, TakeInv, TakeTypeOK
  <2>2. i \in Job /\ i.hub = job[t].hub /\ i.from = f /\ i.kid = job[t].kid /\ i.op = job[t].op
    BY <1>1, JobGoesOn DEF Places
  <2> HIDE DEF i
  <2>3. /\ j \in Job
        /\ j.hub = job[t].hub /\ j.from = f /\ j.kid = job[t].kid /\ j.text = list[f]
        /\ j.op = job[t].op
    BY <2>1, <2>2, JobHolds
  <2>4. job' = [job EXCEPT ![t] = j]
    BY <1>3 DEF Holds, i
  <2> HIDE DEF j
  <2>5. /\ job' \in [Takers -> Job \cup {NoJob}]
        /\ job'[t] = j /\ \A u \in Takers \ {t} : job'[u] = job[u]
    BY <2>3, <2>4 DEF TakeInv, TakeTypeOK
  <2>6. TakeTypeOK'
    BY <1>1, <1>3, <2>5 DEF TakeInv, TakeTypeOK, kidVars
  <2>7. JobsAreKeyed'
    <3>1. job[t].op # "align" /\ job[t].hub \in keys[job[t].kid]
      BY <1>1 DEF TakeInv, JobsAreKeyed
    <3>2. \A c \in Kids : list[f][c] > 0 => f \in keys[c]
      BY <2>1 DEF TakeInv, SwitchedIsReachable
    <3> QED
      BY <1>1, <2>3, <2>5, <3>1, <3>2 DEF TakeInv, JobsAreKeyed, kidVars
  <2>8. SwitchedIsReachable' /\ OneProfileConnects'
    BY <1>1 DEF kidVars, TakeInv, SwitchedIsReachable, OneProfileConnects
  <2> QED
    BY <2>6, <2>7, <2>8 DEF TakeInv
<1> QED
  BY <1>2, <1>3 DEF ReadOldList

(* What is written back is what was read, without the child.               *)
LEMMA WriteOldListStep ==
    ASSUME TakeInv, NEW t \in Takers, WriteOldList(t)
    PROVE TakeInv'
<1> DEFINE f == job[t].from
           text == [job[t].text EXCEPT ![job[t].kid] = 0]
<1>1. /\ job[t] # NoJob /\ job[t] \in Job /\ job[t].at = "write"
      /\ f \in Hubs /\ job[t].text \in [Kids -> Nat] /\ job[t].kid \in Kids
      /\ UNCHANGED <<kidVars, seenBy, switches, byHand>>
      /\ Ends(t, TRUE)
  BY DEF WriteOldList, At, TakeInv, TakeTypeOK, Job
<1>2. text \in [Kids -> Nat] /\ \A c \in Kids : text[c] > 0 => f \in keys[c]
  BY <1>1 DEF TakeInv, JobsAreKeyed
<1>3. \/ list' = list /\ lost' = lost
      \/ \E kept \in SUBSET Kids :
            /\ list' = [list EXCEPT ![f] = [c \in Kids |-> IF c \in kept THEN text[c] ELSE 0]]
            /\ lost' = lost \cup {c \in Kids \ kept : text[c] > 0}
  BY DEF WriteOldList
<1> HIDE DEF text
<1>4. /\ list' \in [Hubs -> [Kids -> Nat]] /\ lost' \subseteq Kids
      /\ \A g \in Hubs, c \in Kids : list'[g][c] > 0 => g \in keys[c]
  <2>1. /\ list \in [Hubs -> [Kids -> Nat]] /\ lost \subseteq Kids
        /\ \A g \in Hubs, c \in Kids : list[g][c] > 0 => g \in keys[c]
    BY DEF TakeInv, TakeTypeOK, SwitchedIsReachable
  <2>2. CASE list' = list /\ lost' = lost
    BY <2>1, <2>2
  <2>3. ASSUME NEW kept \in SUBSET Kids,
               list' = [list EXCEPT ![f] = [c \in Kids |-> IF c \in kept THEN text[c] ELSE 0]],
               lost' = lost \cup {c \in Kids \ kept : text[c] > 0}
        PROVE /\ list' \in [Hubs -> [Kids -> Nat]] /\ lost' \subseteq Kids
              /\ \A g \in Hubs, c \in Kids : list'[g][c] > 0 => g \in keys[c]
    <3> DEFINE x == [c \in Kids |-> IF c \in kept THEN text[c] ELSE 0]
    <3>1. x \in [Kids -> Nat] /\ \A c \in Kids : x[c] > 0 => f \in keys[c]
      BY <1>2
    <3>2. list' = [list EXCEPT ![f] = x]
      BY <2>3
    <3> HIDE DEF x
    <3>3. list'[f] = x /\ \A g \in Hubs \ {f} : list'[g] = list[g]
      BY <1>1, <2>1, <3>2
    <3>4. list' \in [Hubs -> [Kids -> Nat]]
      BY <1>1, <2>1, <3>1, <3>2
    <3>5. lost' \subseteq Kids
      BY <2>1, <2>3
    <3> QED
      BY <2>1, <3>1, <3>3, <3>4, <3>5
  <2> QED
    BY <1>3, <2>2, <2>3
<1>5. /\ job' \in [Takers -> Job \cup {NoJob}]
      /\ \A u \in Takers \ {t} : job'[u] = job[u]
      /\ job'[t] = NoJob
      /\ told' \subseteq Hubs \X Kids
      /\ jobs' = jobs /\ crossed' = crossed
  BY <1>1, EndsSo
<1>6. TakeTypeOK'
  BY <1>1, <1>4, <1>5 DEF TakeInv, TakeTypeOK, kidVars
<1>7. JobsAreKeyed'
  BY <1>1, <1>5 DEF TakeInv, JobsAreKeyed, kidVars
<1>8. SwitchedIsReachable' /\ OneProfileConnects'
  BY <1>1, <1>4 DEF kidVars, TakeInv, SwitchedIsReachable, OneProfileConnects
<1> QED
  BY <1>6, <1>7, <1>8 DEF TakeInv

(* The server or the terminal is ended in the middle.                      *)
LEMMA CutStep ==
    ASSUME TakeInv, NEW t \in Takers, RequestCut(t)
    PROVE TakeInv'
<1>1. /\ job' \in [Takers -> Job \cup {NoJob}] /\ job'[t] = NoJob
      /\ \A u \in Takers \ {t} : job'[u] = job[u]
  BY DEF RequestCut, TakeInv, TakeTypeOK
<1>2. crossed' \subseteq Kids
  BY DEF RequestCut, TakeInv, TakeTypeOK, Job
<1>3. UNCHANGED <<kidVars, list, seenBy, jobs, switches, told, byHand, lost>>
  BY DEF RequestCut
<1>4. TakeTypeOK'
  BY <1>1, <1>2, <1>3 DEF TakeInv, TakeTypeOK, kidVars
<1>5. JobsAreKeyed'
  BY <1>1, <1>3 DEF TakeInv, JobsAreKeyed, kidVars
<1>6. SwitchedIsReachable' /\ OneProfileConnects'
  BY <1>3 DEF kidVars, TakeInv, SwitchedIsReachable, OneProfileConnects
<1> QED
  BY <1>4, <1>5, <1>6 DEF TakeInv

-----------------------------------------------------------------------------
(* The child: what it joins is a hub, and it hands out and takes back no   *)
(* key and no place on a list.                                             *)
LEMMA JoinsOrDrops ==
    ASSUME TakeInv, NEW k \in Kids,
           \/ Drops(k) \/ Joins(k, "base")
           \/ join[k].to # NoHub /\ Joins(k, "join")
    PROVE /\ wifi' \in [Kids -> Hubs \cup {NoHub}]
          /\ via' \in [Kids -> {"base", "join", "none"}]
          /\ seenBy' \in [Kids -> SUBSET Hubs]
          /\ \A g \in Kids : wifi'[g] = NoHub <=> via'[g] = "none"
<1>1. join[k].to \in Hubs \cup {NoHub}
  BY DEF TakeInv, TakeTypeOK
<1>2. /\ wifi \in [Kids -> Hubs \cup {NoHub}]
      /\ via \in [Kids -> {"base", "join", "none"}]
      /\ seenBy \in [Kids -> SUBSET Hubs]
      /\ \A g \in Kids : wifi[g] = NoHub <=> via[g] = "none"
  BY DEF TakeInv, TakeTypeOK
<1>3. CASE Drops(k)
  BY <1>2, <1>3 DEF Drops
<1>4. CASE Joins(k, "base")
  BY <1>2, <1>4, TakeAssumption DEF Joins
<1>5. CASE join[k].to # NoHub /\ Joins(k, "join")
  BY <1>1, <1>2, <1>5, TakeAssumption DEF Joins
<1> QED
  BY <1>3, <1>4, <1>5

LEMMA ChildStep ==
    ASSUME TakeInv, NEW k \in Kids, KidStep(k)
    PROVE TakeInv'
<1>1. /\ UNCHANGED serverVars
      /\ \A g \in Kids : join'[g].to = join[g].to
      /\ join' \in [Kids -> [to : Hubs \cup {NoHub}, auto : BOOLEAN]]
      /\ base' \in [Kids -> BOOLEAN]
      /\ unit' \in [Kids -> {"none", "up", "others"}]
  <2>1. UNCHANGED serverVars
    BY DEF KidStep, SwitchUp, SwitchOthersOff, SwitchFails, Autoconnect, KidOff
  <2>2. \/ base' = base
        \/ base' = [base EXCEPT ![k] = FALSE]
    BY DEF KidStep, SwitchUp, SwitchOthersOff, SwitchFails, Autoconnect, KidOff
  <2>3. \/ unit' = unit
        \/ unit' = [unit EXCEPT ![k] = "others"]
        \/ unit' = [unit EXCEPT ![k] = "none"]
    BY DEF KidStep, SwitchUp, SwitchOthersOff, SwitchFails, Autoconnect, KidOff
  <2>4. join' = join \/ join' = [join EXCEPT ![k].auto = FALSE]
    BY DEF KidStep, SwitchUp, SwitchOthersOff, SwitchFails, Autoconnect, KidOff
  <2>5. join \in [Kids -> [to : Hubs \cup {NoHub}, auto : BOOLEAN]]
    BY DEF TakeInv, TakeTypeOK
  <2>6. /\ \A g \in Kids : join'[g].to = join[g].to
        /\ join' \in [Kids -> [to : Hubs \cup {NoHub}, auto : BOOLEAN]]
    <3>1. CASE join' = join
      BY <2>5, <3>1
    <3>2. CASE join' = [join EXCEPT ![k].auto = FALSE]
      <4> DEFINE r == [join[k] EXCEPT !.auto = FALSE]
      <4>1. r \in [to : Hubs \cup {NoHub}, auto : BOOLEAN] /\ r.to = join[k].to
        BY <2>5
      <4>2. join' = [join EXCEPT ![k] = r]
        BY <3>2
      <4> HIDE DEF r
      <4> QED
        BY <2>5, <4>1, <4>2
    <3> QED
      BY <2>4, <3>1, <3>2
  <2>7. base \in [Kids -> BOOLEAN] /\ unit \in [Kids -> {"none", "up", "others"}]
    BY DEF TakeInv, TakeTypeOK
  <2> QED
    BY <2>1, <2>2, <2>3, <2>6, <2>7
<1>2. /\ wifi' \in [Kids -> Hubs \cup {NoHub}]
      /\ via' \in [Kids -> {"base", "join", "none"}]
      /\ seenBy' \in [Kids -> SUBSET Hubs]
      /\ \A g \in Kids : wifi'[g] = NoHub <=> via'[g] = "none"
  <2>1. \/ Drops(k) \/ Joins(k, "base")
        \/ join[k].to # NoHub /\ Joins(k, "join")
        \/ UNCHANGED <<wifi, via, seenBy>>
    <3>1. (unit[k] = "up" \/ join[k].auto) => join[k].to # NoHub
      BY DEF TakeInv, OneProfileConnects
    <3> QED
      BY <3>1
      DEF KidStep, SwitchUp, SwitchOthersOff, SwitchFails, Autoconnect, KidOff
  <2>2. CASE UNCHANGED <<wifi, via, seenBy>>
    BY <2>2 DEF TakeInv, TakeTypeOK
  <2> QED
    BY <2>1, <2>2, JoinsOrDrops
<1>3. TakeTypeOK'
  BY <1>1, <1>2 DEF TakeInv, TakeTypeOK, serverVars
<1>4. JobsAreKeyed'
  BY <1>1 DEF TakeInv, JobsAreKeyed, serverVars
<1>5. SwitchedIsReachable'
  BY <1>1 DEF TakeInv, SwitchedIsReachable, serverVars
<1>6. OneProfileConnects'
  <2>1. \A g \in Kids \ {k} : base'[g] = base[g] /\ join'[g] = join[g] /\ unit'[g] = unit[g]
    BY DEF KidStep, SwitchUp, SwitchOthersOff, SwitchFails, Autoconnect, KidOff,
           TakeInv, TakeTypeOK
  <2>2. switches' = switches
    BY <1>1 DEF serverVars
  <2>3. /\ join[k].to = NoHub => ~join[k].auto /\ unit[k] = "none"
        /\ switches[k] = 0 => base[k] /\ unit[k] = "none"
        /\ switches[k] <= 1 =>
              /\ base[k] \/ join[k].auto
              /\ unit[k] = "up" => base[k] /\ join[k].auto
              /\ unit[k] = "others" => join[k].auto
    BY DEF TakeInv, OneProfileConnects
  <2>4. /\ join'[k].to = NoHub => ~join'[k].auto /\ unit'[k] = "none"
        /\ switches[k] = 0 => base'[k] /\ unit'[k] = "none"
        /\ switches[k] <= 1 =>
              /\ base'[k] \/ join'[k].auto
              /\ unit'[k] = "up" => base'[k] /\ join'[k].auto
              /\ unit'[k] = "others" => join'[k].auto
    <3>1. CASE SwitchUp(k)
      BY <2>3, <3>1 DEF SwitchUp, TakeInv, TakeTypeOK
    <3>2. CASE SwitchOthersOff(k)
      <4>1. base'[k] = FALSE /\ unit'[k] = "none" /\ join'[k] = join[k]
        BY <3>2 DEF SwitchOthersOff, TakeInv, TakeTypeOK
      <4>2. unit[k] = "others" /\ unit[k] # "none"
        BY <3>2 DEF SwitchOthersOff
      <4> QED
        BY <2>3, <4>1, <4>2
    <3>3. CASE SwitchFails(k)
      BY <2>3, <3>3 DEF SwitchFails, TakeInv, TakeTypeOK
    <3>4. CASE Autoconnect(k)
      BY <2>3, <3>4 DEF Autoconnect
    <3>5. CASE KidOff(k)
      BY <2>3, <3>5 DEF KidOff, TakeInv, TakeTypeOK
    <3> QED
      BY <3>1, <3>2, <3>3, <3>4, <3>5 DEF KidStep
  <2> QED
    BY <2>1, <2>2, <2>3, <2>4 DEF TakeInv, OneProfileConnects
<1> QED
  BY <1>3, <1>4, <1>5, <1>6 DEF TakeInv

-----------------------------------------------------------------------------
LEMMA TakeInvStep == TakeInv /\ [TakeNext]_takeVars => TakeInv'
<1> SUFFICES ASSUME TakeInv, [TakeNext]_takeVars PROVE TakeInv'
  OBVIOUS
<1>1. ASSUME NEW t \in Takers, NEW h \in Hubs, NEW from \in Hubs, NEW k \in Kids,
             Take(t, h, from, k)
      PROVE TakeInv'
  BY <1>1, BeginStep DEF Take, Places
<1>2. ASSUME NEW t \in Takers, NEW h \in Hubs, NEW k \in Kids, Adopt(t, h, k)
      PROVE TakeInv'
  BY <1>2, BeginStep DEF Adopt, Reaches, Places
<1>3. ASSUME NEW t \in Takers, NEW h \in Hubs, NEW k \in Kids, AlignCommand(t, h, k)
      PROVE TakeInv'
  BY <1>3, BeginStep DEF AlignCommand, Places
<1>4. ASSUME NEW t \in Takers, TakeStep(t) PROVE TakeInv'
  <2>1. CASE GetMac(t)
    BY <2>1, MovesOn DEF GetMac, At, Places, TakeInv, JobsAreKeyed
  <2>2. CASE InstallKey(t)
    BY <2>2, InstallKeyStep
  <2>3. CASE SwitchWifi(t)
    BY <2>3, SwitchWifiStep
  <2>4. CASE WaitReturns(t)
    <3>1. job[t].op # "align" /\ job[t].hub \in keys[job[t].kid]
      BY <2>4 DEF WaitReturns, At, TakeInv, JobsAreKeyed
    <3> QED
      BY <2>4, <3>1, MovesOn DEF WaitReturns, At, Places
  <2>5. CASE RequestFails(t)
    BY <2>5, EndsOnly DEF RequestFails, At
  <2>6. CASE LookInList(t)
    <3>1. job[t].op # "align" /\ job[t].hub \in keys[job[t].kid]
      BY <2>6 DEF LookInList, At, TakeInv, JobsAreKeyed
    <3>2. PICK at \in {"align", "append"} : Goes(t, at)
      BY <2>6 DEF LookInList
    <3> QED
      BY <2>6, <3>1, <3>2, MovesOn DEF LookInList, At, Places
  <2>7. CASE AppendToList(t)
    BY <2>7, AppendStep
  <2>8. CASE Align(t) \/ AlignFails(t)
    BY <2>8, AlignStep
  <2>9. CASE ReadOldList(t)
    BY <2>9, ReadOldListStep
  <2>10. CASE WriteOldList(t)
    BY <2>10, WriteOldListStep
  <2> QED
    BY <1>4, <2>1, <2>2, <2>3, <2>4, <2>5, <2>6, <2>7, <2>8, <2>9, <2>10 DEF TakeStep
<1>5. ASSUME NEW t \in Takers, RequestCut(t) PROVE TakeInv'
  BY <1>5, CutStep
<1>6. ASSUME NEW k \in Kids, KidStep(k) PROVE TakeInv'
  BY <1>6, ChildStep
<1>7. CASE UNCHANGED takeVars
  BY <1>7 DEF takeVars, kidVars, TakeInv, TakeTypeOK, SwitchedIsReachable,
              JobsAreKeyed, OneProfileConnects
<1> QED
  BY <1>1, <1>2, <1>3, <1>4, <1>5, <1>6, <1>7 DEF TakeNext

LEMMA TakeInvAlways == TakeSpec => []TakeInv
<1> QED
  BY TakeInvInit, TakeInvStep, PTL DEF TakeSpec

(* A child is never out of its hubs' hands, however often it is moved,     *)
(* whatever is cut short or answered wrongly: the hub whose Wi-Fi it was   *)
(* told to join, and every hub that lists it, has its key there            *)
(* (take_child, adopt_keeping_identity).                                   *)
THEOREM HubsHaveTheirKeys == TakeSpec => []SwitchedIsReachable
<1>1. TakeInv => SwitchedIsReachable
  BY DEF TakeInv
<1> QED
  BY <1>1, TakeInvAlways, PTL

(* A child's first switch never leaves it without a Wi-Fi to go to, where  *)
(* ever the power goes and however the unit ends (WIFI_INSTALL).           *)
THEOREM FirstSwitchNeverStrands == TakeSpec => []FirstSwitchIsSafe
<1>1. TakeInv => FirstSwitchIsSafe
  BY DEF TakeInv, OneProfileConnects, FirstSwitchIsSafe, Stranded
<1> QED
  BY <1>1, TakeInvAlways, PTL

(* The requests, the lists and what the children are given stay what they  *)
(* are declared to be; a child is in a Wi-Fi just if it is in it by a      *)
(* profile.                                                                *)
THEOREM TakeTypeCorrect == TakeSpec => []TakeTypeOK
<1>1. TakeInv => TakeTypeOK
  BY DEF TakeInv
<1> QED
  BY <1>1, TakeInvAlways, PTL

-----------------------------------------------------------------------------
(* Bringing a child over: the lists of the hubs, and where records go.     *)

(* As long as no two requests overlapped there is one at a time.           *)
OneAtATime ==
    crossed # Kids =>
        \A t, u \in Takers : job[t] # NoJob /\ job[u] # NoJob => t = u

(* Where a request is tells what it did: the child is on its hub's list    *)
(* from the append on and not before, it sends there once it is aligned,   *)
(* and the copy of the old list is that list.  A mere alignment of a child *)
(* that is not on the list has been noted.                                 *)
JobsAreOnTheWay ==
    \A t \in Takers : job[t] # NoJob =>
        /\ job[t].at \notin {"list", "append", "align"} => job[t].op = "take"
        /\ job[t].op = "take" => job[t].hub # job[t].from
        /\ crossed # Kids =>
              /\ job[t].op # "align" =>
                    (job[t].at \in {"align", "strip", "write"}
                        <=> list[job[t].hub][job[t].kid] > 0)
              /\ job[t].op = "align" =>
                    list[job[t].hub][job[t].kid] > 0 \/ <<job[t].hub, job[t].kid>> \in byHand
              /\ job[t].at \in {"strip", "write"} =>
                    sends[job[t].kid] = [file |-> job[t].hub, process |-> job[t].hub]
              /\ job[t].at = "write" => job[t].text = list[job[t].from]

(* A child whose requests did not meet, and that no cut write lost, is at  *)
(* most once on a list, and on one at least.                               *)
ListedOnce ==
    \A k \in Kids \ (crossed \cup lost) :
        /\ \A h \in Hubs : list[h][k] <= 1
        /\ \E h \in Hubs : list[h][k] = 1

(* Only the alignment itself has still to be made or told of: before it    *)
(* the child is not on the new list, after it the records go there.        *)
SettledOrAligning ==
    \A h \in Hubs, k \in Kids \ (crossed \cup lost) :
        list[h][k] > 0 /\ (\A g \in Hubs \ {h} : list[g][k] = 0)
            => \/ sends[k] = [file |-> h, process |-> h]
               \/ <<h, k>> \in told
               \/ SentByHand(k)
               \/ \E t \in Takers : /\ job[t] # NoJob /\ job[t].at = "align"
                                    /\ job[t].hub = h /\ job[t].kid = k

ListInv ==
    /\ OneAtATime
    /\ JobsAreOnTheWay
    /\ ListedOnce
    /\ SettledOrAligning

-----------------------------------------------------------------------------
LEMMA ListInvInit == TakeInit => ListInv
<1> SUFFICES ASSUME TakeInit PROVE ListInv
  OBVIOUS
<1>1. ListedOnce
  BY TakeAssumption DEF TakeInit, ListedOnce
<1>2. SettledOrAligning
  BY TakeAssumption DEF TakeInit, SettledOrAligning
<1> QED
  BY <1>1, <1>2 DEF TakeInit, ListInv, OneAtATime, JobsAreOnTheWay

LEMMA Alone ==
    ASSUME ListInv, NEW t \in Takers, job[t] # NoJob, crossed # Kids
    PROVE \A u \in Takers \ {t} : job[u] = NoJob
BY DEF ListInv, OneAtATime

(* The end of a request that leaves the lists as they are.                 *)
LEMMA EndsInList ==
    ASSUME TakeInv, ListInv, NEW t \in Takers, job[t] # NoJob, NEW ok \in BOOLEAN,
           Ends(t, ok), list' = list,
           \A k \in Kids \ {job[t].kid} : sends'[k] = sends[k],
           byHand' = byHand, lost' = lost,
           ok /\ crossed # Kids =>
                   /\ job[t].at \in {"align", "strip", "write"}
                   /\ sends'[job[t].kid] = [file |-> job[t].hub, process |-> job[t].hub],
           ~ok => \/ sends' = sends
                  \/ job[t].at = "align" /\ sends'[job[t].kid].file = job[t].hub
    PROVE ListInv'
<1> DEFINE c == job[t].kid
           b == job[t].hub
<1>1. /\ job' \in [Takers -> Job \cup {NoJob}]
      /\ \A u \in Takers \ {t} : job'[u] = job[u]
      /\ job'[t] = NoJob
      /\ crossed' = crossed
  BY EndsSo
<1>2. c \in Kids /\ b \in Hubs
  BY DEF TakeInv, TakeTypeOK, Job
<1>3. told' = IF ok THEN told \ {<<b, c>>} ELSE told \cup {<<b, c>>}
  BY DEF Ends
<1>4. OneAtATime'
  BY <1>1 DEF ListInv, OneAtATime
<1>5. JobsAreOnTheWay'
  <2>1. ASSUME NEW u \in Takers, job'[u] # NoJob
        PROVE /\ job'[u] = job[u] /\ job[u] # NoJob
              /\ crossed = Kids
    BY <1>1, <2>1, Alone
  <2> QED
    BY <1>1, <2>1 DEF ListInv, JobsAreOnTheWay
<1>6. ListedOnce'
  BY <1>1 DEF ListInv, ListedOnce
<1>7. SettledOrAligning'
  <2> SUFFICES ASSUME NEW h \in Hubs, NEW k \in Kids \ (crossed \cup lost),
                      list[h][k] > 0, \A g \in Hubs \ {h} : list[g][k] = 0
               PROVE \/ sends'[k] = [file |-> h, process |-> h]
                     \/ <<h, k>> \in told'
                     \/ SentByHand(k)'
    BY <1>1 DEF SettledOrAligning
  <2>1. crossed # Kids
    OBVIOUS
  <2>2. \/ sends[k] = [file |-> h, process |-> h]
        \/ <<h, k>> \in told
        \/ SentByHand(k)
        \/ job[t].at = "align" /\ b = h /\ c = k
    BY <2>1, Alone DEF ListInv, SettledOrAligning
  <2>3. sends'[k] = sends[k] => (SentByHand(k) => SentByHand(k)')
    BY DEF SentByHand
  <2>4. CASE k # c
    <3>1. sends'[k] = sends[k] /\ (<<h, k>> \in told => <<h, k>> \in told')
      BY <1>3, <2>4
    <3> QED
      BY <2>2, <2>3, <2>4, <3>1
  <2>5. CASE k = c /\ h = b
    <3>1. CASE ok
      BY <2>1, <2>5, <3>1
    <3>2. CASE ~ok
      BY <1>3, <2>5, <3>2
    <3> QED
      BY <3>1, <3>2
  <2>6. CASE k = c /\ h # b
    <3>1. list[b][c] = 0
      BY <1>2, <2>6
    <3>2. job[t].at \in {"align", "strip", "write"} => <<b, c>> \in byHand
      BY <2>1, <3>1 DEF ListInv, JobsAreOnTheWay
    <3>3. CASE sends' = sends /\ ~ok
      <4>1. <<h, k>> \in told => <<h, k>> \in told'
        BY <1>3, <3>3
      <4> QED
        BY <2>2, <2>3, <2>6, <3>3, <4>1
    <3>4. CASE sends'[c].file = b /\ <<b, c>> \in byHand
      BY <1>2, <2>6, <3>4 DEF SentByHand
    <3>5. ok => sends'[c].file = b
      BY <2>1
    <3> QED
      BY <2>1, <3>2, <3>3, <3>4, <3>5
  <2> QED
    BY <2>4, <2>5, <2>6
<1> QED
  BY <1>4, <1>5, <1>6, <1>7 DEF ListInv

(* A step to another place that leaves the lists as they are.              *)
LEMMA MovesInList ==
    ASSUME TakeInv, ListInv, NEW t \in Takers, job[t] # NoJob,
           NEW at \in Places \ {"write"}, Goes(t, at), list' = list,
           at \notin {"list", "append", "align"} => job[t].op = "take",
           crossed # Kids => (/\ at \in {"align", "strip"}
                                   <=> job[t].at \in {"align", "strip", "write"}
                              /\ job[t].at # "align" => at # "strip" /\ sends' = sends),
           \A k \in Kids \ {job[t].kid} : sends'[k] = sends[k],
           byHand' = byHand, lost' = lost,
           job[t].at = "align" =>
               at = "strip" /\ sends'[job[t].kid] = [file |-> job[t].hub, process |-> job[t].hub]
    PROVE ListInv'
<1> DEFINE c == job[t].kid
           b == job[t].hub
<1>1. /\ \A u \in Takers \ {t} : job'[u] = job[u]
      /\ job'[t] # NoJob /\ job'[t].at = at /\ job'[t].op = job[t].op
      /\ job'[t].hub = b /\ job'[t].kid = c /\ job'[t].from = job[t].from
      /\ told' = told /\ crossed' = crossed
  BY GoesOn
<1>2. c \in Kids /\ b \in Hubs /\ job[t].op # "align"
  BY DEF TakeInv, TakeTypeOK, Job, JobsAreKeyed
<1>3. OneAtATime'
  BY <1>1 DEF ListInv, OneAtATime
<1>4. JobsAreOnTheWay'
  <2>1. ASSUME NEW u \in Takers \ {t}, job'[u] # NoJob
        PROVE job'[u] = job[u] /\ job[u] # NoJob /\ crossed = Kids
    BY <1>1, <2>1, Alone
  <2>2. /\ at \notin {"list", "append", "align"} => job[t].op = "take"
        /\ job[t].op = "take" => b # job[t].from
        /\ crossed # Kids =>
              /\ at \in {"align", "strip", "write"} <=> list[b][c] > 0
              /\ at \in {"strip", "write"} => sends'[c] = [file |-> b, process |-> b]
              /\ at = "write" => job'[t].text = list[job[t].from]
    BY <1>2 DEF ListInv, JobsAreOnTheWay
  <2> QED
    BY <1>1, <1>2, <2>1, <2>2 DEF ListInv, JobsAreOnTheWay
<1>5. ListedOnce'
  BY <1>1 DEF ListInv, ListedOnce
<1>6. SettledOrAligning'
  <2> SUFFICES ASSUME NEW h \in Hubs, NEW k \in Kids \ (crossed \cup lost),
                      list[h][k] > 0, \A g \in Hubs \ {h} : list[g][k] = 0
               PROVE \/ sends'[k] = [file |-> h, process |-> h]
                     \/ <<h, k>> \in told'
                     \/ SentByHand(k)'
    BY <1>1 DEF SettledOrAligning
  <2>1. crossed # Kids
    OBVIOUS
  <2>2. \/ sends[k] = [file |-> h, process |-> h]
        \/ <<h, k>> \in told
        \/ SentByHand(k)
        \/ job[t].at = "align" /\ b = h /\ c = k
    BY <2>1, Alone DEF ListInv, SettledOrAligning
  <2>3. CASE job[t].at # "align" \/ k # c
    <3>1. sends'[k] = sends[k] /\ told' = told
      BY <1>1, <2>1, <2>3
    <3> QED
      BY <2>2, <2>3, <3>1 DEF SentByHand
  <2>4. CASE job[t].at = "align" /\ k = c
    <3>1. list[b][c] > 0
      BY <1>2, <2>1, <2>4 DEF ListInv, JobsAreOnTheWay
    <3>2. h # b => list[b][c] = 0
      BY <1>2, <2>4
    <3> QED
      BY <2>4, <3>1, <3>2
  <2> QED
    BY <2>3, <2>4
<1> QED
  BY <1>3, <1>4, <1>5, <1>6 DEF ListInv

(* A request begins: the only one, or the histories meet from now on.      *)
LEMMA BeginInList ==
    ASSUME TakeInv, ListInv, NEW t \in Takers, NEW op \in {"take", "adopt", "align"},
           NEW h \in Hubs, NEW from \in Hubs, NEW k \in Kids, NEW at \in {"mac", "list", "align"},
           Begin(t, op, h, from, k, at),
           at = "mac" => op = "take", op = "take" => h # from,
           IF op = "align" THEN at = "align" ELSE at # "align" /\ list[h][k] = 0
    PROVE ListInv'
<1> DEFINE j == [op |-> op, hub |-> h, from |-> from, kid |-> k, at |-> at,
                 text |-> list[h]]
<1>1. j \in Job
  BY DEF TakeInv, TakeTypeOK, Job, Places
<1>2. /\ job[t] = NoJob
      /\ job' = [job EXCEPT ![t] = j]
      /\ job'[t] = j /\ \A u \in Takers \ {t} : job'[u] = job[u]
  BY <1>1 DEF Begin, TakeInv, TakeTypeOK
<1>3. /\ list' = list /\ told' = told /\ sends' = sends
      /\ crossed' # Kids => crossed' = crossed /\ \A u \in Takers : job[u] = NoJob
      /\ crossed \subseteq crossed' /\ lost' = lost /\ byHand \subseteq byHand'
      /\ op = "align" => list[h][k] > 0 \/ <<h, k>> \in byHand'
  BY DEF Begin, kidVars, TakeInv, TakeTypeOK
<1>4. OneAtATime'
  BY <1>2, <1>3 DEF OneAtATime
<1>5. JobsAreOnTheWay'
  <2>1. ASSUME NEW u \in Takers \ {t}, job'[u] # NoJob
        PROVE job'[u] = job[u] /\ job[u] # NoJob /\ crossed' = Kids
    BY <1>2, <1>3, <2>1
  <2>2. /\ job'[t].at = at /\ job'[t].op = op /\ job'[t].hub = h /\ job'[t].kid = k
        /\ job'[t].from = from
    BY <1>2
  <2> QED
    BY <1>3, <2>1, <2>2 DEF ListInv, JobsAreOnTheWay
<1>6. ListedOnce'
  BY <1>3 DEF ListInv, ListedOnce
<1>7. SettledOrAligning'
  <2> SUFFICES ASSUME NEW g \in Hubs, NEW e \in Kids \ (crossed' \cup lost),
                      list[g][e] > 0, \A f \in Hubs \ {g} : list[f][e] = 0
               PROVE \/ sends[e] = [file |-> g, process |-> g]
                     \/ <<g, e>> \in told
                     \/ SentByHand(e)'
    BY <1>3 DEF SettledOrAligning
  <2>1. e \in Kids \ (crossed \cup lost) /\ \A u \in Takers : job[u] = NoJob
    BY <1>3
  <2>2. SentByHand(e) => SentByHand(e)'
    BY <1>3 DEF SentByHand
  <2> QED
    BY <2>1, <2>2 DEF ListInv, SettledOrAligning
<1> QED
  BY <1>4, <1>5, <1>6, <1>7 DEF ListInv

LEMMA AppendInList ==
    ASSUME TakeInv, ListInv, NEW t \in Takers, AppendToList(t)
    PROVE ListInv'
<1> DEFINE c == job[t].kid
           b == job[t].hub
<1>1. /\ job[t] # NoJob /\ job[t].at = "append" /\ c \in Kids /\ b \in Hubs
      /\ list' = [list EXCEPT ![b][c] = @ + 1] /\ Goes(t, "align") /\ sends' = sends
      /\ byHand' = byHand /\ lost' = lost /\ job[t].op # "align"
  BY DEF AppendToList, At, kidVars, TakeInv, TakeTypeOK, Job, JobsAreKeyed
<1>2. /\ \A u \in Takers \ {t} : job'[u] = job[u]
      /\ job'[t] # NoJob /\ job'[t].at = "align" /\ job'[t].op = job[t].op
      /\ job'[t].hub = b /\ job'[t].kid = c /\ job'[t].from = job[t].from
      /\ told' = told /\ crossed' = crossed
  BY <1>1, GoesOn DEF Places
<1>3. /\ list'[b][c] = list[b][c] + 1
      /\ \A h \in Hubs, k \in Kids : h # b \/ k # c => list'[h][k] = list[h][k]
      /\ list[b][c] \in Nat
  <2>1. list \in [Hubs -> [Kids -> Nat]]
    BY DEF TakeInv, TakeTypeOK
  <2> QED
    BY <1>1, <2>1
<1>4. crossed # Kids => list'[b][c] = 1
  <2>1. crossed # Kids => ~(list[b][c] > 0)
    BY <1>1 DEF ListInv, JobsAreOnTheWay
  <2> QED
    BY <1>3, <2>1
<1>5. OneAtATime'
  BY <1>1, <1>2 DEF ListInv, OneAtATime
<1>6. JobsAreOnTheWay'
  <2>1. ASSUME NEW u \in Takers \ {t}, job'[u] # NoJob
        PROVE job'[u] = job[u] /\ job[u] # NoJob /\ crossed = Kids
    BY <1>1, <1>2, <2>1, Alone
  <2>2. job[t].op = "take" => b # job[t].from
    BY <1>1 DEF ListInv, JobsAreOnTheWay
  <2> QED
    BY <1>1, <1>2, <1>4, <2>1, <2>2 DEF ListInv, JobsAreOnTheWay
<1>7. ListedOnce'
  <2> SUFFICES ASSUME NEW k \in Kids \ (crossed \cup lost)
               PROVE /\ \A h \in Hubs : list'[h][k] <= 1
                     /\ \E h \in Hubs : list'[h][k] = 1
    BY <1>1, <1>2 DEF ListedOnce
  <2>1. (\A h \in Hubs : list[h][k] <= 1) /\ (\E h \in Hubs : list[h][k] = 1)
    BY DEF ListInv, ListedOnce
  <2>2. CASE k # c
    BY <1>3, <2>1, <2>2
  <2>3. CASE k = c
    BY <1>1, <1>3, <1>4, <2>1, <2>3
  <2> QED
    BY <2>2, <2>3
<1>8. SettledOrAligning'
  <2> SUFFICES ASSUME NEW h \in Hubs, NEW k \in Kids \ (crossed \cup lost),
                      list'[h][k] > 0, \A g \in Hubs \ {h} : list'[g][k] = 0
               PROVE \/ sends[k] = [file |-> h, process |-> h]
                     \/ <<h, k>> \in told
                     \/ SentByHand(k)
                     \/ \E u \in Takers : /\ job'[u] # NoJob /\ job'[u].at = "align"
                                          /\ job'[u].hub = h /\ job'[u].kid = k
    BY <1>1, <1>2 DEF SettledOrAligning, SentByHand
  <2>1. crossed # Kids
    OBVIOUS
  <2>2. CASE k = c
    <3>1. h = b
      BY <1>1, <1>4, <2>1, <2>2
    <3> QED
      BY <1>2, <2>2, <3>1
  <2>3. CASE k # c
    <3>1. list[h][k] > 0 /\ \A g \in Hubs \ {h} : list[g][k] = 0
      BY <1>3, <2>3
    <3>2. \A u \in Takers \ {t} : job[u] = NoJob
      BY <1>1, <2>1, Alone
    <3> QED
      BY <1>1, <2>3, <3>1, <3>2 DEF ListInv, SettledOrAligning
  <2> QED
    BY <2>2, <2>3
<1> QED
  BY <1>5, <1>6, <1>7, <1>8 DEF ListInv

(* The copy of the old list is that list: nobody else is at work.          *)
LEMMA ReadInList ==
    ASSUME TakeInv, ListInv, NEW t \in Takers, ReadOldList(t)
    PROVE ListInv'
<1>1. /\ job[t] # NoJob /\ job[t] \in Job /\ job[t].at = "strip"
      /\ list' = list /\ sends' = sends /\ byHand' = byHand /\ lost' = lost
      /\ job[t].op # "align"
  BY DEF ReadOldList, At, kidVars, TakeInv, TakeTypeOK, JobsAreKeyed
<1>2. CASE Ends(t, TRUE)
  <2>1. crossed # Kids => sends[job[t].kid] = [file |-> job[t].hub, process |-> job[t].hub]
    BY <1>1 DEF ListInv, JobsAreOnTheWay
  <2> QED
    BY <1>1, <1>2, <2>1, EndsInList
<1>3. CASE Holds(t, list[job[t].from]) /\ UNCHANGED <<jobs, told, crossed>>
  <2> DEFINE i == [job[t] EXCEPT !.at = "write"]
             f == job[t].from
             j == [i EXCEPT !.text = list[f]]
  <2>1. f \in Hubs /\ list[f] \in [Kids -> Nat]
    BY <1>1 DEF Job, TakeInv, TakeTypeOK
  <2>2. /\ i \in Job /\ i.at = "write" /\ i.op = job[t].op
        /\ i.hub = job[t].hub /\ i.from = f /\ i.kid = job[t].kid
    BY <1>1, JobGoesOn DEF Places
  <2> HIDE DEF i
  <2>3. /\ j \in Job /\ j.at = "write" /\ j.op = job[t].op
        /\ j.hub = job[t].hub /\ j.from = f /\ j.kid = job[t].kid /\ j.text = list[f]
    BY <2>1, <2>2, JobHolds
  <2>4. job' = [job EXCEPT ![t] = j]
    BY <1>3 DEF Holds, i
  <2> HIDE DEF j
  <2>5. job'[t] = j /\ job'[t] # NoJob /\ \A u \in Takers \ {t} : job'[u] = job[u]
    BY <2>3, <2>4, TakeAssumption DEF TakeInv, TakeTypeOK
  <2>6. OneAtATime'
    BY <1>1, <1>3, <2>5 DEF ListInv, OneAtATime
  <2>7. JobsAreOnTheWay'
    <3>1. ASSUME NEW u \in Takers \ {t}, job'[u] # NoJob
          PROVE job'[u] = job[u] /\ job[u] # NoJob /\ crossed = Kids
      BY <1>1, <2>5, <3>1, Alone
    <3>2. /\ job[t].op = "take" /\ job[t].hub # f
          /\ crossed # Kids =>
                /\ list[job[t].hub][job[t].kid] > 0
                /\ sends[job[t].kid] = [file |-> job[t].hub, process |-> job[t].hub]
      BY <1>1 DEF ListInv, JobsAreOnTheWay
    <3> QED
      BY <1>1, <1>3, <2>3, <2>5, <3>1, <3>2 DEF ListInv, JobsAreOnTheWay
  <2>8. ListedOnce'
    BY <1>1, <1>3 DEF ListInv, ListedOnce
  <2>9. SettledOrAligning'
    <3>1. ASSUME NEW u \in Takers, job[u] # NoJob, job[u].at = "align"
          PROVE job'[u] = job[u]
      BY <1>1, <2>5, <3>1
    <3> QED
      BY <1>1, <1>3, <3>1 DEF ListInv, SettledOrAligning, SentByHand
  <2> QED
    BY <2>6, <2>7, <2>8, <2>9 DEF ListInv
<1> QED
  BY <1>2, <1>3 DEF ReadOldList

(* The child leaves the old list when it is on the new one and sends       *)
(* there; the others stay as they are.                                     *)
LEMMA WriteInList ==
    ASSUME TakeInv, ListInv, NEW t \in Takers, WriteOldList(t)
    PROVE ListInv'
<1> DEFINE f == job[t].from
           c == job[t].kid
           b == job[t].hub
           text == [job[t].text EXCEPT ![c] = 0]
<1>1. /\ job[t] # NoJob /\ job[t].at = "write" /\ job[t].op = "take" /\ b # f
      /\ f \in Hubs /\ b \in Hubs /\ job[t].text \in [Kids -> Nat] /\ c \in Kids
      /\ sends' = sends /\ byHand' = byHand /\ Ends(t, TRUE)
      /\ \/ list' = list /\ lost' = lost
         \/ \E kept \in SUBSET Kids :
               /\ list' = [list EXCEPT ![f] = [k \in Kids |-> IF k \in kept THEN text[k] ELSE 0]]
               /\ lost' = lost \cup {k \in Kids \ kept : text[k] > 0}
  BY DEF WriteOldList, At, kidVars, TakeInv, TakeTypeOK, Job, ListInv, JobsAreOnTheWay
<1>2. crossed # Kids => /\ list[b][c] > 0
                        /\ sends[c] = [file |-> b, process |-> b]
                        /\ job[t].text = list[f]
  BY <1>1 DEF ListInv, JobsAreOnTheWay
<1>3. CASE list' = list /\ lost' = lost
  BY <1>1, <1>2, <1>3, EndsInList
<1>4. ASSUME NEW kept \in SUBSET Kids,
             list' = [list EXCEPT ![f] = [k \in Kids |-> IF k \in kept THEN text[k] ELSE 0]],
             lost' = lost \cup {k \in Kids \ kept : text[k] > 0}
      PROVE ListInv'
  <2>1. /\ \A u \in Takers \ {t} : job'[u] = job[u]
        /\ job'[t] = NoJob /\ crossed' = crossed
        /\ told' = told \ {<<b, c>>}
    BY <1>1, EndsSo DEF Ends
  <2>2. /\ lost \subseteq lost'
        /\ crossed # Kids =>
             \A h \in Hubs, k \in Kids \ lost' :
                 list'[h][k] = IF h = f /\ k = c THEN 0 ELSE list[h][k]
    <3> DEFINE x == [k \in Kids |-> IF k \in kept THEN text[k] ELSE 0]
    <3>1. list \in [Hubs -> [Kids -> Nat]]
      BY DEF TakeInv, TakeTypeOK
    <3>2. list' = [list EXCEPT ![f] = x]
      BY <1>4
    <3>3. text \in [Kids -> Nat] /\ \A k \in Kids : text[k] = IF k = c THEN 0 ELSE job[t].text[k]
      BY <1>1
    <3>4. \A k \in Kids \ lost' : x[k] = IF k = c THEN 0 ELSE job[t].text[k]
      <4> HIDE DEF text
      <4> QED
        BY <1>4, <3>3
    <3> HIDE DEF x
    <3>5. list'[f] = x /\ \A h \in Hubs \ {f} : list'[h] = list[h]
      BY <1>1, <3>1, <3>2
    <3> QED
      BY <1>2, <1>4, <3>4, <3>5
  <2> HIDE DEF text
  <2>3. OneAtATime'
    BY <1>1, <2>1 DEF ListInv, OneAtATime
  <2>4. JobsAreOnTheWay'
    <3>1. ASSUME NEW u \in Takers, job'[u] # NoJob
          PROVE job'[u] = job[u] /\ job[u] # NoJob /\ crossed = Kids
      BY <1>1, <2>1, <3>1, Alone
    <3> QED
      BY <1>1, <2>1, <3>1 DEF ListInv, JobsAreOnTheWay
  <2>5. ListedOnce'
    <3> SUFFICES ASSUME NEW k \in Kids \ (crossed \cup lost')
                 PROVE /\ \A h \in Hubs : list'[h][k] <= 1
                       /\ \E h \in Hubs : list'[h][k] = 1
      BY <2>1 DEF ListedOnce
    <3>1. (\A h \in Hubs : list[h][k] <= 1) /\ (\E h \in Hubs : list[h][k] = 1)
      BY <2>2 DEF ListInv, ListedOnce
    <3>2. crossed # Kids
      OBVIOUS
    <3>3. CASE k # c
      BY <2>2, <3>1, <3>2, <3>3
    <3>4. CASE k = c
      <4>1. list'[b][c] > 0 /\ list'[b][c] = list[b][c] /\ list[b][c] \in Nat
        BY <1>1, <1>2, <2>2, <3>2, <3>4 DEF TakeInv, TakeTypeOK
      <4>2. list'[b][c] = 1
        BY <1>1, <3>1, <3>4, <4>1
      <4>3. \A h \in Hubs : list'[h][k] <= 1
        BY <2>2, <3>1, <3>2
      <4> QED
        BY <1>1, <3>4, <4>2, <4>3
    <3> QED
      BY <3>3, <3>4
  <2>6. SettledOrAligning'
    <3> SUFFICES ASSUME NEW h \in Hubs, NEW k \in Kids \ (crossed \cup lost'),
                        list'[h][k] > 0, \A g \in Hubs \ {h} : list'[g][k] = 0
                 PROVE \/ sends[k] = [file |-> h, process |-> h]
                       \/ <<h, k>> \in told'
                       \/ SentByHand(k)
      BY <1>1, <2>1 DEF SettledOrAligning, SentByHand
    <3>1. crossed # Kids
      OBVIOUS
    <3>2. CASE k = c
      <4>1. list'[b][c] > 0
        BY <1>1, <1>2, <2>2, <3>1, <3>2
      <4>2. h = b
        BY <1>1, <3>2, <4>1
      <4> QED
        BY <1>2, <3>1, <3>2, <4>2
    <3>3. CASE k # c
      <4>1. list[h][k] > 0 /\ \A g \in Hubs \ {h} : list[g][k] = 0
        BY <2>2, <3>1, <3>3
      <4>2. \/ sends[k] = [file |-> h, process |-> h]
            \/ <<h, k>> \in told
            \/ SentByHand(k)
        BY <1>1, <2>2, <3>1, <4>1, Alone DEF ListInv, SettledOrAligning
      <4> QED
        BY <2>1, <3>3, <4>2
    <3> QED
      BY <3>2, <3>3
  <2> QED
    BY <2>3, <2>4, <2>5, <2>6 DEF ListInv
<1> QED
  BY <1>1, <1>3, <1>4

LEMMA CutInList ==
    ASSUME TakeInv, ListInv, NEW t \in Takers, RequestCut(t)
    PROVE ListInv'
<1>1. /\ job[t] # NoJob /\ job'[t] = NoJob
      /\ \A u \in Takers \ {t} : job'[u] = job[u]
      /\ crossed' = crossed \cup {job[t].kid} /\ crossed' \subseteq Kids
      /\ list' = list /\ sends' = sends /\ told' = told /\ byHand' = byHand /\ lost' = lost
  BY DEF RequestCut, kidVars, TakeInv, TakeTypeOK, Job
<1>2. crossed' # Kids => crossed # Kids
  BY <1>1
<1>3. OneAtATime'
  BY <1>1, <1>2 DEF ListInv, OneAtATime
<1>4. JobsAreOnTheWay'
  <2>1. ASSUME NEW u \in Takers, job'[u] # NoJob
        PROVE job'[u] = job[u] /\ job[u] # NoJob /\ crossed' = Kids
    BY <1>1, <1>2, <2>1, Alone
  <2> QED
    BY <1>1, <2>1 DEF ListInv, JobsAreOnTheWay
<1>5. ListedOnce'
  BY <1>1 DEF ListInv, ListedOnce
<1>6. SettledOrAligning'
  <2>1. ASSUME NEW k \in Kids \ (crossed' \cup lost), NEW u \in Takers, job[u] # NoJob, job[u].kid = k
        PROVE FALSE
    BY <1>1, <2>1, Alone
  <2>2. \A k \in Kids : SentByHand(k)' <=> SentByHand(k)
    BY <1>1 DEF SentByHand
  <2> SUFFICES ASSUME NEW h \in Hubs, NEW k \in Kids \ (crossed' \cup lost),
                      list[h][k] > 0, \A g \in Hubs \ {h} : list[g][k] = 0
               PROVE \/ sends[k] = [file |-> h, process |-> h]
                     \/ <<h, k>> \in told
                     \/ SentByHand(k)
    BY <1>1, <2>2 DEF SettledOrAligning
  <2>3. k \in Kids \ (crossed \cup lost)
    BY <1>1
  <2>4. ~\E u \in Takers : job[u] # NoJob /\ job[u].kid = k
    BY <2>1
  <2> QED
    BY <2>3, <2>4 DEF ListInv, SettledOrAligning
<1> QED
  BY <1>3, <1>4, <1>5, <1>6 DEF ListInv

LEMMA ListInvStep == TakeInv /\ ListInv /\ [TakeNext]_takeVars => ListInv'
<1> SUFFICES ASSUME TakeInv, ListInv, [TakeNext]_takeVars PROVE ListInv'
  OBVIOUS
<1>0. \A t \in Takers : job[t] # NoJob =>
          /\ job[t] \in Job /\ job[t].kid \in Kids /\ job[t].hub \in Hubs
          /\ job[t].at \notin {"list", "append", "align"} => job[t].op = "take"
          /\ job[t].op = "align" => job[t].at = "align"
          /\ crossed # Kids /\ job[t].op # "align" =>
                (job[t].at \in {"align", "strip", "write"}
                    <=> list[job[t].hub][job[t].kid] > 0)
  BY DEF TakeInv, TakeTypeOK, Job, ListInv, JobsAreOnTheWay, JobsAreKeyed
<1>1. ASSUME NEW t \in Takers, NEW h \in Hubs, NEW from \in Hubs, NEW k \in Kids,
             Take(t, h, from, k)
      PROVE ListInv'
  BY <1>1, BeginInList DEF Take
<1>2. ASSUME NEW t \in Takers, NEW h \in Hubs, NEW k \in Kids, Adopt(t, h, k)
      PROVE ListInv'
  BY <1>2, BeginInList DEF Adopt
<1>3. ASSUME NEW t \in Takers, NEW h \in Hubs, NEW k \in Kids, AlignCommand(t, h, k)
      PROVE ListInv'
  BY <1>3, BeginInList DEF AlignCommand
<1>4. ASSUME NEW t \in Takers, TakeStep(t) PROVE ListInv'
  <2>1. CASE GetMac(t)
    BY <1>0, <2>1, MovesInList DEF GetMac, At, kidVars, Places
  <2>2. CASE InstallKey(t)
    <3>1. /\ job[t] # NoJob /\ job[t].at = "key" /\ list' = list /\ sends' = sends
          /\ byHand' = byHand /\ lost' = lost /\ (Goes(t, "wifi") \/ Ends(t, FALSE))
      BY <2>2 DEF InstallKey, At
    <3> QED
      BY <1>0, <3>1, MovesInList, EndsInList DEF Places
  <2>3. CASE SwitchWifi(t)
    <3>1. /\ job[t] # NoJob /\ job[t].at = "wifi" /\ list' = list /\ sends' = sends
          /\ byHand' = byHand /\ lost' = lost /\ Goes(t, "wait")
      BY <2>3 DEF SwitchWifi, At
    <3> QED
      BY <1>0, <3>1, MovesInList DEF Places
  <2>4. CASE WaitReturns(t)
    <3>1. /\ job[t] # NoJob /\ job[t].at = "wait" /\ list' = list /\ sends' = sends
          /\ byHand' = byHand /\ lost' = lost /\ Goes(t, "list")
      BY <2>4 DEF WaitReturns, At, kidVars
    <3> QED
      BY <1>0, <3>1, MovesInList DEF Places
  <2>5. CASE RequestFails(t)
    <3>1. /\ job[t] # NoJob /\ job[t].at # "align" /\ list' = list /\ sends' = sends
          /\ byHand' = byHand /\ lost' = lost /\ Ends(t, FALSE)
      BY <2>5 DEF RequestFails, At, kidVars
    <3> QED
      BY <1>0, <3>1, EndsInList
  <2>6. CASE LookInList(t)
    <3>1. /\ job[t] # NoJob /\ job[t].at = "list" /\ list' = list /\ sends' = sends
          /\ byHand' = byHand /\ lost' = lost /\ Goes(t, IF list[job[t].hub][job[t].kid] > 0 THEN "align" ELSE "append")
      BY <2>6 DEF LookInList, At, kidVars
    <3>2. CASE list[job[t].hub][job[t].kid] > 0
      <4>1. Goes(t, "align") /\ crossed = Kids
        BY <1>0, <3>1, <3>2
      <4> QED
        BY <1>0, <3>1, <4>1, MovesInList DEF Places
    <3>3. CASE ~(list[job[t].hub][job[t].kid] > 0)
      <4>1. Goes(t, "append")
        BY <3>1, <3>3
      <4> QED
        BY <1>0, <3>1, <4>1, MovesInList DEF Places
    <3> QED
      BY <3>2, <3>3
  <2>7. CASE AppendToList(t)
    BY <2>7, AppendInList
  <2>8. CASE Align(t)
    <3> DEFINE c == job[t].kid
               r == [file |-> job[t].hub, process |-> job[t].hub]
    <3>1. /\ job[t] # NoJob /\ job[t].at = "align" /\ list' = list
          /\ byHand' = byHand /\ lost' = lost
          /\ sends' = [sends EXCEPT ![c] = r]
          /\ IF job[t].op = "take" THEN Goes(t, "strip") ELSE Ends(t, TRUE)
      BY <2>8 DEF Align, At
    <3>2. sends'[c] = r /\ \A k \in Kids \ {c} : sends'[k] = sends[k]
      BY <1>0, <3>1 DEF TakeInv, TakeTypeOK
    <3>3. CASE job[t].op = "take"
      BY <3>1, <3>2, <3>3, MovesInList DEF Places
    <3>4. CASE job[t].op # "take"
      BY <3>1, <3>2, <3>4, EndsInList
    <3> QED
      BY <3>3, <3>4
  <2>9. CASE AlignFails(t)
    <3> DEFINE c == job[t].kid
    <3>1. /\ job[t] # NoJob /\ job[t].at = "align" /\ list' = list
          /\ byHand' = byHand /\ lost' = lost
          /\ Ends(t, FALSE)
          /\ \/ sends' = sends
             \/ sends' = [sends EXCEPT ![c].file = job[t].hub]
             \/ sends' = [sends EXCEPT ![c] = [file |-> job[t].hub, process |-> job[t].hub]]
      BY <2>9 DEF AlignFails, At
    <3>2. /\ \A k \in Kids \ {c} : sends'[k] = sends[k]
          /\ sends' = sends \/ sends'[c].file = job[t].hub
      BY <1>0, <3>1 DEF TakeInv, TakeTypeOK
    <3> QED
      BY <3>1, <3>2, EndsInList
  <2>10. CASE ReadOldList(t)
    BY <2>10, ReadInList
  <2>11. CASE WriteOldList(t)
    BY <2>11, WriteInList
  <2> QED
    BY <1>4, <2>1, <2>2, <2>3, <2>4, <2>5, <2>6, <2>7, <2>8, <2>9, <2>10, <2>11 DEF TakeStep
<1>5. ASSUME NEW t \in Takers, RequestCut(t) PROVE ListInv'
  BY <1>5, CutInList
<1>6. CASE UNCHANGED <<sends, list, job, told, crossed, byHand, lost>>
  <2>1. OneAtATime' /\ ListedOnce'
    BY <1>6 DEF ListInv, OneAtATime, ListedOnce
  <2>2. JobsAreOnTheWay'
    BY <1>6 DEF ListInv, JobsAreOnTheWay
  <2>3. SettledOrAligning'
    BY <1>6 DEF ListInv, SettledOrAligning, SentByHand
  <2> QED
    BY <2>1, <2>2, <2>3 DEF ListInv
<1>7. ASSUME NEW k \in Kids, KidStep(k) PROVE ListInv'
  <2>1. UNCHANGED serverVars
    BY <1>7 DEF KidStep, SwitchUp, SwitchOthersOff, SwitchFails, Autoconnect, KidOff
  <2> QED
    BY <1>6, <2>1 DEF serverVars
<1>8. CASE UNCHANGED takeVars
  BY <1>6, <1>8 DEF takeVars, kidVars
<1> QED
  BY <1>1, <1>2, <1>3, <1>4, <1>5, <1>7, <1>8 DEF TakeNext

LEMMA ListInvAlways == TakeSpec => []ListInv
<1> QED
  BY ListInvInit, ListInvStep, TakeInvAlways, PTL DEF TakeSpec

(* A child that is brought over without another request in between is      *)
(* always on a hub's list, for any number of hubs, children and failures:  *)
(* the old hub's list is rewritten last, from a complete copy              *)
(* (_read_remote_inventory, take_child).  So are the others on that list,  *)
(* but for those whose lines a cut-off write had still to write.           *)
THEOREM AlwaysOnAList == TakeSpec => []NobodyForgotten
<1>1. ListInv => NobodyForgotten
  BY DEF ListInv, ListedOnce, NobodyForgotten
<1> QED
  BY <1>1, ListInvAlways, PTL

(* A child on just one hub's list sends its records there, or the operator *)
(* was told that it does not, or the request is still at its alignment     *)
(* (_align_after_join), or it sends to a hub that does not list it and at  *)
(* which the operator had it aligned (cmd_align).                          *)
THEOREM RecordsDoNotStray == TakeSpec => []UnalignedIsTold
<1>1. ListInv => UnalignedIsTold
  BY DEF ListInv, SettledOrAligning, UnalignedIsTold, Busy
<1> QED
  BY <1>1, ListInvAlways, PTL

-----------------------------------------------------------------------------
(* The hub's picture of the Wi-Fi, and whom the wizard may blank.          *)

(* Of the threads that have read known_macs.json and may write it there is *)
(* one at a time, until two meet; it holds all that the file says, as long *)
(* as no read of it failed and no write was cut off.                       *)
AtFile(g) == GatherAt(g, "loaded") \/ GatherAt(g, "opened")

OneAtTheFile ==
    ~mixed =>
        /\ \A g, h \in Gatherers : AtFile(g) /\ AtFile(h) => g = h
        /\ torn => \E g \in Gatherers : GatherAt(g, "opened")
        /\ ~faulted => \A g \in Gatherers : AtFile(g) =>
              \A n \in Names : known[n] # NoDev => gather[g].macs[n] = known[n]

(* As long as no address changed hands every device has one of its own,    *)
(* and what the ARP table or an earlier reading of it says is still true.  *)
TrueNow(nb) == \A i \in Ips : nb[i] # NoDev => lastLease[nb[i]] = i

AddressesStay ==
    moves = 0 =>
        /\ \A d \in Devs : lease[d] # NoIp => lastLease[d] = lease[d]
        /\ \A d, e \in Devs : lastLease[d] = lastLease[e] /\ lastLease[d] # NoIp => d = e
        /\ TrueNow(neighbors)
        /\ \A g \in Gatherers : gather[g] # Idle => TrueNow(gather[g].nb)

(* The devices that are trusted under the names a view lists have other    *)
(* addresses than the candidates it offers.                                *)
Apart(found, names, macs) ==
    \A p \in found, n \in names : macs[n] # NoDev => lastLease[macs[n]] \in Ips \ {p[1]}

CandidatesAreStrangers ==
    moves = 0 =>
        /\ \A g \in Gatherers :
              gather[g] # Idle => Apart(gather[g].found, gather[g].listed, gather[g].macs)
        /\ Apart(view.found, Names, view.macs)
        /\ wizard # Idle => Apart({wizard.is}, Names, wizard.macs)

FleetInv ==
    /\ FleetTypeOK
    /\ OneAtTheFile
    /\ AddressesStay
    /\ CandidatesAreStrangers
    /\ TrustedChildIsSpared

-----------------------------------------------------------------------------
LEMMA FleetInvInit == FleetInit => FleetInv
<1> SUFFICES ASSUME FleetInit PROVE FleetInv
  OBVIOUS
<1>1. FleetTypeOK
  <2>1. Nobody \in Trust /\ [n \in Names |-> NoDev] = Nobody
    BY DEF Trust, Nobody
  <2>2. view \in [found : SUBSET Candidates, macs : Trust]
    BY <2>1 DEF FleetInit
  <2> QED
    BY <2>1, <2>2, FleetAssumption DEF FleetInit, FleetTypeOK
<1>2. OneAtTheFile /\ AddressesStay /\ TrustedChildIsSpared
  BY FleetAssumption
  DEF FleetInit, OneAtTheFile, AtFile, GatherAt, AddressesStay, TrueNow, TrustedChildIsSpared
<1>3. CandidatesAreStrangers
  BY DEF FleetInit, CandidatesAreStrangers, Apart
<1> QED
  BY <1>1, <1>2, <1>3 DEF FleetInv

(* What a thread's step makes of its record.                               *)
LEMMA ProceedsTo ==
    ASSUME FleetTypeOK, NEW g \in Gatherers, gather[g] # Idle,
           NEW at \in {"listed", "loaded", "opened", "answer"},
           NEW nb \in [Ips -> Devs \cup {NoDev}], NEW macs \in Trust,
           NEW found \in SUBSET Candidates, Proceeds(g, at, nb, macs, found)
    PROVE /\ gather' \in [Gatherers -> Gather \cup {Idle}]
          /\ \A h \in Gatherers \ {g} : gather'[h] = gather[h]
          /\ gather'[g] # Idle /\ gather'[g].at = at
          /\ gather'[g].listed = gather[g].listed /\ gather'[g].nb = nb
          /\ gather'[g].macs = macs /\ gather'[g].found = found
<1> DEFINE x == [at |-> at, listed |-> gather[g].listed, inv |-> gather[g].inv,
                 nb |-> nb, macs |-> macs, found |-> found]
<1>1. gather[g].listed \in SUBSET Names /\ gather[g].inv \in Resolution
  BY DEF FleetTypeOK, Gather
<1>2. /\ x \in Gather /\ x.at = at /\ x.listed = gather[g].listed /\ x.nb = nb
      /\ x.macs = macs /\ x.found = found
  BY <1>1 DEF Gather
<1>3. gather' = [gather EXCEPT ![g] = x]
  BY DEF Proceeds, Set
<1> HIDE DEF x
<1> QED
  BY <1>2, <1>3, FleetAssumption DEF FleetTypeOK

(* A step that leaves the Wi-Fi, the file and the threads as they are.     *)
LEMMA FileStays ==
    ASSUME FleetInv, UNCHANGED <<gather, known, torn, mixed, faulted>>
    PROVE OneAtTheFile'
BY DEF FleetInv, OneAtTheFile, AtFile, GatherAt

LEMMA AddressesKept ==
    ASSUME FleetInv, UNCHANGED <<lastLease, neighbors, gather, moves>>,
           \A d \in Devs : lease'[d] \in {lease[d], NoIp}
    PROVE AddressesStay'
BY DEF FleetInv, AddressesStay, TrueNow

LEMMA StrangersKept ==
    ASSUME FleetInv, UNCHANGED <<lastLease, gather, view, wizard, moves>>
    PROVE CandidatesAreStrangers'
BY DEF FleetInv, CandidatesAreStrangers, Apart

-----------------------------------------------------------------------------
(* A lease that moves nobody leaves all addresses that were ever given.    *)
LEMMA TakesLeaseStep ==
    ASSUME FleetInv, NEW d \in Devs, NEW i \in Ips, TakesLease(d, i)
    PROVE FleetInv'
<1>1. /\ lease[d] = NoIp /\ \A e \in Devs : lease[e] # i
      /\ lease' = [lease EXCEPT ![d] = i] /\ lastLease' = [lastLease EXCEPT ![d] = i]
      /\ neighbors' = [neighbors EXCEPT ![i] = d]
      /\ UNCHANGED <<host, blank, fileVars, viewVars, mixed, faulted, spoiled>>
  BY DEF TakesLease
<1>2. /\ lease \in [Devs -> Ips \cup {NoIp}] /\ lastLease \in [Devs -> Ips \cup {NoIp}]
      /\ neighbors \in [Ips -> Devs \cup {NoDev}] /\ moves \in Nat
  BY DEF FleetInv, FleetTypeOK
<1>3. moves' \in Nat
      /\ (moves' = 0 => /\ moves = 0 /\ lastLease[d] \in {NoIp, i}
                        /\ \A e \in Devs \ {d} : lastLease[e] # i)
  BY <1>2 DEF TakesLease
<1>4. FleetTypeOK'
  <2>1. /\ lease' \in [Devs -> Ips \cup {NoIp}] /\ lastLease' \in [Devs -> Ips \cup {NoIp}]
        /\ neighbors' \in [Ips -> Devs \cup {NoDev}]
    BY <1>1, <1>2
  <2>2. \A e, f \in Devs : lease'[e] = lease'[f] /\ e # f => lease'[e] = NoIp
    BY <1>1, <1>2 DEF FleetInv, FleetTypeOK
  <2>3. \A e \in Devs : lease'[e] # NoIp => neighbors'[lease'[e]] = e
    BY <1>1, <1>2 DEF FleetInv, FleetTypeOK
  <2> QED
    BY <1>1, <1>3, <2>1, <2>2, <2>3 DEF FleetInv, FleetTypeOK, fileVars, viewVars
<1>5. OneAtTheFile'
  BY <1>1, FileStays DEF fileVars, viewVars
<1>6. ASSUME moves' = 0, NEW e \in Devs, lastLease[e] \in Ips
      PROVE lastLease'[e] = lastLease[e]
  BY <1>1, <1>2, <1>3, <1>6, FleetAssumption
<1>7. AddressesStay'
  <2> SUFFICES ASSUME moves' = 0
               PROVE /\ \A e \in Devs : lease'[e] # NoIp => lastLease'[e] = lease'[e]
                     /\ \A e, f \in Devs :
                           lastLease'[e] = lastLease'[f] /\ lastLease'[e] # NoIp => e = f
                     /\ TrueNow(neighbors)'
                     /\ \A g \in Gatherers : gather'[g] # Idle => TrueNow(gather[g].nb)'
    BY DEF AddressesStay
  <2>1. /\ \A e \in Devs : lease[e] # NoIp => lastLease[e] = lease[e]
        /\ \A e, f \in Devs : lastLease[e] = lastLease[f] /\ lastLease[e] # NoIp => e = f
        /\ TrueNow(neighbors)
        /\ \A g \in Gatherers : gather[g] # Idle => TrueNow(gather[g].nb)
    BY <1>3 DEF FleetInv, AddressesStay
  <2>2. \A e \in Devs : lease'[e] # NoIp => lastLease'[e] = lease'[e]
    BY <1>1, <1>2, <2>1
  <2>3. \A e, f \in Devs : lastLease'[e] = lastLease'[f] /\ lastLease'[e] # NoIp => e = f
    BY <1>1, <1>2, <1>3, <2>1
  <2>4. \A j \in Ips : neighbors'[j] # NoDev => lastLease'[neighbors'[j]] = j
    <3>1. ASSUME NEW j \in Ips, neighbors'[j] # NoDev PROVE lastLease'[neighbors'[j]] = j
      <4>1. CASE j = i
        BY <1>1, <1>2, <4>1
      <4>2. CASE j # i
        BY <1>1, <1>2, <1>6, <2>1, <3>1, <4>2 DEF TrueNow
      <4> QED
        BY <4>1, <4>2
    <3> QED
      BY <3>1
  <2>5. ASSUME NEW g \in Gatherers, gather'[g] # Idle
        PROVE TrueNow(gather[g].nb)'
    <3>1. gather'[g] = gather[g] /\ gather[g].nb \in [Ips -> Devs \cup {NoDev}]
      BY <1>1, <2>5 DEF viewVars, FleetInv, FleetTypeOK, Gather
    <3> QED
      BY <1>6, <2>1, <2>5, <3>1 DEF TrueNow
  <2> QED
    BY <2>2, <2>3, <2>4, <2>5 DEF TrueNow
<1>8. CandidatesAreStrangers'
  <2>1. ASSUME moves' = 0, NEW found \in SUBSET Candidates, NEW names \in SUBSET Names,
               NEW macs \in Trust, Apart(found, names, macs)
        PROVE \A p \in found, n \in names :
                  macs[n] # NoDev => lastLease'[macs[n]] \in Ips \ {p[1]}
    BY <1>6, <2>1 DEF Apart, Trust
  <2> SUFFICES ASSUME moves' = 0
               PROVE /\ \A g \in Gatherers : gather'[g] # Idle =>
                            Apart(gather[g].found, gather[g].listed, gather[g].macs)'
                     /\ Apart(view.found, Names, view.macs)'
                     /\ wizard' # Idle => Apart({wizard.is}, Names, wizard.macs)'
    BY DEF CandidatesAreStrangers
  <2>2. gather' = gather /\ view' = view /\ wizard' = wizard
    BY <1>1 DEF viewVars
  <2>3. ASSUME NEW g \in Gatherers, gather[g] # Idle
        PROVE Apart(gather[g].found, gather[g].listed, gather[g].macs)'
    <3>1. /\ gather[g].found \in SUBSET Candidates /\ gather[g].listed \in SUBSET Names
          /\ gather[g].macs \in Trust
      BY <2>3 DEF FleetInv, FleetTypeOK, Gather
    <3>2. Apart(gather[g].found, gather[g].listed, gather[g].macs)
      BY <1>3, <2>3 DEF FleetInv, CandidatesAreStrangers
    <3>3. \A p \in gather[g].found, n \in gather[g].listed :
              gather[g].macs[n] # NoDev => lastLease'[gather[g].macs[n]] \in Ips \ {p[1]}
      BY <2>1, <3>1, <3>2
    <3> QED
      BY <2>2, <3>3 DEF Apart
  <2>4. Apart(view.found, Names, view.macs)'
    <3>1. view.found \in SUBSET Candidates /\ view.macs \in Trust
      BY DEF FleetInv, FleetTypeOK
    <3>2. Apart(view.found, Names, view.macs)
      BY <1>3 DEF FleetInv, CandidatesAreStrangers
    <3> QED
      BY <2>1, <2>2, <3>1, <3>2 DEF Apart
  <2>5. ASSUME wizard # Idle
        PROVE Apart({wizard.is}, Names, wizard.macs)'
    <3>1. {wizard.is} \in SUBSET Candidates /\ wizard.macs \in Trust
      BY <2>5 DEF FleetInv, FleetTypeOK
    <3>2. Apart({wizard.is}, Names, wizard.macs)
      BY <1>3, <2>5 DEF FleetInv, CandidatesAreStrangers
    <3> QED
      BY <2>1, <2>2, <3>1, <3>2 DEF Apart
  <2> QED
    BY <2>2, <2>3, <2>4, <2>5
<1>9. TrustedChildIsSpared'
  BY <1>1, <1>3 DEF FleetInv, TrustedChildIsSpared
<1> QED
  BY <1>4, <1>5, <1>7, <1>8, <1>9 DEF FleetInv

(* The other steps of the Wi-Fi, and those of the wizard.                  *)
LEMMA WiFiStep ==
    ASSUME FleetInv,
           \/ \E d \in Devs : Leaves(d)
           \/ \E i \in Ips : ArpFails(i)
    PROVE FleetInv'
<1>1. /\ UNCHANGED <<lastLease, host, blank, fileVars, viewVars, moves, mixed, faulted, spoiled>>
      /\ \/ \E d \in Devs : lease' = [lease EXCEPT ![d] = NoIp] /\ neighbors' = neighbors
         \/ /\ lease' = lease
            /\ \E i \in Ips : /\ neighbors' = [neighbors EXCEPT ![i] = NoDev]
                              /\ \A d \in Devs : lease[d] # i
  BY DEF Leaves, ArpFails
<1>2. FleetTypeOK'
  BY <1>1 DEF FleetInv, FleetTypeOK, fileVars, viewVars
<1>3. OneAtTheFile'
  BY <1>1, FileStays DEF fileVars, viewVars
<1>4. AddressesStay'
  BY <1>1 DEF FleetInv, FleetTypeOK, AddressesStay, TrueNow, viewVars
<1>5. CandidatesAreStrangers'
  BY <1>1, StrangersKept DEF viewVars
<1> QED
  BY <1>1, <1>2, <1>3, <1>4, <1>5 DEF FleetInv, TrustedChildIsSpared

(* Whoever has the candidate's address is not one of those the page has    *)
(* trusted under a name.                                                   *)
LEMMA BlankStep ==
    ASSUME FleetInv, NEW d \in Devs, BlankStaNo(d)
    PROVE FleetInv'
<1>1. /\ wizard # Idle /\ lease[d] = wizard.is[1]
      /\ UNCHANGED <<lanVars, host, fileVars, viewVars, moves, mixed, faulted>>
      /\ blank' = blank \cup {d}
      /\ spoiled' = IF host[d] \in inventory /\ wizard.macs[host[d]] = d
                    THEN spoiled \cup {d} ELSE spoiled
  BY DEF BlankStaNo, Reached
<1>2. FleetTypeOK'
  <2>1. blank' \subseteq Devs /\ spoiled' \subseteq Devs
    BY <1>1 DEF FleetInv, FleetTypeOK
  <2> QED
    BY <1>1, <2>1 DEF FleetInv, FleetTypeOK, lanVars, fileVars, viewVars
<1>3. OneAtTheFile'
  BY <1>1, FileStays DEF fileVars, viewVars
<1>4. AddressesStay'
  BY <1>1, AddressesKept DEF lanVars, viewVars
<1>5. CandidatesAreStrangers'
  BY <1>1, StrangersKept DEF lanVars, viewVars
<1>6. TrustedChildIsSpared'
  <2>1. ASSUME moves = 0, wizard.macs[host[d]] = d PROVE FALSE
    <3>1. wizard.is \in Candidates /\ host[d] \in Names /\ moves \in Nat
      BY <1>1 DEF FleetInv, FleetTypeOK
    <3>2. lease[d] # NoIp
      BY <1>1, <3>1, FleetAssumption DEF Candidates
    <3>3. lastLease[d] = wizard.is[1]
      BY <1>1, <2>1, <3>2 DEF FleetInv, AddressesStay
    <3>4. Apart({wizard.is}, Names, wizard.macs)
      BY <1>1, <2>1 DEF FleetInv, CandidatesAreStrangers
    <3>5. lastLease[d] \in Ips \ {wizard.is[1]}
      BY <2>1, <3>1, <3>4, FleetAssumption DEF Apart
    <3> QED
      BY <3>3, <3>5
  <2>2. moves = 0 => spoiled' = spoiled
    BY <1>1, <2>1
  <2> QED
    BY <1>1, <2>2 DEF FleetInv, FleetTypeOK, TrustedChildIsSpared
<1> QED
  BY <1>2, <1>3, <1>4, <1>5, <1>6 DEF FleetInv

LEMMA WizardStep ==
    ASSUME FleetInv,
           \/ \E c \in Candidates : OpenWizard(c)
           \/ \E d \in Devs, n \in Names : Rename(d, n)
           \/ \E n \in Names : AddToInventory(n)
           \/ CloseWizard
    PROVE FleetInv'
<1>1. CASE \E c \in Candidates : OpenWizard(c)
  <2>1. PICK c \in Candidates : OpenWizard(c)
    BY <1>1
  <2>2. /\ c \in view.found /\ wizard' = [is |-> c, macs |-> view.macs]
        /\ UNCHANGED <<lanVars, host, blank, fileVars, gather, gathers, view, moves, mixed, faulted, spoiled>>
    BY <2>1 DEF OpenWizard
  <2>3. view.macs \in Trust
    BY DEF FleetInv, FleetTypeOK
  <2>4. FleetTypeOK'
    <3>1. wizard' \in [is : Candidates, macs : Trust]
      BY <2>2, <2>3
    <3> QED
      BY <2>2, <3>1 DEF FleetInv, FleetTypeOK, lanVars, fileVars
  <2>5. OneAtTheFile'
    BY <2>2, FileStays DEF fileVars
  <2>6. AddressesStay'
    BY <2>2, AddressesKept DEF lanVars
  <2>7. CandidatesAreStrangers'
    <3>1. moves = 0 => Apart({wizard'.is}, Names, wizard'.macs)
      BY <2>2 DEF FleetInv, CandidatesAreStrangers, Apart
    <3> QED
      BY <2>2, <3>1 DEF FleetInv, CandidatesAreStrangers, Apart, lanVars
  <2> QED
    BY <2>2, <2>4, <2>5, <2>6, <2>7 DEF FleetInv, TrustedChildIsSpared
<1>2. CASE \E d \in Devs, n \in Names : Rename(d, n)
  <2>1. PICK d \in Devs, n \in Names : Rename(d, n)
    BY <1>2
  <2>2. /\ host' = [host EXCEPT ![d] = n] /\ lease' = [lease EXCEPT ![d] = NoIp]
        /\ UNCHANGED <<lastLease, neighbors, blank, fileVars, viewVars, moves, mixed, faulted, spoiled>>
    BY <2>1 DEF Rename
  <2>3. FleetTypeOK'
    BY <2>2 DEF FleetInv, FleetTypeOK, fileVars, viewVars
  <2>4. OneAtTheFile'
    BY <2>2, FileStays DEF fileVars, viewVars
  <2>5. AddressesStay'
    BY <2>2, AddressesKept DEF viewVars, FleetInv, FleetTypeOK
  <2>6. CandidatesAreStrangers'
    BY <2>2, StrangersKept DEF viewVars
  <2> QED
    BY <2>2, <2>3, <2>4, <2>5, <2>6 DEF FleetInv, TrustedChildIsSpared
<1>3. CASE (\E n \in Names : AddToInventory(n)) \/ CloseWizard
  <2>1. /\ wizard' = Idle /\ inventory' \subseteq Names
        /\ UNCHANGED <<lanVars, host, blank, known, torn, gather, gathers, view, moves, mixed, faulted, spoiled>>
    BY <1>3 DEF AddToInventory, CloseWizard, fileVars, FleetInv, FleetTypeOK
  <2>2. FleetTypeOK'
    BY <2>1 DEF FleetInv, FleetTypeOK, lanVars
  <2>3. OneAtTheFile'
    BY <2>1, FileStays
  <2>4. AddressesStay'
    BY <2>1, AddressesKept DEF lanVars
  <2>5. CandidatesAreStrangers'
    BY <2>1 DEF FleetInv, CandidatesAreStrangers, Apart, lanVars
  <2> QED
    BY <2>1, <2>2, <2>3, <2>4, <2>5 DEF FleetInv, TrustedChildIsSpared
<1> QED
  BY <1>1, <1>2, <1>3

-----------------------------------------------------------------------------
(* The threads.                                                            *)
LEMMA ResolvesStep ==
    ASSUME FleetInv, NEW g \in Gatherers, GatherResolves(g)
    PROVE FleetInv'
<1>1. PICK r \in Resolves(inventory) :
          Set(g, [at |-> "resolved", listed |-> inventory, inv |-> r,
                  nb |-> [i \in Ips |-> NoDev], macs |-> Nobody, found |-> {}])
  BY DEF GatherResolves
<1> DEFINE x == [at |-> "resolved", listed |-> inventory, inv |-> r,
                 nb |-> [i \in Ips |-> NoDev], macs |-> Nobody, found |-> {}]
<1>2. r \in Resolution /\ inventory \in SUBSET Names /\ Nobody \in Trust
  BY DEF Resolves, FleetInv, FleetTypeOK, Nobody, Trust
<1>3. /\ x \in Gather /\ x.at = "resolved" /\ x.listed = inventory
      /\ x.nb = [i \in Ips |-> NoDev] /\ x.found = {}
  BY <1>2 DEF Gather
<1>4. gather' = [gather EXCEPT ![g] = x]
  BY <1>1 DEF Set
<1> HIDE DEF x
<1>5. /\ gather' \in [Gatherers -> Gather \cup {Idle}]
      /\ gather'[g] = x /\ \A h \in Gatherers \ {g} : gather'[h] = gather[h]
      /\ gather[g] = Idle
      /\ UNCHANGED <<lanVars, host, blank, fileVars, view, wizard, moves, mixed, faulted, spoiled>>
  BY <1>3, <1>4 DEF GatherResolves, FleetInv, FleetTypeOK
<1>6. FleetTypeOK'
  BY <1>5 DEF FleetInv, FleetTypeOK, lanVars, fileVars
<1>7. OneAtTheFile'
  <2>1. \A h \in Gatherers : /\ GatherAt(h, "loaded")' <=> GatherAt(h, "loaded")
                             /\ GatherAt(h, "opened")' <=> GatherAt(h, "opened")
                             /\ GatherAt(h, "loaded") \/ GatherAt(h, "opened") => h # g
    BY <1>3, <1>5 DEF GatherAt
  <2> QED
    BY <1>5, <2>1 DEF FleetInv, OneAtTheFile, AtFile, fileVars
<1>8. AddressesStay'
  BY <1>3, <1>5 DEF FleetInv, AddressesStay, TrueNow, lanVars
<1>9. CandidatesAreStrangers'
  BY <1>3, <1>5 DEF FleetInv, CandidatesAreStrangers, Apart, lanVars
<1> QED
  BY <1>5, <1>6, <1>7, <1>8, <1>9 DEF FleetInv, TrustedChildIsSpared

LEMMA ReadNeighborsStep ==
    ASSUME FleetInv, NEW g \in Gatherers, ReadNeighbors(g)
    PROVE FleetInv'
<1>1. /\ gather[g] # Idle /\ gather[g].at = "resolved"
      /\ Proceeds(g, "listed", neighbors, Nobody, {})
      /\ UNCHANGED <<lanVars, host, blank, fileVars, gathers, view, wizard, moves, mixed, faulted, spoiled>>
  BY DEF ReadNeighbors, GatherAt
<1>2. neighbors \in [Ips -> Devs \cup {NoDev}] /\ Nobody \in Trust /\ {} \in SUBSET Candidates
  BY DEF FleetInv, FleetTypeOK, Nobody, Trust
<1>3. /\ gather' \in [Gatherers -> Gather \cup {Idle}]
      /\ \A h \in Gatherers \ {g} : gather'[h] = gather[h]
      /\ gather'[g] # Idle /\ gather'[g].at = "listed"
      /\ gather'[g].nb = neighbors /\ gather'[g].found = {}
  BY <1>1, <1>2, ProceedsTo DEF FleetInv
<1>4. FleetTypeOK'
  BY <1>1, <1>3 DEF FleetInv, FleetTypeOK, lanVars, fileVars
<1>5. OneAtTheFile'
  <2>1. \A h \in Gatherers : /\ GatherAt(h, "loaded")' <=> GatherAt(h, "loaded")
                             /\ GatherAt(h, "opened")' <=> GatherAt(h, "opened")
                             /\ GatherAt(h, "loaded") \/ GatherAt(h, "opened") => h # g
    BY <1>1, <1>3 DEF GatherAt
  <2> QED
    BY <1>1, <1>3, <2>1 DEF FleetInv, OneAtTheFile, AtFile, fileVars
<1>6. AddressesStay'
  BY <1>1, <1>3 DEF FleetInv, AddressesStay, TrueNow, lanVars
<1>7. CandidatesAreStrangers'
  BY <1>1, <1>3 DEF FleetInv, CandidatesAreStrangers, Apart, lanVars
<1> QED
  BY <1>1, <1>4, <1>5, <1>6, <1>7 DEF FleetInv, TrustedChildIsSpared

LEMMA LoadKnownStep ==
    ASSUME FleetInv, NEW g \in Gatherers, LoadKnown(g)
    PROVE FleetInv'
<1>1. PICK macs \in {known, Nobody} :
          /\ gather[g] # Idle /\ gather[g].at = "listed"
          /\ Proceeds(g, "loaded", gather[g].nb, macs, {})
          /\ \/ macs = (IF torn THEN Nobody ELSE known) /\ faulted' = faulted
             \/ faulted' = TRUE
          /\ mixed' = (mixed \/ \E h \in Gatherers \ {g} : AtFile(h))
          /\ UNCHANGED <<lanVars, host, blank, fileVars, gathers, view, wizard, moves, spoiled>>
  BY DEF LoadKnown, GatherAt, AtFile
<1>2. /\ gather[g].nb \in [Ips -> Devs \cup {NoDev}] /\ macs \in Trust
      /\ {} \in SUBSET Candidates
  BY <1>1 DEF FleetInv, FleetTypeOK, Gather, Nobody, Trust
<1>3. /\ gather' \in [Gatherers -> Gather \cup {Idle}]
      /\ \A h \in Gatherers \ {g} : gather'[h] = gather[h]
      /\ gather'[g] # Idle /\ gather'[g].at = "loaded"
      /\ gather'[g].nb = gather[g].nb /\ gather'[g].macs = macs /\ gather'[g].found = {}
  BY <1>1, <1>2, ProceedsTo DEF FleetInv
<1>4. FleetTypeOK'
  <2>1. faulted' \in BOOLEAN /\ mixed' \in BOOLEAN
    BY <1>1 DEF FleetInv, FleetTypeOK
  <2> QED
    BY <1>1, <1>3, <2>1 DEF FleetInv, FleetTypeOK, lanVars, fileVars
<1>5. OneAtTheFile'
  <2> SUFFICES ASSUME ~mixed'
               PROVE /\ \A h, k \in Gatherers : AtFile(h)' /\ AtFile(k)' => h = k
                     /\ torn' => \E h \in Gatherers : GatherAt(h, "opened")'
                     /\ ~faulted' => \A h \in Gatherers : AtFile(h)' =>
                           \A n \in Names : known'[n] # NoDev => gather'[h].macs[n] = known'[n]
    BY DEF OneAtTheFile
  <2>1. ~mixed /\ \A h \in Gatherers \ {g} : ~AtFile(h)
    BY <1>1
  <2>2. ~AtFile(g) /\ ~torn
    BY <1>1, <2>1 DEF AtFile, GatherAt, FleetInv, OneAtTheFile
  <2>3. \A h \in Gatherers \ {g} : ~AtFile(h)'
    BY <1>3, <2>1 DEF AtFile, GatherAt
  <2> QED
    BY <1>1, <1>3, <2>2, <2>3 DEF fileVars
<1>6. AddressesStay'
  BY <1>1, <1>3 DEF FleetInv, AddressesStay, TrueNow, lanVars
<1>7. CandidatesAreStrangers'
  BY <1>1, <1>3 DEF FleetInv, CandidatesAreStrangers, Apart, lanVars
<1> QED
  BY <1>1, <1>4, <1>5, <1>6, <1>7 DEF FleetInv, TrustedChildIsSpared

(* If anybody is left over, every listed child is where a MAC is that is   *)
(* now trusted under its name - and not where a candidate is.              *)
LEMMA LeftoverIsApart ==
    ASSUME NEW x \in Gather, NEW c \in Claims(x)
    PROVE /\ Learned(x, c) \in Trust
          /\ Leftover(x, c) \in SUBSET Candidates
          /\ TrueNow(x.nb) => Apart(Leftover(x, c), x.listed, Learned(x, c))
          /\ \A n \in Names : x.macs[n] # NoDev => Learned(x, c)[n] = x.macs[n]
<1>1. /\ x.listed \in SUBSET Names /\ x.inv \in Resolution
      /\ x.nb \in [Ips -> Devs \cup {NoDev}] /\ x.macs \in Trust
  BY DEF Gather
<1>2. c \in [x.listed -> Ips \cup {NoIp}]
  BY DEF Claims
<1>3. Learned(x, c) \in Trust
  <2>1. ASSUME NEW n \in Names
        PROVE (IF n \in x.listed /\ x.macs[n] = NoDev /\ c[n] # NoIp
               THEN x.nb[c[n]] ELSE x.macs[n]) \in Devs \cup {NoDev}
    BY <1>1, <1>2 DEF Trust
  <2> QED
    BY <2>1 DEF Learned, Trust
<1>4. Leftover(x, c) \in SUBSET Candidates
  BY DEF Leftover
<1>5. ASSUME TrueNow(x.nb), NEW p \in Leftover(x, c), NEW n \in x.listed, Learned(x, c)[n] # NoDev
      PROVE lastLease[Learned(x, c)[n]] \in Ips \ {p[1]}
  <2>1. c[n] # NoIp /\ c[n] # p[1]
    BY DEF Leftover
  <2>2. c[n] \in Ips
    BY <1>2, <2>1
  <2>3. Learned(x, c)[n] = IF x.macs[n] = NoDev THEN x.nb[c[n]] ELSE x.macs[n]
    BY <1>1, <2>1 DEF Learned
  <2>4. x.macs[n] # NoDev => x.nb[c[n]] = x.macs[n]
    <3> DEFINE there == IF x.inv[n] = NoIp THEN NoDev ELSE x.nb[x.inv[n]]
               moved == {i \in Ips : x.macs[n] # NoDev /\ x.nb[i] = x.macs[n]}
    <3>1. IF there # NoDev /\ x.macs[n] \in {NoDev, there}
          THEN c[n] = x.inv[n]
          ELSE IF moved # {} THEN c[n] \in moved ELSE c[n] = NoIp
      BY DEF Claims
    <3>2. CASE there # NoDev /\ x.macs[n] \in {NoDev, there}
      BY <3>1, <3>2
    <3>3. CASE ~(there # NoDev /\ x.macs[n] \in {NoDev, there})
      BY <2>1, <3>1, <3>3
    <3> QED
      BY <3>2, <3>3
  <2>5. x.nb[c[n]] # NoDev /\ Learned(x, c)[n] = x.nb[c[n]]
    BY <1>5, <2>3, <2>4
  <2>6. lastLease[x.nb[c[n]]] = c[n]
    BY <1>5, <2>2, <2>5 DEF TrueNow
  <2> QED
    BY <2>1, <2>2, <2>5, <2>6
<1>6. \A n \in Names : x.macs[n] # NoDev => Learned(x, c)[n] = x.macs[n]
  BY DEF Learned
<1> QED
  BY <1>3, <1>4, <1>5, <1>6 DEF Apart

LEMMA BuildViewStep ==
    ASSUME FleetInv, NEW g \in Gatherers, BuildView(g)
    PROVE FleetInv'
<1> DEFINE x == gather[g]
<1>1. /\ gather[g] # Idle /\ gather[g].at = "loaded" /\ x \in Gather
      /\ UNCHANGED <<lanVars, host, blank, inventory, known, gathers, view, wizard, moves,
                     mixed, faulted, spoiled>>
  BY DEF BuildView, GatherAt, FleetInv, FleetTypeOK
<1>2. PICK c \in Claims(x), at \in {"answer", "opened"} :
          /\ Proceeds(g, at, x.nb, Learned(x, c), Leftover(x, c))
          /\ torn' = (torn \/ at = "opened")
  BY DEF BuildView
<1>3. /\ Learned(x, c) \in Trust /\ Leftover(x, c) \in SUBSET Candidates
      /\ TrueNow(x.nb) => Apart(Leftover(x, c), x.listed, Learned(x, c))
      /\ \A n \in Names : x.macs[n] # NoDev => Learned(x, c)[n] = x.macs[n]
      /\ x.nb \in [Ips -> Devs \cup {NoDev}]
  BY <1>1, LeftoverIsApart DEF Gather
<1>4. /\ gather' \in [Gatherers -> Gather \cup {Idle}]
      /\ \A h \in Gatherers \ {g} : gather'[h] = gather[h]
      /\ gather'[g] # Idle /\ gather'[g].at = at
      /\ gather'[g].listed = gather[g].listed /\ gather'[g].nb = gather[g].nb
      /\ gather'[g].macs = Learned(x, c) /\ gather'[g].found = Leftover(x, c)
  BY <1>1, <1>2, <1>3, ProceedsTo DEF FleetInv
<1>5. FleetTypeOK'
  <2>1. torn' \in BOOLEAN
    BY <1>2 DEF FleetInv, FleetTypeOK
  <2> QED
    BY <1>1, <1>4, <2>1 DEF FleetInv, FleetTypeOK, lanVars
<1>6. OneAtTheFile'
  <2> SUFFICES ASSUME ~mixed
               PROVE /\ \A h, k \in Gatherers : AtFile(h)' /\ AtFile(k)' => h = k
                     /\ torn' => \E h \in Gatherers : GatherAt(h, "opened")'
                     /\ ~faulted => \A h \in Gatherers : AtFile(h)' =>
                           \A n \in Names : known[n] # NoDev => gather'[h].macs[n] = known[n]
    BY <1>1 DEF OneAtTheFile
  <2>1. \A h \in Gatherers \ {g} : ~AtFile(h)
    BY <1>1 DEF FleetInv, OneAtTheFile, AtFile, GatherAt
  <2>2. \A h \in Gatherers \ {g} : ~AtFile(h)'
    BY <1>4, <2>1 DEF AtFile, GatherAt
  <2>3. ~torn
    BY <1>1, <2>1 DEF FleetInv, OneAtTheFile, AtFile, GatherAt
  <2>4. at = "opened" => GatherAt(g, "opened")'
    BY <1>4 DEF GatherAt
  <2>5. ~faulted => \A n \in Names : known[n] # NoDev => gather[g].macs[n] = known[n]
    BY <1>1 DEF FleetInv, OneAtTheFile, AtFile, GatherAt
  <2>6. ~faulted => \A n \in Names : known[n] # NoDev => gather'[g].macs[n] = known[n]
    BY <1>3, <1>4, <2>5
  <2> QED
    BY <1>2, <2>2, <2>3, <2>4, <2>6
<1>7. AddressesStay'
  BY <1>1, <1>4 DEF FleetInv, AddressesStay, TrueNow, lanVars
<1>8. CandidatesAreStrangers'
  <2>1. moves = 0 => TrueNow(x.nb)
    BY <1>1 DEF FleetInv, AddressesStay
  <2> QED
    BY <1>1, <1>3, <1>4, <2>1 DEF FleetInv, CandidatesAreStrangers, Apart, lanVars
<1> QED
  BY <1>1, <1>5, <1>6, <1>7, <1>8 DEF FleetInv, TrustedChildIsSpared

LEMMA SaveKnownStep ==
    ASSUME FleetInv, NEW g \in Gatherers, SaveKnown(g)
    PROVE /\ FleetInv'
          /\ \A n \in Names :
                known[n] # NoDev /\ ~mixed /\ ~faulted' => known'[n] = known[n]
<1>1. /\ gather[g] # Idle /\ gather[g].at = "opened"
      /\ Proceeds(g, "answer", gather[g].nb, gather[g].macs, gather[g].found)
      /\ known' = gather[g].macs
      /\ torn' = \E h \in Gatherers \ {g} : GatherAt(h, "opened")
      /\ UNCHANGED <<lanVars, host, blank, inventory, gathers, view, wizard, moves, mixed, faulted, spoiled>>
  BY DEF SaveKnown, GatherAt
<1>2. /\ gather[g].nb \in [Ips -> Devs \cup {NoDev}] /\ gather[g].macs \in Trust
      /\ gather[g].found \in SUBSET Candidates
  BY <1>1 DEF FleetInv, FleetTypeOK, Gather
<1>3. /\ gather' \in [Gatherers -> Gather \cup {Idle}]
      /\ \A h \in Gatherers \ {g} : gather'[h] = gather[h]
      /\ gather'[g] # Idle /\ gather'[g].at = "answer"
      /\ gather'[g].listed = gather[g].listed /\ gather'[g].nb = gather[g].nb
      /\ gather'[g].macs = gather[g].macs /\ gather'[g].found = gather[g].found
  BY <1>1, <1>2, ProceedsTo DEF FleetInv
<1>4. \A n \in Names : known[n] # NoDev /\ ~mixed /\ ~faulted' => known'[n] = known[n]
  BY <1>1 DEF FleetInv, OneAtTheFile, AtFile, GatherAt
<1>5. FleetTypeOK'
  <2>1. torn' \in BOOLEAN /\ known' \in Trust
    BY <1>1, <1>2
  <2> QED
    BY <1>1, <1>3, <2>1 DEF FleetInv, FleetTypeOK, lanVars
<1>6. OneAtTheFile'
  <2>1. ~AtFile(g)'
    BY <1>3 DEF AtFile, GatherAt
  <2>2. ~mixed => \A h \in Gatherers \ {g} : ~AtFile(h)
    BY <1>1 DEF FleetInv, OneAtTheFile, AtFile, GatherAt
  <2>3. ~mixed => \A h \in Gatherers : ~AtFile(h)'
    BY <1>3, <2>1, <2>2 DEF AtFile, GatherAt
  <2>4. ~mixed => ~torn'
    BY <1>1, <2>2 DEF AtFile
  <2> QED
    BY <1>1, <2>3, <2>4 DEF OneAtTheFile
<1>7. AddressesStay'
  BY <1>1, <1>3 DEF FleetInv, AddressesStay, TrueNow, lanVars
<1>8. CandidatesAreStrangers'
  BY <1>1, <1>3 DEF FleetInv, CandidatesAreStrangers, Apart, lanVars
<1> QED
  BY <1>1, <1>4, <1>5, <1>6, <1>7, <1>8 DEF FleetInv, TrustedChildIsSpared

(* A write that is cut off, by itself or with the server: the others go on *)
(* as they were, or are gone too.                                          *)
LEMMA SaveCutStep ==
    ASSUME FleetInv, (\E g \in Gatherers : SaveCut(g)) \/ ServerKilled
    PROVE /\ FleetInv'
          /\ \A n \in Names :
                known[n] # NoDev /\ ~mixed /\ ~faulted' => known'[n] = known[n]
<1>1. /\ \A g \in Gatherers : gather'[g] \in {gather[g], Idle}
      /\ gather' \in [Gatherers -> Gather \cup {Idle}]
      /\ UNCHANGED <<lanVars, host, blank, inventory, gathers, view, wizard, moves, mixed, spoiled>>
  BY DEF SaveCut, ServerKilled, Set, FleetInv, FleetTypeOK
<1>2. known' \in Trust /\ torn' \in BOOLEAN /\ faulted' \in BOOLEAN
  BY DEF SaveCut, ServerKilled, FleetInv, FleetTypeOK, Nobody, Trust
<1>3. FleetTypeOK'
  BY <1>1, <1>2 DEF FleetInv, FleetTypeOK, lanVars
<1>4. ASSUME ~mixed
      PROVE ~torn' /\ \A g \in Gatherers : ~AtFile(g)'
  <2>1. ASSUME NEW g \in Gatherers, SaveCut(g)
        PROVE ~torn' /\ \A h \in Gatherers : ~AtFile(h)'
    <3>1. \A h \in Gatherers \ {g} : ~AtFile(h)
      BY <1>4, <2>1 DEF SaveCut, FleetInv, OneAtTheFile, AtFile
    <3>2. gather'[g] = Idle /\ \A h \in Gatherers \ {g} : gather'[h] = gather[h]
      BY <2>1 DEF SaveCut, Set, FleetInv, FleetTypeOK
    <3> QED
      BY <2>1, <3>1, <3>2 DEF SaveCut, AtFile, GatherAt
  <2>2. CASE ServerKilled
    BY <2>2 DEF ServerKilled, AtFile, GatherAt
  <2> QED
    BY <2>1, <2>2
<1>5. OneAtTheFile'
  BY <1>1, <1>4 DEF OneAtTheFile
<1>6. AddressesStay'
  BY <1>1 DEF FleetInv, AddressesStay, TrueNow, lanVars
<1>7. CandidatesAreStrangers'
  BY <1>1 DEF FleetInv, CandidatesAreStrangers, Apart, lanVars
<1>8. \A n \in Names : known[n] # NoDev /\ ~mixed /\ ~faulted' => known'[n] = known[n]
  BY DEF SaveCut, ServerKilled, FleetInv, FleetTypeOK
<1> QED
  BY <1>1, <1>3, <1>5, <1>6, <1>7, <1>8 DEF FleetInv, TrustedChildIsSpared

LEMMA ShowViewStep ==
    ASSUME FleetInv, NEW g \in Gatherers, ShowView(g)
    PROVE FleetInv'
<1> DEFINE shown == [n \in Names |-> IF n \in gather[g].listed THEN gather[g].macs[n]
                                     ELSE NoDev]
<1>1. /\ gather[g] # Idle /\ gather[g].at = "answer"
      /\ view' = IF wizard # Idle THEN view ELSE [found |-> gather[g].found, macs |-> shown]
      /\ gather' = [gather EXCEPT ![g] = Idle]
      /\ UNCHANGED <<lanVars, host, blank, fileVars, gathers, wizard, moves, mixed, faulted, spoiled>>
  BY DEF ShowView, GatherAt, Set
<1>2. gather[g].found \in SUBSET Candidates /\ gather[g].macs \in Trust
  BY <1>1 DEF FleetInv, FleetTypeOK, Gather
<1>3. shown \in Trust
  BY <1>2 DEF Trust
<1>4. \A n \in Names : shown[n] # NoDev => n \in gather[g].listed /\ shown[n] = gather[g].macs[n]
  OBVIOUS
<1> HIDE DEF shown
<1>5. /\ gather'[g] = Idle /\ \A h \in Gatherers \ {g} : gather'[h] = gather[h]
      /\ gather' \in [Gatherers -> Gather \cup {Idle}]
  BY <1>1 DEF FleetInv, FleetTypeOK
<1>6. FleetTypeOK'
  <2>1. view' \in [found : SUBSET Candidates, macs : Trust]
    BY <1>1, <1>2, <1>3 DEF FleetInv, FleetTypeOK
  <2> QED
    BY <1>1, <1>5, <2>1 DEF FleetInv, FleetTypeOK, lanVars, fileVars
<1>7. OneAtTheFile'
  <2>1. \A h \in Gatherers : /\ GatherAt(h, "loaded")' <=> GatherAt(h, "loaded")
                             /\ GatherAt(h, "opened")' <=> GatherAt(h, "opened")
                             /\ GatherAt(h, "loaded") \/ GatherAt(h, "opened") => h # g
    BY <1>1, <1>5 DEF GatherAt
  <2> QED
    BY <1>1, <1>5, <2>1 DEF FleetInv, OneAtTheFile, AtFile, fileVars
<1>8. AddressesStay'
  BY <1>1, <1>5 DEF FleetInv, AddressesStay, TrueNow, lanVars
<1>9. CandidatesAreStrangers'
  <2>1. moves = 0 => Apart(gather[g].found, gather[g].listed, gather[g].macs)
    BY <1>1 DEF FleetInv, CandidatesAreStrangers
  <2>2. moves = 0 => Apart(gather[g].found, Names, shown)
    BY <1>4, <2>1 DEF Apart
  <2>3. /\ wizard = Idle => view'.found = gather[g].found /\ view'.macs = shown
        /\ wizard # Idle => view' = view
    BY <1>1
  <2> QED
    BY <1>1, <1>5, <2>2, <2>3 DEF FleetInv, CandidatesAreStrangers, Apart, lanVars
<1> QED
  BY <1>1, <1>6, <1>7, <1>8, <1>9 DEF FleetInv, TrustedChildIsSpared

-----------------------------------------------------------------------------
LEMMA FleetInvStep ==
    ASSUME FleetInv, [FleetNext]_fleetVars
    PROVE /\ FleetInv'
          /\ \A n \in Names :
                known[n] # NoDev /\ ~mixed /\ ~faulted' => known'[n] = known[n]
<1>1. CASE UNCHANGED fleetVars
  <2>1. FleetTypeOK'
    BY <1>1 DEF fleetVars, lanVars, fileVars, viewVars, FleetInv, FleetTypeOK
  <2>2. OneAtTheFile' /\ AddressesStay' /\ CandidatesAreStrangers'
    BY <1>1, FileStays, AddressesKept, StrangersKept
    DEF fleetVars, lanVars, fileVars, viewVars
  <2> QED
    BY <1>1, <2>1, <2>2
    DEF fleetVars, lanVars, fileVars, viewVars, FleetInv, TrustedChildIsSpared
<1>2. ASSUME NEW d \in Devs, NEW i \in Ips, TakesLease(d, i) PROVE FleetInv' /\ known' = known
  BY <1>2, TakesLeaseStep DEF TakesLease, fileVars
<1>3. ASSUME NEW d \in Devs, Leaves(d) PROVE FleetInv' /\ known' = known
  BY <1>3, WiFiStep DEF Leaves, fileVars
<1>4. ASSUME NEW i \in Ips, ArpFails(i) PROVE FleetInv' /\ known' = known
  BY <1>4, WiFiStep DEF ArpFails, fileVars
<1>5. ASSUME NEW g \in Gatherers,
             \/ GatherResolves(g) \/ ReadNeighbors(g) \/ LoadKnown(g)
             \/ BuildView(g) \/ ShowView(g)
      PROVE FleetInv' /\ known' = known
  <2>1. FleetInv'
    BY <1>5, ResolvesStep, ReadNeighborsStep, LoadKnownStep, BuildViewStep, ShowViewStep
  <2>2. known' = known
    BY <1>5 DEF GatherResolves, ReadNeighbors, LoadKnown, BuildView, ShowView, fileVars
  <2> QED
    BY <2>1, <2>2
<1>6. ASSUME (\E g \in Gatherers : SaveKnown(g) \/ SaveCut(g)) \/ ServerKilled
      PROVE /\ FleetInv'
            /\ \A n \in Names :
                  known[n] # NoDev /\ ~mixed /\ ~faulted' => known'[n] = known[n]
  BY <1>6, SaveKnownStep, SaveCutStep
<1>7. ASSUME NEW d \in Devs, BlankStaNo(d) PROVE FleetInv' /\ known' = known
  BY <1>7, BlankStep DEF BlankStaNo, fileVars
<1>8. ASSUME \/ \E c \in Candidates : OpenWizard(c)
             \/ \E d \in Devs, n \in Names : Rename(d, n)
             \/ \E n \in Names : AddToInventory(n)
             \/ CloseWizard
      PROVE FleetInv' /\ known' = known
  BY <1>8, WizardStep DEF OpenWizard, Rename, AddToInventory, CloseWizard, fileVars
<1>9. CASE FleetNext
  BY <1>9, <1>2, <1>3, <1>4, <1>5, <1>6, <1>7, <1>8 DEF FleetNext
<1>10. CASE UNCHANGED fleetVars
  BY <1>1, <1>10 DEF fleetVars, fileVars
<1> QED
  BY <1>9, <1>10

LEMMA FleetInvariant == FleetSpec => []FleetInv
<1> QED
  BY FleetInvInit, FleetInvStep, PTL DEF FleetSpec

(* The hub's picture of its children stays what it is declared to be: no   *)
(* two devices in the Wi-Fi share an address, and the ARP table has the    *)
(* MAC of every device that is in it.                                      *)
THEOREM FleetTypeCorrect == FleetSpec => []FleetTypeOK
<1>1. FleetInv => FleetTypeOK
  BY DEF FleetInv
<1> QED
  BY <1>1, FleetInvariant, PTL

(* For any number of devices, names, addresses and requests: while no      *)
(* address changes hands the wizard never blanks a child the page listed   *)
(* with its MAC, even if clones have its name, the list, mDNS or ARP is    *)
(* behind, and known_macs.json was lost (classify, run_step).              *)
THEOREM WizardSparesTrusted == FleetSpec => []TrustedChildIsSpared
<1>1. FleetInv => TrustedChildIsSpared
  BY DEF FleetInv
<1> QED
  BY <1>1, FleetInvariant, PTL

(* A MAC that is trusted for a name stays trusted, as long as no two       *)
(* requests meet in known_macs.json, no read of it fails and no write of   *)
(* it is cut off (classify, load_known_macs, save_known_macs).             *)
THEOREM TrustIsKept == FleetSpec => TrustStands
<1>1. FleetInv /\ [FleetNext]_fleetVars
        => [\A n \in Names :
               known[n] # NoDev /\ ~mixed /\ ~faulted' => known'[n] = known[n]]_fleetVars
  BY FleetInvStep
<1> QED
  BY <1>1, FleetInvariant, PTL DEF FleetSpec, TrustStands

-----------------------------------------------------------------------------
(* A child's change of address: the guard against lock-out.                *)

Bad(m) == m \notin Reachable \cup {Dhcp}

(* Who will replace a bad profile, or see to it that a timer does.         *)
Replaces(c) ==
    \/ applying[c] \in {"cancelled", "up", "cleared"}
    \/ applying[c] = "modified" /\ asked[c] # Dhcp
    \/ timer[c] \in {"armed", "fired", "reverting"}

(* Who will bring up the stored profile.                                   *)
WillBringUp(c) == applying[c] = "modified" \/ timer[c] = "reverted"

ProfileIsWatched ==
    /\ \A c \in Changes : applying[c] = "cancelled" => asked[c] = Dhcp
    /\ \A c \in Changes : timer[c] # "none" => applying[c] \in {"started", "ended"}
    /\ ~failed =>
          /\ Bad(profile) => \E c \in Changes : Replaces(c)
          /\ active # profile => \E c \in Changes : WillBringUp(c)
          /\ Bad(profile) /\ active # profile =>
                \E c \in Changes : applying[c] = "modified" /\ asked[c] # Dhcp

(* Unless changes overlapped: one is applied at a time, and none while a   *)
(* timer reverts; the timer that is armed is the one in the slot, or about *)
(* to be put there.                                                        *)
OneTimer ==
    ~overlapped =>
        \A c, d \in Changes :
            /\ ~Applied(c) /\ ~Applied(d) => c = d
            /\ Reverting(c) => Applied(d) /\ timer[d] # "armed"
            /\ timer[c] = "armed" => slot = c \/ applying[c] = "started"
            /\ applying[c] \in {"cleared", "started"} /\ d # c => timer[d] # "armed"

(* While an address is confirmed nobody is about to arm a timer, and no    *)
(* timer runs.                                                             *)
ConfirmedIsQuiet ==
    confirmed =>
        \A c \in Changes :
            /\ applying[c] \notin {"up", "cleared", "started"}
            /\ ~overlapped => timer[c] # "armed" /\ ~Reverting(c)

-----------------------------------------------------------------------------
LEMMA IpTypeInit == IpInit => IpTypeOK
BY DEF IpInit, IpTypeOK, Modes

LEMMA CancelType ==
    IpTypeOK /\ CancelRevert =>
        /\ timer' \in [Changes -> {"none", "armed", "fired", "reverting", "reverted", "over"}]
        /\ slot' \in Changes \cup {NoTimer}
BY DEF IpTypeOK, CancelRevert

LEMMA IpTypeStep == IpTypeOK /\ [IpNext \/ IpKilled]_ipVars => IpTypeOK'
<1> SUFFICES ASSUME IpTypeOK, [IpNext \/ IpKilled]_ipVars PROVE IpTypeOK'
  OBVIOUS
<1> USE DEF IpTypeOK, Modes, Nmcli
<1>1. ASSUME NEW c \in Changes, NEW mode \in Modes, SetIpConfig(c, mode) PROVE IpTypeOK'
  BY <1>1 DEF SetIpConfig
<1>2. CASE ConfirmIpConfig
  BY <1>2, CancelType DEF ConfirmIpConfig
<1>3. ASSUME NEW c \in Changes, ApplyThread(c) PROVE IpTypeOK'
  <2>1. CASE CancelForDhcp(c)
    BY <2>1, CancelType DEF CancelForDhcp
  <2>2. CASE ModifyProfile(c)
    BY <2>2 DEF ModifyProfile
  <2>3. CASE BringUp(c)
    BY <2>3 DEF BringUp
  <2>4. CASE CancelOldTimer(c)
    BY <2>4, CancelType DEF CancelOldTimer
  <2>5. CASE StartTimer(c)
    BY <2>5 DEF StartTimer
  <2>6. CASE StoreTimer(c)
    BY <2>6 DEF StoreTimer
  <2> QED
    BY <1>3, <2>1, <2>2, <2>3, <2>4, <2>5, <2>6 DEF ApplyThread
<1>4. ASSUME NEW c \in Changes, TimerThread(c) PROVE IpTypeOK'
  <2>1. CASE TimerFires(c)
    BY <2>1 DEF TimerFires
  <2>2. CASE ForgetTimer(c)
    BY <2>2 DEF ForgetTimer
  <2>3. CASE RevertProfile(c)
    BY <2>3 DEF RevertProfile
  <2>4. CASE RevertUp(c)
    BY <2>4 DEF RevertUp
  <2> QED
    BY <1>4, <2>1, <2>2, <2>3, <2>4 DEF TimerThread
<1>5. ASSUME NEW c \in Changes, ApplyHangs(c) PROVE IpTypeOK'
  BY <1>5 DEF ApplyHangs
<1>6. ASSUME NEW c \in Changes, RevertHangs(c) PROVE IpTypeOK'
  BY <1>6 DEF RevertHangs
<1>7. CASE IpKilled
  BY <1>7 DEF IpKilled
<1>8. CASE UNCHANGED ipVars
  BY <1>8 DEF ipVars
<1> QED
  BY <1>1, <1>2, <1>3, <1>4, <1>5, <1>6, <1>7, <1>8 DEF IpNext

-----------------------------------------------------------------------------
(* Every step leaves a bad profile watched.                                *)
LEMMA WatchStep ==
    IpTypeOK /\ ProfileIsWatched /\ [IpNext \/ IpKilled]_ipVars => ProfileIsWatched'
<1> SUFFICES ASSUME IpTypeOK, ProfileIsWatched, [IpNext \/ IpKilled]_ipVars
             PROVE ProfileIsWatched'
  OBVIOUS
<1> USE DEF IpTypeOK, ProfileIsWatched, Replaces, WillBringUp, Nmcli
<1>1. ASSUME NEW c \in Changes, NEW mode \in Modes, SetIpConfig(c, mode)
      PROVE ProfileIsWatched'
  BY <1>1 DEF SetIpConfig
<1>2. CASE ConfirmIpConfig
  <2>1. ~failed /\ Bad(profile) => active # profile
    BY <1>2 DEF ConfirmIpConfig, PageOpens, Bad
  <2> QED
    BY <1>2, <2>1 DEF ConfirmIpConfig, CancelRevert
<1>3. ASSUME NEW c \in Changes, CancelForDhcp(c) PROVE ProfileIsWatched'
  BY <1>3 DEF CancelForDhcp, CancelRevert
<1>4. ASSUME NEW c \in Changes, ModifyProfile(c) PROVE ProfileIsWatched'
  BY <1>4 DEF ModifyProfile, Bad
<1>5. ASSUME NEW c \in Changes, BringUp(c) PROVE ProfileIsWatched'
  BY <1>5 DEF BringUp
<1>6. ASSUME NEW c \in Changes, CancelOldTimer(c) PROVE ProfileIsWatched'
  BY <1>6 DEF CancelOldTimer, CancelRevert
<1>7. ASSUME NEW c \in Changes, StartTimer(c) PROVE ProfileIsWatched'
  BY <1>7 DEF StartTimer
<1>8. ASSUME NEW c \in Changes, StoreTimer(c) PROVE ProfileIsWatched'
  BY <1>8 DEF StoreTimer
<1>9. ASSUME NEW c \in Changes, TimerFires(c) PROVE ProfileIsWatched'
  BY <1>9 DEF TimerFires
<1>10. ASSUME NEW c \in Changes, ForgetTimer(c) PROVE ProfileIsWatched'
  BY <1>10 DEF ForgetTimer
<1>11. ASSUME NEW c \in Changes, RevertProfile(c) PROVE ProfileIsWatched'
  BY <1>11 DEF RevertProfile, Bad
<1>12. ASSUME NEW c \in Changes, RevertUp(c) PROVE ProfileIsWatched'
  BY <1>12 DEF RevertUp
<1>13. ASSUME NEW c \in Changes, ApplyHangs(c) \/ RevertHangs(c) PROVE ProfileIsWatched'
  BY <1>13 DEF ApplyHangs, RevertHangs
<1>14. CASE IpKilled
  BY <1>14 DEF IpKilled, Underway, Applied, Reverting
<1>15. CASE UNCHANGED ipVars
  BY <1>15 DEF ipVars
<1> QED
  BY <1>1, <1>2, <1>3, <1>4, <1>5, <1>6, <1>7, <1>8, <1>9, <1>10, <1>11, <1>12,
     <1>13, <1>14, <1>15 DEF IpNext, ApplyThread, TimerThread

LEMMA IpInvariant == IpSpec => [](IpTypeOK /\ ProfileIsWatched)
<1>1. IpInit => ProfileIsWatched
  BY DEF IpInit, ProfileIsWatched, Bad
<1> QED
  BY IpTypeInit, IpTypeStep, <1>1, WatchStep, PTL DEF IpSpec

(* UI-IP-06: an address at which the page does not open always has         *)
(* somebody under way to replace it, however requests, timers and page     *)
(* loads interleave (_schedule_ip_revert, handle_set_ip_config).           *)
THEOREM LockoutAlwaysWatched == IpSpec => []LockoutIsWatched
<1>1. IpTypeOK /\ ProfileIsWatched => LockoutIsWatched
  BY DEF ProfileIsWatched, LockoutIsWatched, PageOpens, Bad, Replaces, WillBringUp,
         Underway, Applied, Reverting
<1> QED
  BY IpInvariant, <1>1, PTL

-----------------------------------------------------------------------------
(* Without overlap there is one timer; a confirmed address has none.       *)
LEMMA TimerStep ==
    IpTypeOK /\ OneTimer /\ ConfirmedIsQuiet /\ [IpNext \/ IpKilled]_ipVars
        => (OneTimer /\ ConfirmedIsQuiet)'
<1> SUFFICES ASSUME IpTypeOK, OneTimer, ConfirmedIsQuiet, [IpNext \/ IpKilled]_ipVars
             PROVE (OneTimer /\ ConfirmedIsQuiet)'
  OBVIOUS
<1> USE DEF IpTypeOK, OneTimer, ConfirmedIsQuiet, Applied, Reverting
<1>1. ASSUME NEW c \in Changes, NEW mode \in Modes, SetIpConfig(c, mode)
      PROVE (OneTimer /\ ConfirmedIsQuiet)'
  BY <1>1 DEF SetIpConfig, Underway
<1>2. CASE ConfirmIpConfig
  BY <1>2 DEF ConfirmIpConfig, CancelRevert, Underway
<1>3. ASSUME NEW c \in Changes, CancelForDhcp(c) PROVE (OneTimer /\ ConfirmedIsQuiet)'
  BY <1>3 DEF CancelForDhcp, CancelRevert
<1>4. ASSUME NEW c \in Changes, ModifyProfile(c) PROVE (OneTimer /\ ConfirmedIsQuiet)'
  BY <1>4 DEF ModifyProfile
<1>5. ASSUME NEW c \in Changes, BringUp(c) PROVE (OneTimer /\ ConfirmedIsQuiet)'
  BY <1>5 DEF BringUp
<1>6. ASSUME NEW c \in Changes, CancelOldTimer(c) PROVE (OneTimer /\ ConfirmedIsQuiet)'
  BY <1>6 DEF CancelOldTimer, CancelRevert
<1>7. ASSUME NEW c \in Changes, StartTimer(c) PROVE (OneTimer /\ ConfirmedIsQuiet)'
  BY <1>7 DEF StartTimer
<1>8. ASSUME NEW c \in Changes, StoreTimer(c) PROVE (OneTimer /\ ConfirmedIsQuiet)'
  BY <1>8 DEF StoreTimer
<1>9. ASSUME NEW c \in Changes, TimerFires(c) PROVE (OneTimer /\ ConfirmedIsQuiet)'
  BY <1>9 DEF TimerFires, Underway
<1>10. ASSUME NEW c \in Changes, ForgetTimer(c) PROVE (OneTimer /\ ConfirmedIsQuiet)'
  BY <1>10 DEF ForgetTimer
<1>11. ASSUME NEW c \in Changes, RevertProfile(c) PROVE (OneTimer /\ ConfirmedIsQuiet)'
  BY <1>11 DEF RevertProfile
<1>12. ASSUME NEW c \in Changes, RevertUp(c) PROVE (OneTimer /\ ConfirmedIsQuiet)'
  BY <1>12 DEF RevertUp
<1>13. ASSUME NEW c \in Changes, ApplyHangs(c) PROVE (OneTimer /\ ConfirmedIsQuiet)'
  BY <1>13 DEF ApplyHangs
<1>14. ASSUME NEW c \in Changes, RevertHangs(c) PROVE (OneTimer /\ ConfirmedIsQuiet)'
  BY <1>14 DEF RevertHangs
<1>15. CASE IpKilled
  BY <1>15 DEF IpKilled
<1>16. CASE UNCHANGED ipVars
  BY <1>16 DEF ipVars
<1> QED
  BY <1>1, <1>2, <1>3, <1>4, <1>5, <1>6, <1>7, <1>8, <1>9, <1>10, <1>11, <1>12,
     <1>13, <1>14, <1>15, <1>16 DEF IpNext, ApplyThread, TimerThread

(* Only a thread that applies a change moves a confirmed address.          *)
LEMMA ConfirmedStep ==
    ASSUME ConfirmedIsQuiet, IpNext \/ IpKilled, confirmed, active' # active, ~overlapped
    PROVE \E c \in Changes : applying[c] = "modified"
<1>1. \A c \in Changes : ~Reverting(c)
  BY DEF ConfirmedIsQuiet
<1>2. \A c \in Changes : ~RevertUp(c) /\ ~RevertHangs(c)
  BY <1>1 DEF Reverting, RevertUp, RevertHangs
<1>3. \A c \in Changes : BringUp(c) \/ ApplyHangs(c) => applying[c] = "modified"
  BY DEF BringUp, ApplyHangs
<1> QED
  BY <1>2, <1>3
  DEF IpNext, IpKilled, SetIpConfig, ConfirmIpConfig, ApplyThread, TimerThread,
      CancelForDhcp, ModifyProfile, CancelOldTimer, StartTimer, StoreTimer,
      TimerFires, ForgetTimer, RevertProfile

(* No timer of an earlier request takes a confirmed address away, unless   *)
(* two changes, or a change and a timer that fired, met                    *)
(* (_schedule_ip_revert, _cancel_ip_revert).                               *)
THEOREM ConfirmedAddressStays == IpSpec => ConfirmedStays
<1>1. IpInit => OneTimer /\ ConfirmedIsQuiet
  BY DEF IpInit, OneTimer, ConfirmedIsQuiet, Applied, Reverting
<1>2. IpSpec => [](IpTypeOK /\ OneTimer /\ ConfirmedIsQuiet)
  BY IpTypeInit, IpTypeStep, <1>1, TimerStep, PTL DEF IpSpec
<1>3. ConfirmedIsQuiet /\ [IpNext \/ IpKilled]_ipVars =>
          [confirmed /\ active' # active
             => overlapped \/ \E c \in Changes : applying[c] = "modified"]_ipVars
  BY ConfirmedStep
<1> QED
  BY <1>2, <1>3, PTL DEF IpSpec, ConfirmedStays

================================================================================
