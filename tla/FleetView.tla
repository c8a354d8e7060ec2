------------------------------ MODULE FleetView ------------------------------
(***************************************************************************)
(* The hub's picture of its children (fleet_ui/server.py, discovery.py)    *)
(* and the wizard that makes a new one of a cloned card (provision.py).    *)
(*                                                                         *)
(* A child is known by its MAC; the list knows its name, mDNS gives the    *)
(* name an address, ARP gives the address a MAC.  The first MAC seen for a *)
(* name is trusted from then on.  Each browser tab's request for the view  *)
(* runs in a thread of its own, the wizard acts on a view that may be old, *)
(* by address; meanwhile leases change, and an ARP entry outlives them.    *)
(***************************************************************************)
EXTENDS Naturals, FiniteSets

CONSTANTS
    Devs, NoDev,     (* the Pis in the hub's Wi-Fi, by MAC                  *)
    Ips, NoIp,
    Names, First,    (* First: the name on the card the others are cloned from *)
    Alias,           (* the fixed address a name has in ssh_config, or NoIp *)
    Gatherers,       (* threads that answer /api/fleet                      *)
    Idle,
    MaxMoves, MaxGathers   (* bounds                                        *)

VARIABLES
    lease,        (* the address a device has                               *)
    lastLease,    (* what the DHCP server remembers of it                   *)
    neighbors,    (* the ARP table: the MAC of an address, STALE ones too   *)
    host,         (* a device's own name                                    *)
    blank,        (* devices whose STA_NO is ''                             *)
    inventory,    (* children.conf                                          *)
    known,        (* known_macs.json: the MAC trusted for a name            *)
    torn,         (* that file has been opened for writing                  *)
    gather,       (* where each thread is                                   *)
    gathers,
    view,         (* the operator's page: candidates, and the MACs trusted  *)
                  (* under the names it lists                               *)
    wizard,       (* the candidate the wizard was opened for, and those MACs *)
    moves,        (* history: leases that changed a device's address        *)
    mixed,        (* history: a thread read or wrote the file in another's write *)
    faulted,      (* history: a read failed, or a write was cut off         *)
    spoiled       (* history: children blanked whose MAC the page's view had trusted *)

lanVars == <<lease, lastLease, neighbors>>
fileVars == <<inventory, known, torn>>
viewVars == <<gather, gathers, view, wizard>>
fleetVars == <<lanVars, host, blank, fileVars, viewVars, moves, mixed, faulted, spoiled>>

Candidates == Ips \X Devs

Resolution == [Names -> Ips \cup {NoIp}]
Trust == [Names -> Devs \cup {NoDev}]
Nobody == [n \in Names |-> NoDev]

Gather == [at : {"resolved", "listed", "loaded", "opened", "answer"}, listed : SUBSET Names,
           inv : Resolution, nb : [Ips -> Devs \cup {NoDev}], macs : Trust,
           found : SUBSET Candidates]

ASSUME FleetAssumption ==
    /\ NoDev \notin Devs /\ NoIp \notin Ips /\ First \in Names
    /\ Alias \in [Names -> Ips \cup {NoIp}]
    /\ Idle \notin Gather \cup [is : Candidates, macs : Trust]

FleetTypeOK ==
    /\ lease \in [Devs -> Ips \cup {NoIp}] /\ lastLease \in [Devs -> Ips \cup {NoIp}]
    /\ \A d, e \in Devs : lease[d] = lease[e] /\ d # e => lease[d] = NoIp
    /\ neighbors \in [Ips -> Devs \cup {NoDev}]
    /\ \A d \in Devs : lease[d] # NoIp => neighbors[lease[d]] = d
    /\ host \in [Devs -> Names] /\ blank \subseteq Devs
    /\ inventory \subseteq Names /\ known \in Trust /\ torn \in BOOLEAN
    /\ gather \in [Gatherers -> Gather \cup {Idle}]
    /\ view \in [found : SUBSET Candidates, macs : Trust]
    /\ wizard \in [is : Candidates, macs : Trust] \cup {Idle}
    /\ moves \in Nat /\ mixed \in BOOLEAN /\ faulted \in BOOLEAN /\ spoiled \subseteq Devs

(* One child at work, registered under the card's name.                    *)
FleetInit ==
    /\ lease = [d \in Devs |-> NoIp] /\ lastLease = lease
    /\ neighbors = [i \in Ips |-> NoDev]
    /\ host = [d \in Devs |-> First]
    /\ blank = {} /\ spoiled = {}
    /\ inventory = {First} /\ known = Nobody /\ torn = FALSE
    /\ gather = [g \in Gatherers |-> Idle] /\ gathers = 0
    /\ view = [found |-> {}, macs |-> Nobody] /\ wizard = Idle
    /\ moves = 0 /\ mixed = FALSE /\ faulted = FALSE

-----------------------------------------------------------------------------
(* The Wi-Fi (external).                                                   *)

TakesLease(d, i) ==
    /\ lease[d] = NoIp
    /\ \A e \in Devs : lease[e] # i
    /\ LET same == lastLease[d] \in {NoIp, i} /\ \A e \in Devs \ {d} : lastLease[e] # i
       IN  /\ same \/ moves < MaxMoves
           /\ moves' = IF same THEN moves ELSE moves + 1
    /\ lease' = [lease EXCEPT ![d] = i]
    /\ lastLease' = [lastLease EXCEPT ![d] = i]
    /\ neighbors' = [neighbors EXCEPT ![i] = d]
    /\ UNCHANGED <<host, blank, fileVars, viewVars, mixed, faulted, spoiled>>

Leaves(d) ==
    /\ lease[d] # NoIp
    /\ lease' = [lease EXCEPT ![d] = NoIp]
    /\ UNCHANGED <<lastLease, neighbors, host, blank, fileVars, viewVars, moves, mixed, faulted, spoiled>>

(* The entry has FAILED: parse_neigh leaves it out.                        *)
ArpFails(i) ==
    /\ neighbors[i] # NoDev /\ \A d \in Devs : lease[d] # i
    /\ neighbors' = [neighbors EXCEPT ![i] = NoDev]
    /\ UNCHANGED <<lease, lastLease, host, blank, fileVars, viewVars, moves, mixed, faulted, spoiled>>

(* resolve_inventory_ips: of the devices with this name avahi lets one     *)
(* have it, or ssh_config has an address for it, which nobody need have    *)
(* now; run_cmd may also run into its time-out.                            *)
Resolves(listed) ==
    {r \in Resolution :
        \A n \in Names : r[n] # NoIp =>
            /\ n \in listed
            /\ r[n] = Alias[n] \/ \E d \in Devs : host[d] = n /\ lease[d] = r[n]}

-----------------------------------------------------------------------------
(* /api/fleet: _gather.                                                    *)

Set(g, fields) == gather' = [gather EXCEPT ![g] = fields]

GatherAt(g, at) == gather[g] # Idle /\ gather[g].at = at

(* The thread goes on with what it has read and found.                     *)
Proceeds(g, at, nb, macs, found) ==
    Set(g, [at |-> at, listed |-> gather[g].listed, inv |-> gather[g].inv,
            nb |-> nb, macs |-> macs, found |-> found])

GatherResolves(g) ==
    /\ gather[g] = Idle /\ gathers < MaxGathers
    /\ gathers' = gathers + 1
    /\ \E r \in Resolves(inventory) :
          Set(g, [at |-> "resolved", listed |-> inventory, inv |-> r,
                  nb |-> [i \in Ips |-> NoDev], macs |-> Nobody, found |-> {}])
    /\ UNCHANGED <<lanVars, host, blank, fileVars, view, wizard, moves, mixed, faulted, spoiled>>

(* read_neighbors; then an SSH call to every child.                        *)
ReadNeighbors(g) ==
    /\ GatherAt(g, "resolved")
    /\ Proceeds(g, "listed", neighbors, Nobody, {})
    /\ UNCHANGED <<lanVars, host, blank, fileVars, gathers, view, wizard, moves, mixed, faulted, spoiled>>

(* load_known_macs: a half-written file is no file, and so is one that     *)
(* cannot be read.                                                         *)
LoadKnown(g) ==
    /\ GatherAt(g, "listed")
    /\ \/ /\ Proceeds(g, "loaded", gather[g].nb, IF torn THEN Nobody ELSE known, {})
          /\ UNCHANGED faulted
       \/ /\ Proceeds(g, "loaded", gather[g].nb, Nobody, {})
          /\ faulted' = TRUE
    /\ mixed' = (mixed \/ \E h \in Gatherers \ {g} : GatherAt(h, "loaded") \/ GatherAt(h, "opened"))
    /\ UNCHANGED <<lanVars, host, blank, fileVars, gathers, view, wizard, moves, spoiled>>

(* As "Claims", where the address alone decides.                           *)
ClaimsByAddress(x) ==
    {[n \in x.listed |-> IF x.inv[n] # NoIp /\ x.nb[x.inv[n]] # NoDev THEN x.inv[n] ELSE NoIp]}

(* classify: by address, if the MAC there is the trusted one or none is    *)
(* trusted yet; else by the trusted MAC, wherever the ARP table has it     *)
(* (by_mac keeps one of several); else unresolved (NoIp).                  *)
Claims(x) ==
    {c \in [x.listed -> Ips \cup {NoIp}] :
        \A n \in x.listed :
            LET there == IF x.inv[n] = NoIp THEN NoDev ELSE x.nb[x.inv[n]]
                moved == {i \in Ips : x.macs[n] # NoDev /\ x.nb[i] = x.macs[n]}
            IN  IF there # NoDev /\ x.macs[n] \in {NoDev, there}
                THEN c[n] = x.inv[n]
                ELSE IF moved # {} THEN c[n] \in moved ELSE c[n] = NoIp}

(* One unresolved child, and nobody is offered as new.                     *)
Leftover(x, c) ==
    IF \E n \in x.listed : c[n] = NoIp THEN {}
    ELSE {p \in Candidates : x.nb[p[1]] = p[2] /\ \A n \in x.listed : c[n] # p[1]}

(* As "Learned", keeping only the names resolved this time.                *)
LearnedThisTime(x, c) ==
    [n \in Names |-> IF n \in x.listed /\ c[n] # NoIp THEN x.nb[c[n]] ELSE NoDev]

Learned(x, c) ==
    [n \in Names |->
        IF n \in x.listed /\ x.macs[n] = NoDev /\ c[n] # NoIp THEN x.nb[c[n]] ELSE x.macs[n]]

(* build_fleet_view, then open(..., "w") if there is something to keep.    *)
BuildView(g) ==
    /\ GatherAt(g, "loaded")
    /\ \E c \in Claims(gather[g]) :
          LET x == gather[g]
              next == IF Learned(x, c) = x.macs THEN "answer" ELSE "opened"
          IN  /\ Proceeds(g, next, x.nb, Learned(x, c), Leftover(x, c))
              /\ torn' = (torn \/ next = "opened")
    /\ UNCHANGED <<lanVars, host, blank, inventory, known, gathers, view, wizard, moves, mixed, faulted, spoiled>>

SaveKnown(g) ==
    /\ GatherAt(g, "opened")
    /\ known' = gather[g].macs
    /\ torn' = \E h \in Gatherers \ {g} : GatherAt(h, "opened")
    /\ Proceeds(g, "answer", gather[g].nb, gather[g].macs, gather[g].found)
    /\ UNCHANGED <<lanVars, host, blank, inventory, gathers, view, wizard, moves, mixed, faulted, spoiled>>

(* The write fails after the truncation, and with it the request.          *)
SaveCut(g) ==
    /\ GatherAt(g, "opened")
    /\ known' = Nobody
    /\ torn' = \E h \in Gatherers \ {g} : GatherAt(h, "opened")
    /\ faulted' = TRUE
    /\ Set(g, Idle)
    /\ UNCHANGED <<lanVars, host, blank, inventory, gathers, view, wizard, moves, mixed, spoiled>>

(* The server is ended; a file it had opened for writing stays empty.      *)
ServerKilled ==
    /\ gather' = [g \in Gatherers |-> Idle]
    /\ known' = IF torn THEN Nobody ELSE known
    /\ torn' = FALSE
    /\ faulted' = (faulted \/ torn)
    /\ UNCHANGED <<lanVars, host, blank, inventory, gathers, view, wizard, moves, mixed, spoiled>>

(* The page takes the answer unless the wizard is open.                    *)
ShowView(g) ==
    /\ GatherAt(g, "answer")
    /\ view' = IF wizard # Idle THEN view
               ELSE [found |-> gather[g].found,
                     macs |-> [n \in Names |-> IF n \in gather[g].listed THEN gather[g].macs[n]
                                               ELSE NoDev]]
    /\ Set(g, Idle)
    /\ UNCHANGED <<lanVars, host, blank, fileVars, gathers, wizard, moves, mixed, faulted, spoiled>>

-----------------------------------------------------------------------------
(* The wizard: startWizard, then run_step for each button, in any order.   *)

OpenWizard(c) ==
    /\ wizard = Idle /\ c \in view.found
    /\ wizard' = [is |-> c, macs |-> view.macs]
    /\ UNCHANGED <<lanVars, host, blank, fileVars, gather, gathers, view, moves, mixed, faulted, spoiled>>

(* run_step refuses an address that an entry resolves to now.              *)
Refused == \A r \in Resolves(inventory) : \E n \in inventory : r[n] = wizard.is[1]

Reached(d) == wizard # Idle /\ lease[d] = wizard.is[1] /\ ~Refused

(* blank_sta_no: whoever has the address.                                  *)
BlankStaNo(d) ==
    /\ Reached(d)
    /\ blank' = blank \cup {d}
    /\ spoiled' = IF host[d] \in inventory /\ wizard.macs[host[d]] = d THEN spoiled \cup {d} ELSE spoiled
    /\ UNCHANGED <<lanVars, host, fileVars, viewVars, moves, mixed, faulted>>

(* rename_and_reboot: a new name for the list, and the address is gone.    *)
Rename(d, n) ==
    /\ Reached(d) /\ n \notin inventory
    /\ host' = [host EXCEPT ![d] = n]
    /\ lease' = [lease EXCEPT ![d] = NoIp]
    /\ UNCHANGED <<lastLease, neighbors, blank, fileVars, viewVars, moves, mixed, faulted, spoiled>>

(* add_to_inventory, whether or not anybody answers to the name; the page  *)
(* loads the view anew.                                                    *)
AddToInventory(n) ==
    /\ wizard # Idle /\ n \notin inventory /\ ~Refused
    /\ inventory' = inventory \cup {n}
    /\ wizard' = Idle
    /\ UNCHANGED <<lanVars, host, blank, known, torn, gather, gathers, view, moves, mixed, faulted, spoiled>>

(* Another page load.                                                      *)
CloseWizard ==
    /\ wizard # Idle
    /\ wizard' = Idle
    /\ UNCHANGED <<lanVars, host, blank, fileVars, gather, gathers, view, moves, mixed, faulted, spoiled>>

FleetNext ==
    \/ \E d \in Devs : (\E i \in Ips : TakesLease(d, i)) \/ Leaves(d)
    \/ \E i \in Ips : ArpFails(i)
    \/ \E g \in Gatherers :
          \/ GatherResolves(g)
          \/ ReadNeighbors(g)
          \/ LoadKnown(g)
          \/ BuildView(g)
          \/ SaveKnown(g)
          \/ SaveCut(g)
          \/ ShowView(g)
    \/ ServerKilled
    \/ \E c \in Candidates : OpenWizard(c)
    \/ \E d \in Devs : BlankStaNo(d)
    \/ \E d \in Devs, n \in Names : Rename(d, n)
    \/ \E n \in Names : AddToInventory(n)
    \/ CloseWizard

FleetSpec == FleetInit /\ [][FleetNext]_fleetVars

-----------------------------------------------------------------------------
(* A child at work is not made a new one: if the page listed it with its   *)
(* MAC trusted under its name, the wizard never blanks its station         *)
(* numbers, although a clone may have its name, and mDNS may answer for    *)
(* the clone or not at all (classify, run_step) - as long as no address    *)
(* changes hands, and whatever other requests do to known_macs.json.       *)
TrustedChildIsSpared == spoiled # {} => moves > 0

(* The same without that condition, as the documents have it: the wizard   *)
(* takes only devices that are not on the list, so that no child at work   *)
(* is made a new one (run_step), and when every entry is resolved all      *)
(* known children are claimed (classify).                                  *)
RegisteredChildIsSpared == spoiled = {}

(* What is trusted stays trusted (classify: from the second time on the    *)
(* MAC decides) as long as no two requests meet in known_macs.json, no     *)
(* read of it fails - which counts as an empty file, and the next save     *)
(* makes it so - and no write of it is cut off after its truncation        *)
(* (load_known_macs, save_known_macs).                                     *)
TrustStands ==
    [][\A n \in Names :
          known[n] # NoDev /\ ~mixed /\ ~faulted' => known'[n] = known[n]]_fleetVars
=============================================================================
