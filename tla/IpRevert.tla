------------------------------- MODULE IpRevert -------------------------------
(***************************************************************************)
(* The change of the child's IP address (child/web_server.py): the request *)
(* is answered at once, a thread of its own applies it a second later and, *)
(* for a fixed address, arms a timer that returns to DHCP unless a page is *)
(* loaded at the new address (/confirm_ip_config) within 60 seconds.       *)
(*                                                                         *)
(* Requests, their threads, the timers' threads and the confirmations      *)
(* share _ip_revert without a lock.  nmcli is external: "modify" changes   *)
(* the stored profile, "up" makes the profile the active one, and either   *)
(* may fail, which nobody looks at, or hang, whereupon subprocess.run      *)
(* raises and the thread ends.                                             *)
(***************************************************************************)
EXTENDS Naturals, FiniteSets

CONSTANTS
    Addresses,    (* fixed addresses an operator may ask for                *)
    Reachable,    (* of them, those at which the page opens                 *)
    Dhcp,         (* the address is leased                                  *)
    Changes,      (* the requests, numbered as they come: a bound           *)
    NoTimer

ASSUME IpAssumption ==
    /\ Reachable \subseteq Addresses
    /\ Dhcp \notin Addresses
    /\ Changes \subseteq Nat \ {NoTimer}

VARIABLES
    profile,      (* NetworkManager's stored profile                        *)
    active,       (* the address the interface has                          *)
    asked,        (* what each request asked for                            *)
    applying,     (* where the thread _apply of a request is                *)
    timer,        (* where the timer a request armed is                     *)
    slot,         (* _ip_revert["timer"]                                    *)
    confirmed,    (* history: the active address was confirmed in time      *)
    failed,       (* history: an nmcli call failed or timed out, or a kill  *)
                  (* hit a change                                           *)
    overlapped    (* history: two changes, or a change and a timer that     *)
                  (* fired, were under way at once                          *)

ipVars == <<profile, active, asked, applying, timer, slot, confirmed, failed, overlapped>>

Modes == Addresses \cup {Dhcp}

IpTypeOK ==
    /\ profile \in Modes /\ active \in Modes
    /\ asked \in [Changes -> Modes]
    /\ applying \in [Changes -> {"none", "accepted", "cancelled", "modified",
                                 "up", "cleared", "started", "ended"}]
    /\ timer \in [Changes -> {"none", "armed", "fired", "reverting", "reverted", "over"}]
    /\ slot \in Changes \cup {NoTimer}
    /\ confirmed \in BOOLEAN /\ failed \in BOOLEAN /\ overlapped \in BOOLEAN

IpInit ==
    /\ profile = Dhcp /\ active = Dhcp
    /\ asked = [c \in Changes |-> Dhcp]
    /\ applying = [c \in Changes |-> "none"]
    /\ timer = [c \in Changes |-> "none"]
    /\ slot = NoTimer
    /\ confirmed = FALSE /\ failed = FALSE /\ overlapped = FALSE

Applied(c) == applying[c] \in {"none", "ended"}

Reverting(c) == timer[c] \in {"fired", "reverting", "reverted"}

Underway(c) == ~Applied(c) \/ Reverting(c)

PageOpens == active \in Reachable \cup {Dhcp}

SetIpConfig(c, mode) ==
    /\ PageOpens
    /\ applying[c] = "none" /\ \A d \in Changes : d < c => applying[d] # "none"
    /\ asked' = [asked EXCEPT ![c] = mode]
    /\ applying' = [applying EXCEPT ![c] = "accepted"]
    /\ overlapped' = (overlapped \/ \E d \in Changes : Underway(d))
    /\ UNCHANGED <<profile, active, timer, slot, confirmed, failed>>

(* As "CancelRevert", which only forgets the timer.                        *)
CancelRevertForgets == slot' = NoTimer /\ UNCHANGED timer

(* _cancel_ip_revert: Timer.cancel has no effect once the timer fired.     *)
CancelRevert ==
    /\ timer' = [c \in Changes |-> IF c = slot /\ timer[c] = "armed"
                                   THEN "over" ELSE timer[c]]
    /\ slot' = NoTimer

CancelForDhcp(c) ==
    /\ applying[c] = "accepted" /\ asked[c] = Dhcp
    /\ CancelRevert
    /\ applying' = [applying EXCEPT ![c] = "cancelled"]
    /\ UNCHANGED <<profile, active, asked, confirmed, failed, overlapped>>

(* A call of nmcli whose return code nobody looks at.                      *)
Nmcli(next, now, wanted) ==
    \/ next = wanted /\ UNCHANGED failed
    \/ next = now /\ failed' = TRUE

ModifyProfile(c) ==
    /\ \/ applying[c] = "accepted" /\ asked[c] # Dhcp
       \/ applying[c] = "cancelled"
    /\ Nmcli(profile', profile, asked[c])
    /\ applying' = [applying EXCEPT ![c] = "modified"]
    /\ UNCHANGED <<active, asked, timer, slot, confirmed, overlapped>>

(* "connection up" activates the profile as it is stored by now.           *)
BringUp(c) ==
    /\ applying[c] = "modified"
    /\ Nmcli(active', active, profile)
    /\ confirmed' = FALSE
    /\ applying' = [applying EXCEPT ![c] = IF asked[c] = Dhcp THEN "ended" ELSE "up"]
    /\ UNCHANGED <<profile, asked, timer, slot, overlapped>>

(* _schedule_ip_revert: cancel the timer in the slot, start a new one,     *)
(* put it in the slot.                                                     *)
CancelOldTimer(c) ==
    /\ applying[c] = "up"
    /\ CancelRevert
    /\ applying' = [applying EXCEPT ![c] = "cleared"]
    /\ UNCHANGED <<profile, active, asked, confirmed, failed, overlapped>>

StartTimer(c) ==
    /\ applying[c] = "cleared"
    /\ timer' = [timer EXCEPT ![c] = "armed"]
    /\ applying' = [applying EXCEPT ![c] = "started"]
    /\ UNCHANGED <<profile, active, asked, slot, confirmed, failed, overlapped>>

StoreTimer(c) ==
    /\ applying[c] = "started"
    /\ slot' = c
    /\ applying' = [applying EXCEPT ![c] = "ended"]
    /\ UNCHANGED <<profile, active, asked, timer, confirmed, failed, overlapped>>

(* A page load.  It settles the address if nothing else is under way.      *)
ConfirmIpConfig ==
    /\ PageOpens
    /\ slot # NoTimer
    /\ CancelRevert
    /\ confirmed' = (\A c \in Changes : ~Underway(c))
    /\ UNCHANGED <<profile, active, asked, applying, failed, overlapped>>

TimerFires(c) ==
    /\ timer[c] = "armed"
    /\ timer' = [timer EXCEPT ![c] = "fired"]
    /\ overlapped' = (overlapped \/ \E d \in Changes : Underway(d))
    /\ UNCHANGED <<profile, active, asked, applying, slot, confirmed, failed>>

ForgetTimer(c) ==
    /\ timer[c] = "fired"
    /\ slot' = NoTimer
    /\ timer' = [timer EXCEPT ![c] = "reverting"]
    /\ UNCHANGED <<profile, active, asked, applying, confirmed, failed, overlapped>>

(* As "RevertProfile", which leaves the stored profile as it is.           *)
RevertProfileAsIs(c) ==
    /\ timer[c] = "reverting"
    /\ timer' = [timer EXCEPT ![c] = "reverted"]
    /\ UNCHANGED <<profile, active, asked, applying, slot, confirmed, failed, overlapped>>

RevertProfile(c) ==
    /\ timer[c] = "reverting"
    /\ Nmcli(profile', profile, Dhcp)
    /\ timer' = [timer EXCEPT ![c] = "reverted"]
    /\ UNCHANGED <<active, asked, applying, slot, confirmed, overlapped>>

RevertUp(c) ==
    /\ timer[c] = "reverted"
    /\ Nmcli(active', active, profile)
    /\ confirmed' = (confirmed /\ active' = active)
    /\ timer' = [timer EXCEPT ![c] = "over"]
    /\ UNCHANGED <<profile, asked, applying, slot, overlapped>>

(* TimeoutExpired leaves _apply or _revert; the call may have worked.      *)
ApplyHangs(c) ==
    /\ \/ /\ applying[c] = IF asked[c] = Dhcp THEN "cancelled" ELSE "accepted"
          /\ profile' \in {profile, asked[c]}
          /\ UNCHANGED active
       \/ /\ applying[c] = "modified"
          /\ active' \in {active, profile}
          /\ UNCHANGED profile
    /\ confirmed' = (confirmed /\ active' = active)
    /\ applying' = [applying EXCEPT ![c] = "ended"]
    /\ failed' = TRUE
    /\ UNCHANGED <<asked, timer, slot, overlapped>>

RevertHangs(c) ==
    /\ \/ timer[c] = "reverting" /\ profile' \in {profile, Dhcp} /\ UNCHANGED active
       \/ timer[c] = "reverted" /\ active' \in {active, profile} /\ UNCHANGED profile
    /\ confirmed' = (confirmed /\ active' = active)
    /\ timer' = [timer EXCEPT ![c] = "over"]
    /\ failed' = TRUE
    /\ UNCHANGED <<asked, applying, slot, overlapped>>

(* The process ends with its threads and timers; the profile stays.        *)
IpKilled ==
    /\ applying' = [c \in Changes |-> IF Applied(c) THEN applying[c] ELSE "ended"]
    /\ timer' = [c \in Changes |-> IF timer[c] = "none" THEN "none" ELSE "over"]
    /\ slot' = NoTimer
    /\ failed' = (failed \/ \E c \in Changes : Underway(c) \/ timer[c] = "armed")
    /\ UNCHANGED <<profile, active, asked, confirmed, overlapped>>

ApplyThread(c) ==
    \/ CancelForDhcp(c)
    \/ ModifyProfile(c)
    \/ BringUp(c)
    \/ CancelOldTimer(c)
    \/ StartTimer(c)
    \/ StoreTimer(c)

TimerThread(c) ==
    \/ TimerFires(c)
    \/ ForgetTimer(c)
    \/ RevertProfile(c)
    \/ RevertUp(c)

IpNext ==
    \/ \E c \in Changes, mode \in Modes : SetIpConfig(c, mode)
    \/ ConfirmIpConfig
    \/ \E c \in Changes :
          \/ ApplyThread(c)
          \/ TimerThread(c)
          \/ ApplyHangs(c)
          \/ RevertHangs(c)

IpSpec == IpInit /\ [][IpNext \/ IpKilled]_ipVars

-----------------------------------------------------------------------------
(* The guard against lock-out (UI-IP-06): as long as no nmcli call fails   *)
(* and the process lives, a fixed address at which the page does not open  *)
(* has a timer over it, or a thread that will arm one or replace the       *)
(* address - however requests, timers and page loads interleave.           *)
LockoutIsWatched ==
    ~PageOpens /\ ~failed
        => \E c \in Changes : Underway(c) \/ timer[c] = "armed"

(* A confirmed address stays until somebody asks for another one: no timer *)
(* of an earlier request is left to take it away, unless two changes, or a *)
(* change and a timer that fired, once met (_schedule_ip_revert).          *)
ConfirmedStays ==
    [][confirmed /\ active' # active
         => overlapped \/ \E c \in Changes : applying[c] = "modified"]_ipVars
=============================================================================
