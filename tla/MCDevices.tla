------------------------------ MODULE MCDevices ------------------------------
(***************************************************************************)
(* The devices and those who watch them, for TLC: a person before the      *)
(* detector's camera, a light of a signal tower before a child's, a        *)
(* child's life as the hub sees it, children brought from hub to hub, the  *)
(* hub's picture of its children with the wizard for new ones, and the     *)
(* change of a child's IP address.                                         *)
(*                                                                         *)
(* The six share no variable; "part" says which one a behaviour is of.     *)
(***************************************************************************)
EXTENDS TLC, PresenceFSM, SignalLog, DeviceHealth, TakeChild, FleetView, IpRevert

CONSTANTS
    Parts,      (* the ones to explore                                       *)
    FixedIp     (* the address that ssh_config gives the first name, or NoIp *)

ASSUME PartsAssumption ==
    Parts \subseteq {"presence", "signal", "health", "take", "view", "ip"}

VARIABLES part

devicesVars == <<presenceVars, signalVars, healthVars, takeVars, fleetVars, ipVars,
                part>>

OneLamp == [l \in Lights |-> IF l = "off" THEN 0 ELSE 1]
ThreeCodes == [l \in Lights |-> CASE l = "off" -> 0 [] l = "on" -> 1 [] l = "blink" -> 2]
MCCodeTables == {OneLamp, ThreeCodes}

(* The server's threads do the same, and so do the Pis, whose card is one. *)
Alike == Permutations(Gatherers) \cup Permutations(Devs)

MCAlias == [n \in Names |-> IF n = First THEN FixedIp ELSE NoIp]

DevicesInit ==
    /\ PresenceInit /\ SignalInit /\ HealthInit /\ TakeInit /\ FleetInit
    /\ IpInit
    /\ part \in Parts
    /\ part # "signal" => table = OneLamp /\ named
    /\ part # "health" => observer = "bridge"

Only(p) ==
    /\ part = p
    /\ p = "presence" \/ UNCHANGED presenceVars
    /\ p = "signal" \/ UNCHANGED signalVars
    /\ p = "health" \/ UNCHANGED healthVars
    /\ p = "take" \/ UNCHANGED takeVars
    /\ p = "view" \/ UNCHANGED fleetVars
    /\ p = "ip" \/ UNCHANGED ipVars
    /\ UNCHANGED part

DevicesNext ==
    \/ Only("presence") /\ PresenceNext
    \/ Only("presence") /\ DetectorRestarts
    \/ Only("signal") /\ SignalNext
    \/ Only("signal") /\ SignalRestarted
    \/ Only("health") /\ HealthNext
    \/ Only("take") /\ TakeNext
    \/ Only("view") /\ FleetNext
    \/ Only("ip") /\ IpNext
    \/ Only("ip") /\ IpKilled

DevicesSpec == DevicesInit /\ [][DevicesNext]_devicesVars

DevicesTypeOK ==
    /\ part = "presence" => PresenceTypeOK
    /\ part = "signal" => SignalTypeOK
    /\ part = "health" => HealthTypeOK
    /\ part = "take" => TakeTypeOK
    /\ part = "view" => FleetTypeOK
    /\ part = "ip" => IpTypeOK
    /\ part \in {"presence", "signal", "health", "take", "view", "ip"}
=============================================================================
