---------------------------- MODULE DeviceHealth ----------------------------
(***************************************************************************)
(* Whether a child is alive, as seen from the hub: the child publishes a   *)
(* retained "online" once after it started, heartbeats, and a retained     *)
(* "offline" when it stops; its last will says "offline" when the broker   *)
(* loses it (detector/src/main.py, child-csv-to-mqtt.py).  The bridge's    *)
(* LivenessTracker (bridge/src/liveness.py) and the desktop's pipeline     *)
(* monitor (rollup.py over the ring of mqtt_tail.py) each make a state of  *)
(* what they receive.                                                      *)
(*                                                                         *)
(* The broker is external: it delivers at once to who is subscribed, sends *)
(* the retained status to who subscribes, and publishes the will when the  *)
(* keepalive runs out or the child connects anew.  The tracker stamps with *)
(* the monotonic clock, the monitor with the wall clock, which may step.   *)
(***************************************************************************)
EXTENDS Integers, Sequences, FiniteSetsExt

CONSTANTS
    Timeout,      (* heartbeat_timeout_seconds, of both observers           *)
    Interval,     (* heartbeat_interval_seconds                             *)
    Keepalive,    (* until the broker gives a connection up                 *)
    RingSize,     (* MqttTail's maxlen                                      *)
    MaxTime       (* a bound                                                *)

ASSUME HealthAssumption ==
    /\ Timeout \in Nat /\ Interval \in Nat \ {0} /\ Keepalive \in Nat
    /\ RingSize \in Nat \ {0} /\ MaxTime \in Nat
    /\ Interval < Timeout

VARIABLES
    now,          (* the monotonic clock                                    *)
    stepped,      (* the wall clock was set back by so much                 *)
    device,       (* the child's program                                    *)
    announced,    (* its "online" has reached the broker                    *)
    heartbeatAt,  (* when the next heartbeat is due                         *)
    link,         (* its connection; "cut": the broker does not know yet    *)
    cutAt,        (* when it was cut                                        *)
    retained,     (* the retained status                                    *)
    observer,     (* whose view is looked at: a choice, never changed       *)
    subscribed,   (* it receives                                            *)
    tracker,      (* _Device of this child: last_status, its time, last_hb_at *)
    ring,         (* the child's messages in MqttTail._buf                  *)
    signAt,       (* history: when the child's loop last ran with a live    *)
                  (* connection, or the observer last subscribed            *)
    wellSince     (* history: since when it runs so, the observer subscribed *)

healthVars == <<now, stepped, device, announced, heartbeatAt, link, cutAt, retained,
                observer, subscribed, tracker, ring, signAt, wellSince>>

(* Before every instant, the one a clock set back shows at first included. *)
Never == -2
Times == Never .. MaxTime
Kinds == {"online", "offline", "heartbeat"}
Message == [kind : Kinds, ts : Times]

HealthTypeOK ==
    /\ now \in 0 .. MaxTime /\ stepped \in 0 .. 1
    /\ device \in {"down", "running", "busy", "hung"}
    /\ announced \in BOOLEAN /\ heartbeatAt \in 0 .. MaxTime + Interval
    /\ link \in {"none", "live", "cut"} /\ cutAt \in 0 .. MaxTime
    /\ retained \in {"none", "online", "offline"}
    /\ observer \in {"bridge", "monitor"} /\ subscribed \in BOOLEAN
    /\ tracker \in [status : {"none", "online", "offline"}, statusAt : Times, hbAt : Times]
    /\ ring \in Seq(Message) /\ Len(ring) <= RingSize
    /\ signAt \in Times /\ wellSince \in 0 .. MaxTime + 1

NewTracker == [status |-> "none", statusAt |-> Never, hbAt |-> Never]

HealthInit ==
    /\ now = 0 /\ stepped = 0
    /\ device = "down" /\ announced = FALSE /\ heartbeatAt = 0
    /\ link = "none" /\ cutAt = 0
    /\ retained = "none"
    /\ observer \in {"bridge", "monitor"} /\ subscribed = FALSE
    /\ tracker = NewTracker /\ ring = <<>>
    /\ signAt = Never /\ wellSince = 1

deviceVars == <<device, announced, heartbeatAt, link, cutAt>>

(* record_status, record_heartbeat.                                        *)
Record(t, kind) ==
    CASE kind = "heartbeat" -> [t EXCEPT !.hbAt = now]
      [] kind \in {"online", "offline"} ->
            [status |-> kind, statusAt |-> now, hbAt |-> t.hbAt]
      [] kind = "none" -> t

(* MqttTail.ingest_line: deque(maxlen).append, with the wall clock.        *)
Ingest(r, kind) ==
    IF kind = "none" THEN r
    ELSE Append(IF Len(r) = RingSize THEN Tail(r) ELSE r,
                [kind |-> kind, ts |-> now - stepped])

(* The observer gets a will and a message; either may be none.             *)
Deliver(will, kind) ==
    /\ tracker' = IF observer = "bridge" THEN Record(Record(tracker, will), kind) ELSE tracker
    /\ ring' = IF observer = "monitor" THEN Ingest(Ingest(ring, will), kind) ELSE ring

Publish(will, kind) ==
    IF subscribed THEN Deliver(will, kind) ELSE UNCHANGED <<tracker, ring>>

Alive == device = "running" /\ link = "live"

KeepHistory ==
    /\ UNCHANGED observer
    /\ signAt' = IF \/ Alive \/ Alive'
                    \/ announced' /\ ~announced
                    \/ subscribed' /\ ~subscribed
                 THEN now ELSE signAt
    /\ wellSince' = IF Alive' /\ subscribed' THEN wellSince ELSE now' + 1

-----------------------------------------------------------------------------
(* The child.                                                              *)

(* connect, loop_start, and "online", which paho queues until it can go.   *)
DeviceStarts ==
    /\ device = "down" /\ link # "live"
    /\ device' = "running"
    /\ announced' = FALSE
    /\ heartbeatAt' = now
    /\ UNCHANGED <<now, stepped, link, cutAt, retained, subscribed, tracker, ring>>
    /\ KeepHistory

(* (Re)connecting: of a session the broker still holds the will comes      *)
(* first.  Only the first connection of a process says "online".           *)
Connects ==
    /\ device # "down" /\ link # "live"
    /\ Publish(IF link = "cut" THEN "offline" ELSE "none",
               IF announced THEN "none" ELSE "online")
    /\ retained' = IF ~announced THEN "online"
                   ELSE IF link = "cut" THEN "offline" ELSE retained
    /\ link' = "live" /\ cutAt' = 0
    /\ announced' = TRUE
    /\ UNCHANGED <<now, stepped, device, heartbeatAt, subscribed>>
    /\ KeepHistory

Heartbeat ==
    /\ device = "running" /\ now >= heartbeatAt
    /\ heartbeatAt' = now + Interval
    /\ IF link = "live" THEN Publish("none", "heartbeat") ELSE UNCHANGED <<tracker, ring>>
    /\ UNCHANGED <<now, stepped, device, announced, link, cutAt, retained, subscribed>>
    /\ KeepHistory

(* The main loop is held up - walking files that wait for their acks, or   *)
(* for good - while paho's thread keeps the connection.                    *)
LoopHeldUp ==
    /\ device = "running"
    /\ device' \in {"busy", "hung"}
    /\ UNCHANGED <<now, stepped, announced, heartbeatAt, link, cutAt, retained,
                   subscribed, tracker, ring>>
    /\ KeepHistory

LoopGoesOn ==
    /\ device = "busy"
    /\ device' = "running"
    /\ UNCHANGED <<now, stepped, announced, heartbeatAt, link, cutAt, retained,
                   subscribed, tracker, ring>>
    /\ KeepHistory

(* A clean stop says "offline" itself; no will follows.                    *)
DeviceStops ==
    /\ Alive /\ announced
    /\ device' = "down" /\ link' = "none"
    /\ Publish("none", "offline") /\ retained' = "offline"
    /\ UNCHANGED <<now, stepped, announced, heartbeatAt, cutAt, subscribed>>
    /\ KeepHistory

LinkCut == link' = "cut" /\ cutAt' = now

(* The radio is lost, the power is lost; or the process is killed: then    *)
(* the socket closes and the will comes at once (WillFires).               *)
LinkLost ==
    /\ link = "live"
    /\ device' \in {device, "down"}
    /\ LinkCut
    /\ UNCHANGED <<now, stepped, announced, heartbeatAt, retained, subscribed, tracker, ring>>
    /\ KeepHistory

DeviceDies ==
    /\ device # "down" /\ link # "live"
    /\ device' = "down"
    /\ UNCHANGED <<now, stepped, announced, heartbeatAt, link, cutAt, retained,
                   subscribed, tracker, ring>>
    /\ KeepHistory

WillFires ==
    /\ link = "cut"
    /\ link' = "none" /\ cutAt' = 0
    /\ Publish("offline", "none") /\ retained' = "offline"
    /\ UNCHANGED <<now, stepped, device, announced, heartbeatAt, subscribed>>
    /\ KeepHistory

-----------------------------------------------------------------------------
(* The observers, the broker and time.                                     *)

(* The first subscription and every later one get the retained status.     *)
Subscribes ==
    /\ ~subscribed
    /\ subscribed' = TRUE
    /\ Deliver("none", retained)
    /\ UNCHANGED <<now, stepped, deviceVars, retained>>
    /\ KeepHistory

(* Its connection is lost, or its process ends with what it knows.         *)
Unsubscribed ==
    /\ subscribed' = FALSE
    /\ \/ UNCHANGED <<tracker, ring>>
       \/ tracker' = NewTracker /\ ring' = <<>>
    /\ UNCHANGED <<now, stepped, deviceVars, retained>>
    /\ KeepHistory

(* A broker without its retained messages: everybody is cut off, and who   *)
(* is up announces nothing.                                                *)
BrokerRestarts ==
    /\ link' = "none" /\ cutAt' = 0
    /\ retained' = "none"
    /\ subscribed' = FALSE
    /\ UNCHANGED <<now, stepped, device, announced, heartbeatAt, tracker, ring>>
    /\ KeepHistory

(* Other children's messages and records push this child's out of the ring. *)
OtherTraffic ==
    /\ ring # <<>>
    /\ ring' = Tail(ring)
    /\ wellSince' = now + 1
    /\ UNCHANGED <<now, stepped, deviceVars, retained, observer, subscribed, tracker, signAt>>

ClockStepsBack ==
    /\ observer = "monitor" /\ stepped = 0
    /\ stepped' = 1
    /\ UNCHANGED <<now, deviceVars, retained, observer, subscribed, tracker, ring, signAt, wellSince>>

(* A running loop sends what is due, and the broker notices a dead link,   *)
(* before time goes on.                                                    *)
Tick ==
    /\ now < MaxTime
    /\ ~(device = "running" /\ now >= heartbeatAt)
    /\ ~(link = "cut" /\ now >= cutAt + Keepalive)
    /\ now' = now + 1
    /\ UNCHANGED <<stepped, deviceVars, retained, subscribed, tracker, ring>>
    /\ KeepHistory

HealthNext ==
    \/ DeviceStarts
    \/ Connects
    \/ Heartbeat
    \/ LoopHeldUp
    \/ LoopGoesOn
    \/ DeviceStops
    \/ LinkLost
    \/ DeviceDies
    \/ WillFires
    \/ Subscribes
    \/ Unsubscribed
    \/ BrokerRestarts
    \/ OtherTraffic
    \/ ClockStepsBack
    \/ Tick

HealthSpec == HealthInit /\ [][HealthNext]_healthVars

-----------------------------------------------------------------------------
(* As "StateOf", without the timeout; and with an "offline" that outlives  *)
(* what comes after it.                                                    *)
StateOfWithoutTimeout(offlineAt, alive, at) ==
    IF offlineAt # Never /\ offlineAt >= alive THEN "offline"
    ELSE IF alive = Never THEN "unknown" ELSE "online"

StateOfOfflineStays(offlineAt, alive, at) ==
    IF offlineAt # Never THEN "offline"
    ELSE IF alive = Never THEN "unknown"
    ELSE IF at - alive <= Timeout THEN "online" ELSE "stale"

(* LivenessTracker._state, and _state of the rollup.                       *)
StateOf(offlineAt, alive, at) ==
    IF offlineAt # Never /\ offlineAt >= alive THEN "offline"
    ELSE IF alive = Never THEN "unknown"
    ELSE IF at - alive <= Timeout THEN "online" ELSE "stale"

TrackerState ==
    StateOf(IF tracker.status = "offline" THEN tracker.statusAt ELSE Never,
            Max({tracker.hbAt, IF tracker.status = "online" THEN tracker.statusAt ELSE Never}),
            now)

LastTime(kind) ==
    Max({ring[i].ts : i \in {j \in DOMAIN ring : ring[j].kind = kind}} \cup {Never})

MonitorState == StateOf(LastTime("offline"), Max({LastTime("heartbeat"), LastTime("online")}), now - stepped)

Shown == IF observer = "bridge" THEN TrackerState ELSE MonitorState

(* A child shown online has run, with a connection, within the timeout -   *)
(* or the observer has just subscribed and got a retained "online" (of a   *)
(* child that hangs): reconnects, wills and restarts in any order do not   *)
(* keep a dead child online, nor does the monitor's clock but by its step. *)
ShownOnlineIsAlive ==
    Shown = "online" => now - signAt <= Timeout + stepped

(* A child that runs, connected, to a subscribed observer is shown online  *)
(* once its next heartbeat is through, although its retained status stays  *)
(* "offline" after a reconnect.  The monitor's clock has not been set back *)
(* and its ring has kept the messages.                                     *)
AliveIsShownOnline ==
    stepped = 0 /\ now - wellSince > Interval => Shown = "online"
=============================================================================
