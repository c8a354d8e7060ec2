----------------------------- MODULE DevicesProofs -----------------------------
(***************************************************************************)
(* What the observers show of a child's life, proved for any interval,     *)
(* timeout, keepalive and length of the ring, and that the composition the *)
(* runs check keeps what is proved of its parts.                           *)
(***************************************************************************)
EXTENDS MCDevices, SensingProofs, FleetProofs, WellFoundedInduction

-----------------------------------------------------------------------------
(* A child's life, as the bridge and the monitor see it.                   *)

(* What counts as a sign of life of the child is no later than its history *)
(* says.                                                                   *)
Signs == {"online", "heartbeat"}

SignsAreTold ==
    /\ signAt <= now
    /\ tracker.hbAt <= signAt
    /\ tracker.status = "online" => tracker.statusAt <= signAt
    /\ \A i \in DOMAIN ring : ring[i].kind \in Signs => ring[i].ts <= signAt

(* Well since a time means that the child runs, connected to a subscribed  *)
(* observer, and that whatever says "offline" is older.                    *)
WellIsWell ==
    /\ wellSince <= now + 1
    /\ ~(Alive /\ subscribed) => wellSince = now + 1

OfflineIsOlder ==
    /\ tracker.status = "offline" => tracker.statusAt < wellSince
    /\ \A i \in DOMAIN ring : ring[i].kind = "offline" => ring[i].ts < wellSince

(* The loop of a child that is well is not behind with its heartbeats, and *)
(* the last one since is what the observer heard last.                     *)
HeartbeatsAreHeard ==
    /\ heartbeatAt <= now + Interval
    /\ wellSince <= now => heartbeatAt >= now
    /\ wellSince + Interval <= heartbeatAt =>
          /\ observer = "bridge" => tracker.hbAt = heartbeatAt - Interval
          /\ observer = "monitor" /\ stepped = 0 =>
                /\ ring # <<>>
                /\ ring[Len(ring)] = [kind |-> "heartbeat", ts |-> heartbeatAt - Interval]

HealthInv ==
    /\ HealthTypeOK
    /\ SignsAreTold
    /\ WellIsWell
    /\ OfflineIsOlder
    /\ HeartbeatsAreHeard
-----------------------------------------------------------------------------
Tracker == [status : {"none", "online", "offline"}, statusAt : Times, hbAt : Times]

LEMMA HealthInvInit == HealthInit => HealthInv
<1> SUFFICES ASSUME HealthInit PROVE HealthInv
  OBVIOUS
<1>1. NewTracker \in Tracker /\ NewTracker.status = "none" /\ NewTracker.hbAt = -2
  BY HealthAssumption DEF NewTracker, Tracker, Times, Never
<1>2. <<>> \in Seq(Message) /\ Len(<<>>) <= RingSize
  BY HealthAssumption
<1>3. HealthTypeOK
  <2>1. /\ 0 \in 0 .. MaxTime /\ 0 \in 0 .. 1 /\ 0 \in 0 .. MaxTime + Interval
        /\ 1 \in 0 .. MaxTime + 1 /\ Never \in Times
    BY HealthAssumption DEF Times, Never
  <2> QED
    BY <1>1, <1>2, <2>1 DEF HealthInit, HealthTypeOK, Tracker
<1> QED
  BY <1>1, <1>3, HealthAssumption
     DEF HealthInit, HealthInv, SignsAreTold, WellIsWell, OfflineIsOlder,
         HeartbeatsAreHeard, Alive, Never

(* What a message makes of the tracker's record.                           *)
LEMMA RecordType ==
    ASSUME HealthTypeOK, NEW t \in Tracker, NEW kind \in Kinds \cup {"none"}
    PROVE /\ Record(t, kind) \in Tracker
          /\ Record(t, kind).hbAt = IF kind = "heartbeat" THEN now ELSE t.hbAt
          /\ Record(t, kind).status =
                IF kind \in {"online", "offline"} THEN kind ELSE t.status
          /\ Record(t, kind).statusAt =
                IF kind \in {"online", "offline"} THEN now ELSE t.statusAt
<1>1. now \in Times
  BY HealthAssumption DEF HealthTypeOK, Times, Never
<1>2. CASE kind = "heartbeat"
  <2>1. Record(t, kind) = [t EXCEPT !.hbAt = now]
    BY <1>2 DEF Record
  <2> QED
    BY <1>1, <1>2, <2>1 DEF Tracker
<1>3. CASE kind \in {"online", "offline"}
  <2>1. Record(t, kind) = [status |-> kind, statusAt |-> now, hbAt |-> t.hbAt]
    BY <1>3 DEF Record
  <2> QED
    BY <1>1, <1>3, <2>1 DEF Tracker
<1>4. CASE kind = "none"
  BY <1>4 DEF Record
<1> QED
  BY <1>2, <1>3, <1>4 DEF Kinds

(* A full ring drops its oldest message for a new one.                     *)
LEMMA IngestType ==
    ASSUME HealthTypeOK, NEW r \in Seq(Message), Len(r) <= RingSize,
           NEW kind \in Kinds \cup {"none"}
    PROVE /\ Ingest(r, kind) \in Seq(Message) /\ Len(Ingest(r, kind)) <= RingSize
          /\ \A i \in DOMAIN Ingest(r, kind) :
                \/ \E j \in DOMAIN r : Ingest(r, kind)[i] = r[j]
                \/ kind # "none" /\ Ingest(r, kind)[i] = [kind |-> kind, ts |-> now - stepped]
          /\ kind # "none" =>
                /\ Ingest(r, kind) # <<>>
                /\ Ingest(r, kind)[Len(Ingest(r, kind))] = [kind |-> kind, ts |-> now - stepped]
<1>1. CASE kind = "none"
  BY <1>1 DEF Ingest
<1>2. CASE kind # "none"
  <2> DEFINE m == [kind |-> kind, ts |-> now - stepped]
             s == IF Len(r) = RingSize THEN Tail(r) ELSE r
  <2>1. now - stepped \in Times
    BY HealthAssumption DEF HealthTypeOK, Times, Never
  <2>2. m \in Message
    BY <1>2, <2>1 DEF Message
  <2>3. Len(r) \in Nat /\ RingSize \in Nat \ {0}
    BY HealthAssumption
  <2>4. /\ s \in Seq(Message) /\ Len(s) < RingSize
        /\ \A i \in 1 .. Len(s) : \E j \in 1 .. Len(r) : s[i] = r[j]
    <3>1. CASE Len(r) = RingSize
      <4>1. r # <<>>
        BY <2>3, <3>1
      <4>2. /\ Tail(r) \in Seq(Message) /\ Len(Tail(r)) = Len(r) - 1
            /\ \A i \in 1 .. Len(Tail(r)) : Tail(r)[i] = r[i + 1]
        BY <4>1
      <4> QED
        BY <2>3, <3>1, <4>2
    <3>2. CASE Len(r) # RingSize
      BY <2>3, <3>2
    <3> QED
      BY <3>1, <3>2
  <2>5. Ingest(r, kind) = Append(s, m)
    BY <1>2 DEF Ingest
  <2> HIDE DEF s, m
  <2>6. /\ Append(s, m) \in Seq(Message) /\ Len(Append(s, m)) = Len(s) + 1
        /\ \A i \in 1 .. Len(s) : Append(s, m)[i] = s[i]
        /\ Append(s, m)[Len(s) + 1] = m
    BY <2>2, <2>4
  <2>7. /\ \A i \in 1 .. Len(s) + 1 : i \in 1 .. Len(s) \/ i = Len(s) + 1
        /\ Len(s) + 1 <= RingSize /\ Len(s) \in Nat
    BY <2>3, <2>4
  <2>8. DOMAIN Append(s, m) = 1 .. Len(s) + 1 /\ DOMAIN r = 1 .. Len(r)
    BY <2>6
  <2>9. Append(s, m) # <<>>
    BY <2>6, <2>7
  <2>10. \A i \in DOMAIN Append(s, m) :
            (\E j \in DOMAIN r : Append(s, m)[i] = r[j]) \/ Append(s, m)[i] = m
    BY <2>4, <2>6, <2>7, <2>8
  <2> QED
    BY <1>2, <2>5, <2>6, <2>7, <2>9, <2>10 DEF m
<1> QED
  BY <1>1, <1>2

(* What is not published changes nothing.                                  *)
LEMMA NothingHeard ==
    ASSUME UNCHANGED <<tracker, ring>> PROVE Deliver("none", "none")
BY DEF Deliver, Record, Ingest

(* What an observer that hears no more than the history tells knows.       *)
LEMMA Hears ==
    ASSUME HealthInv, now' = now, signAt' \in {signAt, now},
           wellSince' \in {wellSince, now + 1},
           NEW will \in {"none", "offline"}, NEW kind \in Kinds \cup {"none"},
           Deliver(will, kind),
           kind \in Signs => signAt' = now,
           will = "offline" \/ kind = "offline" => wellSince' = now + 1
    PROVE /\ tracker' \in Tracker /\ ring' \in Seq(Message) /\ Len(ring') <= RingSize
          /\ SignsAreTold' /\ OfflineIsOlder'
<1>1. /\ tracker \in Tracker /\ ring \in Seq(Message) /\ Len(ring) <= RingSize
      /\ now \in Int /\ stepped \in 0 .. 1 /\ signAt \in Int /\ wellSince \in Int
      /\ wellSince <= now + 1 /\ signAt <= now
      /\ tracker.hbAt \in Int /\ tracker.statusAt \in Int
      /\ \A m \in Message : m.ts \in Int
  BY HealthAssumption
     DEF HealthInv, HealthTypeOK, Tracker, Times, Never, Message, SignsAreTold, WellIsWell
<1>2. will \in Kinds \cup {"none"}
  BY DEF Kinds
<1>3. /\ tracker' \in Tracker
      /\ tracker'.hbAt <= signAt'
      /\ tracker'.status = "online" => tracker'.statusAt <= signAt'
      /\ tracker'.status = "offline" => tracker'.statusAt < wellSince'
  <2>1. CASE observer # "bridge"
    BY <1>1, <2>1 DEF Deliver, HealthInv, SignsAreTold, OfflineIsOlder
  <2>2. CASE observer = "bridge"
    <3> DEFINE t == Record(tracker, will)
               u == Record(t, kind)
    <3>1. /\ t \in Tracker /\ t.hbAt = tracker.hbAt
          /\ t.status = IF will = "offline" THEN will ELSE tracker.status
          /\ t.statusAt = IF will = "offline" THEN now ELSE tracker.statusAt
      BY <1>1, <1>2, RecordType DEF HealthInv
    <3> HIDE DEF t
    <3>2. /\ u \in Tracker
          /\ u.hbAt = IF kind = "heartbeat" THEN now ELSE t.hbAt
          /\ u.status = IF kind \in {"online", "offline"} THEN kind ELSE t.status
          /\ u.statusAt = IF kind \in {"online", "offline"} THEN now ELSE t.statusAt
      BY <3>1, RecordType DEF HealthInv
    <3>3. tracker' = u
      BY <2>2 DEF Deliver, t
    <3> HIDE DEF u
    <3> QED
      BY <1>1, <3>1, <3>2, <3>3 DEF HealthInv, SignsAreTold, OfflineIsOlder, Signs
  <2> QED
    BY <2>1, <2>2
<1>4. /\ ring' \in Seq(Message) /\ Len(ring') <= RingSize
      /\ \A i \in DOMAIN ring' :
            /\ ring'[i].kind \in Signs => ring'[i].ts <= signAt'
            /\ ring'[i].kind = "offline" => ring'[i].ts < wellSince'
  <2>1. CASE observer # "monitor"
    BY <1>1, <2>1 DEF Deliver, HealthInv, SignsAreTold, OfflineIsOlder
  <2>2. CASE observer = "monitor"
    <3> DEFINE r == Ingest(ring, will)
               s == Ingest(r, kind)
    <3>1. /\ r \in Seq(Message) /\ Len(r) <= RingSize
          /\ \A i \in DOMAIN r :
                \/ \E j \in DOMAIN ring : r[i] = ring[j]
                \/ will # "none" /\ r[i] = [kind |-> will, ts |-> now - stepped]
      BY <1>1, <1>2, IngestType DEF HealthInv
    <3> HIDE DEF r
    <3>2. /\ s \in Seq(Message) /\ Len(s) <= RingSize
          /\ \A i \in DOMAIN s :
                \/ \E j \in DOMAIN r : s[i] = r[j]
                \/ kind # "none" /\ s[i] = [kind |-> kind, ts |-> now - stepped]
      BY <3>1, IngestType DEF HealthInv
    <3>3. ring' = s
      BY <2>2 DEF Deliver, r
    <3> HIDE DEF s
    <3>4. \A i \in DOMAIN s :
             \/ \E j \in DOMAIN ring : s[i] = ring[j]
             \/ will = "offline" /\ s[i].kind = "offline" /\ s[i].ts = now - stepped
             \/ s[i].kind = kind /\ s[i].ts = now - stepped
      BY <3>1, <3>2
    <3>5. \A j \in DOMAIN ring :
             /\ ring[j].kind \in Signs => ring[j].ts <= signAt'
             /\ ring[j].kind = "offline" => ring[j].ts < wellSince'
      BY <1>1 DEF HealthInv, SignsAreTold, OfflineIsOlder
    <3>6. \A i \in DOMAIN s :
             /\ s[i].kind \in Signs => s[i].ts <= signAt'
             /\ s[i].kind = "offline" => s[i].ts < wellSince'
      BY <1>1, <3>4, <3>5 DEF Signs
    <3> QED
      BY <3>2, <3>3, <3>6
  <2> QED
    BY <2>1, <2>2
<1> QED
  BY <1>1, <1>3, <1>4 DEF SignsAreTold, OfflineIsOlder
-----------------------------------------------------------------------------
(* The history of a step after which the child is not well, or became so:  *)
(* everything the observer knows is older than wellSince.                  *)
LEMMA NotLongWell ==
    ASSUME HealthInv, KeepHistory, now' = now,
           ~(Alive /\ subscribed) \/ ~(Alive' /\ subscribed')
    PROVE wellSince' = now + 1 /\ signAt' \in {signAt, now} /\ UNCHANGED observer
BY DEF KeepHistory, HealthInv, WellIsWell

(* After such a step nothing is asked of the heartbeats.                   *)
LEMMA FreshStep ==
    ASSUME HealthInv, now' = now, UNCHANGED <<stepped, observer>>,
           wellSince' = now + 1, signAt' \in {signAt, now},
           device' \in {"down", "running", "busy", "hung"},
           announced' \in BOOLEAN, heartbeatAt' \in {heartbeatAt, now, now + Interval},
           link' \in {"none", "live", "cut"}, cutAt' \in {cutAt, 0, now},
           retained' \in {"none", "online", "offline"}, subscribed' \in BOOLEAN,
           tracker' \in Tracker, ring' \in Seq(Message), Len(ring') <= RingSize,
           SignsAreTold', OfflineIsOlder'
    PROVE HealthInv'
<1>1. /\ now \in 0 .. MaxTime /\ heartbeatAt \in 0 .. MaxTime + Interval
      /\ cutAt \in 0 .. MaxTime /\ signAt \in Times /\ heartbeatAt <= now + Interval
  BY DEF HealthInv, HealthTypeOK, HeartbeatsAreHeard
<1>2. /\ now + Interval \in 0 .. MaxTime + Interval /\ now \in 0 .. MaxTime + Interval
      /\ now + 1 \in 0 .. MaxTime + 1 /\ now \in Times /\ 0 \in 0 .. MaxTime
  BY <1>1, HealthAssumption DEF Times, Never
<1>3. HealthTypeOK'
  BY <1>1, <1>2 DEF HealthInv, HealthTypeOK, Tracker
<1>4. heartbeatAt' <= now + Interval
  BY <1>1, HealthAssumption
<1>5. WellIsWell' /\ HeartbeatsAreHeard'
  BY <1>1, <1>3, <1>4, HealthAssumption DEF WellIsWell, HeartbeatsAreHeard, HealthTypeOK
<1> QED
  BY <1>3, <1>5 DEF HealthInv

(* The child's steps that leave it unwell, or make it well.                *)
LEMMA WellnessStep ==
    ASSUME HealthInv,
           \/ DeviceStarts \/ Connects \/ LoopHeldUp \/ LoopGoesOn
           \/ DeviceStops \/ LinkLost \/ DeviceDies \/ WillFires
    PROVE HealthInv'
<1>0. /\ now' = now /\ UNCHANGED stepped /\ KeepHistory
      /\ ~(Alive /\ subscribed) \/ ~(Alive' /\ subscribed')
  BY DEF DeviceStarts, Connects, LoopHeldUp, LoopGoesOn, DeviceStops, LinkLost, LinkCut,
         DeviceDies, WillFires, Alive
<1>1. wellSince' = now + 1 /\ signAt' \in {signAt, now} /\ UNCHANGED observer
  BY <1>0, NotLongWell
<1>2. \E will \in {"none", "offline"}, kind \in {"none", "online", "offline"} :
         Deliver(will, kind) /\ (kind = "online" => announced' /\ ~announced)
  <2>1. CASE UNCHANGED <<tracker, ring>>
    BY <2>1, NothingHeard
  <2>2. CASE Connects
    <3>1. /\ announced' = TRUE
          /\ \/ Deliver(IF link = "cut" THEN "offline" ELSE "none",
                        IF announced THEN "none" ELSE "online")
             \/ UNCHANGED <<tracker, ring>>
      BY <2>2 DEF Connects, Publish
    <3> DEFINE w == IF link = "cut" THEN "offline" ELSE "none"
               k == IF announced THEN "none" ELSE "online"
    <3>2. CASE Deliver(w, k)
      <4>1. w \in {"none", "offline"} /\ k \in {"none", "online", "offline"}
        OBVIOUS
      <4>2. k = "online" => announced' /\ ~announced
        BY <3>1
      <4> HIDE DEF w, k
      <4> QED
        BY <3>2, <4>1, <4>2
    <3> QED
      BY <2>1, <3>1, <3>2
  <2>3. CASE DeviceStops
    BY <2>1, <2>3 DEF DeviceStops, Publish
  <2>4. CASE WillFires
    BY <2>1, <2>4 DEF WillFires, Publish
  <2> QED
    BY <2>1, <2>2, <2>3, <2>4 DEF DeviceStarts, LoopHeldUp, LoopGoesOn, LinkLost, DeviceDies
<1>3. PICK will \in {"none", "offline"}, kind \in {"none", "online", "offline"} :
         Deliver(will, kind) /\ (kind = "online" => announced' /\ ~announced)
  BY <1>2
<1>4. kind \in Kinds \cup {"none"} /\ (kind \in Signs => signAt' = now)
  BY <1>0, <1>3 DEF KeepHistory, Kinds, Signs
<1>5. /\ tracker' \in Tracker /\ ring' \in Seq(Message) /\ Len(ring') <= RingSize
      /\ SignsAreTold' /\ OfflineIsOlder'
  BY <1>0, <1>1, <1>3, <1>4, Hears
<1>6. /\ device' \in {"down", "running", "busy", "hung"}
      /\ announced' \in BOOLEAN /\ heartbeatAt' \in {heartbeatAt, now, now + Interval}
      /\ link' \in {"none", "live", "cut"} /\ cutAt' \in {cutAt, 0, now}
      /\ retained' \in {"none", "online", "offline"} /\ subscribed' \in BOOLEAN
  BY DEF HealthInv, HealthTypeOK, DeviceStarts, Connects, LoopHeldUp, LoopGoesOn,
         DeviceStops, LinkLost, LinkCut, DeviceDies, WillFires
<1> QED
  BY <1>0, <1>1, <1>5, <1>6, FreshStep
(* The observer comes and goes, and the broker with what it retained.      *)
LEMMA ObserverStep ==
    ASSUME HealthInv, Subscribes \/ Unsubscribed \/ BrokerRestarts
    PROVE HealthInv'
<1>0. /\ now' = now /\ UNCHANGED stepped /\ KeepHistory
      /\ ~(Alive /\ subscribed) \/ ~(Alive' /\ subscribed')
  BY DEF Subscribes, Unsubscribed, BrokerRestarts
<1>1. wellSince' = now + 1 /\ signAt' \in {signAt, now} /\ UNCHANGED observer
  BY <1>0, NotLongWell
<1>2. /\ tracker' \in Tracker /\ ring' \in Seq(Message) /\ Len(ring') <= RingSize
      /\ SignsAreTold' /\ OfflineIsOlder'
  <2>1. CASE UNCHANGED <<tracker, ring>>
    <3>1. Deliver("none", "none")
      BY <2>1, NothingHeard
    <3>2. "none" \in Kinds \cup {"none"} /\ "none" \notin Signs
      BY DEF Signs
    <3> QED
      BY <1>0, <1>1, <3>1, <3>2, Hears
  <2>2. CASE Subscribes
    <3>1. /\ retained \in Kinds \cup {"none"} /\ Deliver("none", retained)
          /\ signAt' = now
      BY <1>0, <2>2 DEF Subscribes, KeepHistory, Kinds, HealthInv, HealthTypeOK
    <3> QED
      BY <1>0, <1>1, <3>1, Hears
  <2>3. CASE tracker' = NewTracker /\ ring' = <<>>
    <3>1. /\ NewTracker \in Tracker /\ NewTracker.status = "none" /\ NewTracker.hbAt = -2
          /\ signAt \in Times /\ now \in 0 .. MaxTime /\ signAt <= now
      BY HealthAssumption
         DEF NewTracker, Tracker, Times, Never, HealthInv, HealthTypeOK, SignsAreTold
    <3>2. <<>> \in Seq(Message) /\ Len(<<>>) <= RingSize
      BY HealthAssumption
    <3>3. signAt' \in Int /\ signAt' >= -2 /\ signAt' <= now
      BY <1>1, <3>1, HealthAssumption DEF Times, Never
    <3> QED
      BY <1>0, <2>3, <3>1, <3>2, <3>3 DEF SignsAreTold, OfflineIsOlder
  <2> QED
    BY <2>1, <2>2, <2>3 DEF Unsubscribed, BrokerRestarts
<1>3. /\ device' \in {"down", "running", "busy", "hung"}
      /\ announced' \in BOOLEAN /\ heartbeatAt' \in {heartbeatAt, now, now + Interval}
      /\ link' \in {"none", "live", "cut"} /\ cutAt' \in {cutAt, 0, now}
      /\ retained' \in {"none", "online", "offline"} /\ subscribed' \in BOOLEAN
  BY DEF HealthInv, HealthTypeOK, Subscribes, Unsubscribed, BrokerRestarts, deviceVars
<1> QED
  BY <1>0, <1>1, <1>2, <1>3, FreshStep

LEMMA OtherTrafficStep ==
    ASSUME HealthInv, OtherTraffic PROVE HealthInv'
<1>1. /\ ring # <<>> /\ ring' = Tail(ring) /\ wellSince' = now + 1
      /\ UNCHANGED <<now, stepped, deviceVars, retained, observer, subscribed, tracker, signAt>>
  BY DEF OtherTraffic
<1>2. ring \in Seq(Message) /\ Len(ring) <= RingSize /\ tracker \in Tracker
  BY DEF HealthInv, HealthTypeOK, Tracker
<1>3. /\ Tail(ring) \in Seq(Message) /\ Len(Tail(ring)) = Len(ring) - 1
      /\ \A i \in 1 .. Len(Tail(ring)) : Tail(ring)[i] = ring[i + 1] /\ i + 1 \in 1 .. Len(ring)
  BY <1>1, <1>2
<1>4. /\ ring' \in Seq(Message) /\ Len(ring') <= RingSize
      /\ \A i \in DOMAIN ring' : \E j \in DOMAIN ring : ring'[i] = ring[j]
  <2>1. Len(ring) \in Nat /\ DOMAIN ring = 1 .. Len(ring) /\ DOMAIN Tail(ring) = 1 .. Len(Tail(ring))
    BY <1>2, <1>3
  <2> QED
    BY <1>1, <1>2, <1>3, <2>1, HealthAssumption
<1>5. /\ now \in Int /\ wellSince \in Int /\ wellSince <= now + 1
      /\ tracker.statusAt \in Int /\ \A m \in Message : m.ts \in Int
  BY <1>2, HealthAssumption
     DEF HealthInv, HealthTypeOK, WellIsWell, Tracker, Times, Never, Message
<1>6. SignsAreTold'
  BY <1>1, <1>4 DEF HealthInv, SignsAreTold
<1>7. OfflineIsOlder'
  BY <1>1, <1>2, <1>4, <1>5 DEF HealthInv, OfflineIsOlder
<1> QED
  BY <1>1, <1>2, <1>4, <1>6, <1>7, FreshStep DEF deviceVars, HealthInv, HealthTypeOK

LEMMA ClockBackStep ==
    ASSUME HealthInv, ClockStepsBack PROVE HealthInv'
<1>1. /\ observer = "monitor" /\ stepped' = 1
      /\ UNCHANGED <<now, deviceVars, retained, observer, subscribed, tracker, ring, signAt,
                     wellSince>>
  BY DEF ClockStepsBack
<1>2. HealthTypeOK' /\ SignsAreTold' /\ WellIsWell' /\ OfflineIsOlder'
  BY <1>1 DEF HealthInv, HealthTypeOK, SignsAreTold, WellIsWell, OfflineIsOlder, Alive, deviceVars
<1>3. HeartbeatsAreHeard'
  BY <1>1 DEF HealthInv, HeartbeatsAreHeard, deviceVars
<1> QED
  BY <1>2, <1>3 DEF HealthInv

LEMMA HeartbeatStep ==
    ASSUME HealthInv, Heartbeat PROVE HealthInv'
<1>1. /\ device = "running" /\ heartbeatAt' = now + Interval
      /\ IF link = "live" THEN Publish("none", "heartbeat") ELSE UNCHANGED <<tracker, ring>>
      /\ UNCHANGED <<now, stepped, device, announced, link, cutAt, retained, subscribed>>
      /\ KeepHistory
  BY DEF Heartbeat
<1>2. /\ now \in 0 .. MaxTime /\ now \in Times /\ signAt \in Times
      /\ wellSince \in 0 .. MaxTime + 1 /\ wellSince <= now + 1 /\ subscribed \in BOOLEAN
  BY HealthAssumption DEF HealthInv, HealthTypeOK, WellIsWell, Times, Never
<1>3. CASE ~(Alive /\ subscribed)
  <2>1. wellSince' = now + 1 /\ signAt' \in {signAt, now} /\ UNCHANGED observer
    BY <1>1, <1>3, NotLongWell
  <2>2. UNCHANGED <<tracker, ring>>
    BY <1>1, <1>3 DEF Publish, Alive
  <2>3. Deliver("none", "none") /\ "none" \in Kinds \cup {"none"} /\ "none" \notin Signs
    BY <2>2, NothingHeard DEF Signs
  <2>4. /\ tracker' \in Tracker /\ ring' \in Seq(Message) /\ Len(ring') <= RingSize
        /\ SignsAreTold' /\ OfflineIsOlder'
    BY <1>1, <2>1, <2>3, Hears
  <2> QED
    BY <1>1, <2>1, <2>4, FreshStep DEF HealthInv, HealthTypeOK
<1>4. CASE Alive /\ subscribed
  <2>1. /\ Alive' /\ subscribed' /\ wellSince' = wellSince /\ signAt' = now
        /\ UNCHANGED observer /\ Deliver("none", "heartbeat")
    BY <1>1, <1>4 DEF KeepHistory, Alive, Publish
  <2>2. "heartbeat" \in Kinds \cup {"none"}
    BY DEF Kinds
  <2>3. /\ tracker' \in Tracker /\ ring' \in Seq(Message) /\ Len(ring') <= RingSize
        /\ SignsAreTold' /\ OfflineIsOlder'
    BY <1>1, <2>1, <2>2, Hears
  <2>4. now + Interval \in 0 .. MaxTime + Interval
    BY <1>2, HealthAssumption
  <2>5. HealthTypeOK'
    BY <1>1, <1>2, <2>1, <2>3, <2>4 DEF HealthInv, HealthTypeOK, Tracker
  <2>6. WellIsWell'
    BY <1>1, <1>2, <2>1 DEF WellIsWell
  <2>7. observer = "bridge" => tracker'.hbAt = now
    <3> SUFFICES ASSUME observer = "bridge" PROVE tracker'.hbAt = now
      OBVIOUS
    <3>1. tracker \in Tracker /\ tracker' = Record(Record(tracker, "none"), "heartbeat")
      BY <2>1 DEF Deliver, HealthInv, HealthTypeOK, Tracker
    <3>2. Record(tracker, "none") \in Tracker
      BY <3>1, RecordType DEF HealthInv
    <3> QED
      BY <2>2, <3>1, <3>2, RecordType DEF HealthInv
  <2>8. observer = "monitor" =>
           ring' # <<>> /\ ring'[Len(ring')] = [kind |-> "heartbeat", ts |-> now - stepped]
    <3> SUFFICES ASSUME observer = "monitor"
                 PROVE ring' # <<>> /\ ring'[Len(ring')] = [kind |-> "heartbeat", ts |-> now - stepped]
      OBVIOUS
    <3>1. ring' = Ingest(Ingest(ring, "none"), "heartbeat")
      BY <2>1 DEF Deliver
    <3>2. Ingest(ring, "none") = ring
      BY DEF Ingest
    <3>3. ring \in Seq(Message) /\ Len(ring) <= RingSize
      BY DEF HealthInv, HealthTypeOK
    <3> QED
      BY <2>2, <3>1, <3>2, <3>3, IngestType DEF HealthInv
  <2>9. HeartbeatsAreHeard'
    <3>1. /\ now + Interval - Interval = now /\ now + Interval >= now
          /\ now + Interval <= now + Interval /\ now - 0 = now
      BY <1>2, HealthAssumption
    <3>2. /\ heartbeatAt' = now + Interval /\ now' = now /\ stepped' = stepped
          /\ observer' = observer
      BY <1>1, <2>1
    <3>3. heartbeatAt' - Interval = now
      BY <1>2, <3>2, HealthAssumption
    <3>4. observer' = "bridge" => tracker'.hbAt = heartbeatAt' - Interval
      BY <2>7, <3>2, <3>3
    <3>5. observer' = "monitor" /\ stepped' = 0 =>
             /\ ring' # <<>>
             /\ ring'[Len(ring')] = [kind |-> "heartbeat", ts |-> heartbeatAt' - Interval]
      BY <2>8, <3>1, <3>2, <3>3
    <3> QED
      BY <3>1, <3>2, <3>4, <3>5 DEF HeartbeatsAreHeard
  <2> QED
    BY <2>3, <2>5, <2>6, <2>9 DEF HealthInv
<1> QED
  BY <1>3, <1>4

LEMMA TickStep ==
    ASSUME HealthInv, Tick PROVE HealthInv'
<1>1. /\ now < MaxTime /\ now' = now + 1
      /\ ~(device = "running" /\ now >= heartbeatAt)
      /\ UNCHANGED <<stepped, deviceVars, retained, subscribed, tracker, ring>>
      /\ KeepHistory
  BY DEF Tick
<1>2. /\ now \in 0 .. MaxTime /\ now + 1 \in 0 .. MaxTime /\ now \in Times
      /\ now + 1 + 1 \in 0 .. MaxTime + 1 /\ signAt \in Times
      /\ wellSince \in 0 .. MaxTime + 1 /\ wellSince <= now + 1 /\ subscribed \in BOOLEAN
      /\ heartbeatAt \in 0 .. MaxTime + Interval
  BY <1>1, HealthAssumption DEF HealthInv, HealthTypeOK, WellIsWell, Times, Never
<1>3. /\ signAt' \in {signAt, now} /\ UNCHANGED observer
      /\ wellSince' = IF Alive /\ subscribed THEN wellSince ELSE now + 1 + 1
      /\ Alive' = Alive
  BY <1>1 DEF KeepHistory, Alive, deviceVars
<1>4. HealthTypeOK'
  BY <1>1, <1>2, <1>3 DEF HealthInv, HealthTypeOK, deviceVars
<1>5. tracker.hbAt \in Int /\ tracker.statusAt \in Int /\ \A m \in Message : m.ts \in Int
  BY HealthAssumption DEF HealthInv, HealthTypeOK, Times, Never, Message
<1>6. ring \in Seq(Message) /\ signAt <= now /\ signAt \in Int
  BY HealthAssumption DEF HealthInv, HealthTypeOK, SignsAreTold, Times, Never
<1>7. SignsAreTold'
  BY <1>1, <1>2, <1>3, <1>5, <1>6 DEF HealthInv, SignsAreTold
<1>8. WellIsWell'
  BY <1>1, <1>2, <1>3 DEF HealthInv, WellIsWell
<1>9. OfflineIsOlder'
  BY <1>1, <1>2, <1>3, <1>5, <1>6 DEF HealthInv, OfflineIsOlder
<1>10. HeartbeatsAreHeard'
  <2>1. heartbeatAt <= now + 1 + Interval
    BY <1>2, HealthAssumption DEF HealthInv, HeartbeatsAreHeard
  <2>2. wellSince' <= now + 1 => Alive /\ subscribed
    BY <1>2, <1>3
  <2>3. wellSince' + Interval <= heartbeatAt => Alive /\ subscribed /\ wellSince' = wellSince
    BY <1>2, <1>3, <2>1, HealthAssumption
  <2>4. Alive => heartbeatAt >= now + 1
    BY <1>1, <1>2, HealthAssumption DEF Alive
  <2> QED
    BY <1>1, <1>3, <2>1, <2>2, <2>3, <2>4 DEF HealthInv, HeartbeatsAreHeard, deviceVars
<1> QED
  BY <1>4, <1>7, <1>8, <1>9, <1>10 DEF HealthInv

LEMMA HealthInvStep == HealthInv /\ [HealthNext]_healthVars => HealthInv'
<1> SUFFICES ASSUME HealthInv, [HealthNext]_healthVars PROVE HealthInv'
  OBVIOUS
<1>1. CASE HealthNext
  BY <1>1, WellnessStep, ObserverStep, OtherTrafficStep, ClockBackStep, HeartbeatStep, TickStep
     DEF HealthNext
<1>2. CASE UNCHANGED healthVars
  BY <1>2 DEF healthVars, HealthInv, HealthTypeOK, SignsAreTold, WellIsWell, OfflineIsOlder,
              HeartbeatsAreHeard, Alive
<1> QED
  BY <1>1, <1>2

LEMMA HealthInvariant == HealthSpec => []HealthInv
<1> QED
  BY HealthInvInit, HealthInvStep, PTL DEF HealthSpec

-----------------------------------------------------------------------------
(* What the observers make of what they know.                              *)

LEMMA LaterOfTwo ==
    ASSUME NEW a \in Int, NEW b \in Int
    PROVE /\ Max({a, b}) \in {a, b} /\ Max({a, b}) >= a /\ Max({a, b}) >= b
<1>1. \E x \in {a, b} : \A y \in {a, b} : x >= y
  BY SMT
<1> QED
  BY <1>1 DEF Max

(* A set of instants has a latest one.                                     *)
LEMMA LatestOf ==
    ASSUME NEW S \in SUBSET Times, S # {}
    PROVE Max(S) \in S /\ \A y \in S : Max(S) >= y
<1> DEFINE T == {n \in Nat : MaxTime - n \in S}
<1>1. T \subseteq Nat /\ T # {}
  <2>1. PICK x \in S : x \in Times
    OBVIOUS
  <2>2. MaxTime - x \in Nat /\ MaxTime - (MaxTime - x) = x
    BY <2>1, HealthAssumption DEF Times, Never
  <2> QED
    BY <2>2
<1>2. PICK n \in T : \A m \in T : ~(<<m, n>> \in OpToRel(<, Nat))
  BY <1>1, NatLessThanWellFounded, WFMin, Zenon
<1>3. \A m \in T : ~(m < n)
  BY <1>1, <1>2 DEF OpToRel
<1>4. /\ MaxTime - n \in S
      /\ \A y \in S : MaxTime - n >= y
  <2>1. ASSUME NEW y \in S PROVE MaxTime - n >= y
    <3>1. y \in Int /\ MaxTime - y \in Nat /\ MaxTime - (MaxTime - y) = y
      BY HealthAssumption DEF Times, Never
    <3>2. MaxTime - y \in T
      BY <3>1
    <3> QED
      BY <1>3, <3>1, <3>2, HealthAssumption
  <2> QED
    BY <2>1
<1> QED
  BY <1>4 DEF Max

LEMMA LastTimeIsLatest ==
    ASSUME HealthTypeOK, NEW kind \in Kinds
    PROVE /\ LastTime(kind) \in Int
          /\ LastTime(kind) # Never =>
                \E i \in DOMAIN ring : ring[i].kind = kind /\ LastTime(kind) = ring[i].ts
          /\ \A i \in DOMAIN ring : ring[i].kind = kind => LastTime(kind) >= ring[i].ts
<1> DEFINE S == {ring[i].ts : i \in {j \in DOMAIN ring : ring[j].kind = kind}} \cup {Never}
<1>1. \A i \in DOMAIN ring : ring[i] \in Message
  BY DEF HealthTypeOK
<1>2. S \in SUBSET Times /\ S # {}
  BY <1>1, HealthAssumption DEF Message, Times, Never
<1>3. Max(S) \in S /\ \A y \in S : Max(S) >= y
  BY <1>2, LatestOf
<1>4. LastTime(kind) = Max(S)
  BY DEF LastTime
<1>5. Times \subseteq Int
  BY HealthAssumption DEF Times, Never
<1>6. /\ LastTime(kind) \in S
      /\ \A i \in DOMAIN ring : ring[i].kind = kind => LastTime(kind) >= ring[i].ts
  BY <1>3, <1>4
<1>7. LastTime(kind) \in Int
  BY <1>2, <1>5, <1>6
<1>8. LastTime(kind) # Never =>
         \E i \in DOMAIN ring : ring[i].kind = kind /\ LastTime(kind) = ring[i].ts
  BY <1>6
<1> QED
  BY <1>6, <1>7, <1>8

(* A sign of life is the reason for "online", and one that is later than   *)
(* every "offline", and in time, is enough for it.                         *)
LEMMA OnlineMeans ==
    ASSUME NEW offlineAt \in Int, NEW alive \in Int, NEW at \in Int
    PROVE /\ StateOf(offlineAt, alive, at) = "online" =>
                alive # Never /\ at - alive <= Timeout
          /\ alive # Never /\ at - alive <= Timeout /\ (offlineAt # Never => offlineAt < alive)
                => StateOf(offlineAt, alive, at) = "online"
BY HealthAssumption DEF StateOf, Never

LEMMA ShownIsTold == HealthInv => ShownOnlineIsAlive
<1> SUFFICES ASSUME HealthInv, Shown = "online" PROVE now - signAt <= Timeout + stepped
  BY DEF ShownOnlineIsAlive
<1>1. /\ now \in Int /\ stepped \in 0 .. 1 /\ signAt \in Int /\ Never \in Int
      /\ now - stepped \in Int
      /\ tracker.hbAt \in Int /\ tracker.statusAt \in Int
      /\ tracker.hbAt <= signAt /\ (tracker.status = "online" => tracker.statusAt <= signAt)
  BY HealthAssumption DEF HealthInv, HealthTypeOK, SignsAreTold, Times, Never
<1>2. CASE observer = "bridge"
  <2> DEFINE off == IF tracker.status = "offline" THEN tracker.statusAt ELSE Never
             on == IF tracker.status = "online" THEN tracker.statusAt ELSE Never
             alive == Max({tracker.hbAt, on})
  <2>1. off \in Int /\ on \in Int /\ (on # Never => on <= signAt)
    BY <1>1
  <2>2. StateOf(off, alive, now) = "online"
    BY <1>2 DEF Shown, TrackerState
  <2> HIDE DEF off, on
  <2>3. alive \in {tracker.hbAt, on} /\ alive \in Int
    BY <1>1, <2>1, LaterOfTwo
  <2> HIDE DEF alive
  <2>4. alive # Never /\ now - alive <= Timeout
    BY <1>1, <2>1, <2>2, <2>3, OnlineMeans
  <2>5. alive <= signAt
    BY <1>1, <2>1, <2>3, <2>4
  <2> QED
    BY <1>1, <2>3, <2>4, <2>5, HealthAssumption
<1>3. CASE observer # "bridge"
  <2> DEFINE off == LastTime("offline")
             hb == LastTime("heartbeat")
             on == LastTime("online")
             alive == Max({hb, on})
  <2>1. "offline" \in Kinds /\ "heartbeat" \in Kinds /\ "online" \in Kinds
    BY DEF Kinds
  <2>2. /\ off \in Int /\ hb \in Int /\ on \in Int
        /\ hb # Never => \E i \in DOMAIN ring : ring[i].kind = "heartbeat" /\ hb = ring[i].ts
        /\ on # Never => \E i \in DOMAIN ring : ring[i].kind = "online" /\ on = ring[i].ts
    BY <2>1, LastTimeIsLatest DEF HealthInv
  <2>3. StateOf(off, alive, now - stepped) = "online"
    BY <1>3 DEF Shown, MonitorState
  <2>4. (hb # Never => hb <= signAt) /\ (on # Never => on <= signAt)
    BY <2>2 DEF HealthInv, SignsAreTold, Signs
  <2> HIDE DEF off, hb, on
  <2>5. alive \in {hb, on} /\ alive \in Int
    BY <2>2, LaterOfTwo
  <2> HIDE DEF alive
  <2>6. alive # Never /\ now - stepped - alive <= Timeout
    BY <1>1, <2>2, <2>3, <2>5, OnlineMeans
  <2>7. alive <= signAt
    BY <2>4, <2>5, <2>6
  <2> QED
    BY <1>1, <2>5, <2>6, <2>7, HealthAssumption
<1> QED
  BY <1>2, <1>3

LEMMA WellIsShown == HealthInv => AliveIsShownOnline
<1> SUFFICES ASSUME HealthInv, stepped = 0, now - wellSince > Interval PROVE Shown = "online"
  BY DEF AliveIsShownOnline
<1>1. /\ now \in Int /\ now - stepped = now /\ wellSince \in Int /\ heartbeatAt \in Int
      /\ Never \in Int /\ Never < 0 /\ wellSince >= 0
      /\ tracker.hbAt \in Int /\ tracker.statusAt \in Int
      /\ tracker.status = "offline" => tracker.statusAt < wellSince
      /\ wellSince <= now => heartbeatAt >= now
      /\ observer \in {"bridge", "monitor"}
  BY HealthAssumption
     DEF HealthInv, HealthTypeOK, OfflineIsOlder, HeartbeatsAreHeard, Times, Never
<1> DEFINE beat == heartbeatAt - Interval
<1>2. /\ beat \in Int /\ beat > wellSince /\ now - beat <= Timeout
      /\ wellSince + Interval <= heartbeatAt
  BY <1>1, HealthAssumption
<1>3. CASE observer = "bridge"
  <2> DEFINE off == IF tracker.status = "offline" THEN tracker.statusAt ELSE Never
             on == IF tracker.status = "online" THEN tracker.statusAt ELSE Never
             alive == Max({tracker.hbAt, on})
  <2>1. off \in Int /\ on \in Int /\ (off # Never => off < wellSince)
    BY <1>1
  <2>2. tracker.hbAt = beat
    BY <1>2, <1>3 DEF HealthInv, HeartbeatsAreHeard
  <2>3. Shown = StateOf(off, alive, now)
    BY <1>3 DEF Shown, TrackerState
  <2> HIDE DEF off, on, beat
  <2>4. alive >= beat /\ alive \in Int
    BY <1>1, <2>1, <2>2, LaterOfTwo
  <2> HIDE DEF alive
  <2>5. alive # Never /\ now - alive <= Timeout /\ (off # Never => off < alive)
    BY <1>1, <1>2, <2>1, <2>4, HealthAssumption
  <2> QED
    BY <1>1, <2>1, <2>3, <2>4, <2>5, OnlineMeans
<1>4. CASE observer = "monitor"
  <2> DEFINE off == LastTime("offline")
             hb == LastTime("heartbeat")
             on == LastTime("online")
             alive == Max({hb, on})
  <2>1. "offline" \in Kinds /\ "heartbeat" \in Kinds /\ "online" \in Kinds
    BY DEF Kinds
  <2>2. ring # <<>> /\ ring[Len(ring)] = [kind |-> "heartbeat", ts |-> beat]
    BY <1>2, <1>4 DEF HealthInv, HeartbeatsAreHeard
  <2>3. ring \in Seq(Message) /\ Len(ring) \in DOMAIN ring
    BY <2>2 DEF HealthInv, HealthTypeOK
  <2>4. /\ off \in Int /\ hb \in Int /\ on \in Int
        /\ off # Never => \E i \in DOMAIN ring : ring[i].kind = "offline" /\ off = ring[i].ts
        /\ \A i \in DOMAIN ring : ring[i].kind = "heartbeat" => hb >= ring[i].ts
    BY <2>1, LastTimeIsLatest DEF HealthInv
  <2>5. off # Never => off < wellSince
    BY <2>4 DEF HealthInv, OfflineIsOlder
  <2>6. hb >= beat
    BY <2>2, <2>3, <2>4
  <2>7. Shown = StateOf(off, alive, now)
    BY <1>1, <1>4 DEF Shown, MonitorState
  <2> HIDE DEF off, hb, on, beat
  <2>8. alive >= hb /\ alive \in Int
    BY <2>4, LaterOfTwo
  <2> HIDE DEF alive
  <2>9. alive # Never /\ now - alive <= Timeout /\ (off # Never => off < alive)
    BY <1>1, <1>2, <2>4, <2>5, <2>6, <2>8, HealthAssumption
  <2> QED
    BY <1>1, <2>4, <2>7, <2>8, <2>9, OnlineMeans
<1> QED
  BY <1>1, <1>3, <1>4

(* Liveness data keeps its types, the monitor's ring its length.           *)
THEOREM HealthTypes == HealthSpec => []HealthTypeOK
<1>1. HealthInv => HealthTypeOK
  BY DEF HealthInv
<1> QED
  BY <1>1, HealthInvariant, PTL

(* For any heartbeat interval shorter than the timeout, any keepalive and  *)
(* any length of the ring: neither the bridge nor the monitor shows a      *)
(* child online that gave no sign of life within the timeout (_state,      *)
(* child_rollup).                                                          *)
THEOREM OnlineIsAlive == HealthSpec => []ShownOnlineIsAlive
<1> QED
  BY ShownIsTold, HealthInvariant, PTL

(* A child that is well for longer than a heartbeat interval is shown      *)
(* online, in spite of a retained "offline" and of what came before.       *)
THEOREM AliveIsOnline == HealthSpec => []AliveIsShownOnline
<1> QED
  BY WellIsShown, HealthInvariant, PTL

-----------------------------------------------------------------------------
(* The parts side by side.                                                 *)

(* A step of one part leaves the others alone.                             *)
LEMMA PartsStep ==
    [DevicesNext]_devicesVars =>
        /\ [PresenceNext \/ DetectorRestarts]_presenceVars
        /\ [SignalNext \/ SignalRestarted]_signalVars
        /\ [HealthNext]_healthVars
        /\ [TakeNext]_takeVars
        /\ [FleetNext]_fleetVars
        /\ [IpNext \/ IpKilled]_ipVars
<1> SUFFICES ASSUME [DevicesNext]_devicesVars
             PROVE  /\ [PresenceNext \/ DetectorRestarts]_presenceVars
                    /\ [SignalNext \/ SignalRestarted]_signalVars
                    /\ [HealthNext]_healthVars
                    /\ [TakeNext]_takeVars
                    /\ [FleetNext]_fleetVars
                    /\ [IpNext \/ IpKilled]_ipVars
  OBVIOUS
<1>1. CASE Only("presence") /\ (PresenceNext \/ DetectorRestarts)
  BY <1>1 DEF Only
<1>2. CASE Only("signal") /\ (SignalNext \/ SignalRestarted)
  BY <1>2 DEF Only
<1>3. CASE Only("health") /\ HealthNext
  BY <1>3 DEF Only
<1>4. CASE Only("take") /\ TakeNext
  BY <1>4 DEF Only
<1>5. CASE Only("view") /\ FleetNext
  BY <1>5 DEF Only
<1>6. CASE Only("ip") /\ (IpNext \/ IpKilled)
  BY <1>6 DEF Only
<1>7. CASE UNCHANGED devicesVars
  BY <1>7 DEF devicesVars
<1> QED
  BY <1>1, <1>2, <1>3, <1>4, <1>5, <1>6, <1>7 DEF DevicesNext

(* The composition that the runs check is the parts side by side: what is  *)
(* proved of each of the six holds in it.                                  *)
THEOREM DevicesAreTheirParts ==
    DevicesSpec => /\ PresenceSpec /\ SignalSpec /\ HealthSpec
                   /\ TakeSpec /\ FleetSpec /\ IpSpec
<1>1. DevicesInit => /\ PresenceInit /\ SignalInit /\ HealthInit
                     /\ TakeInit /\ FleetInit /\ IpInit
  BY DEF DevicesInit
<1>2. DevicesSpec => PresenceSpec /\ SignalSpec
  BY <1>1, PartsStep, PTL DEF DevicesSpec, PresenceSpec, SignalSpec
<1>3. DevicesSpec => HealthSpec /\ TakeSpec
  BY <1>1, PartsStep, PTL DEF DevicesSpec, HealthSpec, TakeSpec
<1>4. DevicesSpec => FleetSpec /\ IpSpec
  BY <1>1, PartsStep, PTL DEF DevicesSpec, FleetSpec, IpSpec
<1> QED
  BY <1>2, <1>3, <1>4, PTL

LEMMA PartStays == DevicesSpec => [](part \in Parts)
<1>1. DevicesInit => part \in Parts
  BY DEF DevicesInit
<1>2. part \in Parts /\ [DevicesNext]_devicesVars => (part \in Parts)'
  BY DEF DevicesNext, Only, devicesVars
<1> QED
  BY <1>1, <1>2, PTL DEF DevicesSpec

(* Every part keeps its types, for all values of its constants.            *)
THEOREM DevicesTypeCorrect == DevicesSpec => []DevicesTypeOK
<1>1. PresenceTypeOK /\ SignalTypeOK /\ HealthTypeOK /\ TakeTypeOK /\ FleetTypeOK /\ IpTypeOK
        => (part \in Parts => DevicesTypeOK)
  BY PartsAssumption DEF DevicesTypeOK
<1>2. PresenceInv => PresenceTypeOK
  BY DEF PresenceInv
<1> QED
  BY <1>1, <1>2, DevicesAreTheirParts, PresenceInvariant, SignalTypes, HealthTypes,
     TakeTypeCorrect, FleetTypeCorrect, IpInvariant, PartStays, PTL

================================================================================
