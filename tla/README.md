# Presence logger: TLA+ models, checks and proofs

This directory holds a verification project for the code of this repository.
It has TLA+ modules translated from the source, TLC configurations that check
them on small instances, and theorems proved with TLAPS for every instance.
Paths below are relative to the repository's root.

- [1 The system](#1-the-system)
- [2 Inventory: components, operations, correctness](#2-inventory)
- [3 The modules and how they correspond to the code](#3-the-modules)
- [4 What the runs check](#4-the-runs)
- [5 Bounds](#5-bounds)
- [6 Fairness](#6-fairness)
- [7 What is proved](#7-proofs)
- [8 What is only model-checked](#8-only-model-checked)
- [9 Disagreements between code and documents](#9-disagreements)
- [10 What is not modelled](#10-not-modelled)
- [11 Plan](#11-plan)
- [12 Running it](#12-running-it)

## 1 The system

A *hub* (Raspberry Pi, Docker Compose) watches a room with a camera and writes
ENTER and EXIT rows into Oracle's table HHC001. *Child* Pis without Oracle
access send their CSV rows to the hub. MQTT (mosquitto on the hub, no
persistence) joins the processes; SQLite files make them durable.

```
 hub                                                          child Pi
 camera -> detector --presence/event--> bridge <--presence/record-- sender
              ^                          |  |                          ^
              +---presence/event/ack-----+  +--presence/record/ack-----+
                                         |  +--presence/record/nack----+
                                         v
                       Oracle of the profile of the current SSID
```

Both paths have the same shape. The producer stores a row, publishes it, and
publishes it again until it is answered. The bridge stores what it receives,
runs a MERGE until Oracle accepts, marks its row and publishes an answer. The
promise is "at least once delivered, exactly one row in Oracle, and an answer
only for what is committed". Both paths share the main loop of the bridge, the
circuit breaker and the Oracle adapter.

## 2 Inventory

State, operations, neighbours, what is hard, and what makes it correct.

### Record path (hub side)
`services/bridge/src/record_inbox.py`, `record_sender.py`, `record.py`.
- State: SQLite table `record_inbox` (`received`, `sent`, `failed`, retry time).
- Operations: `receive` (paho's thread), `run_once` and `_send_one` (main loop),
  `delete_sent` and `ring_evict` (reclaim block).
- Interacts: MQTT in and out, the breaker, the Oracle adapter, the resolver.
- Hard: two threads on one autocommitting table; a MERGE whose answer is lost;
  kills between commit, mark and ack; power loss under `synchronous=NORMAL`.
- Correct if: an ack or a `sent` row means a committed row; a verdict stands; a
  row still waiting is dropped for space last.

### Child sender
`child/ack_delivery.py`, `child/child-csv-to-mqtt.py`.
- State: SQLite ledger (`pending`, `acked`, `nacked`), directories `outbox`,
  `sent`, `nacked` with a sidecar per file, the MQTT session.
- Operations: callbacks (connect, subscribe, ack, nack), the walk over a file,
  `archive_to_destination`.
- Interacts: only through the three record topics.
- Hard: callbacks race with the walk; the walk is cut short after 30 s; a kill
  between sidecar and move; a reconnect resets the subscriptions; power loss.
- Correct if: `sent/` holds only committed rows; a row that a sidecar omits is
  committed; every row gets its turn and is written or refused in the end.

### Event path (hub side)
`services/bridge/src/inbox.py`, `sender.py`, `main.py` `_on_event`.
- State: SQLite table `inbox` (`received`, `sent`, committed MK_DATE).
- Operations: `_on_event`, `run_once`, `_send_one`, the reclaim block.
- Interacts: as the record path, and with resolver, network and time watcher.
- Hard: the date of an event may depend on a baseline that changes; the policy
  for unknown SSIDs; a lost ack.
- Correct if: what is reported is committed under the date reported, but for
  failures taken for successes; every other confirmed event is written in the end.

### Detector outbox
`services/detector/src/buffer.py`, `main.py`, `mqtt_client.py`, `retry.py`.
- State: SQLite table `pending_events` (`pending`, `sent`, `acked`).
- Operations: `_emit_transition`, `retry_pending`, `_on_ack`.
- Hard: the ack may come before `mark_sent`; paho reconnects with a clean
  session and nobody subscribes again; restarts and reboots.
- Correct if: an event it stops resending is in Oracle; it never loses one.

### Circuit breaker
`services/bridge/src/circuit_breaker.py`: closed, open, half-open per profile;
shared by the two senders. Correct if an open breaker stops sending and always
gets another trial.

### Oracle adapters and the JDBC sidecar
`oracle_client.py`, `oracle_jdbc_client.py`, `services/oracle-jdbc/src/Main.java`.
State: none but the table itself and statements still running on the server.
Hard: timeout of the client while the server commits. Correct if the answer
tells the caller what happened, or that it does not know.

### Profile resolver, network watcher, time watcher
`profile_resolver.py`, `network_watcher.py`, `time_watcher.py`,
`time_correction.py`. State: cached SSID, last known profile, baseline. Hard:
stale caches; a baseline of another boot.

### Presence state machine
`services/detector/src/fsm.py`, `camera.py`, the main loop.
- State: PRESENT or ABSENT, a candidate with its start, failed reads in a row.
- Operations: `observe`, `force_exit`, `_emit_transition`.
- Hard: a candidate that survives a camera outage; frames that come late; a kill
  between the state's change and the stored event; a restart that forgets PRESENT.
- Correct if: a transition has the debounce time of equal observations behind it
  and comes as soon as it has; the last event tells the state.

### Device liveness
`services/bridge/src/liveness.py`, and the desktop's
`pipeline_monitor/mqtt_tail.py`, `rollup.py`. State: last status and heartbeat
per device; a ring of messages. Hard: last will, retained status, heartbeat and
resubscription in any order; the monitor's wall clock. Correct if a child shown
online has lived within the timeout, and a child that lives is shown online.

### Child web server
`child/web_server.py`.
- State: `sent_lines.json` and its copy during a run, `_send_lock`; the settings
  files; NetworkManager's profile, the revert timer's slot.
- Operations: `_auto_send_worker`, `do_send_logs`; the settings' requests;
  `set_ip_config`, `confirm_ip_config`, `_revert`.
- Hard: counters saved once per run by truncating; settings read, changed and
  written without a lock; requests, timers and page loads in one unlocked slot.
- Correct if: no row is skipped and only faults make duplicates; settings are what
  was asked; an address at which the page does not open is watched by a timer.

### Child camera application
`child/Picamera.py`.
- State: the DMA buffers lent by the camera, a queue of one, stop event; cached
  settings; histories of detections per signal light, `SendLogger`'s rows.
- Operations: `capture_loop`, `switch_recognition_off`,
  `stop_capture_then_restart`, `SaveWorker`, `SendLogger.update`.
- Hard: draining the queue before joining the thread; polling half-written files;
  telling on, blinking and off from frames; the day's end, edited code tables.
- Correct if: no buffer is lost but by an error in the capture thread; images keep
  coming; the camera follows the settings; the last row tells the light.

### Fleet UI: moving children
`fleet_ui/migrate.py`, `send_target.py`, `child_cli.py`.
- State: a child's profiles, keys and send target; each hub's list of children.
- Operations: `take_child`, adopt, align, the switch unit on the child.
- Hard: a failure or a lost answer between two machines; two requests at once; a
  list truncated before it is written; the child's Wi-Fi changes when nobody is
  connected any more.
- Correct if: the child stays reachable, on a list, with a Wi-Fi to go to; records
  that go elsewhere are reported.

### Fleet UI: discovery and wizard
`fleet_ui/discovery.py`, `server.py`, `provision.py`, the page.
- State: the list, `known_macs.json`, each page's copy of the view.
- Operations: `/api/fleet` in threads, the wizard's steps.
- Hard: mDNS that does not answer, a fixed address in `ssh_config` that has passed
  to another, clones with another's name, ARP entries that outlive their device, a
  page older than the network, a `known_macs.json` that cannot be read or written.
- Correct if: a child at work is never taken for a new one; trust is not lost.

### The rest
Launchers, scripts, documentation, log files, configuration loading, SQL text,
HTML: no protocol state.

## 3 The modules

| module | models | lines of state |
|---|---|---|
| `Columns` | what the messages and the table are made of | none |
| `CircuitBreaker` | `circuit_breaker.py` as operators on one entry | none |
| `OracleTable` | the table, statements still running, a MERGE's result | `oracle`, `late` |
| `RecordChannel` | the three record topics | `recordTopic`, `ackTopic`, `nackTopic` |
| `RecordBridge` | the record path of the bridge | `inbox`, `disk`, two program counters |
| `ChildDelivery` | the child | directories, ledger, session, walk |
| `RecordPipeline` | child, topics and bridge composed; the refinement | - |
| `RecordTurns` | the same with fairness and the rounds of the walk: liveness | `waited`, `walks` (history) |
| `RecordOutcome` | abstract specification of the record path | `committed`, `outcome` |
| `EventChannel` | the event topics and the Pi's clocks | `eventTopic`, `eventAckTopic`, `boot` |
| `DetectorOutbox` | the detector from transition to ack | `buffer`, program counter |
| `EventBridge` | the event path of the bridge | `inbox`, SSID, baseline, program counter |
| `EventPath` | detector, topics and bridge composed; liveness; the refinement | - |
| `EventOutcome` | abstract specification of the event path | `confirmed`, `inHand`, `written`, `misread`, `settled` |
| `WebSender` | the Web server's sender of `send_logs` | rows, counters and their copy, lock |
| `ChildSettings` | settings between Web server, touch panel and camera | two files, jobs, cache, what runs |
| `CaptureFlow` | the camera's buffers | who holds which, mode, stop |
| `PresenceFSM` | detector's state machine and camera loop | state, candidate, failures, event in hand |
| `SignalLog` | detections of a signal light to rows | history, light, code tables, row |
| `DeviceHealth` | a child's life as the hub and the monitor see it | connection, retained status, tracker, ring |
| `TakeChild` | moving children between hubs | profiles, keys, lists, requests |
| `FleetView` | the fleet page and the wizard | leases, ARP, list, `known_macs.json`, pages |
| `IpRevert` | the IP change with its timer | profile, address, requests, timers, slot |
| `MCRecordBridge`, `MCRecordPipeline`, `MCRecordTurns`, `MCEventPath`, `MCChild`, `MCDevices` | instances for TLC | - |
| the modules named `...Proofs` | theorems | - |

### Conventions
- One action per atomic step of the code. SQLite runs in autocommit mode
  (`isolation_level=None`), so each statement is a step of its own where another
  thread, a kill or a power loss could come in between.
- A topic is a set of messages. The set leaves the order open. A message can be
  lost (clean sessions, a broker without persistence); on `presence/record` the
  bridge subscribes with QoS 1, so one can be handed over more than once.
- Time is not a number. A back-off, the timeout of the breaker, the child's
  600 s and 30 s are events that may happen at any moment.
- A row's `due` flag is `next_retry_at_iso <= now`.
- Payloads are abstract. Two fields matter: the primary key (`mk_date`, which
  stands for MK_DATE with the station) and `t1_status`, the fifth column of the
  ON clause. Two rows with the same key and another status collide: ORA-00001.
- Definitions whose comment begins with "As ..." are the plausible bugs used as
  mutants; no specification uses them.

### OracleTable
`MERGE` has three steps in the models: it starts (`matched` is its read
snapshot), it ends on the server, and the caller reads the answer. It may insert
and commit, match, collide, fail, or lose its answer while still running. In the
last case it moves to `late`, from where it commits or rolls back at any time
later, also after its caller has been restarted. `OkMessage` is the
`error_message` of a success. The record sender's tests use `None`; the real
adapters return the empty string (see section 9). The runs `bridge` and
`pipeline_one` take `None`, without which no row is ever marked sent and their
properties would have nothing to say; `pipeline_live`, `bridge_real_adapter` and
the event path's runs take the empty string.

### RecordBridge
`rxRec`, `rxRow` are the locals of `receive` after `get`; what follows acts on
that row, possibly stale. `at` is the main loop: `idle`, `loop` (in `run_once`),
`merging`, `answered`, `sent` (marked, ack not yet published), `givenup` (marked
failed, nack not yet published), `trim` and `evict` (the reclaim block).
`target` is what the resolver would decide for the cached SSID. `disk` is what a
power loss leaves of the table. `EventSenderRuns` is the other user of the
breaker.

### ChildDelivery
`pc` is the walk: `poll`, `lines`, `saved` (ledger written, not published),
`waiting`, `sidecar` (sidecar written, file not moved). `tally` is what
`DeliveryResult` counts. `link` and `nackEnabled` are the session. `ledger` is
what a power loss leaves of `store`.

### RecordPipeline, RecordTurns and RecordOutcome
`RecordOutcome` is the promise: Oracle only gains records, and the child learns
at most one outcome per record, "delivered" only if committed. A child that loses
power may forget outcomes (`Forget`), and then learn others. The mapping reads
`committed` from Oracle and `outcome` from the child's ledger.

`RecordTurns` adds what time allows to the walk of `deliver_file`, which starts at
the first line on each round and stops after 30 s: `waited` says that the walk has
waited for an answer (only that takes time), `walks` counts the rounds since the last
attempt of each row.

### EventChannel, DetectorOutbox, EventBridge, EventPath, EventOutcome
The monotonic clock starts again with each boot; `OffsetsOf[b]` are the
differences between wall and monotonic clock that boot `b` may see (more than one
when NTP steps the clock). `born` is a history variable: in which boot an event
was confirmed, so that each is confirmed once. `step` is the detector's loop:
`inserted`, `published`, and the two scans of `retry_pending`. `at` is the bridge's loop as above. `RunOnce` includes the call
of `get_current_ssid` and of `resolve`, as `Sender.run_once` does.

`EventOutcome` is the promise: a confirmed event is never lost or exchanged for
another of its id, Oracle has rows of confirmed events only, each under a date that
event may bear, and an event is settled only when it is written. The mapping reads
`confirmed` and `settled` (status `acked`) from the detector's buffer, `inHand` from
the event `_emit_transition` works on, `written` from Oracle. The event sender takes
a failure without an ORA code for a success (section 9), and the JDBC client gives
none on any transport failure; `misread` is the history of the events this happened
to, which may be settled unwritten. `LetGo` may open the
event in hand again, because `mark_sent` after the first publication overwrites an
ack that was faster (section 9); no other step may. Two rows under two dates are
within the promise; that an event has one row is false (section 9).

### WebSender
`sending` is the holder of `_send_lock` from the lock to the save; `count` is its
copy of the counters, `counters` what the file would be read as (a truncated file
reads as no counters). `arrived`, `resent` and `excused` are history: what reached
the broker, what reached it twice, and what a fault (a kill, a lost save, a publish
that was not confirmed in time) kept from being counted.

### ChildSettings
A writer's `job` goes from the read through the truncation to the write; a file may
be read `Torn` in between, which the Web server's loaders answer by writing the
defaults with the camera size the file has by then (`CarryCamSize`). `PollConfig` is the SaveWorker's cache, `running` what the camera runs.
`wanted` is history: what was last asked for, field by field.

### CaptureFlow
The queue has one place. A wait with a time-out (the put, the get, the join) may
end before what it waits for; the model has both outcomes wherever the code has a
time-out. `closing` is how far a stop has come. An error in `capture_loop` after
`capture_request` drops the request without its release (`CaptureFails`); `dropped` is
the history of those. A start has recognition on or off, with the buffers `pool`.

### PresenceFSM and SignalLog
`PresenceFSM` counts time in frame periods; a step lasts 1 to `MaxStep`. `streak`
is history, kept apart from the machine's own candidate: the observations of one
kind since the last contrary one and their span. In `SignalLog` one frame is the
unit; `steady` is history.

### DeviceHealth
The broker is external: it keeps the retained status, fires the will when the
keepalive runs out or the child connects anew, and hands messages to whoever is
subscribed; a connection hands over the old session's will first, then its own
message (`Publish`). `observer` picks one of the two views. `signAt` and `wellSince` are
history: the last sign of life given with a connection, and since when the child has
run, connected, before a subscribed observer.

### TakeChild and FleetView
`job[t]` is a request of the Web UI or the terminal with what it has read so far.
Every SSH call may fail before or after doing its work. `unit` is
`presence-hub-join-switch` on the child; NetworkManager, which joins a profile with
autoconnect, is external. `WriteOldList` truncates the old hub's list before it writes:
any part of the text may be what is kept of it. `crossed`, `told`, `lost` (children
whose lines such a write lost) and `byHand` (`align` asked at a hub that does not list
the child) are history. In `FleetView` each
`gather` is a thread answering `/api/fleet`; `view` is a page's copy, on which the
wizard acts by address. A read of `known_macs.json` may fail, which counts as an empty
file; a write may be cut off after the truncation, by itself or with the server.
`mixed`, `faulted`, `moves`, `spoiled` are history.

### IpRevert
A request's thread `_apply` and the timer it arms are followed step by step;
`slot` is `_ip_revert["timer"]`. `modify` changes the stored profile, `up` makes it
active; each may fail, which nobody looks at, or hang and end the thread.

### MCChild and MCDevices
The parts gathered in these two share no variable, so a behaviour is of one part
(`part`), chosen at the start, and the others stand still: one run explores each of
them in full without multiplying them.

## 4 The runs

Passing runs.

| run | instance | shows |
|---|---|---|
| `bridge` | two colliding records, one event_id with two contents, inbox of one row, kills, power loss, late commits | an ack or `sent` row means committed; verdicts stand; waiting rows dropped last |
| `pipeline_one` | one record in two files, one with a bad line, power loss of the child | archive, sidecar and acks tell the truth; `RecordOutcome` is implemented |
| `pipeline_live` | two rows of one file, the answers of the real adapters | every row is written, or refused and the child told |
| `event_pair` | an undated ENTER, a dated EXIT, NTP step, failures without a code, inbox of one row, drop policy | what is reported is committed or was misread; waiting events dropped last |
| `event_live` | one undated event, two boots, failures without a code, policy `use_last` | types; a sent row is never revived; a confirmed transition is written or was misread; `EventOutcome` is implemented |
| `child` | two files of two rows and two threads; three writers' requests; three buffers and errors in the capture thread; one kill | no row skipped or sent twice without a fault, all arrive; settings are as asked and the camera follows; no buffer lost but by such an error, images keep coming as long as buffers are left |
| `devices` | debounce 3 and 4 with steps of up to 2; a window of 5 frames, two cells, two code tables; one child and both observers; two hubs, children and requests; two devices, addresses, names and page requests; three IP changes | see below |

`devices` checks: events tell visits, changes are earned and made (`PresenceFSM`);
a steady light is on and the last row tells the light (`SignalLog`); shown online is
alive and the converse (`DeviceHealth`); hubs keep their keys, the first switch is
safe, nobody is forgotten, an unaligned child is told (`TakeChild`); a trusted child
is spared and trust stands (`FleetView`); a lockout is watched and a confirmed
address stays (`IpRevert`).

Runs that end in a violation state what a document or a comment says, and TLC
shows the code doing otherwise (section 9): `bridge_real_adapter`, `event_reack`,
`event_two_rows`, `fleet_stranded`, `fleet_wizard`.

Every property of a passing run has a mutant: a definition changed as a
plausible bug would change it, under which TLC finds the property violated.
Examples: re-acking a duplicate of a row that is not settled (`ConfirmedIsInOracle`),
INSERT OR REPLACE instead of DO NOTHING (`VerdictStands`), evicting waiting rows
too early (`WaitingDroppedLast`), letting a late nack overwrite an ack (`Implements`),
resending at once what was just sent (`EveryRowIsDecided`), scanning only the pending rows (`EventReachesOracle`), marking a resent event as
sent although it is acked (`ImplementsOutcome`), sending
without the lock (`ResentOnlyAfterFault`), draining without releasing
(`NoBufferLost`), not looking for KEY_OK (`SwitchedIsReachable`), switching the other
profiles off before the new one is up (`FirstSwitchIsSafe`), taking a cut answer for
the old hub's list (`NobodyForgotten`), claiming by address (`TrustedChildIsSpared`),
a revert that leaves the address (`LockoutIsWatched`).

## 5 Bounds

- `MaxRows`: the limit of an inbox, 1 or 2, so that eviction happens; in
  `WebSender` the rows of a file.
- `KeepSent`: what `keep_sent_for_free` may return. `{0}` deletes every sent row.
- `MaxBoot`: boots of the Pi; 2 in `event_live`.
- `MaxKills`: kills of the child's processes, 1.
- `MaxRequests`, `MaxJobs`, `Changes`: requests for settings (2), for children (2)
  and for an address (3): two overlap, and a third meets what they left.
- `MaxTime`: the length of a behaviour of `DeviceHealth`, half as long again as the timeout;
  `MaxMoves`, `MaxGathers`: changed leases (1), views (2).
- `OneUnderWay` (`bridge`): one message under way, or one MERGE left running that
  ends before the next starts. `pipeline_one` does without: there the retry races the
  late commit.
- `OneMessage` (`pipeline_one`, `pipeline_live`): at most one message under way.
- `MessageOrLate` (`pipeline_one`, `event_live`): no message on its way while a MERGE
  is left running.
- `NoLate`, `QuietOffNetwork`, `QuietHub`, `LinkedWalks`, `BothSubscriptions`
  (`pipeline_live`): no MERGE left running, no message while the hub is off its
  network, records received between two rounds of the hub, a session with both
  subscriptions during walks. What they cut off is in the safety runs, and the
  liveness property assumes that such trouble ends. `InOrder` leaves only walks that
  begin with the file's first row.
- `PauseWalks` (`pipeline_live`): the rounds the 600 s between two attempts of a row
  last at the least, 2: enough that with two rows the first may be sent again and
  again in front of the second. A walk of 30 s waits for up to seven answers of 5 s
  and a round takes some 40 s, so 600 s are about fifteen rounds.
- `NoneLeftRunning`, `SubscriptionKept`, `OneMessageEachWay`, `EnterMisread`
  (`event_pair`): no statement left running by a lost connection, the detector keeps
  its ack subscription, at most one message each way and of one event, and only the
  ENTER's failures are taken for successes; `event_live` does without.
- `SYMMETRY Alike` (`devices`): the threads and the devices of `FleetView` are
  interchangeable; no liveness is checked there. `FixedIp`: the address the card's name
  has in `ssh_config`; the two violation runs have none.
- Records and events: two are enough for every interaction the code has between
  rows (collision on the key, eviction order, batch order); a third adds no new
  pair. One profile is enough where nothing depends on which Oracle it is.
- ORA codes: one per class the code tells apart: 1 (duplicate key), 942
  (permanent), 12899 (unretryable data error), 12170 (neither), and none.
- Debounce, window and timeouts: small numbers in the code's proportions; steps of
  two frame periods make a frame late enough to jump over a threshold.

The theorems need none of these bounds.

## 6 Fairness

`RecordTurns!FairSpec` and `EventPath!FairSpec` assume:
- weak fairness of each thread's next step (`WF`): paho's network threads, the
  bridge's loop, the child's walk and the detector's loop are loops without an
  exit, and none of their steps waits for another thread;
- weak fairness of the pauses (`BackoffElapses`, `CooldownElapses`, `ResendDue`,
  `RetryDue`), of those kept per row for each row: clocks move on;
- strong fairness of `RunOnce`: it is called on every pass of the main loop, but
  other calls of the same loop (polls, the reclaim block) come in between.

`MCChild!ChildSpec` assumes weak fairness of the threads of sender, settings and
capture, and strong fairness of three steps that others can disable again and again:
the automatic worker gets `_send_lock`; of ever more connections to the broker one
succeeds; of ever more attempts to publish a row one succeeds. `EveryRowArrives`
also assumes that automatic sending stays on with its host set. `CameraFollows`
needs no more than that requests come to an end, which their bound implies.
`MCDevices` has no liveness property and assumes no fairness.

On the two paths nothing is assumed of the network, of Oracle or of the processes. The
liveness properties are implications: *if* from some moment on there is no
trouble (`Trouble` lists it: a lost message, a failed MERGE, a kill, a broken
session, a truncated walk) and the hub is on a profile's network, *then* the work
gets done, whatever happened before that moment. For `EveryRowIsDecided` it is
also trouble if a walk is cut off before it has waited, or a row is due again after
fewer rounds than its pause lasts: both would be a clock that runs too fast. A step that is at the same time
a regular one is no trouble: an answer that is ignored looks like a lost one, and
without that exclusion the premise would rule out ordinary behaviour.

## 7 Proofs

All theorems hold for every value of the constants that satisfies the named
assumptions (`MessagesAssumption`, `BreakerAssumption`, `OracleAssumption`,
`BridgeAssumption`, `ChildAssumption`, `EventChannelAssumption`,
`DetectorAssumption`, `EventBridgeAssumption`, `PresenceAssumption`,
`SignalAssumption`, `HealthAssumption`, `SenderAssumption`, `SettingsAssumption`,
`CaptureAssumption`, `IpAssumption`, `TakeAssumption`, `FleetAssumption`,
`PartsAssumption`, `KillsAssumption`), which say that sets have the right kind, that numbers are numbers
and that "nothing" differs from something. Four say more: `EventIdAssumption` (in
`ChildDelivery`) says that two records with one event_id are equal, justified by
`event_id = SHA1(device_id | line)` in `child-csv-to-mqtt.py` `parse_line`;
`DupCode \in OraCodes` says that ORA-00001 is a code; `CaptureAssumption` says that
the camera has three buffers at least; `HealthAssumption` that heartbeats come more
often than the timeout, as the defaults of both observers have it.

Every safety invariant and action property that a passing run checks is stated by a
theorem. The inductive invariants of the devices and of the settings were checked by
TLC before they were proved.

### RecordBridgeProofs
`BridgeTypeCorrect`, `ConfirmationsAreTrue`, `VerdictsStand`,
`WaitingIsDroppedLast`.

`ConfirmedIsInOracle` is not inductive: a `sent` row that `receive` has read and
not yet answered, a verdict reached and not yet marked, and a table on disk that
a power loss may bring back all become confirmations later. `ConfirmInv`
therefore says of each of them that it is true as well: the table and its copy
on disk (`Truthful`), the row found by `receive` (`FoundTrue`), the acks in flight
(`AcksTrue`), and in the main loop an accepted answer or a marked row stands for
a committed record (`SendInv`). It is preserved because Oracle only grows
(`OracleGrows`) and truth is monotone in Oracle (`TruthLasts`, `SendingLasts`).
There is one lemma per group of actions.

### RecordPipelineProofs
`PipelineTypeCorrect`, `SentFilesAreTrue`, `SidecarsAreComplete`,
`AckedRowsAreTrue`, `PathImplementsOutcome`.

`PipelineInv` adds the child to `ConfirmInv`: each `acked` entry of the ledger
and of its copy on disk is true (`LedgerTrue`); in a walk that has seen no
pending and no bad line, each line already passed is committed or counted as
nacked (`WalkInv`); and the archive is true (`ArchiveInv`). `WalkInv` is what
carries the truth from the ledger to the moment the file moves, although the
ledger may lose entries in between.

`PathImplementsOutcome` proves the refinement without a further assumption: the hub
and the child may lose power. When the child does, its ledger may forget an ack, so that
"delivered" becomes "unknown" again; that is `Forget`, and no other step may do it.

### EventPathProofs
`EventTypeCorrect`, `EventConfirmationsAreTrue`, `SentEventsStay`,
`WaitingEventsAreDroppedLast` and `PathImplementsEventOutcome`, none of them with an
assumption on the adapter: a failure without a code, as the JDBC client answers every
transport failure, is taken for a success (section 9). What is reported of an event is
therefore true unless that happened to this very event (`misread`).

Two invariants carry them. `StoreInv` says that every message and every row of
the inbox is of an event the detector's buffer holds (`Filed`), and that what
`run_once` has in hand or still in its batch is a waiting row of the inbox
(`SendingInv`): the reclaim block runs between two calls of `run_once`, never
during one, so a row cannot vanish under it. From it follow the two action
properties (`InboxChanges` lists what a step may do to a row). `EventInv` says
that every report on its way is true: a match seen by a MERGE, an answer without
a code, a marked event, a sent row, an ack, an acked entry - or the event was misread. An ack must also be of
an event the detector knows (`AcksTrue`), because `mark_acked` goes by event_id
alone. It is preserved because Oracle only grows (`OracleGrows`, `WrittenLasts`).

`PathImplementsEventOutcome` needs two more. `HandInv` says that no event is in hand
between two passes of the detector's loop, so that the mark of a publication can
only concern the event just confirmed. `DatedInv` follows the date: a statement
under way, one left running by a lost connection and an ack are of a confirmed event
under a date it may bear (`MayBear`), whichever boot's baseline gave it. `DetectorOutcome` and
`BridgeOutcome` then map each side's steps to a step of `EventOutcome` or to a
stutter; a late commit is a `Write` like any other.

### SensingProofs
`EventsTellState`, `ChangesAlwaysMade`, `ChangesAlwaysEarned`: `PresenceInv` ties the
machine to the history. The event in hand is the one of the state (`EventOfState`),
and the candidate with its age is the streak with its span (`CandidateIsStreak`).

`SignalTypes`, `SteadyLightOn`, `RowTellsLight`: `SignalInv` says what the history of a
cell owes to the frames seen: its last entries, as many as the light was seen in a row,
are sightings (`SeenLast`, kept by the deque's append whether it is full or starts
anew), so a full history of them has no miss to count. For the rows `LoggedCode` says
that the last code logged is that of the light by the table in the cache, and that the
row has it if its append did not fail.

### WebSenderProofs
`SenderTypeCorrect`, `CountedStaysAtBroker`, `NothingResentWithoutFault`. What a run
works from is the file until it has loaded it and its copy afterwards (`Baseline`):
neither counts what is not at the broker (`CopyIsAtBroker`), and what is at the broker
is counted there or excused (`ArrivedIsCounted`). The lock makes this one copy.

### ChildProofs
`BuffersAreKept`, `OffLeavesOne`. A buffer is in one place, or was dropped by an error
in `capture_loop` and stays with nobody (`OnePlace`), and once the
queue has been drained a buffer in it is the last the thread put (`LastPut`): after
it the thread sees the stop event.

`SettingsTypes`, `SettingsKept`. `SettingsAreAsAsked` speaks of moments without a
request under way; `SettingsInv` says what happens in between. Until two requests
overlap or one is killed there is one at a time (`OneRequest`); it is about to write
what was last asked for, and while it has not read the camera's size the file still
has the size wanted (`SavesWhatIsWanted`); without such a request the file says what is
wanted (`FileIsSettled`).

`ChildIsItsParts`, `ChildTypeCorrect`: the composition the run explores implements each
part's own specification, so what is proved of a part holds in the run's model.

### FleetProofs
`HubsHaveTheirKeys`, `FirstSwitchNeverStrands`, `TakeTypeCorrect`. A request past the
check of KEY_OK has its hub's key on the child, and an old list about to be written
back names nobody the old hub cannot reach (`JobsAreKeyed`); that carries
`SwitchedIsReachable` through lists that two requests overwrite for each other. Up to
the first switch the card's own profile connects, then that or the new one
(`OneProfileConnects`).

`AlwaysOnAList`, `RecordsDoNotStray`: `ListInv`. Where a request is tells what it has
done (`JobsAreOnTheWay`): from the append on the child is on the new list and not
before, the old list is stripped only after the alignment, and the copy about to be
written back is the list. A child whose requests did not meet is therefore on a list
and on none twice (`ListedOnce`), and its records go where it is listed, or that was
told, or the alignment is still to come, or `align` was asked for it by hand at a hub
that does not list it (`SettledOrAligning`). The write of the old list may be cut off
after its truncation; then the lines of others are lost, and both theorems except
those children (`lost`), never the one that is taken.

`FleetTypeCorrect`, `WizardSparesTrusted`, `TrustIsKept`: `FleetInv`. While no address
changes hands, what was once read from the ARP table stays true (`AddressesStay`), so
the candidates of a view, a page and a wizard have other addresses than the MACs
trusted under the names listed with them (`CandidatesAreStrangers`); this does not
depend on `known_macs.json` and holds although requests meet in it. For the file
`OneAtTheFile` says that, until two requests meet, one at a time is between reading and
writing it and, unless a read failed or a write was cut off, holds all it says.

The first form of `TrustedChildIsSpared` asked of `known_macs.json` what the page has to
know. The proof failed on that, rightly: a request that begins before a child is on
the list may load the file after another request has learned its MAC, and its page
still offers the child, which it does not list, as new. (It takes three requests, one
more than the run has.) The invariant now speaks of the MACs the page lists.

`LockoutAlwaysWatched`, `ConfirmedAddressStays`. While nmcli works, a bad stored
profile has someone who will replace it, and a profile that is not the active one has
someone who will bring it up (`ProfileIsWatched`); this holds however changes overlap.
For the second, `OneTimer` says that without overlaps the armed timer is the one in
the slot, and `ConfirmedIsQuiet` that a confirmed address has none.

### DevicesProofs
`HealthTypes`, `OnlineIsAlive`, `AliveIsOnline`. `HealthInv` compares what an observer
holds with the history: every sign of life in the tracker and in the ring is as old
as `signAt` or older (`SignsAreTold`); since the child is well nobody received an
"offline" (`OfflineIsOlder`), because each one comes with a lost connection or a stop
and so starts the time anew; and a child that is well is not behind with its
heartbeats, the last of which is the newest message of it the observer has
(`HeartbeatsAreHeard`). `LatestOf` carries this from the ring to the monitor's times.

`DevicesAreTheirParts`, `DevicesTypeCorrect`: as for the child.

## 8 Only model-checked

- Liveness (`EveryRowIsDecided`, `EventReachesOracle`, `EveryRowArrives`, `CameraFollows`,
  `ImagesKeepComing`): TLAPS here does not prove properties that rest on fairness or
  ENABLED.
- The violations: they are counterexamples, not theorems.

## 9 Disagreements

Each is the run of that name; `PROJECT.json` quotes the lines.

1. `bridge_real_adapter`: the record sender wants `error_message is None`, the
   adapters return `""`; an accepted MERGE is retried for ever, never marked and
   never acked, and no file reaches `sent/`. `pipeline_live` shows what is left with
   the real adapters: every row still gets into Oracle. Its `PauseWalks` is where that
   ends: unanswered rows cost 5 s each, so about 105 of them (seven to a walk, fifteen
   walks to 600 s) take up all walks, and rows behind them in a file never get a turn.
2. `event_reack`: the bridge never repeats an ack, although the design says so.
3. `event_two_rows`: an undated event may get two dates and two rows.
4. `fleet_stranded`: a child that has been moved once and is told to move again has
   no Wi-Fi to return to if the new one fails.
5. `fleet_wizard`: a child at work whose address changed can be offered as new and
   its station numbers blanked.

Seen while modelling, present in the models, without a run of their own:

- The event sender takes a failure without code for a success and acks the event
  (`sender.py:123`); `oracle_jdbc_client.py:61-63` and `95-106` give none when the
  sidecar cannot be reached or answers badly, and say of it "so the existing sender
  retry/circuit-breaker logic still applies" (`:52-54`), which it does not. The event
  is settled without a row (`misread`); the properties of the event path say of every
  other event what was promised of all.
- An ORA-00001 may come from the record's own row, committed late by an attempt given
  up before; `record_sender.py:36-38` reads it as another row.
- A breaker opened in the middle of a batch does not stop the rest of it.
- `mark_sent` of the detector's buffer overwrites `acked`; the row is resent.
- An event refused by the drop policy is written later, because the detector, which
  gets no ack, sends it again (`main.py:162-164` rules that out).
- An undated event that outlives a reboot is dated by another boot's clock.
- `force_exit` while ABSENT keeps the candidate: two frames with a person, one before
  and one after a long camera outage, make an ENTER. A restart forgets PRESENT, and
  that visit gets no EXIT.
- "online" is published once per process: after a reconnect the retained status stays
  "offline" until the next restart; heartbeats cover it for whoever is subscribed. A
  retained "online" delivered to a new subscriber makes a hung child look alive for
  one timeout.
- Two page requests that meet in `known_macs.json` can lose the trust given, and so
  can one alone whose read fails (`discovery.py:214`) or whose write is cut off after
  the truncation (`:224`); a first view may trust a clone's MAC.
- `add_to_inventory` looks and then appends: two requests may enter a child twice. Two
  takes from one old hub may undo each other's change of its list. The write of the
  old list truncates it first and is not looked at (`migrate.py:492`): if it fails,
  children that had nothing to do with the take are on no list.
- `align` works on any child that is named (`child_cli.py:131`): after a take that
  failed between switch and listing, it sends the child's records to a hub that does
  not list it, and nobody at the hub that does is told.
- An error in `capture_loop` after `capture_request` leaks a DMA buffer
  (`Picamera.py:1888-1891`); after a few the camera has none left.
- `model_status` may stay "switching": a setting changed to the value it has, an
  announcement that comes after the camera's "ready", or a model changed while
  recognition is off (`web_server.py:1056`, `:1108`).
- `_guarded` makes a failed step of exceptions only, and the commands it runs raise
  none; `_ssh_alive` never says no (`provision.py:55`).
- The revert timer does not help when an nmcli call fails or the server restarts
  within the minute (requirement UI-IP-06); three overlapping changes can make an
  orphaned timer take back a confirmed address.
- A settings file found half written is replaced by defaults; a SaveWorker that polls
  a torn file while recognition is off restarts the camera.
- A light whose centre moves over a cell's edge is logged as blinking. A row whose
  append fails is lost, because `prev_codes` is set first.

## 10 Not modelled

- The contents of messages beyond key and status; JSON and CSV parsing (a bad CSV
  line is one value, `Bad`).
- A change of the child's configuration between two runs (`ValueError` in `send`).
- The record topic's subscription before `record_sender` exists: a record lost
  then is covered as a lost message.
- The order of rows by wall clock (`received_at_iso`): left open everywhere.
- Power loss on the event path (a rollback of its two tables).
- Both paths in one model: each has its own copy of the main loop; they meet in
  the breaker, which `RecordBridge` opens to any step of the event sender.
- The Web server's pages, downloads, Wi-Fi page and time sync; the camera's drawing,
  GPIO, WPS, file caps and its other logs: single reads or writes of one thread.
- The distribution of files to new children, parsing of `site.env`, listing another
  hub's children; the pipeline monitor's display and readers: text and I/O.
- Launchers, installation scripts, camera demos, documentation.

## 11 Plan

Done: the record path from end to end with its abstract specification, liveness and
proofs; the event path likewise, from transition to ack; the child's
sender, settings, camera buffers and IP change; the presence state machine, a signal
light's rows, liveness of devices; moving children between hubs and the fleet page.

Next, in this order:
1. `Bridge`: both paths in one main loop over one breaker and one Oracle (by
   INSTANCE), for starvation of one by the other and collisions across paths.
2. Power loss on the event path (a rollback of its two tables).
3. `PresenceFSM` composed with `DetectorOutbox`: from frames to rows.
4. The history of refused events (`main.py:162-164`), statuses of the detector's
   buffer, and the correction formula's promise as properties of `EventPath`.
5. `NetworkSelection`: dual Wi-Fi, preferred SSIDs.

## 12 Running it

```
tlc -workers 2 -config MCRecordBridge.cfg MCRecordBridge
tlapm RecordPipelineProofs.tla
```

The longest runs are `devices`, `event_pair`, `event_live` and `pipeline_one`, about
three minutes each.
