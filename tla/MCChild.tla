------------------------------- MODULE MCChild -------------------------------
(***************************************************************************)
(* The programs of a child Pi beside the CSV sender, for TLC: the Web      *)
(* server (its sender, the settings) and the camera application (the       *)
(* settings, the frames).                                                  *)
(*                                                                         *)
(* The three parts share no variable but their processes' lives, so they    *)
(* are explored one at a time: "part" says which one a behaviour is of,    *)
(* and "kills" counts the ends of its process.                             *)
(***************************************************************************)
EXTENDS WebSender, ChildSettings, CaptureFlow

CONSTANTS MaxKills (* a bound                                               *)

ASSUME KillsAssumption == MaxKills \in Nat

VARIABLES part, kills

childVars == <<senderVars, settingsVars, captureVars, part, kills>>

Parts == {"sender", "settings", "capture"}

MCBadRows == {<<1, 2>>}

ChildInit ==
    /\ SenderInit /\ SettingsInit /\ CaptureInit
    /\ part \in Parts
    /\ part # "capture" => mode = "on"   (* one state is enough for the others *)
    /\ kills = 0

Only(p) ==
    /\ part = p
    /\ p = "sender" \/ UNCHANGED senderVars
    /\ p = "settings" \/ UNCHANGED settingsVars
    /\ p = "capture" \/ UNCHANGED captureVars
    /\ UNCHANGED part

Kill ==
    /\ kills < MaxKills
    /\ kills' = kills + 1
    /\ \/ SenderKilled /\ Only("sender")
       \/ (SettingsWebKilled \/ CameraKilled) /\ Only("settings")
       \/ CaptureRestarted /\ Only("capture")

SenderPart == SenderNext /\ Only("sender") /\ UNCHANGED kills
SettingsPart == SettingsNext /\ Only("settings") /\ UNCHANGED kills
CapturePart == CaptureNext /\ Only("capture") /\ UNCHANGED kills

ChildNext ==
    \/ SenderPart
    \/ SettingsPart
    \/ CapturePart
    \/ Kill

Of(p) == Only(p) /\ UNCHANGED kills

SenderWorks == SenderWork /\ Of("sender")
AutoSends == StartSend(AutoSender) /\ Of("sender")
Connects == ReadRows /\ sending' = "publishing" /\ Of("sender")
RowGets(f, i) == count[f] = i /\ PublishRow(f) /\ Of("sender")
Writes(w) == WriterStep(w) /\ Of("settings")
CameraSteps == CameraStep /\ Of("settings")
Polls == PollConfig /\ Of("settings")
Captures == CaptureThread /\ Of("capture")
Requests == (\E b \in Buffers : RequestArrives(b)) /\ Of("capture")
MainLoops == MainLoop /\ Of("capture")
SaveLoops == SaveLoop /\ Of("capture")
Closes == Closing /\ Of("capture")

(* Threads that can run run; the worker gets the lock again and again; the *)
(* broker accepts one of ever more connections, and one of ever more tries *)
(* to publish a row; and the camera answers one of ever more requests.      *)
SenderFairness ==
    /\ WF_childVars(SenderWorks)
    /\ SF_childVars(AutoSends)
    /\ SF_childVars(Connects)
    /\ \A f \in Files, i \in 0 .. MaxRows - 1 : SF_childVars(RowGets(f, i))

SettingsFairness ==
    /\ \A w \in Writers : WF_childVars(Writes(w))
    /\ WF_childVars(CameraSteps)
    /\ WF_childVars(Polls)

CaptureFairness ==
    /\ WF_childVars(Captures)
    /\ SF_childVars(Requests)
    /\ WF_childVars(MainLoops)
    /\ WF_childVars(SaveLoops)
    /\ WF_childVars(Closes)

ChildSpec ==
    /\ ChildInit /\ [][ChildNext]_childVars
    /\ SenderFairness /\ SettingsFairness /\ CaptureFairness

-----------------------------------------------------------------------------
ChildTypeOK ==
    /\ SenderTypeOK /\ SettingsTypeOK /\ CaptureTypeOK
    /\ part \in Parts /\ kills \in 0 .. MaxKills

(* The rows of send_logs get to the broker: while the automatic sending is *)
(* on, again and again every complete row that can be sent has been sent,  *)
(* past failed publishes, lost saves, kills and other threads' runs        *)
(* (_auto_send_worker).                                                    *)
EveryRowArrives ==
    part = "sender" /\ <>[](target.enabled /\ target.host)
        => []<>(\A f \in Files, i \in 1 .. MaxRows :
                    rows[f] >= i => <<f, i>> \in arrived \cup BadRows)

(* Once nobody changes a setting any more, the camera runs what the files  *)
(* say (_poll_config, the main loop's checks, systemd).                    *)
CameraFollows == part = "settings" => <>[]Follows

(* Images keep coming, but for the buffers that capture_loop has dropped:   *)
(* with recognition on the main loop gets frame after frame while one is   *)
(* left, with recognition off the SaveWorker takes image after image while *)
(* two are left (capture_loop, switch_recognition_off, SaveWorker.run).    *)
Left == Cardinality(pool \ dropped)

ImagesKeepComing ==
    part = "capture" =>
        /\ []<>(mode # "on" \/ closing # "no" \/ inHand # NoBuffer \/ Left < 1)
        /\ []<>(mode # "off" \/ saving # NoBuffer \/ Left < 2)
=============================================================================
