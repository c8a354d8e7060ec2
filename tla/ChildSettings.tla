---------------------------- MODULE ChildSettings ----------------------------
(***************************************************************************)
(* The settings of a child: recognition_config.json and model_config.json, *)
(* written by the Web server's request threads (child/web_server.py) and   *)
(* by the touch panel's thread, and followed by the camera application     *)
(* (child/Picamera.py).                                                    *)
(*                                                                         *)
(* Every writer reads the file, changes one field, truncates the file and  *)
(* writes it again, without a lock and without a rename: a reader may find *)
(* the file torn, and the Web server's loaders then write the defaults     *)
(* over it.  The camera's SaveWorker polls the files into config_cache,    *)
(* its main loop compares the cache with what it runs and either switches  *)
(* recognition off in place or exits, to be started again by systemd.      *)
(***************************************************************************)
EXTENDS Naturals, FiniteSets

CONSTANTS
    Crops, FullCrop,          (* values of "resolution", the crop in per cent *)
    CamSizes, DefaultCamSize, (* values of "camera_resolution"              *)
    NoCamSize,                (* the key is missing                         *)
    Models, DefaultModel,
    WebThreads, TouchThread,
    Torn,                     (* truncated and not yet written              *)
    NoJob,
    MaxRequests               (* a bound                                    *)

Recognition == [enabled : BOOLEAN, crop : Crops, size : CamSizes \cup {NoCamSize}]

(* The touch panel writes the file without the key "model_type", the only  *)
(* one the Web server reads; the camera reads the key "network".           *)
ModelConfig == [network : Models, typed : BOOLEAN]

Writers == WebThreads \cup {TouchThread}

Fields == {"enabled", "crop", "size"}

VARIABLES
    recognitionFile, modelFile,
    status,       (* model_status.json                                      *)
    currentModel, (* the Web server's global current_model                  *)
    job,          (* what each writer is doing                              *)
    requests,     (* requests begun so far                                  *)
    wanted,       (* history: the recognition settings as last asked for    *)
    mixed,        (* history: two jobs overlapped, or one was killed        *)
    camera,       (* the camera application's life                          *)
    running,      (* what it runs                                           *)
    cache         (* config_cache                                           *)

settingsVars == <<recognitionFile, modelFile, status, currentModel, job,
                  requests, wanted, mixed, camera, running, cache>>

fileVars == <<recognitionFile, modelFile, currentModel, job, requests, wanted, mixed>>

Job == [op : Fields \cup {"get", "model", "getModel"}, at : {"carry", "truncate", "write", "status"},
        torn : BOOLEAN, value : Recognition \cup ModelConfig]

ASSUME SettingsAssumption ==
    /\ FullCrop \in Crops /\ DefaultModel \in Models
    /\ DefaultCamSize \in CamSizes /\ NoCamSize \notin CamSizes
    /\ TouchThread \notin WebThreads
    /\ Torn \notin Recognition \cup ModelConfig
    /\ NoJob \notin Job

SettingsTypeOK ==
    /\ recognitionFile \in Recognition \cup {Torn}
    /\ modelFile \in ModelConfig \cup {Torn}
    /\ status \in {"starting", "switching", "ready"}
    /\ currentModel \in Models
    /\ job \in [Writers -> Job \cup {NoJob}]
    /\ wanted \in Recognition /\ mixed \in BOOLEAN
    /\ camera \in {"down", "imported", "up", "serving"}
    /\ running \in [enabled : BOOLEAN, size : CamSizes, model : Models]
    /\ cache \in [enabled : BOOLEAN, size : CamSizes, modelChanged : BOOLEAN]

DefaultRecognition == [enabled |-> TRUE, crop |-> FullCrop, size |-> DefaultCamSize]

SettingsInit ==
    /\ recognitionFile = DefaultRecognition
    /\ modelFile = [network |-> DefaultModel, typed |-> TRUE]
    /\ status = "starting"
    /\ currentModel = DefaultModel
    /\ job = [w \in Writers |-> NoJob]
    /\ requests = 0
    /\ wanted = DefaultRecognition
    /\ mixed = FALSE
    /\ camera = "down"
    /\ running = [enabled |-> TRUE, size |-> DefaultCamSize, model |-> DefaultModel]
    /\ cache = [enabled |-> TRUE, size |-> DefaultCamSize, modelChanged |-> FALSE]

cameraVars == <<camera, running, cache>>

Alive == camera \in {"up", "serving"}

-----------------------------------------------------------------------------
(* Writers.                                                                *)

(* What a request makes of the settings it loaded.  A new camera size also *)
(* takes the crop back to the full view - in the Web server only.          *)
Changed(w, op, x, rec) ==
    CASE op = "enabled" -> [rec EXCEPT !.enabled = x]
      [] op = "crop"    -> [rec EXCEPT !.crop = x]
      [] op = "size"    -> [enabled |-> rec.enabled, size |-> x,
                            crop |-> IF w = TouchThread THEN rec.crop ELSE FullCrop]

NewValues(op) ==
    CASE op = "enabled" -> BOOLEAN [] op = "crop" -> Crops [] op = "size" -> CamSizes

Begins(w) ==
    /\ job[w] = NoJob
    /\ requests < MaxRequests
    /\ requests' = requests + 1
    /\ mixed' = (mixed \/ \E v \in Writers : job[v] # NoJob)

(* A request that changes a field of the recognition settings.  A Web      *)
(* thread that finds the file torn first writes the defaults over it; the  *)
(* touch panel's loader only assumes them, without a camera size.          *)
AskSetting(w, op) ==
    /\ Begins(w)
    /\ w = TouchThread => Alive
    /\ \E x \in NewValues(op) :
         LET found == IF recognitionFile # Torn THEN recognitionFile
                      ELSE IF w = TouchThread
                           THEN [DefaultRecognition EXCEPT !.size = NoCamSize]
                           ELSE DefaultRecognition
         IN  /\ wanted' = Changed(w, op, x, wanted)
             /\ job' = [job EXCEPT ![w] =
                  [op |-> op, value |-> Changed(w, op, x, found),
                   torn |-> recognitionFile = Torn,
                   at |-> IF w = TouchThread THEN "truncate" ELSE "carry"]]
    /\ UNCHANGED <<recognitionFile, modelFile, currentModel, status, cameraVars>>

(* The page's poll of the settings: it writes only what it finds torn, by   *)
(* save_recognition_config like the others.                                *)
ReadSettings(w) ==
    /\ w \in WebThreads
    /\ Begins(w)
    /\ recognitionFile = Torn
    /\ job' = [job EXCEPT ![w] = [op |-> "get", value |-> DefaultRecognition,
                                  torn |-> FALSE, at |-> "carry"]]
    /\ UNCHANGED <<recognitionFile, modelFile, currentModel, wanted, status, cameraVars>>

(* The request goes on to write its settings with this camera size, unless *)
(* it is the size that it changes.                                         *)
Carried(j, size) ==
    [op |-> j.op, torn |-> j.torn, at |-> "truncate",
     value |-> IF j.op = "size" THEN j.value ELSE [j.value EXCEPT !.size = size]]

(* As "CarryCamSize" without looking at the file again.                    *)
CarryNoCamSize(w) ==
    /\ job[w] # NoJob /\ job[w].at = "carry"
    /\ job' = [job EXCEPT ![w] = Carried(@, DefaultCamSize)]
    /\ UNCHANGED <<recognitionFile, modelFile, currentModel, requests, wanted, mixed,
                   status, cameraVars>>

(* save_recognition_config takes the camera size from the file as it is    *)
(* now, unless it is the size that changes.  A thread that began with a    *)
(* torn file has by then saved the defaults in the same way.               *)
CarryCamSize(w) ==
    LET size == IF recognitionFile = Torn \/ recognitionFile.size = NoCamSize
                THEN DefaultCamSize ELSE recognitionFile.size
    IN  /\ job[w] # NoJob /\ job[w].at = "carry"
        /\ recognitionFile' = IF job[w].torn THEN [DefaultRecognition EXCEPT !.size = size]
                              ELSE recognitionFile
        /\ job' = [job EXCEPT ![w] = Carried(@, size)]
        /\ UNCHANGED <<modelFile, currentModel, requests, wanted, mixed, status, cameraVars>>

(* handle_switch_model: nothing to do if it is the model it believes in.   *)
SwitchModel(w, m) ==
    /\ w \in WebThreads
    /\ Begins(w)
    /\ m # currentModel
    /\ currentModel' = m
    /\ job' = [job EXCEPT ![w] = [op |-> "model", value |-> [network |-> m, typed |-> TRUE],
                                  torn |-> FALSE, at |-> "truncate"]]
    /\ UNCHANGED <<recognitionFile, modelFile, wanted, status, cameraVars>>

(* handle_current_model reloads current_model, and writes it over a torn   *)
(* file.                                                                   *)
ReadModel(w) ==
    /\ w \in WebThreads
    /\ Begins(w)
    /\ IF modelFile = Torn
       THEN /\ job' = [job EXCEPT ![w] =
                         [op |-> "getModel", value |-> [network |-> currentModel, typed |-> TRUE],
                          torn |-> TRUE, at |-> "truncate"]]
            /\ UNCHANGED currentModel
       ELSE /\ currentModel' = IF modelFile.typed THEN modelFile.network ELSE DefaultModel
            /\ UNCHANGED job
    /\ UNCHANGED <<recognitionFile, modelFile, wanted, status, cameraVars>>

TouchModel(m) ==
    /\ Begins(TouchThread)
    /\ Alive
    /\ job' = [job EXCEPT ![TouchThread] =
                 [op |-> "model", value |-> [network |-> m, typed |-> FALSE],
                  torn |-> FALSE, at |-> "truncate"]]
    /\ UNCHANGED <<recognitionFile, modelFile, currentModel, wanted, status, cameraVars>>

SaveTo(w, text) ==
    IF job[w].op \in {"model", "getModel"}
    THEN modelFile' = text /\ UNCHANGED recognitionFile
    ELSE recognitionFile' = text /\ UNCHANGED modelFile

Truncate(w) ==
    /\ job[w] # NoJob /\ job[w].at = "truncate"
    /\ SaveTo(w, Torn)
    /\ job' = [job EXCEPT ![w].at = "write"]
    /\ UNCHANGED <<currentModel, requests, wanted, mixed, status, cameraVars>>

(* The Web server's changes but the crop's go on to the status file.       *)
Announces(w) ==
    w # TouchThread /\ job[w].op \in {"enabled", "size", "model", "getModel"}

Write(w) ==
    /\ job[w] # NoJob /\ job[w].at = "write"
    /\ SaveTo(w, job[w].value)
    /\ job' = [job EXCEPT ![w] = IF Announces(w) THEN [@ EXCEPT !.at = "status"] ELSE NoJob]
    /\ UNCHANGED <<currentModel, requests, wanted, mixed, status, cameraVars>>

AnnounceSwitch(w) ==
    /\ job[w] # NoJob /\ job[w].at = "status"
    /\ status' = "switching"
    /\ job' = [job EXCEPT ![w] = NoJob]
    /\ UNCHANGED <<recognitionFile, modelFile, currentModel, requests, wanted, mixed, cameraVars>>

WriterStep(w) ==
    \/ CarryCamSize(w)
    \/ Truncate(w)
    \/ Write(w)
    \/ AnnounceSwitch(w)

Abandon(W) ==
    /\ job' = [w \in Writers |-> IF w \in W THEN NoJob ELSE job[w]]
    /\ mixed' = (mixed \/ \E w \in W : job[w] # NoJob)

(* The Web server ends; the next one's main reads current_model from the   *)
(* file (a torn file: see ReadModel).                                      *)
SettingsWebKilled ==
    /\ Abandon(WebThreads)
    /\ currentModel' = IF modelFile # Torn /\ modelFile.typed THEN modelFile.network ELSE DefaultModel
    /\ modelFile' = IF modelFile = Torn THEN [network |-> DefaultModel, typed |-> TRUE] ELSE modelFile
    /\ status' = IF modelFile = Torn THEN "switching" ELSE status
    /\ UNCHANGED <<recognitionFile, requests, wanted, cameraVars>>

-----------------------------------------------------------------------------
(* The camera application.                                                 *)

RunModel == IF modelFile = Torn THEN DefaultModel ELSE modelFile.network

CameraImport ==
    /\ camera = "down"
    /\ camera' = "imported"
    /\ status' = "starting"
    /\ running' = [running EXCEPT !.model = RunModel]
    /\ UNCHANGED <<cache, fileVars>>

(* With recognition off there is no first frame to wait for.               *)
CameraStart ==
    /\ camera = "imported"
    /\ LET rec == IF recognitionFile = Torn THEN DefaultRecognition ELSE recognitionFile
           size == IF rec.size = NoCamSize THEN DefaultCamSize ELSE rec.size
       IN  /\ running' = [running EXCEPT !.enabled = rec.enabled, !.size = size]
           /\ cache' = [enabled |-> rec.enabled, size |-> size, modelChanged |-> FALSE]
           /\ camera' = IF rec.enabled THEN "up" ELSE "serving"
           /\ status' = IF rec.enabled THEN status ELSE "ready"
    /\ UNCHANGED fileVars

FirstFrame ==
    /\ camera = "up" /\ running.enabled
    /\ camera' = "serving"
    /\ status' = "ready"
    /\ UNCHANGED <<running, cache, fileVars>>

(* _poll_config: a torn file reads as recognition on; the model is looked  *)
(* at only while recognition is on.                                        *)
PollConfig ==
    /\ Alive
    /\ cache' = [enabled |-> recognitionFile = Torn \/ recognitionFile.enabled,
                 size |-> IF recognitionFile = Torn \/ recognitionFile.size = NoCamSize
                          THEN running.size ELSE recognitionFile.size,
                 modelChanged |-> IF running.enabled THEN RunModel # running.model
                                  ELSE cache.modelChanged]
    /\ UNCHANGED <<camera, running, status, fileVars>>

(* switch_recognition_off, and the rest of the main loop's check, which     *)
(* restarts for another camera size.                                       *)
SwitchRecognitionOff ==
    /\ Alive
    /\ running.enabled /\ ~cache.enabled
    /\ running' = [running EXCEPT !.enabled = FALSE]
    /\ status' = "ready"
    /\ IF cache.size # running.size
       THEN camera' = "down" /\ Abandon({TouchThread})
       ELSE UNCHANGED <<camera, job, mixed>>
    /\ UNCHANGED <<cache, recognitionFile, modelFile, currentModel, requests, wanted>>

(* As "CameraRestarts", blind to the camera's size.                        *)
CameraRestartsForSwitch ==
    /\ Alive
    /\ ~(running.enabled /\ ~cache.enabled)
    /\ cache.enabled # running.enabled \/ (running.enabled /\ cache.modelChanged)
    /\ camera' = "down"
    /\ Abandon({TouchThread})
    /\ UNCHANGED <<recognitionFile, modelFile, currentModel, requests, wanted, status, running, cache>>

(* stop_capture_then_restart: exit code 1, Restart=on-failure.             *)
CameraRestarts ==
    /\ Alive
    /\ ~(running.enabled /\ ~cache.enabled)
    /\ \/ cache.enabled # running.enabled
       \/ cache.size # running.size
       \/ running.enabled /\ cache.modelChanged
    /\ camera' = "down"
    /\ Abandon({TouchThread})
    /\ UNCHANGED <<recognitionFile, modelFile, currentModel, requests, wanted, status, running, cache>>

CameraKilled ==
    /\ camera' = "down"
    /\ Abandon({TouchThread})
    /\ UNCHANGED <<recognitionFile, modelFile, currentModel, requests, wanted, status, running, cache>>

CameraStep ==
    \/ CameraImport
    \/ CameraStart
    \/ FirstFrame
    \/ SwitchRecognitionOff
    \/ CameraRestarts

SettingsNext ==
    \/ \E w \in Writers :
          \/ \E op \in Fields : AskSetting(w, op)
          \/ ReadSettings(w)
          \/ \E m \in Models : SwitchModel(w, m)
          \/ ReadModel(w)
          \/ WriterStep(w)
    \/ \E m \in Models : TouchModel(m)
    \/ CameraStep
    \/ PollConfig

SettingsSpec ==
    SettingsInit /\ [][SettingsNext \/ SettingsWebKilled \/ CameraKilled]_settingsVars

-----------------------------------------------------------------------------
(* Two writers that change different fields keep each other's: as long as  *)
(* no two requests overlap and none is cut short, the file holds for every *)
(* field what was last asked for (save_recognition_config,                 *)
(* _handle_touch_btn).                                                     *)
SettingsAreAsAsked ==
    (\A w \in Writers : job[w] = NoJob) /\ ~mixed => recognitionFile = wanted

(* The camera comes to run what the files say, and its status leaves        *)
(* "starting", however requests, polls of half-written files, switches in  *)
(* place and restarts interleave.  The status may stay "switching": the    *)
(* Web server announces a switch also where the camera finds nothing to    *)
(* switch (save_recognition_config, handle_switch_model).                  *)
Follows ==
    /\ Alive
    /\ status # "starting"
    /\ recognitionFile # Torn =>
         /\ running.enabled = recognitionFile.enabled
         /\ recognitionFile.size \in CamSizes => running.size = recognitionFile.size
    /\ running.enabled => running.model = RunModel
=============================================================================
