------------------------------ MODULE ChildProofs ------------------------------
(***************************************************************************)
(* The programs of a child beside the CSV sender, proved for any number of *)
(* buffers, Web threads, requests and kills: what the capture's threads owe *)
(* the camera, what the settings files say, and that the composition keeps *)
(* what is proved of its parts.                                            *)
(***************************************************************************)
EXTENDS MCChild, WebSenderProofs, FiniteSetTheorems

-----------------------------------------------------------------------------
(* The capture: only capture_loop's error path loses a buffer.             *)

(* A buffer is in one place.                                               *)
OnePlace ==
    /\ captured # NoBuffer => captured \notin {frameQueue, inHand, saving}
    /\ frameQueue # NoBuffer => frameQueue \notin {inHand, saving}
    /\ inHand # NoBuffer => inHand # saving
    /\ dropped \cap {captured, frameQueue, inHand, saving} = {}

(* The capture thread holds one exactly between the camera and the put.    *)
HoldsOne == captured # NoBuffer <=> capturing = "holding"

(* Once the capture is being stopped the main loop has none in hand; once  *)
(* the queue has been drained, a buffer in it is the thread's last.        *)
LastPut ==
    /\ mode # "on" \/ closing # "no" => inHand = NoBuffer
    /\ mode = "off" \/ closing # "no" => stopEvent \/ capturing = "over"
    /\ mode = "off" \/ closing \in {"joining", "parting"}
          => frameQueue = NoBuffer \/ capturing \in {"top", "over"}

CaptureInv ==
    /\ CaptureTypeOK
    /\ NoBufferLost
    /\ OnePlace
    /\ HoldsOne
    /\ LastPut

-----------------------------------------------------------------------------
LEMMA CaptureInvInit == CaptureInit => CaptureInv
BY CaptureAssumption
DEF CaptureInit, PoolsFor, ThreadFor, ModeFor, CaptureInv, CaptureTypeOK, Slot, NoBufferLost,
    OnePlace, HoldsOne, LastPut

LEMMA CaptureTypeStep ==
    CaptureTypeOK /\ [CaptureNext \/ CaptureRestarted]_captureVars => CaptureTypeOK'
<1> SUFFICES ASSUME CaptureTypeOK, [CaptureNext \/ CaptureRestarted]_captureVars
             PROVE CaptureTypeOK'
  OBVIOUS
<1> USE DEF CaptureTypeOK, Slot, mainVars
<1>1. CASE CaptureThread \/ CaptureFails
  BY <1>1 DEF CaptureThread, CaptureTop, RequestArrives, CaptureFails, PutRequest, PutTimesOut
<1>2. CASE MainLoop
  BY <1>2 DEF MainLoop, GetRequest, ReleaseRequest
<1>3. CASE SaveLoop
  BY <1>3 DEF SaveLoop, CaptureArray, ArrayTaken
<1>4. CASE StopCapture \/ Closing
  BY <1>4 DEF StopCapture, Closing, Drain, Join, SwitchedOff
<1>5. CASE StopCamera \/ CaptureRestarted
  BY <1>5 DEF StopCamera, CaptureRestarted, PoolsFor, ThreadFor, ModeFor
<1>6. CASE UNCHANGED captureVars
  BY <1>6 DEF captureVars
<1> QED
  BY <1>1, <1>2, <1>3, <1>4, <1>5, <1>6 DEF CaptureNext

(* The thread's steps: a request arrives, is put, given up or dropped.     *)
LEMMA ThreadStep ==
    ASSUME CaptureInv, CaptureThread \/ CaptureFails
    PROVE (NoBufferLost /\ OnePlace /\ HoldsOne /\ LastPut)'
<1> USE DEF CaptureInv, CaptureTypeOK, Slot, mainVars,
           NoBufferLost, OnePlace, HoldsOne, LastPut
<1>1. CASE CaptureTop
  BY <1>1 DEF CaptureTop
<1>2. ASSUME NEW b \in Buffers, RequestArrives(b)
      PROVE (NoBufferLost /\ OnePlace /\ HoldsOne /\ LastPut)'
  <2>1. /\ b # NoBuffer /\ b \notin {frameQueue, inHand, saving} /\ captured = NoBuffer
        /\ b \notin dropped
    BY <1>2, CaptureAssumption DEF RequestArrives
  <2> QED
    BY <1>2, <2>1 DEF RequestArrives
<1>3. CASE PutRequest
  BY <1>3 DEF PutRequest
<1>4. CASE PutTimesOut
  <2>1. /\ captured # NoBuffer /\ captured \notin dropped /\ NoBuffer \notin dropped
        /\ captured \notin {frameQueue, inHand, saving}
    BY <1>4, CaptureAssumption DEF PutTimesOut
  <2>2. lent' = lent \ {captured} /\ captured' = NoBuffer
    BY <1>4 DEF PutTimesOut
  <2>3. UNCHANGED <<frameQueue, inHand, saving, dropped>>
    BY <1>4 DEF PutTimesOut
  <2>4. NoBufferLost' /\ OnePlace'
    BY <2>1, <2>2, <2>3
  <2> QED
    BY <1>4, <2>4 DEF PutTimesOut
<1>5. CASE CaptureFails
  <2>1. NoBuffer \notin dropped
    BY CaptureAssumption
  <2> QED
    BY <1>5, <2>1 DEF CaptureFails
<1> QED
  BY <1>1, <1>2, <1>3, <1>4, <1>5 DEF CaptureThread

(* The steps of the main loop and of the SaveWorker.                       *)
LEMMA LoopsStep ==
    ASSUME CaptureInv, MainLoop \/ SaveLoop
    PROVE (NoBufferLost /\ OnePlace /\ HoldsOne /\ LastPut)'
<1> USE DEF CaptureInv, CaptureTypeOK, Slot, mainVars,
           NoBufferLost, OnePlace, HoldsOne, LastPut
<1>1. CASE GetRequest
  BY <1>1 DEF GetRequest
<1>2. CASE ReleaseRequest
  <2>1. /\ inHand # NoBuffer /\ inHand \notin dropped /\ NoBuffer \notin dropped
        /\ inHand \notin {captured, frameQueue, saving}
    BY <1>2, CaptureAssumption DEF ReleaseRequest
  <2>2. lent' = lent \ {inHand} /\ inHand' = NoBuffer
    BY <1>2 DEF ReleaseRequest
  <2>3. UNCHANGED <<captured, frameQueue, saving, dropped>>
    BY <1>2 DEF ReleaseRequest
  <2>4. NoBufferLost' /\ OnePlace'
    BY <2>1, <2>2, <2>3
  <2> QED
    BY <1>2, <2>4 DEF ReleaseRequest
<1>3. ASSUME NEW b \in Buffers, CaptureArray(b)
      PROVE (NoBufferLost /\ OnePlace /\ HoldsOne /\ LastPut)'
  <2>1. /\ b # NoBuffer /\ b \notin {captured, frameQueue, inHand} /\ saving = NoBuffer
        /\ b \notin dropped
    BY <1>3, CaptureAssumption DEF CaptureArray
  <2> QED
    BY <1>3, <2>1 DEF CaptureArray
<1>4. CASE ArrayTaken
  <2>1. /\ saving # NoBuffer /\ saving \notin dropped /\ NoBuffer \notin dropped
        /\ saving \notin {captured, frameQueue, inHand}
    BY <1>4, CaptureAssumption DEF ArrayTaken
  <2>2. lent' = lent \ {saving} /\ saving' = NoBuffer
    BY <1>4 DEF ArrayTaken
  <2>3. UNCHANGED <<captured, frameQueue, inHand, dropped>>
    BY <1>4 DEF ArrayTaken
  <2>4. NoBufferLost' /\ OnePlace'
    BY <2>1, <2>2, <2>3
  <2> QED
    BY <1>4, <2>4 DEF ArrayTaken
<1> QED
  BY <1>1, <1>2, <1>3, <1>4 DEF MainLoop, SaveLoop

(* The steps that stop the capture.                                        *)
LEMMA ClosingStep ==
    ASSUME CaptureInv, StopCapture \/ Closing \/ StopCamera
    PROVE (NoBufferLost /\ OnePlace /\ HoldsOne /\ LastPut)'
<1> USE DEF CaptureInv, CaptureTypeOK, Slot,
           NoBufferLost, OnePlace, HoldsOne, LastPut
<1>1. CASE StopCapture
  BY <1>1 DEF StopCapture
<1>2. CASE Drain
  BY <1>2 DEF Drain
<1>3. CASE Join \/ SwitchedOff
  BY <1>3 DEF Join, SwitchedOff
<1>4. CASE StopCamera
  BY <1>4 DEF StopCamera
<1> QED
  BY <1>1, <1>2, <1>3, <1>4 DEF Closing

LEMMA CaptureInvariant == CaptureSpec => []CaptureInv
<1>1. ASSUME CaptureInv, [CaptureNext \/ CaptureRestarted]_captureVars PROVE CaptureInv'
  <2>1. CaptureTypeOK'
    BY <1>1, CaptureTypeStep DEF CaptureInv
  <2>2. CASE CaptureNext
    BY <1>1, <2>1, <2>2, ThreadStep, LoopsStep, ClosingStep DEF CaptureNext, CaptureInv
  <2>3. CASE CaptureRestarted
    BY <2>1, <2>3
    DEF CaptureRestarted, PoolsFor, ThreadFor, ModeFor, CaptureInv, NoBufferLost, OnePlace,
        HoldsOne, LastPut
  <2>4. CASE UNCHANGED captureVars
    BY <1>1, <2>1, <2>4
    DEF captureVars, CaptureInv, NoBufferLost, OnePlace, HoldsOne, LastPut
  <2> QED
    BY <1>1, <2>2, <2>3, <2>4
<1> QED
  BY CaptureInvInit, <1>1, PTL DEF CaptureSpec

(* What the camera lent is with somebody who will give it back, or was     *)
(* dropped by capture_loop's error path, whatever the order in which the   *)
(* threads put, drain and time out.                                        *)
THEOREM BuffersAreKept == CaptureSpec => []NoBufferLost
<1>1. CaptureInv => NoBufferLost
  BY DEF CaptureInv
<1> QED
  BY CaptureInvariant, <1>1, PTL

(* A put that comes after the drain and a thread that outlives the join    *)
(* keep one buffer at most between them (switch_recognition_off).          *)
LEMMA OneIsLeft == CaptureInv => OffLeavesBuffers
<1> SUFFICES ASSUME CaptureInv, mode = "off"
             PROVE inHand = NoBuffer /\ Cardinality(lent \ (dropped \cup {saving})) <= 1
  BY DEF OffLeavesBuffers
<1>1. inHand = NoBuffer
  BY DEF CaptureInv, LastPut
<1>2. captured = NoBuffer \/ frameQueue = NoBuffer
  BY DEF CaptureInv, LastPut, HoldsOne
<1>3. PICK b : lent \ (dropped \cup {saving}) \subseteq {b}
  BY <1>1, <1>2 DEF CaptureInv, NoBufferLost
<1>4. IsFiniteSet({b}) /\ Cardinality({b}) = 1
  BY FS_Singleton
<1>5. Cardinality(lent \ (dropped \cup {saving})) <= Cardinality({b})
  BY <1>3, <1>4, FS_Subset
<1> QED
  BY <1>1, <1>4, <1>5

(* Switching recognition off leaves the SaveWorker all buffers but one and  *)
(* those dropped before.                                                   *)
THEOREM OffLeavesOne == CaptureSpec => []OffLeavesBuffers
<1> QED
  BY CaptureInvariant, OneIsLeft, PTL

-----------------------------------------------------------------------------
(* The settings.                                                           *)

(* What a request is about to write is of its file's kind, and only a      *)
(* writer of the recognition settings looks at the camera's size again.    *)
OfModel == {"model", "getModel"}

JobsAreOfAKind ==
    \A w \in Writers : job[w] # NoJob =>
        /\ job[w].value \in IF job[w].op \in OfModel THEN ModelConfig ELSE Recognition
        /\ job[w].at = "carry" => job[w].op \notin OfModel

(* Until two requests overlap or one is cut short there is one at a time.  *)
OneRequest ==
    ~mixed => \A v, w \in Writers : job[v] # NoJob /\ job[w] # NoJob => v = w

(* A request that has still to write the recognition settings, and the     *)
(* file with it: as long as requests follow each other it is about to      *)
(* write what was last asked for.                                          *)
Saves(w) ==
    job[w] # NoJob /\ job[w].op \in Fields /\ job[w].at # "status"

SavesWhatIsWanted ==
    ~mixed => \A w \in Writers : job[w] # NoJob /\ job[w].op \notin OfModel =>
        /\ job[w].op \in Fields
        /\ Saves(w) => job[w].value = wanted
        /\ job[w].at = "carry" =>
              /\ ~job[w].torn /\ recognitionFile # Torn
              /\ job[w].op # "size" => recognitionFile.size = wanted.size

(* Nobody has still to write the file, and it says what is wanted.         *)
FileIsSettled ==
    ~mixed => recognitionFile = wanted \/ \E w \in Writers : Saves(w)

SettingsInv ==
    /\ SettingsTypeOK
    /\ wanted.size \in CamSizes
    /\ JobsAreOfAKind
    /\ OneRequest
    /\ SavesWhatIsWanted
    /\ FileIsSettled

-----------------------------------------------------------------------------
LEMMA SettingsInvInit == SettingsInit => SettingsInv
<1> SUFFICES ASSUME SettingsInit PROVE SettingsInv
  OBVIOUS
<1>1. DefaultRecognition \in Recognition /\ DefaultRecognition.size \in CamSizes
  BY SettingsAssumption DEF DefaultRecognition, Recognition
<1>2. [network |-> DefaultModel, typed |-> TRUE] \in ModelConfig
  BY SettingsAssumption DEF ModelConfig
<1>3. SettingsTypeOK
  BY <1>1, <1>2, SettingsAssumption DEF SettingsInit, SettingsTypeOK
<1> QED
  BY <1>1, <1>3 DEF SettingsInit, SettingsInv, JobsAreOfAKind, OneRequest,
                    SavesWhatIsWanted, FileIsSettled

(* What a writer's job becomes, the other writers' stay.                   *)
LEMMA JobBecomes ==
    ASSUME SettingsTypeOK, NEW w \in Writers, NEW j, job' = [job EXCEPT ![w] = j]
    PROVE /\ j \in Job \cup {NoJob} => job' \in [Writers -> Job \cup {NoJob}]
          /\ job'[w] = j
          /\ \A v \in Writers \ {w} : job'[v] = job[v]
BY DEF SettingsTypeOK

LEMMA AtBecomes ==
    ASSUME NEW j \in Job, NEW at \in {"carry", "truncate", "write", "status"}
    PROVE [j EXCEPT !.at = at]
            = [op |-> j.op, at |-> at, torn |-> j.torn, value |-> j.value]
BY DEF Job

(* What a change makes of settings is settings, and changes one field.     *)
LEMMA ChangedType ==
    ASSUME NEW w \in Writers, NEW op \in Fields, NEW x \in NewValues(op),
           NEW rec \in Recognition
    PROVE /\ Changed(w, op, x, rec) \in Recognition
          /\ rec.size \in CamSizes => Changed(w, op, x, rec).size \in CamSizes
          /\ op # "size" => Changed(w, op, x, rec).size = rec.size
<1>1. rec.enabled \in BOOLEAN /\ rec.crop \in Crops /\ rec.size \in CamSizes \cup {NoCamSize}
  BY DEF Recognition
<1>2. CASE op = "enabled"
  <2>1. x \in BOOLEAN
    BY <1>2 DEF NewValues
  <2>2. Changed(w, op, x, rec) = [rec EXCEPT !.enabled = x]
    BY <1>2 DEF Changed
  <2> QED
    BY <1>1, <2>1, <2>2 DEF Recognition
<1>3. CASE op = "crop"
  <2>1. x \in Crops
    BY <1>3 DEF NewValues
  <2>2. Changed(w, op, x, rec) = [rec EXCEPT !.crop = x]
    BY <1>3 DEF Changed
  <2> QED
    BY <1>1, <2>1, <2>2 DEF Recognition
<1>4. CASE op = "size"
  <2>1. x \in CamSizes
    BY <1>4 DEF NewValues
  <2>2. Changed(w, op, x, rec) =
          [enabled |-> rec.enabled, size |-> x,
           crop |-> IF w = TouchThread THEN rec.crop ELSE FullCrop]
    BY <1>4 DEF Changed
  <2> QED
    BY <1>1, <1>4, <2>1, <2>2, SettingsAssumption DEF Recognition
<1> QED
  BY <1>2, <1>3, <1>4 DEF Fields

-----------------------------------------------------------------------------
(* Requests begin.                                                         *)

(* A request begins alone or ends the time in which requests follow each   *)
(* other.                                                                  *)
LEMMA BeginsAlone ==
    ASSUME SettingsInv, NEW w \in Writers, Begins(w)
    PROVE /\ job[w] = NoJob /\ mixed' \in BOOLEAN
          /\ ~mixed' => /\ ~mixed /\ \A v \in Writers : job[v] = NoJob
                        /\ recognitionFile = wanted /\ recognitionFile # Torn
<1>1. /\ mixed \in BOOLEAN /\ job[w] = NoJob
      /\ mixed' = (mixed \/ \E v \in Writers : job[v] # NoJob)
  BY DEF Begins, SettingsInv, SettingsTypeOK
<1>2. wanted # Torn
  BY SettingsAssumption DEF SettingsInv, SettingsTypeOK
<1> QED
  BY <1>1, <1>2 DEF SettingsInv, FileIsSettled, Saves

LEMMA AskStep ==
    ASSUME SettingsInv, NEW w \in Writers, NEW op \in Fields, AskSetting(w, op)
    PROVE SettingsInv'
<1>1. Begins(w) /\ UNCHANGED <<recognitionFile, modelFile, currentModel, status, cameraVars>>
  BY DEF AskSetting
<1> DEFINE found == IF recognitionFile # Torn THEN recognitionFile
                    ELSE IF w = TouchThread
                         THEN [DefaultRecognition EXCEPT !.size = NoCamSize]
                         ELSE DefaultRecognition
<1>2. PICK x \in NewValues(op) :
        /\ wanted' = Changed(w, op, x, wanted)
        /\ job' = [job EXCEPT ![w] =
             [op |-> op, value |-> Changed(w, op, x, found),
              torn |-> recognitionFile = Torn,
              at |-> IF w = TouchThread THEN "truncate" ELSE "carry"]]
  BY DEF AskSetting
<1> DEFINE j == [op |-> op, value |-> Changed(w, op, x, found),
                 torn |-> recognitionFile = Torn,
                 at |-> IF w = TouchThread THEN "truncate" ELSE "carry"]
<1>3. found \in Recognition
  BY SettingsAssumption DEF SettingsInv, SettingsTypeOK, DefaultRecognition, Recognition
<1>4. Changed(w, op, x, found) \in Recognition
  BY <1>3, ChangedType
<1>5. /\ wanted' \in Recognition /\ wanted'.size \in CamSizes
      /\ op # "size" => wanted'.size = wanted.size
  BY <1>2, ChangedType DEF SettingsInv, SettingsTypeOK
<1>6. j \in Job
  BY <1>4 DEF Job, Fields
<1>7. /\ job' \in [Writers -> Job \cup {NoJob}] /\ job'[w] = j
      /\ \A v \in Writers \ {w} : job'[v] = job[v]
  BY <1>2, <1>6, JobBecomes DEF SettingsInv
<1>8. /\ job[w] = NoJob /\ mixed' \in BOOLEAN
      /\ ~mixed' => /\ ~mixed /\ \A v \in Writers : job[v] = NoJob
                    /\ recognitionFile = wanted /\ recognitionFile # Torn
  BY <1>1, BeginsAlone
<1>9. ~mixed' => found = wanted
  BY <1>8
<1>10. /\ j.op = op /\ j.value = Changed(w, op, x, found)
       /\ j.torn = (recognitionFile = Torn) /\ j.at \in {"truncate", "carry"}
       /\ j # NoJob
  BY <1>6, SettingsAssumption
<1>11. ~mixed' => j.value = wanted'
  BY <1>2, <1>9, <1>10
<1> HIDE DEF j, found
<1>12. SettingsTypeOK'
  BY <1>1, <1>5, <1>7, <1>8 DEF SettingsInv, SettingsTypeOK, cameraVars
<1>13. op \notin OfModel
  BY DEF Fields, OfModel
<1>14. JobsAreOfAKind'
  <2> SUFFICES ASSUME NEW v \in Writers, job'[v] # NoJob
               PROVE /\ job'[v].value \in
                          IF job'[v].op \in OfModel THEN ModelConfig ELSE Recognition
                     /\ job'[v].at = "carry" => job'[v].op \notin OfModel
    BY DEF JobsAreOfAKind
  <2>1. CASE v = w
    BY <1>4, <1>7, <1>10, <1>13, <2>1
  <2>2. CASE v # w
    BY <1>7, <2>2 DEF SettingsInv, JobsAreOfAKind
  <2> QED
    BY <2>1, <2>2
<1>15. OneRequest' /\ SavesWhatIsWanted' /\ FileIsSettled'
  <2> SUFFICES ASSUME ~mixed' PROVE OneRequest' /\ SavesWhatIsWanted' /\ FileIsSettled'
    BY DEF OneRequest, SavesWhatIsWanted, FileIsSettled
  <2>1. \A v \in Writers : job'[v] # NoJob => v = w
    BY <1>7, <1>8
  <2>2. Saves(w)'
    BY <1>7, <1>10 DEF Saves
  <2>3. SavesWhatIsWanted'
    BY <1>1, <1>5, <1>7, <1>8, <1>10, <1>11, <2>1 DEF SavesWhatIsWanted
  <2> QED
    BY <2>1, <2>2, <2>3 DEF OneRequest, FileIsSettled
<1> QED
  BY <1>5, <1>12, <1>14, <1>15 DEF SettingsInv

(* A request that does not change the recognition settings begins.         *)
LEMMA OtherBegins ==
    ASSUME SettingsInv, NEW w \in Writers, Begins(w), NEW j \in Job,
           job' = [job EXCEPT ![w] = j], j.at = "carry" => j.op = "get",
           \/ j.op \in OfModel /\ j.value \in ModelConfig
           \/ j.op = "get" /\ j.value \in Recognition /\ recognitionFile = Torn,
           currentModel' \in Models,
           UNCHANGED <<recognitionFile, modelFile, wanted, status, cameraVars>>
    PROVE SettingsInv'
<1>1. /\ job[w] = NoJob /\ mixed' \in BOOLEAN
      /\ ~mixed' => /\ ~mixed /\ \A v \in Writers : job[v] = NoJob
                    /\ recognitionFile = wanted /\ recognitionFile # Torn
  BY BeginsAlone
<1>2. /\ job' \in [Writers -> Job \cup {NoJob}] /\ job'[w] = j
      /\ \A v \in Writers \ {w} : job'[v] = job[v]
  BY JobBecomes DEF SettingsInv
<1>3. SettingsTypeOK' /\ wanted'.size \in CamSizes
  BY <1>1, <1>2 DEF SettingsInv, SettingsTypeOK, cameraVars
<1>4. JobsAreOfAKind'
  <2> SUFFICES ASSUME NEW v \in Writers, job'[v] # NoJob
               PROVE /\ job'[v].value \in
                          IF job'[v].op \in OfModel THEN ModelConfig ELSE Recognition
                     /\ job'[v].at = "carry" => job'[v].op \notin OfModel
    BY DEF JobsAreOfAKind
  <2>1. CASE v = w
    BY <1>2, <2>1 DEF OfModel
  <2>2. CASE v # w
    BY <1>2, <2>2 DEF SettingsInv, JobsAreOfAKind
  <2> QED
    BY <2>1, <2>2
<1>5. OneRequest' /\ SavesWhatIsWanted' /\ FileIsSettled'
  <2> SUFFICES ASSUME ~mixed' PROVE OneRequest' /\ SavesWhatIsWanted' /\ FileIsSettled'
    BY DEF OneRequest, SavesWhatIsWanted, FileIsSettled
  <2>1. \A v \in Writers : job'[v] # NoJob => v = w
    BY <1>1, <1>2
  <2>2. j.op \in OfModel /\ recognitionFile' = wanted'
    BY <1>1
  <2> QED
    BY <1>2, <2>1, <2>2 DEF OneRequest, SavesWhatIsWanted, FileIsSettled
<1> QED
  BY <1>3, <1>4, <1>5 DEF SettingsInv
LEMMA BeginStep ==
    ASSUME SettingsInv, NEW w \in Writers,
           \/ ReadSettings(w)
           \/ \E m \in Models : SwitchModel(w, m)
           \/ ReadModel(w)
           \/ \E m \in Models : TouchModel(m)
    PROVE SettingsInv'
<1>0. currentModel \in Models /\ DefaultModel \in Models /\ TouchThread \in Writers
  BY SettingsAssumption DEF SettingsInv, SettingsTypeOK, Writers
<1>1. CASE ReadSettings(w)
  <2> DEFINE j == [op |-> "get", value |-> DefaultRecognition, torn |-> FALSE, at |-> "carry"]
  <2>1. DefaultRecognition \in Recognition
    BY SettingsAssumption DEF DefaultRecognition, Recognition
  <2>2. j \in Job /\ j.op = "get" /\ j.value \in Recognition
    BY <2>1 DEF Job
  <2>3. /\ Begins(w) /\ recognitionFile = Torn /\ job' = [job EXCEPT ![w] = j]
        /\ UNCHANGED <<recognitionFile, modelFile, currentModel, wanted, status, cameraVars>>
    BY <1>1 DEF ReadSettings
  <2> HIDE DEF j
  <2> QED
    BY <1>0, <2>2, <2>3, OtherBegins
<1>2. ASSUME NEW m \in Models, SwitchModel(w, m) PROVE SettingsInv'
  <2> DEFINE j == [op |-> "model", value |-> [network |-> m, typed |-> TRUE],
                   torn |-> FALSE, at |-> "truncate"]
  <2>1. [network |-> m, typed |-> TRUE] \in ModelConfig
    BY DEF ModelConfig
  <2>2. j \in Job /\ j.op \in OfModel /\ j.at = "truncate" /\ j.value \in ModelConfig
    BY <2>1 DEF Job, OfModel
  <2>3. /\ Begins(w) /\ currentModel' = m /\ job' = [job EXCEPT ![w] = j]
        /\ UNCHANGED <<recognitionFile, modelFile, wanted, status, cameraVars>>
    BY <1>2 DEF SwitchModel
  <2> HIDE DEF j
  <2> QED
    BY <2>2, <2>3, OtherBegins
<1>3. CASE ReadModel(w) /\ modelFile = Torn
  <2> DEFINE j == [op |-> "getModel", value |-> [network |-> currentModel, typed |-> TRUE],
                   torn |-> TRUE, at |-> "truncate"]
  <2>1. [network |-> currentModel, typed |-> TRUE] \in ModelConfig
    BY <1>0 DEF ModelConfig
  <2>2. j \in Job /\ j.op \in OfModel /\ j.at = "truncate" /\ j.value \in ModelConfig
    BY <2>1 DEF Job, OfModel
  <2>3. /\ Begins(w) /\ currentModel' = currentModel /\ job' = [job EXCEPT ![w] = j]
        /\ UNCHANGED <<recognitionFile, modelFile, wanted, status, cameraVars>>
    BY <1>3 DEF ReadModel
  <2> HIDE DEF j
  <2> QED
    BY <1>0, <2>2, <2>3, OtherBegins
<1>4. CASE ReadModel(w) /\ modelFile # Torn
  <2>1. /\ Begins(w) /\ job' = job
        /\ currentModel' = IF modelFile.typed THEN modelFile.network ELSE DefaultModel
        /\ UNCHANGED <<recognitionFile, modelFile, wanted, status, cameraVars>>
    BY <1>4 DEF ReadModel
  <2>2. currentModel' \in Models
    BY <1>0, <1>4, <2>1 DEF SettingsInv, SettingsTypeOK, ModelConfig
  <2>3. mixed' \in BOOLEAN /\ (~mixed' => ~mixed)
    BY <2>1, BeginsAlone
  <2> QED
    BY <2>1, <2>2, <2>3
       DEF SettingsInv, SettingsTypeOK, cameraVars, JobsAreOfAKind, OneRequest,
           SavesWhatIsWanted, FileIsSettled, Saves
<1>5. ASSUME NEW m \in Models, TouchModel(m) PROVE SettingsInv'
  <2> DEFINE j == [op |-> "model", value |-> [network |-> m, typed |-> FALSE],
                   torn |-> FALSE, at |-> "truncate"]
  <2>1. [network |-> m, typed |-> FALSE] \in ModelConfig
    BY DEF ModelConfig
  <2>2. j \in Job /\ j.op \in OfModel /\ j.at = "truncate" /\ j.value \in ModelConfig
    BY <2>1 DEF Job, OfModel
  <2>3. /\ Begins(TouchThread) /\ currentModel' = currentModel
        /\ job' = [job EXCEPT ![TouchThread] = j]
        /\ UNCHANGED <<recognitionFile, modelFile, wanted, status, cameraVars>>
    BY <1>5 DEF TouchModel
  <2> HIDE DEF j
  <2> QED
    BY <1>0, <2>2, <2>3, OtherBegins
<1> QED
  BY <1>1, <1>2, <1>3, <1>4, <1>5

-----------------------------------------------------------------------------
(* Requests go on.                                                         *)

(* A request alone until two meet.                                         *)
LEMMA AloneAt ==
    ASSUME SettingsInv, NEW w \in Writers, job[w] # NoJob, ~mixed
    PROVE \A v \in Writers \ {w} : job[v] = NoJob
BY DEF SettingsInv, OneRequest

(* The parts of the invariant that a writer's next step keeps, from what   *)
(* its job and the files become.                                           *)
LEMMA WriterGoesOn ==
    ASSUME SettingsInv, NEW w \in Writers, job[w] # NoJob, NEW j \in Job \cup {NoJob},
           job' = [job EXCEPT ![w] = j],
           recognitionFile' \in Recognition \cup {Torn},
           modelFile' \in ModelConfig \cup {Torn},
           status' \in {"starting", "switching", "ready"},
           UNCHANGED <<currentModel, wanted, mixed, cameraVars>>,
           j # NoJob => /\ j.op = job[w].op /\ j.at # "carry"
                        /\ j.value \in IF j.op \in OfModel THEN ModelConfig ELSE Recognition,
           ~mixed =>
              /\ j # NoJob /\ j.at # "status" /\ j.op \in Fields => j.value = wanted
              /\ \/ recognitionFile' = wanted
                 \/ j # NoJob /\ j.at # "status" /\ j.op \in Fields
    PROVE SettingsInv'
<1>1. /\ job' \in [Writers -> Job \cup {NoJob}] /\ job'[w] = j
      /\ \A v \in Writers \ {w} : job'[v] = job[v]
  BY JobBecomes DEF SettingsInv
<1>2. SettingsTypeOK' /\ wanted'.size \in CamSizes
  BY <1>1 DEF SettingsInv, SettingsTypeOK, cameraVars
<1>3. JobsAreOfAKind'
  BY <1>1 DEF SettingsInv, JobsAreOfAKind
<1>4. OneRequest' /\ SavesWhatIsWanted' /\ FileIsSettled'
  <2> SUFFICES ASSUME ~mixed PROVE OneRequest' /\ SavesWhatIsWanted' /\ FileIsSettled'
    BY DEF OneRequest, SavesWhatIsWanted, FileIsSettled
  <2>1. \A v \in Writers : job'[v] # NoJob => v = w
    BY <1>1, AloneAt
  <2>2. j # NoJob /\ j.op \notin OfModel => j.op \in Fields
    BY DEF SettingsInv, SavesWhatIsWanted
  <2>3. SavesWhatIsWanted'
    BY <1>1, <2>1, <2>2 DEF SavesWhatIsWanted, Saves
  <2>4. FileIsSettled'
    BY <1>1 DEF FileIsSettled, Saves
  <2> QED
    BY <2>1, <2>3, <2>4 DEF OneRequest
<1> QED
  BY <1>2, <1>3, <1>4 DEF SettingsInv

LEMMA CarryStep ==
    ASSUME SettingsInv, NEW w \in Writers, CarryCamSize(w) PROVE SettingsInv'
<1> DEFINE size == IF recognitionFile = Torn \/ recognitionFile.size = NoCamSize
                   THEN DefaultCamSize ELSE recognitionFile.size
           j == Carried(job[w], size)
<1>1. /\ job[w] # NoJob /\ job[w] \in Job /\ job[w].at = "carry"
      /\ job' = [job EXCEPT ![w] = j]
      /\ recognitionFile' = IF job[w].torn THEN [DefaultRecognition EXCEPT !.size = size]
                            ELSE recognitionFile
      /\ UNCHANGED <<modelFile, currentModel, wanted, mixed, status, cameraVars>>
  BY DEF CarryCamSize, SettingsInv, SettingsTypeOK
<1>2. size \in CamSizes
  BY SettingsAssumption DEF SettingsInv, SettingsTypeOK, Recognition
<1>3. job[w].op \notin OfModel /\ job[w].value \in Recognition
  BY <1>1 DEF SettingsInv, JobsAreOfAKind
<1>4. /\ ~mixed => /\ ~job[w].torn /\ recognitionFile # Torn /\ job[w].value = wanted
                   /\ job[w].op \in Fields
                   /\ job[w].op # "size" => size = wanted.size
      /\ wanted \in Recognition /\ wanted.size \in CamSizes
  BY <1>1, <1>3, SettingsAssumption
     DEF SettingsInv, SettingsTypeOK, SavesWhatIsWanted, Saves
<1> HIDE DEF size
<1>5. [job[w].value EXCEPT !.size = size] \in Recognition
  BY <1>2, <1>3 DEF Recognition
<1>6. [wanted EXCEPT !.size = wanted.size] = wanted
  BY <1>4 DEF Recognition
<1>7. /\ j.op = job[w].op /\ j.at = "truncate" /\ j.torn = job[w].torn
      /\ j.value = IF job[w].op = "size" THEN job[w].value
                   ELSE [job[w].value EXCEPT !.size = size]
      /\ j = [op |-> j.op, torn |-> j.torn, at |-> j.at, value |-> j.value]
  BY DEF Carried
<1> HIDE DEF j
<1>8. j.value \in Recognition /\ (~mixed => j.value = wanted)
  BY <1>3, <1>4, <1>5, <1>6, <1>7
<1>9. job[w].op \in {"enabled", "crop", "size", "get", "model", "getModel"} /\ job[w].torn \in BOOLEAN
  BY <1>1 DEF Job, Fields
<1>10. j \in Job
  BY <1>7, <1>8, <1>9 DEF Job, Fields
<1>11. recognitionFile' \in Recognition \cup {Torn}
  <2>1. [DefaultRecognition EXCEPT !.size = size] \in Recognition
    BY <1>2, SettingsAssumption DEF DefaultRecognition, Recognition
  <2> QED
    BY <1>1, <2>1 DEF SettingsInv, SettingsTypeOK
<1>12. modelFile' \in ModelConfig \cup {Torn} /\ status' \in {"starting", "switching", "ready"}
  BY <1>1 DEF SettingsInv, SettingsTypeOK
<1>13. j.at # "carry" /\ j.at # "status" /\ j # NoJob
  BY <1>7, <1>10, SettingsAssumption
<1> QED
  BY <1>1, <1>3, <1>4, <1>7, <1>8, <1>10, <1>11, <1>12, <1>13, WriterGoesOn

LEMMA TruncateStep ==
    ASSUME SettingsInv, NEW w \in Writers, Truncate(w) PROVE SettingsInv'
<1>1. /\ job[w] # NoJob /\ job[w] \in Job /\ job[w].at = "truncate" /\ SaveTo(w, Torn)
      /\ job' = [job EXCEPT ![w].at = "write"]
      /\ UNCHANGED <<currentModel, wanted, mixed, status, cameraVars>>
  BY DEF Truncate, SettingsInv, SettingsTypeOK
<1> DEFINE j == [job[w] EXCEPT !.at = "write"]
<1>2. job' = [job EXCEPT ![w] = j]
  BY <1>1
<1>3. /\ j.op = job[w].op /\ j.at = "write" /\ j.value = job[w].value /\ j \in Job
      /\ j # NoJob
  <2>1. j = [op |-> job[w].op, at |-> "write", torn |-> job[w].torn, value |-> job[w].value]
    BY <1>1, AtBecomes
  <2>2. j \in Job
    BY <1>1, <2>1 DEF Job
  <2> QED
    BY <2>1, <2>2, SettingsAssumption
<1> HIDE DEF j
<1>4. /\ recognitionFile' \in Recognition \cup {Torn}
      /\ modelFile' \in ModelConfig \cup {Torn}
      /\ job[w].op \in OfModel => recognitionFile' = recognitionFile
  BY <1>1 DEF SaveTo, OfModel, SettingsInv, SettingsTypeOK
<1>5. j.value \in IF j.op \in OfModel THEN ModelConfig ELSE Recognition
  BY <1>1, <1>3 DEF SettingsInv, JobsAreOfAKind
<1>6. ~mixed => /\ j.op \in Fields => j.value = wanted
                /\ \/ recognitionFile' = wanted
                   \/ j.op \in Fields
  <2> SUFFICES ASSUME ~mixed PROVE /\ j.op \in Fields => j.value = wanted
                                   /\ recognitionFile' = wanted \/ j.op \in Fields
    OBVIOUS
  <2>1. CASE job[w].op \in OfModel
    <3>1. job[w].op \notin Fields
      BY <2>1 DEF OfModel, Fields
    <3>2. recognitionFile = wanted
      BY <1>1, <3>1, AloneAt DEF SettingsInv, FileIsSettled, Saves
    <3> QED
      BY <1>3, <1>4, <2>1, <3>1, <3>2
  <2>2. CASE job[w].op \notin OfModel
    BY <1>1, <1>3, <2>2 DEF SettingsInv, SavesWhatIsWanted, Saves
  <2> QED
    BY <2>1, <2>2
<1>7. status' \in {"starting", "switching", "ready"}
  BY <1>1 DEF SettingsInv, SettingsTypeOK
<1> QED
  BY <1>1, <1>2, <1>3, <1>4, <1>5, <1>6, <1>7, WriterGoesOn

LEMMA WriteStep ==
    ASSUME SettingsInv, NEW w \in Writers, Write(w) PROVE SettingsInv'
<1>1. /\ job[w] # NoJob /\ job[w] \in Job /\ job[w].at = "write" /\ SaveTo(w, job[w].value)
      /\ job' = [job EXCEPT ![w] = IF Announces(w) THEN [@ EXCEPT !.at = "status"] ELSE NoJob]
      /\ UNCHANGED <<currentModel, wanted, mixed, status, cameraVars>>
  BY DEF Write, SettingsInv, SettingsTypeOK
<1> DEFINE j == IF Announces(w) THEN [job[w] EXCEPT !.at = "status"] ELSE NoJob
<1>2. job' = [job EXCEPT ![w] = j]
  BY <1>1
<1>3. /\ j # NoJob => /\ j.op = job[w].op /\ j.at = "status" /\ j.value = job[w].value
      /\ j \in Job \cup {NoJob}
  BY <1>1, AtBecomes DEF Job
<1> HIDE DEF j
<1>4. job[w].value \in IF job[w].op \in OfModel THEN ModelConfig ELSE Recognition
  BY <1>1 DEF SettingsInv, JobsAreOfAKind
<1>5. /\ recognitionFile' \in Recognition \cup {Torn}
      /\ modelFile' \in ModelConfig \cup {Torn}
      /\ job[w].op \in OfModel => recognitionFile' = recognitionFile
      /\ job[w].op \notin OfModel => recognitionFile' = job[w].value
  BY <1>1, <1>4 DEF SaveTo, OfModel, SettingsInv, SettingsTypeOK
<1>6. ~mixed => recognitionFile' = wanted
  <2> SUFFICES ASSUME ~mixed PROVE recognitionFile' = wanted
    OBVIOUS
  <2>1. CASE job[w].op \in OfModel
    <3>1. job[w].op \notin Fields
      BY <2>1 DEF OfModel, Fields
    <3>2. recognitionFile = wanted
      BY <1>1, <3>1, AloneAt DEF SettingsInv, FileIsSettled, Saves
    <3> QED
      BY <1>5, <2>1, <3>2
  <2>2. CASE job[w].op \notin OfModel
    BY <1>1, <1>5, <2>2 DEF SettingsInv, SavesWhatIsWanted, Saves
  <2> QED
    BY <2>1, <2>2
<1>7. status' \in {"starting", "switching", "ready"}
  BY <1>1 DEF SettingsInv, SettingsTypeOK
<1> QED
  BY <1>1, <1>2, <1>3, <1>4, <1>5, <1>6, <1>7, WriterGoesOn

LEMMA AnnounceStep ==
    ASSUME SettingsInv, NEW w \in Writers, AnnounceSwitch(w) PROVE SettingsInv'
<1>1. /\ job[w] # NoJob /\ job[w].at = "status" /\ status' = "switching"
      /\ job' = [job EXCEPT ![w] = NoJob]
      /\ UNCHANGED <<recognitionFile, modelFile, currentModel, wanted, mixed, cameraVars>>
  BY DEF AnnounceSwitch
<1>2. /\ recognitionFile' \in Recognition \cup {Torn}
      /\ modelFile' \in ModelConfig \cup {Torn}
      /\ status' \in {"starting", "switching", "ready"}
      /\ NoJob \in Job \cup {NoJob}
  BY <1>1 DEF SettingsInv, SettingsTypeOK
<1>3. ~mixed => recognitionFile' = wanted
  BY <1>1, AloneAt DEF SettingsInv, FileIsSettled, Saves
<1> QED
  BY <1>1, <1>2, <1>3, WriterGoesOn
-----------------------------------------------------------------------------
(* Writers are cut short, and the camera runs.                             *)

(* Only who has a request is cut short in it.                              *)
LEMMA AbandonStep ==
    ASSUME SettingsInv, NEW W \in SUBSET Writers, Abandon(W),
           modelFile' \in ModelConfig \cup {Torn}, currentModel' \in Models,
           status' \in {"starting", "switching", "ready"},
           camera' \in {"down", "imported", "up", "serving"},
           running' \in [enabled : BOOLEAN, size : CamSizes, model : Models],
           UNCHANGED <<recognitionFile, wanted, cache>>
    PROVE SettingsInv'
<1>1. /\ job \in [Writers -> Job \cup {NoJob}] /\ mixed \in BOOLEAN
      /\ job' = [w \in Writers |-> IF w \in W THEN NoJob ELSE job[w]]
      /\ mixed' = (mixed \/ \E w \in W : job[w] # NoJob)
  BY DEF Abandon, SettingsInv, SettingsTypeOK
<1>2. /\ job' \in [Writers -> Job \cup {NoJob}] /\ mixed' \in BOOLEAN
      /\ \A w \in Writers : job'[w] \in {job[w], NoJob}
      /\ ~mixed' => ~mixed /\ job' = job
  BY <1>1
<1>3. SettingsTypeOK' /\ wanted'.size \in CamSizes
  BY <1>2 DEF SettingsInv, SettingsTypeOK
<1>4. JobsAreOfAKind'
  BY <1>2 DEF SettingsInv, JobsAreOfAKind
<1>5. OneRequest' /\ SavesWhatIsWanted' /\ FileIsSettled'
  BY <1>2 DEF SettingsInv, OneRequest, SavesWhatIsWanted, FileIsSettled, Saves
<1> QED
  BY <1>3, <1>4, <1>5 DEF SettingsInv

LEMMA WebKilledStep ==
    ASSUME SettingsInv, SettingsWebKilled PROVE SettingsInv'
<1>1. /\ Abandon(WebThreads)
      /\ currentModel' = IF modelFile # Torn /\ modelFile.typed THEN modelFile.network
                         ELSE DefaultModel
      /\ modelFile' = IF modelFile = Torn THEN [network |-> DefaultModel, typed |-> TRUE]
                      ELSE modelFile
      /\ status' = IF modelFile = Torn THEN "switching" ELSE status
      /\ UNCHANGED <<recognitionFile, wanted, cameraVars>>
  BY DEF SettingsWebKilled
<1>2. /\ currentModel' \in Models /\ modelFile' \in ModelConfig \cup {Torn}
      /\ status' \in {"starting", "switching", "ready"}
  BY <1>1, SettingsAssumption DEF SettingsInv, SettingsTypeOK, ModelConfig
<1>3. /\ camera' \in {"down", "imported", "up", "serving"} /\ UNCHANGED cache
      /\ running' \in [enabled : BOOLEAN, size : CamSizes, model : Models]
  BY <1>1 DEF cameraVars, SettingsInv, SettingsTypeOK
<1>4. WebThreads \in SUBSET Writers
  BY DEF Writers
<1> QED
  BY <1>1, <1>2, <1>3, <1>4, AbandonStep

(* The camera reads the files; it changes none.                            *)
LEMMA CameraTypes ==
    ASSUME SettingsTypeOK, CameraStep \/ PollConfig, fileVars' = fileVars
    PROVE SettingsTypeOK'
<1>1. /\ recognitionFile \in Recognition \cup {Torn} /\ RunModel \in Models
      /\ DefaultRecognition \in Recognition
      /\ recognitionFile # Torn => /\ recognitionFile.enabled \in BOOLEAN
                                   /\ recognitionFile.size \in CamSizes \cup {NoCamSize}
  BY SettingsAssumption
     DEF SettingsTypeOK, RunModel, ModelConfig, Recognition, DefaultRecognition
<1>2. /\ running.enabled \in BOOLEAN /\ running.size \in CamSizes /\ running.model \in Models
      /\ running = [enabled |-> running.enabled, size |-> running.size, model |-> running.model]
      /\ cache.enabled \in BOOLEAN /\ cache.size \in CamSizes /\ cache.modelChanged \in BOOLEAN
  BY DEF SettingsTypeOK
<1>3. /\ running' \in [enabled : BOOLEAN, size : CamSizes, model : Models]
      /\ cache' \in [enabled : BOOLEAN, size : CamSizes, modelChanged : BOOLEAN]
      /\ camera' \in {"down", "imported", "up", "serving"}
      /\ status' \in {"starting", "switching", "ready"}
  <2>1. CASE CameraImport
    BY <1>1, <1>2, <2>1 DEF CameraImport, SettingsTypeOK
  <2>2. CASE CameraStart
    <3> DEFINE rec == IF recognitionFile = Torn THEN DefaultRecognition ELSE recognitionFile
               size == IF rec.size = NoCamSize THEN DefaultCamSize ELSE rec.size
    <3>1. rec.enabled \in BOOLEAN /\ size \in CamSizes
      BY <1>1, SettingsAssumption DEF Recognition
    <3>2. /\ running' = [running EXCEPT !.enabled = rec.enabled, !.size = size]
          /\ cache' = [enabled |-> rec.enabled, size |-> size, modelChanged |-> FALSE]
          /\ camera' = IF rec.enabled THEN "up" ELSE "serving"
          /\ status' = IF rec.enabled THEN status ELSE "ready"
      BY <2>2 DEF CameraStart
    <3> HIDE DEF rec, size
    <3>3. running' = [[running EXCEPT !.enabled = rec.enabled] EXCEPT !.size = size]
      BY <3>2, Zenon
    <3>4. running' \in [enabled : BOOLEAN, size : CamSizes, model : Models]
      BY <3>1, <3>3 DEF SettingsTypeOK
    <3> QED
      BY <3>1, <3>2, <3>4 DEF SettingsTypeOK
  <2>3. CASE FirstFrame
    BY <2>3 DEF FirstFrame, SettingsTypeOK
  <2>4. CASE SwitchRecognitionOff
    BY <1>2, <2>4 DEF SwitchRecognitionOff, SettingsTypeOK
  <2>5. CASE CameraRestarts
    BY <2>5 DEF CameraRestarts, SettingsTypeOK
  <2>6. CASE PollConfig
    BY <1>1, <1>2, <2>6 DEF PollConfig, SettingsTypeOK
  <2> QED
    BY <2>1, <2>2, <2>3, <2>4, <2>5, <2>6 DEF CameraStep
<1> QED
  BY <1>3 DEF SettingsTypeOK, fileVars

LEMMA CameraMoves ==
    ASSUME SettingsInv, CameraStep \/ PollConfig PROVE SettingsInv'
<1>0. {TouchThread} \in SUBSET Writers
  BY DEF Writers
<1>1. CASE CameraRestarts
  <2>1. /\ Abandon({TouchThread}) /\ camera' = "down"
        /\ UNCHANGED <<recognitionFile, modelFile, currentModel, wanted, status, running, cache>>
    BY <1>1 DEF CameraRestarts
  <2>2. /\ modelFile' \in ModelConfig \cup {Torn} /\ currentModel' \in Models
        /\ status' \in {"starting", "switching", "ready"}
        /\ running' \in [enabled : BOOLEAN, size : CamSizes, model : Models]
    BY <2>1 DEF SettingsInv, SettingsTypeOK
  <2> QED
    BY <1>0, <2>1, <2>2, AbandonStep
<1>2. CASE SwitchRecognitionOff /\ cache.size # running.size
  <2>1. /\ Abandon({TouchThread}) /\ camera' = "down" /\ status' = "ready"
        /\ running' = [running EXCEPT !.enabled = FALSE]
        /\ UNCHANGED <<recognitionFile, modelFile, currentModel, requests, wanted, cache>>
    BY <1>2 DEF SwitchRecognitionOff
  <2>2. /\ modelFile' \in ModelConfig \cup {Torn} /\ currentModel' \in Models
        /\ running' \in [enabled : BOOLEAN, size : CamSizes, model : Models]
    BY <2>1 DEF SettingsInv, SettingsTypeOK
  <2> QED
    BY <1>0, <2>1, <2>2, AbandonStep
<1>3. CASE ~CameraRestarts /\ ~(SwitchRecognitionOff /\ cache.size # running.size)
  <2>1. fileVars' = fileVars
    BY <1>3 DEF CameraStep, CameraImport, CameraStart, FirstFrame, SwitchRecognitionOff,
                PollConfig, fileVars
  <2>2. SettingsTypeOK'
    BY <2>1, CameraTypes DEF SettingsInv
  <2> QED
    BY <2>1, <2>2 DEF SettingsInv, fileVars, JobsAreOfAKind, OneRequest,
                      SavesWhatIsWanted, FileIsSettled, Saves
<1> QED
  BY <1>1, <1>2, <1>3

LEMMA SettingsInvStep ==
    SettingsInv /\ [SettingsNext \/ SettingsWebKilled \/ CameraKilled]_settingsVars
        => SettingsInv'
<1> SUFFICES ASSUME SettingsInv,
                    [SettingsNext \/ SettingsWebKilled \/ CameraKilled]_settingsVars
             PROVE SettingsInv'
  OBVIOUS
<1>1. ASSUME NEW w \in Writers, NEW op \in Fields, AskSetting(w, op) PROVE SettingsInv'
  BY <1>1, AskStep
<1>2. ASSUME NEW w \in Writers,
             \/ ReadSettings(w)
             \/ \E m \in Models : SwitchModel(w, m)
             \/ ReadModel(w)
      PROVE SettingsInv'
  BY <1>2, BeginStep
<1>3. ASSUME NEW w \in Writers, WriterStep(w) PROVE SettingsInv'
  BY <1>3, CarryStep, TruncateStep, WriteStep, AnnounceStep DEF WriterStep
<1>4. ASSUME NEW m \in Models, TouchModel(m) PROVE SettingsInv'
  <2>1. TouchThread \in Writers
    BY DEF Writers
  <2> QED
    BY <1>4, <2>1, BeginStep
<1>5. CASE CameraStep \/ PollConfig
  BY <1>5, CameraMoves
<1>6. CASE SettingsWebKilled
  BY <1>6, WebKilledStep
<1>7. CASE CameraKilled
  <2>1. /\ Abandon({TouchThread}) /\ camera' = "down"
        /\ UNCHANGED <<recognitionFile, modelFile, currentModel, wanted, status, running, cache>>
    BY <1>7 DEF CameraKilled
  <2>2. {TouchThread} \in SUBSET Writers
    BY DEF Writers
  <2>3. /\ modelFile' \in ModelConfig \cup {Torn} /\ currentModel' \in Models
        /\ status' \in {"starting", "switching", "ready"}
        /\ running' \in [enabled : BOOLEAN, size : CamSizes, model : Models]
    BY <2>1 DEF SettingsInv, SettingsTypeOK
  <2> QED
    BY <2>1, <2>2, <2>3, AbandonStep
<1>8. CASE UNCHANGED settingsVars
  BY <1>8 DEF settingsVars, SettingsInv, SettingsTypeOK, JobsAreOfAKind, OneRequest,
              SavesWhatIsWanted, FileIsSettled, Saves
<1> QED
  BY <1>1, <1>2, <1>3, <1>4, <1>5, <1>6, <1>7, <1>8 DEF SettingsNext

LEMMA SettingsInvariant == SettingsSpec => []SettingsInv
<1> QED
  BY SettingsInvInit, SettingsInvStep, PTL DEF SettingsSpec

(* The settings files hold settings or are torn, and the camera runs with  *)
(* values of their types whatever it finds in them.                        *)
THEOREM SettingsTypes == SettingsSpec => []SettingsTypeOK
<1>1. SettingsInv => SettingsTypeOK
  BY DEF SettingsInv
<1> QED
  BY <1>1, SettingsInvariant, PTL

(* For any number of Web threads and requests: as long as no two requests  *)
(* overlap and none is cut short, every field of recognition_config.json   *)
(* is what was last asked for it, from the page or from the panel          *)
(* (save_recognition_config, _handle_touch_btn).                           *)
THEOREM SettingsKept == SettingsSpec => []SettingsAreAsAsked
<1>1. SettingsInv => SettingsAreAsAsked
  BY DEF SettingsInv, FileIsSettled, Saves, SettingsAreAsAsked
<1> QED
  BY <1>1, SettingsInvariant, PTL

-----------------------------------------------------------------------------
(* The parts side by side.                                                 *)

(* A step of one part leaves the others alone.                             *)
LEMMA PartsStep ==
    [ChildNext]_childVars =>
        /\ [SenderNext \/ SenderKilled]_senderVars
        /\ [SettingsNext \/ SettingsWebKilled \/ CameraKilled]_settingsVars
        /\ [CaptureNext \/ CaptureRestarted]_captureVars
<1> SUFFICES ASSUME [ChildNext]_childVars
             PROVE  /\ [SenderNext \/ SenderKilled]_senderVars
                    /\ [SettingsNext \/ SettingsWebKilled \/ CameraKilled]_settingsVars
                    /\ [CaptureNext \/ CaptureRestarted]_captureVars
  OBVIOUS
<1>1. CASE Only("sender") /\ (SenderNext \/ SenderKilled)
  BY <1>1 DEF Only
<1>2. CASE Only("settings") /\ (SettingsNext \/ SettingsWebKilled \/ CameraKilled)
  BY <1>2 DEF Only
<1>3. CASE Only("capture") /\ (CaptureNext \/ CaptureRestarted)
  BY <1>3 DEF Only
<1>4. CASE UNCHANGED childVars
  BY <1>4 DEF childVars
<1> QED
  BY <1>1, <1>2, <1>3, <1>4 DEF ChildNext, SenderPart, SettingsPart, CapturePart, Kill

(* The composition that the runs check is the parts side by side: what is  *)
(* proved of the Web server's sender, of the settings and of the capture   *)
(* holds in it.                                                            *)
THEOREM ChildIsItsParts == ChildSpec => SenderSpec /\ SettingsSpec /\ CaptureSpec
<1>1. ChildInit => SenderInit /\ SettingsInit /\ CaptureInit
  BY DEF ChildInit
<1> QED
  BY <1>1, PartsStep, PTL DEF ChildSpec, SenderSpec, SettingsSpec, CaptureSpec

LEMMA KillsAreCounted ==
    ChildInit /\ [][ChildNext]_childVars => [](part \in Parts /\ kills \in 0 .. MaxKills)
<1> DEFINE Counted == part \in Parts /\ kills \in 0 .. MaxKills
<1>1. ChildInit => Counted
  BY KillsAssumption DEF ChildInit
<1>2. Counted /\ [ChildNext]_childVars => Counted'
  BY KillsAssumption
     DEF ChildNext, SenderPart, SettingsPart, CapturePart, Kill, Only, childVars
<1> QED
  BY <1>1, <1>2, PTL

(* The child's programs keep their types, whichever of them runs and       *)
(* however often it is killed.                                             *)
THEOREM ChildTypeCorrect == ChildSpec => []ChildTypeOK
<1>1. SenderTypeOK /\ SettingsTypeOK /\ CaptureTypeOK
        /\ (part \in Parts /\ kills \in 0 .. MaxKills) => ChildTypeOK
  BY DEF ChildTypeOK
<1>2. CaptureInv => CaptureTypeOK
  BY DEF CaptureInv
<1> QED
  BY <1>1, <1>2, ChildIsItsParts, SenderTypeCorrect, SettingsTypes, CaptureInvariant,
     KillsAreCounted, PTL DEF ChildSpec

================================================================================
