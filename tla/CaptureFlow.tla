----------------------------- MODULE CaptureFlow -----------------------------
(***************************************************************************)
(* The frames of the camera application (child/Picamera.py): the capture   *)
(* thread takes a request (a DMA buffer) from the camera and hands it to   *)
(* the main loop through a queue of length one; the main loop releases it. *)
(* Recognition is switched off in place, or the camera is stopped for a    *)
(* restart; with recognition off the SaveWorker takes one image a second.  *)
(* A request whose handling raises in capture_loop is never released.      *)
(*                                                                         *)
(* The camera is external: it lends out the buffers that are free.  The    *)
(* waits of the shutdown (join with a timeout, a sleep) may end before     *)
(* what they wait for.                                                     *)
(***************************************************************************)
EXTENDS Naturals, FiniteSets

CONSTANTS Buffers, NoBuffer

ASSUME CaptureAssumption ==
    NoBuffer \notin Buffers /\ IsFiniteSet(Buffers) /\ Cardinality(Buffers) >= 3

VARIABLES
    pool,       (* the buffers the camera was configured with               *)
    lent,       (* the buffers that are not back with the camera            *)
    dropped,    (* history: those capture_loop took and forgot              *)
    capturing,  (* where capture_loop is                                    *)
    captured,   (* the request it holds                                     *)
    frameQueue, (* capture_frame_queue                                      *)
    inHand,     (* the request the main loop works on                       *)
    saving,     (* the buffer the SaveWorker's capture_array uses           *)
    stopEvent,  (* capture_stop_event                                       *)
    mode,       (* what the main loop runs                                  *)
    closing     (* how far it has come in stopping the capture              *)

captureVars == <<pool, lent, dropped, capturing, captured, frameQueue, inHand, saving,
                 stopEvent, mode, closing>>

Slot == Buffers \cup {NoBuffer}

CaptureTypeOK ==
    /\ pool \subseteq Buffers /\ lent \subseteq Buffers /\ dropped \subseteq Buffers
    /\ capturing \in {"top", "waiting", "holding", "over"}
    /\ captured \in Slot /\ frameQueue \in Slot
    /\ inHand \in Slot /\ saving \in Slot
    /\ stopEvent \in BOOLEAN
    /\ mode \in {"on", "off", "stopped"}
    /\ closing \in {"no", "draining", "joining", "parting"}

(* A start with recognition on has four or six buffers and the capture      *)
(* thread; with recognition off it has no thread, and two buffers are      *)
(* enough.                                                                 *)
PoolsFor(on) == IF on THEN {Buffers} ELSE {P \in SUBSET Buffers : Cardinality(P) >= 2}
ThreadFor(on) == IF on THEN "top" ELSE "over"
ModeFor(on) == IF on THEN "on" ELSE "off"

CaptureInit ==
    /\ \E on \in BOOLEAN :
        pool \in PoolsFor(on) /\ capturing = ThreadFor(on) /\ mode = ModeFor(on)
    /\ lent = {} /\ dropped = {}
    /\ captured = NoBuffer /\ frameQueue = NoBuffer
    /\ inHand = NoBuffer /\ saving = NoBuffer
    /\ stopEvent = FALSE
    /\ closing = "no"

mainVars == <<inHand, stopEvent, mode, closing>>

CaptureTop ==
    /\ capturing = "top"
    /\ capturing' = IF stopEvent THEN "over" ELSE "waiting"
    /\ UNCHANGED <<pool, lent, dropped, captured, frameQueue, saving, mainVars>>

RequestArrives(b) ==
    /\ capturing = "waiting" /\ mode # "stopped"
    /\ b \in pool \ lent
    /\ lent' = lent \cup {b}
    /\ captured' = b
    /\ capturing' = "holding"
    /\ UNCHANGED <<pool, dropped, frameQueue, saving, mainVars>>

(* capture_request, or the making of the frame after it, raises: the thread *)
(* goes on, and does not release what it held.                             *)
CaptureFails ==
    /\ capturing \in {"waiting", "holding"}
    /\ dropped' = dropped \cup ({captured} \ {NoBuffer})
    /\ captured' = NoBuffer
    /\ capturing' = "top"
    /\ UNCHANGED <<pool, lent, frameQueue, saving, mainVars>>

PutRequest ==
    /\ capturing = "holding" /\ frameQueue = NoBuffer
    /\ frameQueue' = captured
    /\ captured' = NoBuffer
    /\ capturing' = "top"
    /\ UNCHANGED <<pool, lent, dropped, saving, mainVars>>

(* As "PutTimesOut", which drops the request without its release.          *)
PutTimesOutKeeps ==
    /\ capturing = "holding" /\ frameQueue # NoBuffer
    /\ captured' = NoBuffer
    /\ capturing' = "top"
    /\ UNCHANGED <<pool, lent, dropped, frameQueue, saving, mainVars>>

(* The put waits for one second, then gives the frame up.                  *)
PutTimesOut ==
    /\ capturing = "holding" /\ frameQueue # NoBuffer
    /\ lent' = lent \ {captured}
    /\ captured' = NoBuffer
    /\ capturing' = "top"
    /\ UNCHANGED <<pool, dropped, frameQueue, saving, mainVars>>

GetRequest ==
    /\ mode = "on" /\ closing = "no"
    /\ inHand = NoBuffer /\ frameQueue # NoBuffer
    /\ inHand' = frameQueue
    /\ frameQueue' = NoBuffer
    /\ UNCHANGED <<pool, lent, dropped, capturing, captured, saving, stopEvent, mode, closing>>

ReleaseRequest ==
    /\ inHand # NoBuffer
    /\ lent' = lent \ {inHand}
    /\ inHand' = NoBuffer
    /\ UNCHANGED <<pool, dropped, capturing, captured, frameQueue, saving, stopEvent,
                   mode, closing>>

(* Both ways out begin alike, at the top of the main loop.                 *)
StopCapture ==
    /\ mode = "on" /\ closing = "no" /\ inHand = NoBuffer
    /\ stopEvent' = TRUE
    /\ closing' = "draining"
    /\ UNCHANGED <<pool, lent, dropped, capturing, captured, frameQueue, inHand, saving, mode>>

(* As "Drain", leaving the queue as it is.                                 *)
DrainNothing ==
    /\ closing = "draining"
    /\ closing' = "joining"
    /\ UNCHANGED <<pool, lent, dropped, frameQueue, capturing, captured, inHand, saving,
                   stopEvent, mode>>

(* As "Drain", throwing away what it takes out.                            *)
DrainUnreleased ==
    /\ closing = "draining"
    /\ frameQueue' = NoBuffer
    /\ closing' = "joining"
    /\ UNCHANGED <<pool, lent, dropped, capturing, captured, inHand, saving, stopEvent, mode>>

Drain ==
    /\ closing = "draining"
    /\ IF frameQueue # NoBuffer
       THEN lent' = lent \ {frameQueue} /\ frameQueue' = NoBuffer /\ UNCHANGED closing
       ELSE closing' = "joining" /\ UNCHANGED <<lent, frameQueue>>
    /\ UNCHANGED <<pool, dropped, capturing, captured, inHand, saving, stopEvent, mode>>

(* The thread is over, or join's two or three seconds are.                 *)
Join ==
    /\ closing = "joining"
    /\ closing' = "parting"
    /\ UNCHANGED <<pool, lent, dropped, capturing, captured, frameQueue, inHand, saving,
                   stopEvent, mode>>

SwitchedOff ==
    /\ closing = "parting"
    /\ mode' = "off"
    /\ closing' = "no"
    /\ UNCHANGED <<pool, lent, dropped, capturing, captured, frameQueue, inHand, saving,
                   stopEvent>>

(* picam2.stop, then exit: from the restart, or - 0.3 s after it asked the *)
(* SaveWorker to pause - with recognition off.                             *)
StopCamera ==
    /\ closing = "parting" \/ mode = "off"
    /\ mode' = "stopped"
    /\ closing' = "no"
    /\ UNCHANGED <<pool, lent, dropped, capturing, captured, frameQueue, inHand, saving,
                   stopEvent>>

CaptureArray(b) ==
    /\ mode = "off" /\ saving = NoBuffer
    /\ b \in pool \ lent
    /\ saving' = b
    /\ lent' = lent \cup {b}
    /\ UNCHANGED <<pool, dropped, capturing, captured, frameQueue, mainVars>>

ArrayTaken ==
    /\ saving # NoBuffer
    /\ lent' = lent \ {saving}
    /\ saving' = NoBuffer
    /\ UNCHANGED <<pool, dropped, capturing, captured, frameQueue, mainVars>>

(* systemd starts the next process; a kill comes here at any moment.       *)
CaptureRestarted ==
    /\ \E on \in BOOLEAN :
        pool' \in PoolsFor(on) /\ capturing' = ThreadFor(on) /\ mode' = ModeFor(on)
    /\ lent' = {} /\ dropped' = {} /\ captured' = NoBuffer /\ frameQueue' = NoBuffer
    /\ inHand' = NoBuffer /\ saving' = NoBuffer
    /\ stopEvent' = FALSE /\ closing' = "no"

CaptureThread ==
    \/ CaptureTop
    \/ \E b \in Buffers : RequestArrives(b)
    \/ PutRequest
    \/ PutTimesOut

MainLoop == GetRequest \/ ReleaseRequest

SaveLoop == (\E b \in Buffers : CaptureArray(b)) \/ ArrayTaken

Closing == Drain \/ Join \/ SwitchedOff

CaptureNext ==
    \/ CaptureThread
    \/ CaptureFails
    \/ MainLoop
    \/ SaveLoop
    \/ StopCapture
    \/ Closing
    \/ StopCamera

CaptureSpec == CaptureInit /\ [][CaptureNext \/ CaptureRestarted]_captureVars

-----------------------------------------------------------------------------
(* A buffer is lost only by the request that capture_loop drops when its    *)
(* handling raises: whatever else the camera lent is with somebody who     *)
(* will give it back, in whatever order the threads put, drain and time    *)
(* out (capture_loop, the two drains).                                     *)
NoBufferLost == lent = ({captured, frameQueue, inHand, saving} \ {NoBuffer}) \cup dropped

(* Switching recognition off may leave, beside those, one request in the    *)
(* queue that nobody releases (a put that succeeds after the drain) or one *)
(* with a thread that outlived the join, never both (the two drains,       *)
(* switch_recognition_off).                                                *)
OffLeavesBuffers ==
    mode = "off" => /\ inHand = NoBuffer
                    /\ Cardinality(lent \ (dropped \cup {saving})) <= 1
=============================================================================
