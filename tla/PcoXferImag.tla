--------------------------- MODULE PcoXferImag ---------------------------
(* The Windows transfer loop BufferCtrlObj::_xferImag: a ring of Nrevents   *)
(* SDK buffers with one event each is queued in the driver, the camera      *)
(* fills the queued buffers in order, and the acquisition thread copies     *)
(* each filled buffer into a LIMA frame buffer, announces the frame with    *)
(* newFrameReady and queues the buffer again for a later frame.             *)
(*                                                                          *)
(* Actors: the acquisition thread (everything with a pc), the camera and    *)
(* the PCO SDK (external), and the client that asks for a stop.             *)
EXTENDS Integers, Sequences

CONSTANTS
    Modes,      \* the situations in which _xferImag is called, a subset of AllModes
    Requests,   \* the values of getNbFrames at entry, 0 meaning "until stopped"
    RecStops,   \* the values m_iRecorderStopRequest may have, a subset of BOOLEAN
    Nrevents,   \* m_pco_buffer_nrevents, the number of ring buffers
    DWordMax,   \* DWORD_MAX, the frame count that stands for "until stopped"
    MaxLost,    \* bound: images the camera may take while no buffer is queued
    MaxImages   \* bound: images the camera takes in one acquisition

(* "record": a Dimax whose recording is over, images are in camera RAM      *)
(* "edge":   an Edge that records already when the transfer starts          *)
(* "edgeCL": a Camera Link Edge, started by the transfer itself             *)
(* "fifo":   a camera with RAM in live or forced-fifo mode                  *)
AllModes == {"record", "edge", "edgeCL", "fifo"}

ASSUME ModesAssumption == Modes \subseteq AllModes
ASSUME RecStopsAssumption == RecStops \subseteq BOOLEAN
ASSUME NreventsAssumption == Nrevents \in Nat \ {0}
ASSUME RequestsAssumption == Requests \subseteq Nat
ASSUME BoundsAssumption == /\ DWordMax \in Nat /\ MaxLost \in Nat /\ MaxImages \in Nat
                           /\ MaxImages < DWordMax
                           /\ \A r \in Requests : r + MaxLost < MaxImages

VARIABLES
    mode, req, recStop,               \* fixed at entry
    pc, frameIdx, first, idx, bufIdx, polled, ramIdx, ret,  \* locals of _xferImag
    assigned, limaPtr,                \* m_allocBuff, per ring buffer
    pending, event, content,          \* the SDK: queue, event flags, buffer contents
    recording, taken,                 \* the camera
    stop,                             \* SyncCtrlObj::m_requestStop = stopRequest
    ready, acqFrames                  \* newFrameReady calls, m_nb_acq_frames

params == <<mode, req, recStop>>
ring   == <<assigned, limaPtr>>
sdk    == <<pending, event, content>>
camera == <<recording, taken>>
out    == <<ready, acqFrames>>
vars   == <<params, pc, frameIdx, first, idx, bufIdx, polled, ramIdx, ret,
            ring, sdk, camera, stop, out>>

Ring   == 0 .. Nrevents - 1
NoBuf  == Nrevents          \* where the search for a buffer stops when none matches
NoRet  == "none"

RunAfterAssign == mode = "edgeCL"
CamRAM   == mode \in {"record", "fifo"}
LiveMode == req = 0 \/ mode = "fifo"
ByNumber == mode = "record" /\ ~LiveMode    \* AddBufferEx names the image to read
RequestedFrames == IF req > 0 THEN req ELSE DWordMax

MoreToAssign_Strict == first < RequestedFrames      \* mutated form: off by one
MoreToAssign == first <= RequestedFrames

Init ==
    /\ mode \in Modes /\ req \in Requests /\ recStop \in RecStops
    /\ pc = "assign" /\ frameIdx = 1 /\ first = 1 /\ idx = 0
    /\ bufIdx = 0 /\ polled = 0 /\ ramIdx = 0 /\ ret = NoRet
    /\ assigned = [b \in Ring |-> 0] /\ limaPtr = [b \in Ring |-> 0]
    /\ pending = <<>> /\ event = [b \in Ring |-> FALSE] /\ content = [b \in Ring |-> 0]
    /\ recording = (mode \in {"edge", "fifo"})
    /\ taken \in IF mode = "record" /\ req > 0 THEN {req, req + 1} ELSE {0}
    /\ stop = FALSE /\ ready = <<>> /\ acqFrames = 0

----------------------------------------------------------------------------
(* the acquisition thread *)

Return(status) == pc' = "done" /\ ret' = status

Assign_KeepsEvent(b) ==                 \* mutated form: the event is not reset
    /\ assigned' = [assigned EXCEPT ![b] = first]
    /\ limaPtr' = [limaPtr EXCEPT ![b] = first]
    /\ pending' = Append(pending, b)
    /\ first' = first + 1
    /\ UNCHANGED <<event, content>>

Assign(b) ==                                        \* _assignImage2Buffer succeeds
    /\ assigned' = [assigned EXCEPT ![b] = first]
    /\ limaPtr' = [limaPtr EXCEPT ![b] = first]
    /\ pending' = Append(pending, b)
    /\ event' = [event EXCEPT ![b] = FALSE]
    /\ first' = first + 1
    /\ UNCHANGED content

InitialAssign ==
    /\ pc = "assign" /\ idx < Nrevents /\ MoreToAssign
    /\ Assign(idx)
    /\ idx' = idx + 1
    /\ UNCHANGED <<params, pc, frameIdx, bufIdx, polled, ramIdx, ret, camera, stop, out>>

InitialAssignFails ==               \* no LIMA buffer within 30 s
    /\ pc = "assign" /\ idx < Nrevents /\ MoreToAssign
    /\ Return("PcoError")
    /\ UNCHANGED <<params, frameIdx, first, idx, bufIdx, polled, ramIdx,
                   ring, sdk, camera, stop, out>>

InitialAssignDone ==
    /\ pc = "assign" /\ (idx = Nrevents \/ ~MoreToAssign)
    /\ pc' = IF RunAfterAssign THEN "start" ELSE "loop"
    /\ UNCHANGED <<params, frameIdx, first, idx, bufIdx, polled, ramIdx, ret,
                   ring, sdk, camera, stop, out>>

(* _pco_SetRecordingState(1): the error it returns is ignored *)
StartRecording ==
    /\ pc = "start"
    /\ recording' \in BOOLEAN
    /\ pc' = "loop"
    /\ UNCHANGED <<params, frameIdx, first, idx, bufIdx, polled, ramIdx, ret,
                   ring, sdk, taken, stop, out>>

LoopEnd_OneShort ==                     \* mutated form: < for <= in the for
    /\ pc = "loop" /\ frameIdx >= RequestedFrames
    /\ Return("TransferEnd")
    /\ UNCHANGED <<params, frameIdx, first, idx, bufIdx, polled, ramIdx,
                   ring, sdk, camera, stop, out>>

LoopEnd ==
    /\ pc = "loop" /\ frameIdx > RequestedFrames
    /\ Return("TransferEnd")
    /\ UNCHANGED <<params, frameIdx, first, idx, bufIdx, polled, ramIdx,
                   ring, sdk, camera, stop, out>>

StopSeen_Consumed ==                    \* mutated form: the request is cleared, the loop goes on
    /\ stop
    /\ \/ pc = "loop" /\ frameIdx <= RequestedFrames
       \/ pc \in {"poll", "copy", "recycle"}
    /\ stop' = FALSE
    /\ UNCHANGED <<params, pc, frameIdx, first, idx, bufIdx, polled, ramIdx, ret,
                   ring, sdk, camera, out>>

StopSeen ==                                         \* goto _EXIT_STOP
    /\ stop
    /\ \/ pc = "loop" /\ frameIdx <= RequestedFrames
       \/ pc \in {"poll", "copy", "recycle"}
    /\ Return("TransferStop")
    /\ UNCHANGED <<params, frameIdx, first, idx, bufIdx, polled, ramIdx,
                   ring, sdk, camera, stop, out>>

(* the search for the buffer of frameIdx; when no buffer has it the loop    *)
(* ends past the ring and the buffer polled is the last one looked at       *)
Holders == {b \in Ring : assigned[b] = frameIdx}

FindBuffer ==
    /\ pc = "loop" /\ frameIdx <= RequestedFrames /\ ~stop
    /\ bufIdx' = IF Holders = {} THEN NoBuf
                 ELSE CHOOSE b \in Holders : \A c \in Holders : b <= c
    /\ polled' = IF Holders = {} THEN Nrevents - 1 ELSE bufIdx'
    /\ pc' = "poll"
    /\ UNCHANGED <<params, frameIdx, first, idx, ramIdx, ret, ring, sdk, camera, stop, out>>

EventFired_OnTimeout ==                 \* mutated form: a wait that times out counts as fired
    /\ pc = "poll" /\ ~stop
    /\ pc' = "copy"
    /\ UNCHANGED <<params, frameIdx, first, idx, bufIdx, polled, ramIdx, ret,
                   ring, sdk, camera, stop, out>>

EventFired_Requeues ==                  \* mutated form: queued again before the copy
    /\ pc = "poll" /\ ~stop /\ event[polled]
    /\ pc' = "copy"
    /\ pending' = Append(pending, polled)
    /\ UNCHANGED <<params, frameIdx, first, idx, bufIdx, polled, ramIdx, ret,
                   ring, event, content, camera, stop, out>>

EventFired ==
    /\ pc = "poll" /\ ~stop /\ event[polled]
    /\ pc' = "copy"
    /\ UNCHANGED <<params, frameIdx, first, idx, bufIdx, polled, ramIdx, ret,
                   ring, sdk, camera, stop, out>>

(* memcpy and newFrameReady of _xferImag_buff2lima: frame is announced,     *)
(* dest is the frame whose LIMA buffer was written (0: null pointer and     *)
(* size 0, nothing is copied), image what the camera put in the buffer      *)
Announcement(b) ==
    IF b \in Ring
    THEN [frame |-> frameIdx, dest |-> limaPtr[b], image |-> content[b]]
    ELSE [frame |-> frameIdx, dest |-> 0, image |-> 0]

Buff2Lima ==
    /\ pc = "copy" /\ ~stop
    /\ ready' = Append(ready, Announcement(bufIdx))
    /\ pc' = "recycle"
    /\ UNCHANGED <<params, frameIdx, first, idx, bufIdx, polled, ramIdx, ret,
                   ring, sdk, camera, stop, acqFrames>>

NextFrame_CountsNext ==                 \* mutated form: setAcqFrames after the increment
    /\ frameIdx' = frameIdx + 1
    /\ acqFrames' = frameIdx'
    /\ pc' = IF LiveMode /\ CamRAM /\ recStop /\ frameIdx + 1 <= RequestedFrames
             THEN "ram" ELSE "loop"

NextFrame ==
    /\ acqFrames' = frameIdx
    /\ frameIdx' = frameIdx + 1
    /\ pc' = IF LiveMode /\ CamRAM /\ recStop /\ frameIdx + 1 <= RequestedFrames
             THEN "ram" ELSE "loop"

Reassign ==
    /\ pc = "recycle" /\ ~stop /\ MoreToAssign /\ recording
    /\ Assign(bufIdx)
    /\ NextFrame
    /\ UNCHANGED <<params, idx, bufIdx, polled, ramIdx, ret, camera, stop, ready>>

ReassignFails ==                        \* no LIMA buffer within 30 s
    /\ pc = "recycle" /\ ~stop /\ MoreToAssign /\ recording
    /\ Return("PcoError")
    /\ UNCHANGED <<params, frameIdx, first, idx, bufIdx, polled, ramIdx,
                   ring, sdk, camera, stop, out>>

ReassignIgnored ==                                  \* recordState = 0 / IGNORED
    /\ pc = "recycle" /\ ~stop /\ MoreToAssign /\ ~recording
    /\ NextFrame
    /\ UNCHANGED <<params, first, idx, bufIdx, polled, ramIdx, ret,
                   ring, sdk, camera, stop, ready>>

ResetBufferEvent ==                                 \* no frame left to assign
    /\ pc = "recycle" /\ ~stop /\ ~MoreToAssign
    /\ event' = [event EXCEPT ![bufIdx] = FALSE]
    /\ NextFrame
    /\ UNCHANGED <<params, first, idx, bufIdx, polled, ramIdx, ret,
                   ring, pending, content, camera, stop, ready>>

(* bReadRAM: recording is stopped, the queue cancelled, and the images in   *)
(* RAM are read one by one through buffer 0; image 0 is the newest image    *)
RamStart ==
    /\ pc = "ram"
    /\ recording' = FALSE /\ pending' = <<>>
    /\ bufIdx' = 0
    /\ LET toRead == RequestedFrames - frameIdx
       IN  ramIdx' = IF taken < toRead THEN 1 ELSE taken - toRead
    /\ pc' = "ramread"
    /\ UNCHANGED <<params, frameIdx, first, idx, polled, ret, ring, event, content,
                   taken, stop, out>>

RamRead ==
    /\ pc = "ramread" /\ ramIdx <= taken
    /\ content' = [content EXCEPT ![0] = IF ramIdx = 0 THEN taken ELSE ramIdx]
    /\ ready' = IF stop THEN ready
                ELSE Append(ready, [Announcement(0) EXCEPT !.image = content'[0]])
    /\ ramIdx' = ramIdx + 1
    /\ UNCHANGED <<params, pc, frameIdx, first, idx, bufIdx, polled, ret,
                   ring, pending, event, camera, stop, acqFrames>>

RamDone ==
    /\ pc = "ramread" /\ ramIdx > taken
    /\ Return("RecordStop")
    /\ UNCHANGED <<params, frameIdx, first, idx, bufIdx, polled, ramIdx,
                   ring, sdk, camera, stop, out>>

(* an error of AddBufferEx, GetRecordingState, GetBufferStatus or GetImageEx *)
(* is thrown, and nothing in the thread catches it                          *)
CameraThrows ==
    /\ \/ pc = "assign" /\ idx < Nrevents /\ MoreToAssign
       \/ pc \in {"start", "ram"}
       \/ pc = "poll" /\ ~stop
       \/ pc = "recycle" /\ ~stop /\ MoreToAssign /\ recording
       \/ pc = "ramread" /\ ramIdx <= taken
    /\ pc' = "dead"
    /\ UNCHANGED <<params, frameIdx, first, idx, bufIdx, polled, ramIdx, ret,
                   ring, sdk, camera, stop, out>>

Thread ==
    \/ InitialAssign \/ InitialAssignFails \/ InitialAssignDone \/ StartRecording
    \/ LoopEnd \/ StopSeen \/ FindBuffer \/ EventFired \/ Buff2Lima
    \/ Reassign \/ ReassignFails \/ ReassignIgnored \/ ResetBufferEvent
    \/ RamStart \/ RamRead \/ RamDone

----------------------------------------------------------------------------
(* the camera and the SDK *)

Fill(image) ==
    /\ content' = [content EXCEPT ![Head(pending)] = image]
    /\ event' = [event EXCEPT ![Head(pending)] = TRUE]
    /\ pending' = Tail(pending)

Unchanged_sdk_env == UNCHANGED <<params, pc, frameIdx, first, idx, bufIdx, polled, ramIdx,
                                 ret, ring, recording, stop, out>>

Expose ==               \* a new image goes to the first queued buffer
    /\ recording /\ taken < MaxImages /\ pending # <<>> /\ pc \notin {"done", "dead"}
    /\ taken' = taken + 1
    /\ Fill(taken')
    /\ Unchanged_sdk_env

Lost == taken - (first - 1 - Len(pending))

ExposeLost ==           \* no buffer is queued: the image is lost
    /\ recording /\ taken < MaxImages /\ pending = <<>> /\ pc \notin {"done", "dead"}
    /\ Lost < MaxLost
    /\ taken' = taken + 1
    /\ UNCHANGED sdk
    /\ Unchanged_sdk_env

ReadOut ==              \* a recorded image, named by AddBufferEx, is read from RAM
    /\ ByNumber /\ pending # <<>> /\ assigned[Head(pending)] <= taken /\ pc \notin {"done", "dead"}
    /\ Fill(assigned[Head(pending)])
    /\ UNCHANGED taken
    /\ Unchanged_sdk_env

(* the client: SyncCtrlObj::stopAcq -> _setRequestStop(stopRequest) *)
RequestStop ==
    /\ ~stop /\ pc \notin {"done", "dead"}
    /\ stop' = TRUE
    /\ UNCHANGED <<params, pc, frameIdx, first, idx, bufIdx, polled, ramIdx, ret,
                   ring, sdk, camera, out>>

Returned == pc \in {"done", "dead"} /\ UNCHANGED vars

Next == Thread \/ CameraThrows \/ Expose \/ ExposeLost \/ ReadOut \/ RequestStop \/ Returned

(* the thread is scheduled; the camera delivers images while it can *)
Fairness == WF_vars(Thread) /\ WF_vars(Expose \/ ReadOut)

Spec == Init /\ [][Next]_vars /\ Fairness

----------------------------------------------------------------------------
Statuses == {"TransferEnd", "TransferStop", "RecordStop", "PcoError"}

(* Every variable of the transfer stays in its domain.                      *)
TypeOK ==
    /\ mode \in Modes /\ req \in Requests /\ recStop \in RecStops
    /\ pc \in {"assign", "start", "loop", "poll", "copy", "recycle", "ram", "ramread", "done", "dead"}
    /\ frameIdx \in Nat \ {0} /\ first \in Nat \ {0}
    /\ idx \in 0 .. Nrevents /\ bufIdx \in Ring \cup {NoBuf} /\ polled \in Ring
    /\ ramIdx \in Int /\ ret \in Statuses \cup {NoRet}
    /\ assigned \in [Ring -> Nat] /\ limaPtr \in [Ring -> Nat]
    /\ pending \in Seq(Ring) /\ event \in [Ring -> BOOLEAN] /\ content \in [Ring -> Nat]
    /\ recording \in BOOLEAN /\ taken \in Nat /\ stop \in BOOLEAN
    /\ ready \in Seq([frame : Nat, dest : Nat, image : Int]) /\ acqFrames \in Nat

(* A frame announced to LIMA is in its own LIMA buffer and holds an image   *)
(* of the camera: "the image dwFrameIdx is already in the buffer".          *)
FrameHasItsImage ==
    \A k \in 1 .. Len(ready) : ready[k].dest = ready[k].frame /\ ready[k].image > 0

(* Frames carry images in the order the camera took them, none twice,       *)
(* although buffers are refilled while earlier ones wait to be copied.      *)
ImagesInOrder ==
    \A j, k \in 1 .. Len(ready) : j < k => ready[j].image < ready[k].image

(* A recorded sequence that fits in the ring is played back exactly.        *)
PlaybackExact ==
    ByNumber /\ req <= Nrevents => \A k \in 1 .. Len(ready) : ready[k].image = k

(* When the transfer ends normally every requested frame was announced and  *)
(* counted; when it is interrupted the count lags the announcements by at   *)
(* most the frame whose recycling was cut short (until the RAM readout).    *)
CountMatches ==
    /\ ret = "TransferEnd" => acqFrames = req /\ Len(ready) = req
    /\ pc \notin {"ram", "ramread", "dead"} /\ ret # "RecordStop"
           => acqFrames \in {Len(ready), Len(ready) - 1}

(* The image of a frame that is not announced yet is never overwritten,     *)
(* until the RAM readout takes buffer 0 for itself.                         *)
UncopiedImageKept ==
    [][\A b \in Ring : content'[b] # content[b] /\ pc # "ramread"
           => ~(event[b] /\ assigned[b] >= frameIdx)]_vars

(* A transfer whose camera records returns: every requested frame arrives   *)
(* or the loop gives up.                                                    *)
StartFailed == RunAfterAssign /\ pc \in {"loop", "poll"} /\ ~recording
Returns == req > 0 => <>(pc \in {"done", "dead"} \/ StartFailed)

(* A stop request always ends the transfer, whatever the camera does.       *)
StopReturns == stop ~> pc \in {"done", "dead"}

(* The transfer implements the abstract stream of frames: the image of each *)
(* frame is the one announced for it.                                       *)
Stream == INSTANCE PcoFrameStream WITH
              Images <- 1 .. MaxImages, Endings <- Statuses, NoEnding <- NoRet,
              frames <- [k \in 1 .. Len(ready) |-> ready[k].image],
              limit <- RequestedFrames, ending <- ret
ImplementsStream == Stream!Spec
==========================================================================
