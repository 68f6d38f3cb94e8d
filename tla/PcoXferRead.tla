---------------------------- MODULE PcoXferRead ----------------------------
(* The transfer functions that read image after image with PCO_GetImageEx:  *)
(* _xferImag_getImage ("last": the last images of a triggered ring          *)
(* recording), _xferImag_getImage_edge ("edge"), _xferImagMult ("first" for *)
(* a recorded sequence, "live" for an endless one) and                      *)
(* _xferImagMultDoubleImage ("double": two LIMA frames in one PCO image).   *)
(* A PCO buffer is copied before the next image is read, so which of the    *)
(* allocated buffers is used does not matter.                               *)
EXTENDS Integers, Sequences

CONSTANTS
    Modes,        \* a subset of {"last", "edge", "first", "live", "double"}
    Requests,     \* the frame counts the client asks for, 0 = until stopped
    LimaBuffers,  \* the buffers of LIMA's pool
    DWordMax,     \* bound: DWORD_MAX, the frames of an endless transfer
    MaxImages     \* bound: images the camera takes

ASSUME ModesAssumption == Modes \subseteq {"last", "edge", "first", "live", "double"}
ASSUME SizesAssumption == Requests \subseteq Nat /\ LimaBuffers \in Nat \ {0}
                          /\ DWordMax \in Nat /\ MaxImages \in Nat

VARIABLES
    mode, req,           \* the function, and SyncCtrlObj's frame count
    pc, k, image, seen,  \* images transferred, the one just read, and _stopReq
    ret,                 \* the status returned
    frames,              \* the frames announced to LIMA
    acqFrames, stop,     \* SyncCtrlObj
    stopAt,              \* history: the frames announced before the stop request
    valid, recording,    \* the camera
    pool, saved          \* LIMA: the frame in each buffer, and the frames released

config == <<mode, req>>
thread == <<k, image, seen, ret, frames, acqFrames>>
request == <<stop, stopAt>>
camera == <<valid, recording>>
vars == <<config, pc, thread, request, camera, pool, saved>>

MinOf(a, b) == IF a < b THEN a ELSE b

Slots == 0 .. LimaBuffers - 1
Per == IF mode = "double" THEN 2 ELSE 1      \* LIMA frames in a PCO image
IsLive == mode \in {"edge", "live"}
NeverEndless == mode \in {"last", "edge"}    \* for (iLimaFrame < requested_nb_frames)

(* PCO images to transfer: dwRequestedFrames, halved for double images *)
Units == (IF req > 0 \/ NeverEndless THEN req ELSE DWordMax) \div Per

(* A recording is over when it is read; the thread has corrected the frame  *)
(* count to what was recorded, and to whole pairs, which may leave 0.       *)
Recorded(asked) == Per * MinOf(valid, asked \div Per)

Init ==
    /\ mode \in Modes
    /\ IF IsLive THEN req \in Requests /\ recording = TRUE /\ valid = 0
       ELSE /\ recording = FALSE /\ valid \in 0 .. MaxImages
            /\ req \in {Recorded(asked) : asked \in Requests \ {0}}
    /\ pc = "loop" /\ k = 0 /\ image = 0 /\ seen = "unset" /\ ret = "none"
    /\ frames = <<>> /\ acqFrames = 0 /\ stop = FALSE /\ stopAt = 0
    /\ pool = [s \in Slots |-> 0] /\ saved = 0

----------------------------------------------------------------------------
(* the image asked of PCO_GetImageEx; 0 is the newest one *)
ImageIdx_First ==                       \* mutated form: every sequence is read from its start
    IF IsLive THEN 0 ELSE k + 1

ImageIdx ==
    IF IsLive THEN 0
    ELSE IF mode = "last" THEN MinOf(valid - req + 1 + k, valid) ELSE k + 1

Loop ==
    /\ pc = "loop" /\ k < Units
    /\ pc' = IF NeverEndless THEN "read" ELSE "wait"
    /\ UNCHANGED <<config, thread, request, camera, pool, saved>>

(* "waits up to recorded images": no look at the stop request, no limit *)
ImageThere == valid > 0 /\ (ImageIdx = 0 \/ valid >= ImageIdx)

Waited ==
    /\ pc = "wait" /\ ImageThere
    /\ pc' = "read"
    /\ UNCHANGED <<config, thread, request, camera, pool, saved>>

Poll == pc = "wait" /\ ~ImageThere /\ UNCHANGED vars

Read ==                                 \* PCO_GetImageEx
    /\ pc = "read" /\ valid > 0
    /\ image' = IF ImageIdx = 0 THEN valid ELSE ImageIdx
    /\ pc' = "first"
    /\ UNCHANGED <<config, k, seen, ret, frames, acqFrames, request, camera, pool, saved>>

Die ==                                  \* an exception leaves the thread
    /\ pc' = "dead"
    /\ UNCHANGED <<config, thread, request, camera, pool, saved>>

ReadTimeout == pc = "read" /\ valid = 0 /\ Die     \* after about 5 s
CameraThrows == pc \in {"wait", "read"} /\ Die     \* an SDK error

----------------------------------------------------------------------------
(* _getLimaBuffer: LIMA's pool has a free buffer for the frame; the buffer  *)
(* of a frame is found by its number (external)                             *)
Awaited_OffByOne(f) == f <= saved + LimaBuffers    \* mutated form
Awaited(f) == f < saved + LimaBuffers

LimaFrame(half) == k * Per + half

(* copied to LIMA's buffer and announced by newFrameReady *)
Announce(half) ==
    /\ Awaited(LimaFrame(half))
    /\ pool' = [pool EXCEPT ![LimaFrame(half) % LimaBuffers] = LimaFrame(half) + 1]
    /\ frames' = Append(frames, [nr |-> LimaFrame(half), image |-> image, half |-> half])
    /\ UNCHANGED <<config, k, image, seen, ret, acqFrames, request, camera, saved>>

First == pc = "first" /\ Announce(0) /\ pc' = IF mode = "double" THEN "second" ELSE "check"
Second == pc = "second" /\ Announce(1) /\ pc' = "check"

NoBuffer == \/ pc = "first" /\ ~Awaited(LimaFrame(0))
            \/ pc = "second" /\ ~Awaited(LimaFrame(1))
NoLimaBuffer_Waits == NoBuffer /\ UNCHANGED vars   \* mutated form: no end after 30 s
NoLimaBuffer == NoBuffer /\ Die                    \* after 30 s: THROW_HW_ERROR

----------------------------------------------------------------------------
StopSeen_NotLive == stop /\ req > 0                \* mutated form: not in an endless transfer
StopSeen == stop

CheckStop ==                            \* break, without setAcqFrames
    /\ pc = "check" /\ StopSeen
    /\ seen' = "stop" /\ ret' = "TransferStop" /\ pc' = "done"
    /\ UNCHANGED <<config, k, image, frames, acqFrames, request, camera, pool, saved>>

(* the double transfer counts up to the index of the pair's second frame *)
Counted_Images == k + 1                 \* mutated form: images are counted, not frames
Counted == IF mode = "double" THEN LimaFrame(1) ELSE k + 1

Count ==                                \* setAcqFrames
    /\ pc = "check" /\ ~StopSeen
    /\ seen' = "no" /\ acqFrames' = Counted /\ k' = k + 1 /\ pc' = "loop"
    /\ UNCHANGED <<config, image, ret, frames, request, camera, pool, saved>>

(* a transfer that had nothing to do returns what its uninitialised         *)
(* _stopReq says                                                            *)
Finish ==
    /\ pc = "loop" /\ k >= Units
    /\ ret' \in (IF seen = "unset" THEN {"TransferEnd", "TransferStop"} ELSE {"TransferEnd"})
    /\ pc' = "done"
    /\ UNCHANGED <<config, k, image, seen, frames, acqFrames, request, camera, pool, saved>>

Transfer ==
    \/ Loop \/ Waited \/ Read \/ ReadTimeout \/ First \/ Second \/ NoLimaBuffer
    \/ CheckStop \/ Count \/ Finish

----------------------------------------------------------------------------
(* the client, the camera, and LIMA, which releases a frame once it is saved *)
RequestStop ==
    /\ ~stop /\ pc \notin {"done", "dead"}
    /\ stop' = TRUE /\ stopAt' = Len(frames)
    /\ UNCHANGED <<config, pc, thread, camera, pool, saved>>

Expose ==
    /\ recording /\ valid < MaxImages /\ pc \notin {"done", "dead"}
    /\ valid' = valid + 1
    /\ UNCHANGED <<config, pc, thread, request, recording, pool, saved>>

Release ==
    /\ saved < Len(frames)
    /\ saved' = saved + 1
    /\ UNCHANGED <<config, pc, thread, request, camera, pool>>

Ended == pc \in {"done", "dead"} /\ UNCHANGED vars

Next ==
    \/ Transfer \/ CameraThrows \/ Poll \/ RequestStop \/ Expose \/ Release \/ Ended

(* the thread is scheduled, and its waits for a LIMA buffer and in the SDK  *)
(* time out; nobody has to take images, to release frames or to stop        *)
Spec == Init /\ [][Next]_vars /\ WF_vars(Transfer)

----------------------------------------------------------------------------
Frames == [nr : Nat, image : Nat, half : {0, 1}]

(* Every variable of the transfer stays in its domain.                      *)
TypeOK ==
    /\ mode \in {"last", "edge", "first", "live", "double"} /\ req \in Nat
    /\ pc \in {"loop", "wait", "read", "first", "second", "check", "done", "dead"}
    /\ k \in Nat /\ image \in Nat /\ seen \in {"unset", "no", "stop"}
    /\ ret \in {"none", "TransferEnd", "TransferStop"}
    /\ frames \in Seq(Frames) /\ acqFrames \in Nat
    /\ stop \in BOOLEAN /\ stopAt \in Nat /\ valid \in Nat /\ recording \in BOOLEAN
    /\ pool \in [Slots -> Nat] /\ saved \in Nat

(* The frames are announced in order, each with its image: the last images  *)
(* of a ring recording, the first ones of a sequence, both halves of one    *)
(* image next to each other, and never an older image in a live transfer.   *)
FirstImage == IF mode = "last" THEN valid - req + 1 ELSE 1
FrameHasItsImage ==
    \A n \in 1 .. Len(frames) :
        /\ frames[n].nr = n - 1
        /\ IF IsLive
           THEN /\ frames[n].image \in 1 .. valid
                /\ n > 1 => frames[n - 1].image <= frames[n].image
           ELSE /\ frames[n].image = FirstImage + (n - 1) \div Per
                /\ frames[n].half = (n - 1) % Per

(* A frame LIMA has not released is still in its buffer of the pool.        *)
HeldFramesKept ==
    \A f \in saved .. Len(frames) - 1 : pool[f % LimaBuffers] = f + 1

(* A transfer that ends normally has announced every frame of the count,    *)
(* and counted them all, but one of the double images.                      *)
ResultIsTrue ==
    /\ ret = "TransferEnd" => /\ Len(frames) = Per * Units
                              /\ frames # <<>> => acqFrames = Len(frames) - (Per - 1)
    /\ ret = "TransferStop" => stop \/ frames = <<>>

(* After a stop request at most one more image is announced.                *)
StopIsPrompt == stop => Len(frames) <= stopAt + Per

(* A stop request ends the transfer, unless it waits for an image the       *)
(* camera does not give.                                                    *)
StopReturns == stop ~> pc \in {"done", "dead"} \/ (pc = "wait" /\ ~ImageThere)
============================================================================
