--------------------------- MODULE PcoXferDouble ---------------------------
(* BufferCtrlObj::_xferImagDoubleImage: a Dimax has recorded double images, *)
(* and its acquisition thread reads them back through a ring of Nrevents    *)
(* SDK buffers.  Each PCO image is two LIMA frames, whose LIMA buffers are  *)
(* chosen when the image is asked for and written when it has come.  Unlike *)
(* _xferImag it waits for the events of all buffers, marks those that are   *)
(* set as ready, and counts its timeouts.  The recording is over, so the    *)
(* camera is not one of an Edge (_isRunAfterAssign is false).               *)
EXTENDS Integers, Sequences

CONSTANTS
    Requests,     \* the frame counts the client asks for, none of them 0
    Retries,      \* the values of acqTimeoutRetry, 0 = no limit
    Nrevents,     \* m_pco_buffer_nrevents, the number of ring buffers
    LimaBuffers,  \* the buffers of LIMA's pool
    DWordMax,     \* bound: DWORD_MAX, the frames of an endless transfer
    MaxImages     \* bound: images recorded

ASSUME SizesAssumption ==
    /\ Requests \subseteq Nat \ {0} /\ Retries \subseteq Nat
    /\ Nrevents \in Nat \ {0} /\ LimaBuffers \in Nat \ {0}
    /\ DWordMax \in Nat /\ MaxImages \in Nat

VARIABLES
    req, limit, valid,        \* getNbFrames and acqTimeoutRetry at entry, the images recorded
    pc, pair, first, buf,     \* dwPcoFrameIdx, dwPcoFrameFirst2assign, bufIdx
    retries, ret,             \* maxWaitTimeout, and the status returned
    assigned, marked,         \* m_allocBuff: bufferAssignedFrameFirst, bufferReady
    pending, event, content,  \* the SDK: queue, event flags, the image in each buffer
    stop, acqFrames,          \* SyncCtrlObj
    frames,                   \* the frames announced to LIMA
    pool, saved               \* LIMA: the frame in each buffer, and the frames released

config == <<req, limit, valid>>
locals == <<pair, first, buf, retries, ret>>
ring   == <<assigned, marked>>
sdk    == <<pending, event, content>>
lima   == <<frames, pool, saved>>
vars   == <<config, pc, locals, ring, sdk, stop, acqFrames, lima>>

MinOf(a, b) == IF a < b THEN a ELSE b

Ring  == 0 .. Nrevents - 1
Slots == 0 .. LimaBuffers - 1
Pairs == (IF req > 0 THEN req ELSE DWordMax) \div 2    \* dwPcoRequestedFrames

(* the thread has corrected the frame count to the images recorded and to   *)
(* whole pairs, which may leave 0                                           *)
Recorded(asked) == 2 * MinOf(valid, asked \div 2)

(* the SDK's events are as the transfer before left them *)
Init ==
    /\ limit \in Retries /\ valid \in 0 .. MaxImages
    /\ req \in {Recorded(asked) : asked \in Requests}
    /\ pc = "assign" /\ pair = 1 /\ first = 1 /\ buf = 0 /\ retries = limit /\ ret = "none"
    /\ assigned = [b \in Ring |-> 0] /\ marked = [b \in Ring |-> FALSE]
    /\ pending = <<>> /\ event \in [Ring -> BOOLEAN] /\ content = [b \in Ring |-> 0]
    /\ stop = FALSE /\ acqFrames = 0 /\ frames = <<>>
    /\ pool = [s \in Slots |-> 0] /\ saved = 0

----------------------------------------------------------------------------
(* LIMA: a frame's buffer is found by its number; it is in use from the     *)
(* announcement of a frame to its release (external)                        *)
Slot(f) == f % LimaBuffers
InUse(slot) == \E g \in saved .. Len(frames) - 1 : Slot(g) = slot

LimaFrame(p, half) == 2 * (p - 1) + half

(* _assignImage2Buffer waits for the buffer of the first frame, then, for   *)
(* the second frame, for the same buffer again                              *)
LimaReady_Never(p) == TRUE              \* mutated form: the buffer is taken without a wait
LimaReady(p) == ~InUse(Slot(LimaFrame(p, 0)))

(* _assignImage2Buffer: PCO_AddBufferEx resets the event *)
Assign_KeepsMark(b) ==                  \* mutated form: bufferReady is not reset
    /\ LimaReady(first)
    /\ assigned' = [assigned EXCEPT ![b] = first]
    /\ pending' = Append(pending, b) /\ event' = [event EXCEPT ![b] = FALSE]
    /\ first' = first + 1
    /\ UNCHANGED <<marked, content>>

Assign(b) ==
    /\ LimaReady(first)
    /\ assigned' = [assigned EXCEPT ![b] = first]
    /\ marked' = [marked EXCEPT ![b] = FALSE]
    /\ pending' = Append(pending, b) /\ event' = [event EXCEPT ![b] = FALSE]
    /\ first' = first + 1
    /\ UNCHANGED content

Return(status) ==
    /\ pc' = "done" /\ ret' = status
    /\ UNCHANGED <<config, pair, first, buf, retries, ring, sdk, stop, acqFrames, lima>>

MoreToAssign == first <= Pairs

InitialAssign ==
    /\ pc = "assign" /\ buf < Nrevents /\ MoreToAssign
    /\ Assign(buf)
    /\ buf' = buf + 1
    /\ UNCHANGED <<config, pc, pair, retries, ret, stop, acqFrames, lima>>

InitialAssignDone ==
    /\ pc = "assign" /\ (buf = Nrevents \/ ~MoreToAssign)
    /\ pc' = "loop"
    /\ UNCHANGED <<config, locals, ring, sdk, stop, acqFrames, lima>>

NoLimaBuffer ==                         \* after 30 s
    /\ \/ pc = "assign" /\ buf < Nrevents
       \/ pc = "recycle" /\ ~stop
    /\ MoreToAssign /\ ~LimaReady(first)
    /\ Return("PcoError")

----------------------------------------------------------------------------
(* the loop over the pairs *)

LoopEnd ==
    /\ pc = "loop" /\ pair > Pairs
    /\ Return("TransferEnd")

StopSeen ==                             \* goto _EXIT_STOP
    /\ stop
    /\ (pc = "loop" /\ pair <= Pairs) \/ pc \in {"img1", "img2", "recycle", "wait"}
    /\ Return("TransferStop")

(* the buffer that has the next image *)
Found == {b \in Ring : assigned[b] = pair /\ marked[b]}

FindBuffer ==
    /\ pc = "loop" /\ pair <= Pairs /\ ~stop
    /\ buf' \in Found /\ \A c \in Found : buf' <= c
    /\ pc' = "img1"
    /\ UNCHANGED <<config, pair, first, retries, ret, ring, sdk, stop, acqFrames, lima>>

NoneFound ==
    /\ pc = "loop" /\ pair <= Pairs /\ ~stop /\ Found = {}
    /\ pc' = "wait"
    /\ UNCHANGED <<config, locals, ring, sdk, stop, acqFrames, lima>>

(* memcpy to the LIMA buffer chosen by _assignImage2Buffer, newFrameReady *)
Announce(half) ==
    LET nr == LimaFrame(assigned[buf], half)
    IN  /\ pool' = [pool EXCEPT ![Slot(nr)] = nr + 1]
        /\ frames' = Append(frames, [nr |-> nr, image |-> content[buf], half |-> half])
        /\ UNCHANGED <<config, locals, ring, sdk, stop, acqFrames, saved>>

Img1 == pc = "img1" /\ ~stop /\ Announce(0) /\ pc' = "img2"
Img2 == pc = "img2" /\ ~stop /\ Announce(1) /\ pc' = "recycle"

NextPair ==                             \* setAcqFrames
    /\ acqFrames' = pair * 2 /\ pair' = pair + 1
    /\ pc' = "loop"
    /\ UNCHANGED <<config, buf, retries, ret, stop, lima>>

Reassign == pc = "recycle" /\ ~stop /\ MoreToAssign /\ Assign(buf) /\ NextPair

NoneToAssign ==                         \* the event and the mark stay
    /\ pc = "recycle" /\ ~stop /\ ~MoreToAssign
    /\ NextPair
    /\ UNCHANGED <<first, ring, sdk>>

----------------------------------------------------------------------------
(* WaitForMultipleObjects, for any of the events *)

Fired == [b \in Ring |-> marked[b] \/ event[b]]

WaitFired ==
    /\ pc = "wait" /\ ~stop /\ \E b \in Ring : event[b]
    /\ marked' = Fired
    /\ pc' = "loop"
    /\ UNCHANGED <<config, locals, assigned, sdk, stop, acqFrames, lima>>

TimedOut == pc = "wait" /\ ~stop /\ \A b \in Ring : ~event[b]

(* maxWaitTimeout counts down, through 0 to ever smaller numbers *)
RetriesLeft_Kept == retries             \* mutated form: the timeouts are not counted
RetriesLeft == IF retries > 0 THEN retries - 1 ELSE -1

WaitRetry ==
    /\ TimedOut /\ RetriesLeft # 0
    /\ retries' = RetriesLeft
    /\ UNCHANGED <<config, pc, pair, first, buf, ret, ring, sdk, stop, acqFrames, lima>>

WaitAbort ==
    /\ TimedOut /\ RetriesLeft = 0
    /\ pc' = "done" /\ ret' = "WaitTimeout" /\ retries' = 0
    /\ UNCHANGED <<config, pair, first, buf, ring, sdk, stop, acqFrames, lima>>

(* PCO_AddBufferEx or PCO_GetBufferStatus fails: thrown, and not caught *)
CameraThrows ==
    /\ \/ pc = "assign" /\ buf < Nrevents /\ MoreToAssign
       \/ pc = "img1" /\ ~stop
       \/ pc = "recycle" /\ ~stop /\ MoreToAssign
    /\ pc' = "dead"
    /\ UNCHANGED <<config, locals, ring, sdk, stop, acqFrames, lima>>

Transfer ==
    \/ InitialAssign \/ InitialAssignDone \/ NoLimaBuffer
    \/ LoopEnd \/ StopSeen \/ FindBuffer \/ NoneFound \/ Img1 \/ Img2
    \/ Reassign \/ NoneToAssign \/ WaitFired \/ WaitRetry \/ WaitAbort

----------------------------------------------------------------------------
(* the SDK, the client, and LIMA *)

(* the recorded image PCO_AddBufferEx asked for; image 0, of a count of 0,  *)
(* is the newest one of a camera that records, which this one does not      *)
ReadOut ==
    /\ pending # <<>> /\ req > 0 /\ pc \notin {"done", "dead"}
    /\ content' = [content EXCEPT ![Head(pending)] = assigned[Head(pending)]]
    /\ event' = [event EXCEPT ![Head(pending)] = TRUE]
    /\ pending' = Tail(pending)
    /\ UNCHANGED <<config, pc, locals, ring, stop, acqFrames, lima>>

RequestStop ==
    /\ ~stop /\ pc \notin {"done", "dead"}
    /\ stop' = TRUE
    /\ UNCHANGED <<config, pc, locals, ring, sdk, acqFrames, lima>>

Release ==                              \* the oldest frame is saved
    /\ saved < Len(frames)
    /\ saved' = saved + 1
    /\ UNCHANGED <<config, pc, locals, ring, sdk, stop, acqFrames, frames, pool>>

Ended == pc \in {"done", "dead"}
Stopped == Ended /\ UNCHANGED vars

Next == Transfer \/ CameraThrows \/ ReadOut \/ RequestStop \/ Release \/ Stopped

(* the thread is scheduled and its waits time out; the SDK need not deliver *)
(* an image, LIMA need not release a frame, and nobody has to stop          *)
Spec == Init /\ [][Next]_vars /\ WF_vars(Transfer)

----------------------------------------------------------------------------
Frames == [nr : Nat, image : Nat, half : {0, 1}]

(* Every variable of the transfer stays in its domain.                      *)
TypeOK ==
    /\ req \in Nat /\ limit \in Nat /\ valid \in Nat
    /\ pc \in {"assign", "loop", "img1", "img2", "recycle", "wait", "done", "dead"}
    /\ pair \in Nat \ {0} /\ first \in Nat \ {0} /\ buf \in 0 .. Nrevents
    /\ retries \in Int /\ ret \in {"none", "TransferEnd", "TransferStop", "WaitTimeout", "PcoError"}
    /\ assigned \in [Ring -> Nat] /\ marked \in [Ring -> BOOLEAN]
    /\ pending \in Seq(Ring) /\ event \in [Ring -> BOOLEAN] /\ content \in [Ring -> Nat]
    /\ stop \in BOOLEAN /\ acqFrames \in Nat
    /\ frames \in Seq(Frames) /\ pool \in [Slots -> Nat] /\ saved \in Nat

(* The two halves of each recorded image are announced in order, as the     *)
(* frames of that pair, although events of earlier transfers and of copied  *)
(* images stay set and several buffers are marked at once.                  *)
FrameHasItsImage ==
    \A n \in 1 .. Len(frames) :
        frames[n] = [nr |-> n - 1, image |-> (n - 1) \div 2 + 1, half |-> (n - 1) % 2]

(* When LIMA's pool holds the frames of the whole ring, the first frame of  *)
(* a pair never overwrites a frame LIMA still holds.  The second may: its   *)
(* LIMA buffer is not waited for.                                           *)
OnlySecondOverwrites ==
    LimaBuffers >= 2 * Nrevents =>
        \A f \in saved .. Len(frames) - 1 :
            pool[Slot(f)] # f + 1 => (pool[Slot(f)] - 1) % 2 = 1

(* With a limit on the timeouts the transfer ends, even when no image comes *)
(* any more, unless an event nobody will reset, of an image already copied  *)
(* or of an earlier transfer, keeps the wait from ever timing out.          *)
StaleEvent == \E b \in Ring : event[b] /\ assigned[b] < pair
TimeoutsEnd == limit > 0 => <>Ended \/ <>[]StaleEvent
============================================================================
