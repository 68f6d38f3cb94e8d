------------------------------ MODULE PcoAcq ------------------------------
(* The life of an acquisition under Windows: SyncCtrlObj (started flag,     *)
(* exposing status, stop request, frame counts), Camera::startAcq, and the  *)
(* acquisition threads it begins: edge, dimax (record, then transfer),      *)
(* dimax_trig_single and dimax_live.  One client thread (LIMA's control)    *)
(* prepares, starts and stops; the camera records on its own.  The transfer *)
(* functions of BufferCtrlObj are abstracted to "announce the next frame or *)
(* end"; PcoXferImag has the detail.                                        *)
EXTENDS Integers

CONSTANTS
    Kinds,      \* camera type and interface, a subset of AllKinds
    TrigModes,  \* a subset of {"IntTrig", "ExtTrigMult", "ExtTrigSingle"}
    Requests,   \* the frame counts the client asks for, 0 = until stopped
    ForcedFifo, \* the values of recorderForcedFifo, a subset of BOOLEAN
    HwMax,      \* images the active RAM segment holds
    CalcMax,    \* what _pco_GetNumberOfImagesInSegment_MaxCalc estimates
    WordSize,   \* 2^16, the modulus of a WORD
    MaxFrames,  \* bound: frames counted in an acquisition without limit
    Tids        \* bound: acquisition threads alive at the same time

AllKinds == {"Edge", "EdgeCL", "Dimax", "Pco4k"}

ASSUME KindsAssumption == Kinds \subseteq AllKinds
ASSUME TrigAssumption == TrigModes \subseteq {"IntTrig", "ExtTrigMult", "ExtTrigSingle"}
ASSUME RequestsAssumption == Requests \subseteq 0 .. MaxFrames /\ ForcedFifo \subseteq BOOLEAN
ASSUME SizesAssumption == HwMax \in Nat /\ CalcMax \in Nat \ {0} /\ WordSize \in Nat \ {0}
                          /\ MaxFrames \in Nat

VARIABLES
    kind, trig, forced,                          \* configuration
    started, exposing, requestStop, nrStop,      \* SyncCtrlObj
    nbFrames, acqFrames,
    recording, valid,                            \* the camera
    cpc, prepared, asked,                        \* the client
    thr                                          \* the acquisition threads

config == <<kind, trig, forced>>
request == <<requestStop, nrStop>>
client == <<cpc, prepared, asked>>
vars == <<config, started, exposing, request, nbFrames, acqFrames,
          recording, valid, client, thr>>

RunAfterAssign == kind = "EdgeCL"
IsEdge == kind \in {"Edge", "EdgeCL"}
MaxNrStop == 0
StopRequested_Later == requestStop /\ nrStop > MaxNrStop + 1   \* mutated form: off by one
StopRequested == requestStop /\ nrStop > MaxNrStop
MinOf(a, b) == IF a < b THEN a ELSE b

(* a thread: its function, where it is, the frame count it read, why it     *)
(* left the record loop, the frames it is to transfer (0: no limit) and has *)
(* transferred, and the result                                              *)
Functions == {"edge", "live", "dimax", "trig"}
NoThread == [fn |-> "none", pc |-> "none", nb |-> 0, why |-> "full",
             limit |-> 0, done |-> 0, status |-> "Idle"]
Live(t) == thr[t].fn # "none"
LiveMode == nbFrames = 0 \/ forced
ThreadFunction == IF IsEdge THEN "edge"
                  ELSE IF LiveMode THEN "live"
                  ELSE IF trig = "ExtTrigSingle" THEN "trig" ELSE "dimax"

(* SyncCtrlObj::getStatus *)
Status ==
    IF ~started THEN "Ready"
    ELSE IF exposing \in {"RecordStop", "RecordTimeout", "WaitTimeout", "WaitError",
                          "Error", "PcoError"} THEN "Fault"
    ELSE "Running"

Init ==
    /\ kind \in Kinds /\ trig \in TrigModes /\ forced \in ForcedFifo
    /\ started = FALSE /\ exposing = "Idle" /\ requestStop = FALSE /\ nrStop = 0
    /\ nbFrames = 1 /\ acqFrames = 0 /\ recording = FALSE /\ valid = 0
    /\ cpc = "idle" /\ prepared = FALSE /\ asked = 1
    /\ thr = [t \in Tids |-> NoThread]

----------------------------------------------------------------------------
(* _pco_SetRecordingState: a new recording empties the segment; when it     *)
(* starts the camera it also tells the client, which waits for that         *)
RecordOn ==
    IF recording THEN UNCHANGED <<recording, valid, exposing>>
    ELSE recording' = TRUE /\ valid' = 0 /\ exposing' = "RecordStart"

RecordOnFails == ~recording /\ UNCHANGED <<recording, valid, exposing>>

----------------------------------------------------------------------------
(* the client *)

(* setNbHwFrames and Camera::prepareAcq, which stops any recording; LIMA    *)
(* prepares only when the status is not Running (external)                  *)
Prepare ==
    /\ cpc = "idle" /\ Status # "Running"
    /\ asked' \in Requests /\ nbFrames' = asked'
    /\ recording' = FALSE /\ prepared' = TRUE
    /\ UNCHANGED <<config, started, exposing, request, acqFrames, valid, cpc, thr>>

StartEnter_NoCheck ==                   \* mutated form: started is not tested
    /\ cpc = "idle" /\ prepared
    /\ prepared' = FALSE
    /\ requestStop' = FALSE /\ nrStop' = 0
    /\ exposing' = "Start" /\ cpc' = "camera"
    /\ UNCHANGED <<config, started, nbFrames, acqFrames, recording, valid, asked, thr>>

(* SyncCtrlObj::startAcq, up to the call of Camera::startAcq *)
StartEnter ==
    /\ cpc = "idle" /\ prepared
    /\ prepared' = FALSE
    /\ IF started
       THEN UNCHANGED <<exposing, request, cpc>>
       ELSE /\ requestStop' = FALSE /\ nrStop' = 0
            /\ exposing' = "Start" /\ cpc' = "camera"
    /\ UNCHANGED <<config, started, nbFrames, acqFrames, recording, valid, asked, thr>>

(* Camera::startAcq: setStarted(true), and the range check *)
OutOfRange == ~IsEdge /\ nbFrames > CalcMax /\ ~forced

StartCamera ==
    /\ cpc = "camera" /\ ~OutOfRange
    /\ started' = TRUE /\ exposing' = "Start" /\ cpc' = "record"
    /\ UNCHANGED <<config, request, nbFrames, acqFrames, recording, valid,
                   prepared, asked, thr>>

StartRejected ==                        \* throws InvalidValue to the client
    /\ cpc = "camera" /\ OutOfRange
    /\ started' = FALSE /\ exposing' = "Error" /\ cpc' = "idle"
    /\ UNCHANGED <<config, request, nbFrames, acqFrames, recording, valid,
                   prepared, asked, thr>>

(* recordingState 1: its error is ignored, but _pco_GetRecordingState, read *)
(* before and after, throws, and startAcq is left with the flag set         *)
StartRecord ==
    /\ cpc = "record"
    /\ \/ RunAfterAssign /\ UNCHANGED <<recording, valid, exposing>>
       \/ ~RunAfterAssign /\ (RecordOn \/ RecordOnFails)
    /\ cpc' = "begin"
    /\ UNCHANGED <<config, started, request, nbFrames, acqFrames, prepared, asked, thr>>

StartThrows ==
    /\ cpc = "record" /\ ~RunAfterAssign
    /\ RecordOn \/ RecordOnFails
    /\ cpc' = "idle"
    /\ UNCHANGED <<config, started, request, nbFrames, acqFrames, prepared, asked, thr>>

BeginThread ==                          \* _beginthread
    /\ cpc = "begin"
    /\ \E t \in Tids :
          ~Live(t) /\ thr' = [thr EXCEPT ![t] = [NoThread EXCEPT !.fn = ThreadFunction, !.pc = "entry"]]
    /\ cpc' = "check"
    /\ UNCHANGED <<config, started, exposing, request, nbFrames, acqFrames,
                   recording, valid, prepared, asked>>

StartCheck ==                           \* back in SyncCtrlObj::startAcq
    /\ cpc = "check"
    /\ IF exposing = "Error" THEN started' = FALSE /\ cpc' = "idle"
       ELSE UNCHANGED started /\ cpc' = "wait"
    /\ UNCHANGED <<config, exposing, request, nbFrames, acqFrames, recording, valid,
                   prepared, asked, thr>>

(* the wait for exposing # Start ends after three waits of 2 s as well;     *)
(* setStarted(true) then follows without the mutex                          *)
StartWaited ==
    /\ cpc = "wait"
    /\ cpc' = "started"
    /\ UNCHANGED <<config, started, exposing, request, nbFrames, acqFrames, recording, valid,
                   prepared, asked, thr>>

StartReturn ==
    /\ cpc = "started"
    /\ started' = TRUE /\ cpc' = "idle"
    /\ UNCHANGED <<config, exposing, request, nbFrames, acqFrames, recording, valid,
                   prepared, asked, thr>>

StopEnter ==
    /\ cpc = "idle" /\ cpc' = "stop"
    /\ UNCHANGED <<config, started, exposing, request, nbFrames, acqFrames, recording, valid,
                   prepared, asked, thr>>

(* while (started) { _setRequestStop(stopRequest); wait 5 s } *)
StopRequest ==
    /\ cpc = "stop" /\ started
    /\ requestStop' = TRUE /\ nrStop' = MaxNrStop + 1
    /\ UNCHANGED <<config, started, exposing, nbFrames, acqFrames, recording, valid,
                   client, thr>>

StopReturn ==
    /\ cpc = "stop" /\ ~started
    /\ cpc' = "idle"
    /\ UNCHANGED <<config, started, exposing, request, nbFrames, acqFrames, recording, valid,
                   prepared, asked, thr>>

Client ==
    \/ StartCamera \/ StartRejected \/ StartRecord \/ StartThrows \/ BeginThread \/ StartCheck
    \/ StartWaited \/ StartReturn \/ StopRequest \/ StopReturn

----------------------------------------------------------------------------
(* the acquisition threads *)

At(t, pc) == thr[t].pc = pc
Goto(t, pc) == thr' = [thr EXCEPT ![t].pc = pc]

(* dimax and dimax_trig_single read the frame count; dimax keeps it in a WORD *)
RecordInit(t) ==
    /\ At(t, "entry") /\ thr[t].fn \in {"dimax", "trig"}
    /\ thr' = [thr EXCEPT ![t].nb = nbFrames,
                          ![t].pc = IF thr[t].fn = "dimax" THEN "recloop" ELSE "trigcheck"]
    /\ acqFrames' = 0 /\ exposing' = "RecordStart"
    /\ UNCHANGED <<config, started, request, nbFrames, recording, valid, client>>

PcoRequested(t) == thr[t].nb % WordSize

LeaveRecordLoop(t, why) ==
    thr' = [thr EXCEPT ![t].pc = "recstop", ![t].why = why]

RecordTooMany_NoBreak(t) ==             \* mutated form: the loop is not left
    /\ \/ At(t, "recloop") /\ PcoRequested(t) > HwMax
       \/ At(t, "trigcheck") /\ thr[t].nb > HwMax
    /\ exposing' = "Error"
    /\ UNCHANGED <<config, started, request, nbFrames, acqFrames, recording, valid, client, thr>>

RecordTooMany(t) ==                     \* INVALID NR FRAMES fixed
    /\ \/ At(t, "recloop") /\ PcoRequested(t) > HwMax
       \/ At(t, "trigcheck") /\ thr[t].nb > HwMax
    /\ exposing' = "Error"
    /\ LeaveRecordLoop(t, "range")
    /\ UNCHANGED <<config, started, request, nbFrames, acqFrames, recording, valid, client>>

RecordFull(t) ==
    /\ At(t, "recloop") /\ PcoRequested(t) <= HwMax /\ valid >= PcoRequested(t)
    /\ LeaveRecordLoop(t, "full")
    /\ UNCHANGED <<config, started, exposing, request, nbFrames, acqFrames, recording, valid, client>>

RecordTimeout_Always(t) ==              \* mutated form: external triggers time out too
    /\ At(t, "recloop") /\ PcoRequested(t) <= HwMax /\ valid < PcoRequested(t)
    /\ exposing' = "Stop"
    /\ LeaveRecordLoop(t, "timeout")
    /\ UNCHANGED <<config, started, request, nbFrames, acqFrames, recording, valid, client>>

RecordTimeout(t) ==                     \* not when an external trigger is enabled
    /\ At(t, "recloop") /\ PcoRequested(t) <= HwMax /\ valid < PcoRequested(t)
    /\ trig = "IntTrig"
    /\ exposing' = "Stop"
    /\ LeaveRecordLoop(t, "timeout")
    /\ UNCHANGED <<config, started, request, nbFrames, acqFrames, recording, valid, client>>

TrigLoop(t) ==
    /\ At(t, "trigcheck") /\ thr[t].nb <= HwMax
    /\ Goto(t, "trigloop")
    /\ UNCHANGED <<config, started, exposing, request, nbFrames, acqFrames, recording, valid, client>>

TrigRecorded(t) ==                      \* the camera has stopped by itself
    /\ At(t, "trigloop") /\ ~recording
    /\ LeaveRecordLoop(t, "full")
    /\ UNCHANGED <<config, started, exposing, request, nbFrames, acqFrames, recording, valid, client>>

RecordStopSeen(t) ==                    \* the request is consumed
    /\ \/ At(t, "recloop") /\ PcoRequested(t) <= HwMax /\ valid < PcoRequested(t)
       \/ At(t, "trigloop") /\ recording
    /\ requestStop
    /\ requestStop' = FALSE /\ nrStop' = 0
    /\ LeaveRecordLoop(t, "stop")
    /\ UNCHANGED <<config, started, exposing, nbFrames, acqFrames, recording, valid, client>>

(* an exception that leaves a thread ends the process *)
Terminate ==
    /\ cpc' = "dead" /\ thr' = [t \in Tids |-> NoThread]
    /\ UNCHANGED <<config, started, exposing, request, nbFrames, acqFrames, recording, valid,
                   prepared, asked>>

Throw(t) ==                             \* a camera error: LIMA_HW_EXC
    /\ thr[t].pc \in {"recloop", "trigcheck", "trigloop", "recstop", "recount", "runafter", "lastoff"}
    /\ Terminate

RecordOff(t) ==
    /\ At(t, "recstop")
    /\ recording' = FALSE
    /\ Goto(t, IF thr[t].why \in {"stop", "range"} THEN "end" ELSE "recount")
    /\ UNCHANGED <<config, started, exposing, request, nbFrames, acqFrames, valid, client>>

Acquired(t) == MinOf(valid, IF thr[t].fn = "trig" THEN thr[t].nb ELSE PcoRequested(t))

Recount(t) ==
    /\ At(t, "recount")
    /\ exposing' = IF exposing = "RecordStart" THEN "RecordEnd" ELSE exposing
    /\ nbFrames' = IF Acquired(t) < thr[t].nb THEN Acquired(t) ELSE nbFrames
    /\ Goto(t, "xfer")
    /\ UNCHANGED <<config, started, request, acqFrames, recording, valid, client>>

StreamInit(t) ==                        \* dimax_live and edge
    /\ At(t, "entry") /\ thr[t].fn \in {"edge", "live"}
    /\ acqFrames' = 0
    /\ Goto(t, "xfer")
    /\ UNCHANGED <<config, started, exposing, request, nbFrames, recording, valid, client>>

----------------------------------------------------------------------------
(* the transfer, as the thread sees it: _xferImag (edge, and a Dimax that   *)
(* has recorded) looks at the stop request while it waits; _xferImagMult    *)
(* and _xferImag_getImage only after a frame                                *)
Imag(t) == thr[t].fn = "edge" \/ (thr[t].fn = "dimax" /\ kind = "Dimax")

XferEnter(t) ==
    /\ At(t, "xfer")
    /\ thr' = [thr EXCEPT ![t].limit = nbFrames,
                          ![t].pc = IF Imag(t) THEN "assign" ELSE "frames"]
    /\ UNCHANGED <<config, started, exposing, request, nbFrames, acqFrames, recording, valid, client>>

XferAssign(t) ==                        \* the ring of buffers is queued
    /\ At(t, "assign")
    /\ Goto(t, IF RunAfterAssign THEN "runafter" ELSE "frames")
    /\ UNCHANGED <<config, started, exposing, request, nbFrames, acqFrames, recording, valid, client>>

XferRunAfterAssign(t) ==
    /\ At(t, "runafter")
    /\ RecordOn \/ RecordOnFails
    /\ Goto(t, "frames")
    /\ UNCHANGED <<config, started, request, nbFrames, acqFrames, client>>

(* a recorded image is there; a live one comes while the camera records *)
Available(t) == IF thr[t].fn \in {"edge", "live"} THEN recording ELSE thr[t].limit > 0

MoreFrames(t) == thr[t].limit = 0 \/ thr[t].done < thr[t].limit

XferFrame(t) ==                         \* newFrameReady
    /\ At(t, "frames") /\ MoreFrames(t) /\ Available(t)
    /\ ~(Imag(t) /\ StopRequested)
    /\ Goto(t, "frameready")
    /\ UNCHANGED <<config, started, exposing, request, nbFrames, acqFrames, recording, valid, client>>

XferContinue_SameFrame(t) ==            \* mutated form: the frame index is not advanced
    /\ At(t, "frameready") /\ ~StopRequested
    /\ acqFrames' = MinOf(thr[t].done + 1, MaxFrames)
    /\ Goto(t, "frames")
    /\ UNCHANGED <<config, started, exposing, request, nbFrames, recording, valid, client>>

XferContinue(t) ==                      \* setAcqFrames
    /\ At(t, "frameready") /\ ~StopRequested
    /\ acqFrames' = MinOf(thr[t].done + 1, MaxFrames)
    /\ thr' = [thr EXCEPT ![t].done = acqFrames', ![t].pc = "frames"]
    /\ UNCHANGED <<config, started, exposing, request, nbFrames, recording, valid, client>>

XferReturn(t, status) ==
    /\ thr' = [thr EXCEPT ![t].pc = "result", ![t].status = status]
    /\ UNCHANGED <<config, started, exposing, request, nbFrames, acqFrames, recording, valid, client>>

XferEnd(t) ==
    /\ At(t, "frames") /\ ~MoreFrames(t)
    /\ XferReturn(t, "TransferEnd")

XferStop(t) ==
    /\ StopRequested
    /\ At(t, "frameready") \/ (At(t, "frames") /\ Imag(t) /\ MoreFrames(t))
    /\ XferReturn(t, "TransferStop")

XferFails(t) ==                         \* _assignImage2Buffer finds no LIMA buffer
    /\ At(t, "assign") \/ (At(t, "frameready") /\ Imag(t) /\ recording)
    /\ XferReturn(t, "PcoError")

(* _xferImag_getImage with no frame returns what an uninitialised _stopReq says *)
XferNothing(t) ==
    /\ At(t, "frames") /\ thr[t].fn = "trig" /\ thr[t].limit = 0
    /\ \E status \in {"TransferEnd", "TransferStop"} : XferReturn(t, status)

(* PCO_GetImageEx, PCO_GetBufferStatus or PCO_AddBufferEx fails, or there   *)
(* is no LIMA buffer: THROW_HW_ERROR                                        *)
XferThrows(t) ==
    /\ \/ At(t, "frames") /\ MoreFrames(t) /\ ~(Imag(t) /\ StopRequested)
       \/ At(t, "assign")
       \/ At(t, "frameready") /\ Imag(t) /\ recording
    /\ Terminate

----------------------------------------------------------------------------
Result_ClearsStarted(t) ==              \* mutated form: setStarted(false) before the last stop
    /\ At(t, "result")
    /\ exposing' = thr[t].status /\ started' = FALSE
    /\ Goto(t, IF thr[t].fn \in {"edge", "live"} THEN "lastoff" ELSE "end")
    /\ UNCHANGED <<config, request, nbFrames, acqFrames, recording, valid, client>>

Result(t) ==                            \* setExposing(status)
    /\ At(t, "result")
    /\ exposing' = thr[t].status
    /\ Goto(t, IF thr[t].fn \in {"edge", "live"} THEN "lastoff" ELSE "end")
    /\ UNCHANGED <<config, started, request, nbFrames, acqFrames, recording, valid, client>>

LastOff(t) ==                           \* edge and live stop the camera, an error is printed
    /\ At(t, "lastoff")
    /\ recording' \in {FALSE, recording}
    /\ Goto(t, "end")
    /\ UNCHANGED <<config, started, exposing, request, nbFrames, acqFrames, valid, client>>

ThreadEnd_KeepsStarted(t) ==            \* mutated form: setStarted(false) is missing
    /\ At(t, "end")
    /\ thr' = [thr EXCEPT ![t] = NoThread]
    /\ UNCHANGED <<config, started, exposing, request, nbFrames, acqFrames, recording, valid, client>>

ThreadEnd(t) ==                         \* setStarted(false), _endthread
    /\ At(t, "end")
    /\ started' = FALSE
    /\ thr' = [thr EXCEPT ![t] = NoThread]
    /\ UNCHANGED <<config, exposing, request, nbFrames, acqFrames, recording, valid, client>>

Thread(t) ==
    \/ RecordInit(t) \/ RecordTooMany(t) \/ RecordFull(t) \/ RecordTimeout(t)
    \/ TrigLoop(t) \/ TrigRecorded(t) \/ RecordStopSeen(t) \/ RecordOff(t) \/ Recount(t)
    \/ StreamInit(t) \/ XferAssign(t) \/ XferRunAfterAssign(t)
    \/ XferEnter(t) \/ XferFrame(t) \/ XferContinue(t)
    \/ XferEnd(t) \/ XferStop(t) \/ XferNothing(t)
    \/ Result(t) \/ LastOff(t) \/ ThreadEnd(t)

Errors(t) == Throw(t) \/ XferFails(t) \/ XferThrows(t)

----------------------------------------------------------------------------
(* the camera *)

Record ==
    /\ recording /\ ~IsEdge /\ valid < HwMax /\ cpc # "dead"
    /\ valid' = valid + 1
    /\ UNCHANGED <<config, started, exposing, request, nbFrames, acqFrames, recording,
                   client, thr>>

(* PCO_SetRecordStopEvent: a Dimax stops after the trigger and N images *)
RecordStopEvent ==
    /\ recording /\ kind = "Dimax" /\ trig = "ExtTrigSingle" /\ nbFrames > 0 /\ valid > 0
    /\ cpc # "dead"
    /\ recording' = FALSE
    /\ UNCHANGED <<config, started, exposing, request, nbFrames, acqFrames, valid,
                   client, thr>>

Terminated == cpc = "dead" /\ UNCHANGED vars

Next ==
    \/ Prepare \/ StartEnter \/ StopEnter \/ Client
    \/ \E t \in Tids : Thread(t) \/ Errors(t)
    \/ Record \/ RecordStopEvent \/ Terminated

(* the client runs once it has called, the threads are scheduled, and a     *)
(* recording camera takes images; nobody has to call, to stop or to trigger *)
Fairness == WF_vars(Client) /\ WF_vars(Record) /\ \A t \in Tids : WF_vars(Thread(t))

Spec == Init /\ [][Next]_vars /\ Fairness

----------------------------------------------------------------------------
Exposing == {"Idle", "Start", "RecordStart", "RecordEnd", "Stop",
             "TransferEnd", "TransferStop", "Error", "PcoError"}
ThreadPcs == {"none", "entry", "recloop", "trigcheck", "trigloop", "recstop", "recount",
              "xfer", "assign", "runafter", "frames", "frameready", "result", "lastoff", "end"}

ThreadStates == [fn : Functions \cup {"none"}, pc : ThreadPcs, nb : Nat,
                 why : {"full", "timeout", "stop", "range"},
                 limit : Nat, done : Nat, status : Exposing]

(* Every variable of the acquisition stays in its domain.                   *)
TypeOK ==
    /\ kind \in Kinds /\ trig \in TrigModes /\ forced \in ForcedFifo
    /\ started \in BOOLEAN /\ exposing \in Exposing
    /\ requestStop \in BOOLEAN /\ nrStop \in Nat
    /\ nbFrames \in Nat /\ acqFrames \in Nat /\ recording \in BOOLEAN /\ valid \in Nat
    /\ cpc \in {"idle", "camera", "record", "begin", "check", "wait", "started", "stop", "dead"}
    /\ prepared \in BOOLEAN /\ asked \in Nat
    /\ thr \in [Tids -> ThreadStates]

(* The hardware is Ready for LIMA only when no acquisition thread is left   *)
(* that could still announce frames, stop the camera or clear the flag of   *)
(* the next acquisition.  True when MaxCalc does not promise more images    *)
(* than the segment holds.                                                  *)
ReadyIsQuiet == Status = "Ready" => \A t \in Tids : ~Live(t)

(* Two acquisition threads never run at the same time.                      *)
OneThread == \A s, t \in Tids : Live(s) /\ Live(t) => s = t

(* An acquisition that ended normally has transferred exactly the frames    *)
(* SyncCtrlObj says it has; without a record timeout (external trigger) and *)
(* within a WORD those are the frames asked for.                            *)
Ended == Status = "Ready" /\ exposing = "TransferEnd" /\ cpc = "idle" /\ ~prepared
EndCountsFrames ==
    Ended => /\ acqFrames = nbFrames
             /\ trig = "ExtTrigMult" /\ asked < WordSize => acqFrames = asked

(* The flag started outlives its thread only when startAcq sets it after    *)
(* the thread has ended, or throws after setting it.                        *)
Orphaned == started /\ cpc \in {"idle", "stop"} /\ \A t \in Tids : ~Live(t)
ThreadsClearStarted == [][~Orphaned /\ Orphaned' => cpc \in {"started", "record"}]_vars

(* stopAcq returns, unless the flag is orphaned or a transfer that does not *)
(* look at the stop request waits for an image that never comes.            *)
Starved(t) == At(t, "frames") /\ ~Available(t) /\ MoreFrames(t)
StopEnds ==
    cpc = "stop" ~> \/ cpc # "stop" \/ Orphaned
                    \/ \E t \in Tids : Starved(t) /\ ~Imag(t)

(* An acquisition of a number of frames ends by itself, unless the camera   *)
(* gives no image or waits for its trigger.                                 *)
AcqEnds ==
    \A t \in Tids :
        (Live(t) /\ nbFrames > 0 /\ trig # "ExtTrigSingle")
            ~> (~Live(t) \/ Starved(t) \/ (At(t, "recloop") /\ ~recording))

(* "stop recording -> modified to be sync": when stopAcq returns no         *)
(* acquisition thread is left.                                              *)
StopIsSync == [][cpc = "stop" /\ cpc' = "idle" => \A t \in Tids : ~Live(t)]_vars

(* The acquisition implements the abstract one, with its live threads as    *)
(* the runs: one at a time, each under the flag, and none left when stopAcq *)
(* returns.  True when CalcMax does not promise more images than the        *)
(* segment holds.                                                           *)
Call ==
    IF cpc \in {"camera", "record", "begin", "check", "wait", "started"} THEN "start"
    ELSE IF cpc \in {"stop", "dead"} THEN cpc ELSE "none"
Acquisition == INSTANCE PcoAcquisition WITH
                   Runs <- Tids, flag <- started, runs <- {t \in Tids : Live(t)}, call <- Call
ImplementsAcquisition == Acquisition!Spec
==========================================================================
