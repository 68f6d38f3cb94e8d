----------------------------- MODULE PcoLinAcq -----------------------------
(* The life of an acquisition under Linux: Camera::startAcq wakes one       *)
(* acquisition thread that lives as long as the camera (Edge: stream;       *)
(* Dimax: record, then read out); a second thread switches the shutter of   *)
(* an Edge.  Both wait on m_cond with m_wait_flag, m_wait_flag_rolling and  *)
(* the quit flags.  The client makes the calls of Interface and, at the     *)
(* end, deletes the camera.  A critical section of m_cond's mutex is one    *)
(* step, except the switch, which keeps the mutex while the camera reboots. *)
EXTENDS Integers

CONSTANTS
    Kinds,        \* a subset of {"Edge", "Dimax"}
    Requests,     \* the frame counts the client asks for, 0 = until stopped
    HwMax,        \* images the active RAM segment holds
    MaxFrames,    \* bound: frames counted in an acquisition without limit
    Switches,     \* does the client change the shutter, at any time?
    Destroys      \* may the client delete the camera?

ASSUME KindsAssumption == Kinds \subseteq {"Edge", "Dimax"}
ASSUME SizesAssumption == Requests \subseteq 0 .. MaxFrames /\ HwMax \in Nat /\ MaxFrames \in Nat
ASSUME ClientAssumption == Switches \in BOOLEAN /\ Destroys \in BOOLEAN

VARIABLES
    kind, ext,                                   \* camera, external trigger enabled
    waitFlag, quit, waitRolling, mutex, status,  \* Camera
    started, exposing, stopReq, nbFrames,        \* SyncCtrlObj
    recording, valid,                            \* the camera
    cpc, prepared,                               \* the client
    acq,                                         \* the acquisition thread
    swpc                                         \* the switch thread

config == <<kind, ext>>
flags == <<waitFlag, quit, waitRolling, mutex, status>>
sync == <<started, exposing, stopReq, nbFrames>>
camera == <<recording, valid>>
client == <<cpc, prepared>>
vars == <<config, flags, sync, camera, client, acq, swpc>>

MinOf(a, b) == IF a < b THEN a ELSE b

(* the locals of the thread function: the frame count it read, the one      *)
(* _waitForRecording read, limaFrameNr, why the record loop ended, and      *)
(* bRequestStop                                                             *)
NoAcq == [pc |-> "init", nb |-> 0, rec |-> 0, frame |-> 0, why |-> "none", stop |-> FALSE]

At(pc) == acq.pc = pc
Goto(pc) == acq' = [acq EXCEPT !.pc = pc]
Free == mutex = "none"

Init ==
    /\ kind \in Kinds /\ ext \in BOOLEAN
    /\ waitFlag = TRUE /\ quit = FALSE /\ waitRolling = TRUE /\ mutex = "none" /\ status = "Ready"
    /\ started = FALSE /\ exposing = "Idle" /\ stopReq = FALSE /\ nbFrames = 1
    /\ recording = FALSE /\ valid = 0
    /\ cpc = "idle" /\ prepared = FALSE
    /\ acq = NoAcq /\ swpc = "init"

----------------------------------------------------------------------------
(* the client *)

(* setNbHwFrames and Camera::prepareAcq, when the status is Ready (external) *)
Prepare ==
    /\ cpc = "idle" /\ status = "Ready"
    /\ nbFrames' \in Requests
    /\ recording' = FALSE /\ prepared' = TRUE
    /\ UNCHANGED <<config, flags, started, exposing, stopReq, valid, cpc, acq, swpc>>

(* SyncCtrlObj::startAcq does nothing when the flag is set *)
StartIgnored ==
    /\ cpc = "idle" /\ prepared /\ started
    /\ prepared' = FALSE
    /\ UNCHANGED <<config, flags, sync, camera, cpc, acq, swpc>>

StartEnter_NoCheck ==                   \* mutated form: the flag is not looked at
    /\ cpc = "idle" /\ prepared
    /\ prepared' = FALSE /\ cpc' = "camera"
    /\ stopReq' = FALSE /\ exposing' = "Start"
    /\ UNCHANGED <<config, flags, started, nbFrames, camera, acq, swpc>>

StartEnter ==
    /\ cpc = "idle" /\ prepared /\ ~started
    /\ prepared' = FALSE /\ cpc' = "camera"
    /\ stopReq' = FALSE /\ exposing' = "Start"
    /\ UNCHANGED <<config, flags, started, nbFrames, camera, acq, swpc>>

StartCamera ==                          \* Camera::startAcq: setStarted(true), setExposing
    /\ cpc = "camera"
    /\ started' = TRUE /\ exposing' = "RecordStart" /\ cpc' = "status"
    /\ UNCHANGED <<config, flags, stopReq, nbFrames, camera, prepared, acq, swpc>>

StartStatus ==                          \* _setStatus(Exposure), under the mutex
    /\ cpc = "status" /\ Free
    /\ status' = "Exposure" /\ cpc' = "wake"
    /\ UNCHANGED <<config, waitFlag, quit, waitRolling, mutex, sync, camera, prepared, acq, swpc>>

StartWake ==                            \* m_wait_flag = false, broadcast
    /\ cpc = "wake" /\ Free
    /\ waitFlag' = FALSE /\ cpc' = "check"
    /\ UNCHANGED <<config, quit, waitRolling, mutex, status, sync, camera, prepared, acq, swpc>>

StartCheck ==                           \* back in SyncCtrlObj::startAcq
    /\ cpc = "check"
    /\ IF exposing = "Error" THEN started' = FALSE /\ cpc' = "idle"
       ELSE cpc' = "started" /\ UNCHANGED started
    /\ UNCHANGED <<config, flags, exposing, stopReq, nbFrames, camera, prepared, acq, swpc>>

StartReturn ==                          \* setStarted(true), without a look at the thread
    /\ cpc = "started"
    /\ started' = TRUE /\ cpc' = "idle"
    /\ UNCHANGED <<config, flags, exposing, stopReq, nbFrames, camera, prepared, acq, swpc>>

StopEnter ==
    /\ cpc = "idle" /\ cpc' = "stop"
    /\ UNCHANGED <<config, flags, sync, camera, prepared, acq, swpc>>

StopRequest ==                          \* while (started) request and wait 5 s
    /\ cpc = "stop" /\ started
    /\ stopReq' = TRUE
    /\ UNCHANGED <<config, flags, started, exposing, nbFrames, camera, client, acq, swpc>>

StopReturn ==
    /\ cpc = "stop" /\ ~started
    /\ cpc' = "idle"
    /\ UNCHANGED <<config, flags, sync, camera, prepared, acq, swpc>>

(* setRollingShutter, from a Tango attribute *)
SetShutter ==
    /\ cpc = "idle" /\ kind = "Edge" /\ Switches
    /\ cpc' = "shutter"
    /\ UNCHANGED <<config, flags, sync, camera, prepared, acq, swpc>>

(* _set_shutter_rolling_edge *)
WakeSwitch ==
    /\ cpc = "shutter" /\ Free
    /\ waitRolling' = FALSE /\ cpc' = "idle"
    /\ UNCHANGED <<config, waitFlag, quit, mutex, status, sync, camera, prepared, acq, swpc>>

(* ~Camera: ~_AcqThread of the acquisition thread, then of the switch thread *)
Destroy ==
    /\ cpc = "idle" /\ Destroys /\ Free
    /\ quit' = TRUE /\ cpc' = "joinacq"
    /\ UNCHANGED <<config, waitFlag, waitRolling, mutex, status, sync, camera, prepared, acq, swpc>>

DestroySwitch ==
    /\ cpc = "joinacq" /\ At("gone") /\ Free
    /\ quit' = TRUE /\ cpc' = "joinsw"
    /\ UNCHANGED <<config, waitFlag, waitRolling, mutex, status, sync, camera, prepared, acq, swpc>>

Client ==
    \/ StartCamera \/ StartStatus \/ StartWake \/ StartCheck \/ StartReturn
    \/ StopRequest \/ StopReturn \/ WakeSwitch \/ DestroySwitch

----------------------------------------------------------------------------
(* the acquisition thread *)

ThreadInit ==                           \* threadFunction: without the mutex
    /\ At("init")
    /\ waitFlag' = TRUE /\ quit' = FALSE
    /\ Goto("wait")
    /\ UNCHANGED <<config, waitRolling, mutex, status, sync, camera, client, swpc>>

(* the wait ends; the thread keeps the mutex until it has set the status    *)
Wake ==
    /\ At("wait") /\ Free /\ ~quit /\ ~waitFlag
    /\ started' = TRUE /\ status' = "Exposure"
    /\ acq' = [NoAcq EXCEPT !.pc = "start", !.nb = nbFrames]
    /\ UNCHANGED <<config, waitFlag, quit, waitRolling, mutex, exposing, stopReq, nbFrames, camera,
                   client, swpc>>

(* quit: threadFunction falls through to a throw; what becomes of the       *)
(* process is up to LIMA's Thread (external)                                *)
Quit ==
    /\ At("wait") /\ Free /\ quit
    /\ Goto("gone")
    /\ UNCHANGED <<config, flags, sync, camera, client, swpc>>

Terminate ==
    /\ cpc' = "dead" /\ Goto("gone") /\ swpc' = "gone" /\ recording' = FALSE
    /\ UNCHANGED <<config, flags, sync, valid, prepared>>

QuitThrows == At("wait") /\ Free /\ quit /\ Terminate

(* Start_Acquire and _pco_SetRecordingState(1), which starts an empty segment *)
RecordOn ==
    \/ UNCHANGED camera
    \/ ~recording /\ recording' = TRUE /\ valid' = 0

StartOk ==
    /\ At("start") /\ RecordOn
    /\ Goto(IF kind = "Dimax" THEN "record" ELSE "frames")
    /\ UNCHANGED <<config, flags, sync, client, swpc>>

Abort == waitFlag' = TRUE /\ UNCHANGED <<quit, waitRolling, mutex, status>>

StartFails ==
    /\ At("start") /\ RecordOn
    /\ Abort /\ Goto("finish")
    /\ UNCHANGED <<config, sync, client, swpc>>

(* _waitForRecording *)
RecordEnter ==
    /\ At("record")
    /\ acq' = [acq EXCEPT !.pc = "recloop", !.rec = nbFrames]
    /\ exposing' = "RecordStart"
    /\ UNCHANGED <<config, flags, started, stopReq, nbFrames, camera, client, swpc>>

LeaveRecordLoop(why) == acq' = [acq EXCEPT !.pc = "recstop", !.why = why]

RecordTooMany ==
    /\ At("recloop") /\ acq.rec > HwMax
    /\ exposing' = "Error" /\ LeaveRecordLoop("range")
    /\ UNCHANGED <<config, flags, started, stopReq, nbFrames, camera, client, swpc>>

RecordFull ==
    /\ At("recloop") /\ acq.rec <= HwMax /\ valid >= acq.rec
    /\ LeaveRecordLoop("full")
    /\ UNCHANGED <<config, flags, sync, camera, client, swpc>>

RecordTimeout ==                        \* not when an external trigger is enabled
    /\ At("recloop") /\ acq.rec <= HwMax /\ valid < acq.rec /\ ~ext
    /\ exposing' = "Stop" /\ LeaveRecordLoop("timeout")
    /\ UNCHANGED <<config, flags, started, stopReq, nbFrames, camera, client, swpc>>

RecordStopSeen ==
    /\ At("recloop") /\ acq.rec <= HwMax /\ valid < acq.rec /\ stopReq
    /\ LeaveRecordLoop("stop")
    /\ UNCHANGED <<config, flags, sync, camera, client, swpc>>

RecordOff ==                            \* its error is lost: the state is read back
    /\ At("recstop")
    /\ recording' \in {FALSE, recording}
    /\ Goto(IF acq.why \in {"stop", "range"} THEN "recend" ELSE "recount")
    /\ UNCHANGED <<config, flags, sync, valid, client, swpc>>

(* the count is corrected and an uninitialised status becomes exposing *)
Recount ==
    /\ At("recount")
    /\ nbFrames' = IF valid < acq.rec THEN valid ELSE nbFrames
    /\ exposing' \in {"Idle", "Start", "RecordStart", "Error", "Stop"}
    /\ Goto("recend")
    /\ UNCHANGED <<config, flags, started, stopReq, camera, client, swpc>>

RecordEnd ==                            \* setStarted(false), with the readout to come
    /\ At("recend")
    /\ started' = FALSE
    /\ Goto("recret")
    /\ UNCHANGED <<config, flags, exposing, stopReq, nbFrames, camera, client, swpc>>

(* back in threadFunction_Dimax's while(1) *)
RecordAborted ==
    /\ At("recret") /\ acq.nb > HwMax
    /\ Abort /\ Goto("finish")
    /\ UNCHANGED <<config, sync, camera, client, swpc>>

Recorded_Corrected == valid >= acq.rec \/ stopReq     \* mutated form: the corrected count
Recorded == valid >= acq.nb \/ stopReq

RecordDone ==
    /\ At("recret") /\ acq.nb <= HwMax /\ Recorded
    /\ recording' \in {FALSE, recording}
    /\ acq' = [acq EXCEPT !.pc = "frames", !.stop = stopReq]
    /\ UNCHANGED <<config, flags, sync, valid, client, swpc>>

RecordDoneFails ==                      \* the state cannot be read back
    /\ At("recret") /\ acq.nb <= HwMax /\ Recorded
    /\ recording' \in {FALSE, recording}
    /\ Abort /\ Goto("finish")
    /\ UNCHANGED <<config, sync, valid, client, swpc>>

RecordAgain ==
    /\ At("recret") /\ acq.nb <= HwMax /\ ~Recorded
    /\ Goto("record")
    /\ UNCHANGED <<config, flags, sync, camera, client, swpc>>

(* the frame loop: Wait_For_Next_Image (Edge) ends with an image or after   *)
(* 10 s, Get_Image (Dimax) at once with an unchecked result                 *)
More == ~waitFlag /\ (acq.nb = 0 \/ acq.frame < acq.nb)

Frame ==                                \* newFrameReady, Unblock_buffer
    /\ At("frames") /\ More /\ Free
    /\ kind = "Edge" => recording
    /\ status' = "Readout"
    /\ Goto("announced")
    /\ UNCHANGED <<config, waitFlag, quit, waitRolling, mutex, sync, camera, client, swpc>>

FrameFails ==                           \* an error before newFrameReady
    /\ At("frames") /\ More /\ Free
    /\ status' = "Readout" /\ waitFlag' = TRUE /\ Goto("finish")
    /\ UNCHANGED <<config, quit, waitRolling, mutex, sync, camera, client, swpc>>

(* no LIMA buffer within 30 s: a null pointer is written to; or an SDK      *)
(* error in _waitForRecording, thrown out of the thread                     *)
Crash ==
    /\ \/ At("frames") /\ More
       \/ acq.pc \in {"recloop", "recstop", "recount"}
    /\ Terminate

UnblockFails ==
    /\ At("announced")
    /\ Abort /\ Goto("finish")
    /\ UNCHANGED <<config, sync, camera, client, swpc>>

FrameDone_NoStop ==                     \* mutated form: the stop request is not looked at
    /\ At("announced")
    /\ acq' = [acq EXCEPT !.frame = MinOf(acq.frame + 1, MaxFrames), !.pc = "frames"]
    /\ UNCHANGED <<config, flags, sync, camera, client, swpc>>

FrameDone_SameFrame ==                  \* mutated form: limaFrameNr is not advanced
    /\ At("announced")
    /\ waitFlag' = (waitFlag \/ stopReq)
    /\ Goto(IF stopReq THEN "finish" ELSE "frames")
    /\ UNCHANGED <<config, quit, waitRolling, mutex, status, sync, camera, client, swpc>>

FrameDone ==                            \* ++limaFrameNr, then the stop request
    /\ At("announced")
    /\ waitFlag' = (waitFlag \/ stopReq)
    /\ \E continueAcq \in BOOLEAN :     \* newFrameReady's answer
          acq' = [acq EXCEPT !.frame = MinOf(acq.frame + 1, MaxFrames),
                             !.pc = IF stopReq \/ ~continueAcq THEN "finish" ELSE "frames"]
    /\ UNCHANGED <<config, quit, waitRolling, mutex, status, sync, camera, client, swpc>>

FramesEnd ==
    /\ At("frames") /\ ~More
    /\ Goto("finish")
    /\ UNCHANGED <<config, flags, sync, camera, client, swpc>>

Finish_ReadyFirst ==                    \* mutated form: the status comes before the end
    /\ At("finish")
    /\ waitFlag' = TRUE /\ status' = "Ready" /\ recording' \in {FALSE, recording} /\ Goto("ready")
    /\ UNCHANGED <<config, quit, waitRolling, mutex, sync, valid, client, swpc>>

(* _stopAcq(false), the recording off (an error is lost), the grabber freed *)
Finish ==
    /\ At("finish")
    /\ Abort /\ recording' \in {FALSE, recording} /\ Goto("ready")
    /\ UNCHANGED <<config, sync, valid, client, swpc>>

SetReady_ClearsStarted ==               \* mutated form: setStarted(false) comes first
    /\ At("ready") /\ Free
    /\ status' = "Ready" /\ started' = FALSE /\ Goto("end")
    /\ UNCHANGED <<config, waitFlag, quit, waitRolling, mutex, exposing, stopReq, nbFrames, camera,
                   client, swpc>>

SetReady ==                             \* _setStatus(Ready)
    /\ At("ready") /\ Free
    /\ status' = "Ready" /\ Goto("end")
    /\ UNCHANGED <<config, waitFlag, quit, waitRolling, mutex, sync, camera, client, swpc>>

ThreadEnd_KeepsStarted ==               \* mutated form: setStarted(false) is missing
    /\ At("end") /\ Free
    /\ Abort /\ Goto("wait")
    /\ UNCHANGED <<config, sync, camera, client, swpc>>

ThreadEnd ==                            \* m_wait_flag = true, setStarted(false)
    /\ At("end") /\ Free
    /\ Abort /\ started' = FALSE /\ Goto("wait")
    /\ UNCHANGED <<config, exposing, stopReq, nbFrames, camera, client, swpc>>

Acquire ==
    \/ ThreadInit \/ Wake \/ Quit \/ StartOk \/ StartFails
    \/ RecordEnter \/ RecordTooMany \/ RecordFull \/ RecordTimeout \/ RecordStopSeen
    \/ RecordOff \/ Recount \/ RecordEnd \/ RecordAborted \/ RecordDone
    \/ RecordDoneFails \/ RecordAgain
    \/ Frame \/ FrameFails \/ UnblockFails \/ FrameDone \/ FramesEnd
    \/ Finish \/ SetReady \/ ThreadEnd

----------------------------------------------------------------------------
(* the switch thread, threadFunction_SwitchEdge *)

SwitchInit ==
    /\ swpc = "init"
    /\ waitRolling' = TRUE /\ swpc' = "wait"
    /\ UNCHANGED <<config, waitFlag, quit, mutex, status, sync, camera, client, acq>>

SwitchBegin_Unlocks ==                  \* mutated form: aLock.unlock() before the switch
    /\ swpc = "wait" /\ Free /\ ~waitRolling
    /\ status' = "Config" /\ swpc' = "setup"
    /\ UNCHANGED <<config, waitFlag, quit, waitRolling, mutex, sync, camera, client, acq>>

SwitchBegin ==                          \* the mutex is kept from here
    /\ swpc = "wait" /\ Free /\ ~waitRolling
    /\ mutex' = "switch" /\ status' = "Config" /\ swpc' = "setup"
    /\ UNCHANGED <<config, waitFlag, quit, waitRolling, sync, camera, client, acq>>

SwitchReboot ==                         \* recording off, setup, reboot, open again
    /\ swpc = "setup"
    /\ recording' = FALSE /\ valid' = 0 /\ swpc' = "open"
    /\ UNCHANGED <<config, flags, sync, client, acq>>

SwitchEnd ==                            \* continueWhile, reached after any error too
    /\ swpc \in {"setup", "open"}
    /\ waitRolling' = TRUE /\ status' = "Ready" /\ mutex' = "none" /\ swpc' = "wait"
    /\ UNCHANGED <<config, waitFlag, quit, sync, camera, client, acq>>

Switch == SwitchInit \/ SwitchBegin \/ SwitchEnd

----------------------------------------------------------------------------
Record ==                               \* the camera
    /\ recording /\ kind = "Dimax" /\ valid < HwMax
    /\ valid' = valid + 1
    /\ UNCHANGED <<config, flags, sync, recording, client, acq, swpc>>

Terminated == cpc = "dead" /\ UNCHANGED vars

Next ==
    \/ Prepare \/ StartEnter \/ StartIgnored \/ StopEnter \/ SetShutter \/ Destroy
    \/ Client \/ Acquire \/ QuitThrows \/ Crash \/ Switch \/ SwitchReboot \/ Record
    \/ Terminated

(* every thread is scheduled; a wait on m_cond gets its mutex in the end,   *)
(* and a recording camera takes images                                      *)
Fairness ==
    /\ WF_vars(Client) /\ WF_vars(Switch) /\ WF_vars(Record)
    /\ SF_vars(Acquire)

Spec == Init /\ [][Next]_vars /\ Fairness

----------------------------------------------------------------------------
AcqPcs == {"init", "wait", "start", "record", "recloop", "recstop", "recount", "recend", "recret",
           "frames", "announced", "finish", "ready", "end", "gone"}
AcqStates == [pc : AcqPcs, nb : Nat, rec : Nat, frame : Nat,
              why : {"none", "range", "full", "timeout", "stop"}, stop : BOOLEAN]

(* Every variable stays in its domain.                                      *)
TypeOK ==
    /\ kind \in Kinds /\ ext \in BOOLEAN
    /\ waitFlag \in BOOLEAN /\ quit \in BOOLEAN /\ waitRolling \in BOOLEAN
    /\ mutex \in {"none", "switch"} /\ status \in {"Ready", "Exposure", "Readout", "Config"}
    /\ started \in BOOLEAN /\ stopReq \in BOOLEAN /\ nbFrames \in Nat
    /\ exposing \in {"Idle", "Start", "RecordStart", "Error", "Stop"}
    /\ recording \in BOOLEAN /\ valid \in Nat /\ prepared \in BOOLEAN
    /\ cpc \in {"idle", "camera", "status", "wake", "check", "started", "stop", "shutter",
                "joinacq", "joinsw", "dead"}
    /\ acq \in AcqStates /\ swpc \in {"init", "wait", "setup", "open", "gone"}

Parked == acq.pc \in {"init", "wait", "gone"}

(* An Edge acquisition never runs without the started flag: stopAcq, which  *)
(* waits for the flag, is synchronous.                                      *)
StartedCoversRun == kind = "Edge" /\ ~Parked => started

(* A Dimax announces only images that it has recorded, unless it was asked  *)
(* to run until stopped or was stopped while it recorded.                   *)
FramesRecorded ==
    kind = "Dimax" /\ At("announced") => acq.frame < valid \/ acq.stop \/ acq.nb = 0

(* The flag started is left set for a thread that waits only by startAcq's  *)
(* late setStarted(true), or by a start from before the thread's own init.  *)
Starting == cpc \in {"camera", "status", "wake", "check", "started"}
Orphaned == started /\ ~Starting /\ Parked /\ waitFlag
OrphansComeFromStart == [][~Orphaned /\ Orphaned' => cpc = "started" \/ At("init")]_vars

(* A start is ignored only when the flag is orphaned, or in the window      *)
(* between the thread's status Ready and the end of its acquisition.  (A    *)
(* switched Edge may also be Ready while it runs, or is about to.)          *)
IgnoredOnlyAtEnd ==
    [][prepared /\ ~prepared' /\ cpc' = "idle" /\ ~(Switches /\ kind = "Edge")
           => Orphaned \/ At("end")]_vars

(* startAcq wakes an Edge thread only while it waits, and a wake-up is lost *)
(* only to the thread's own init or to its end.                             *)
Woken == ~waitFlag /\ acq.pc \in {"init", "wait"}
WakeKept ==
    [][/\ kind = "Edge" /\ cpc = "wake" /\ cpc' = "check" => Parked
       /\ Woken /\ ~Woken' => At("init") \/ acq'.pc \in {"start", "gone"}]_vars

(* No acquisition begins, and no status is set, while the camera reboots.   *)
Rebooting == swpc \in {"setup", "open"}
SwitchIsExclusive ==
    [][Rebooting /\ Rebooting' => status' = status /\ ~(At("wait") /\ acq'.pc = "start")]_vars

(* stopAcq returns, unless the flag is orphaned.                            *)
StopEnds == cpc = "stop" ~> cpc # "stop" \/ Orphaned

(* An acquisition of a number of frames ends by itself, unless its          *)
(* recording timed out or waits for external triggers.                      *)
AcqEnds == ~Parked /\ acq.nb > 0 ~> Parked \/ acq.why = "timeout" \/ (At("recloop") /\ ~recording)

----------------------------------------------------------------------------
(* "stop recording -> modified to be sync": when stopAcq returns, the       *)
(* acquisition thread waits again.                                          *)
StopIsSync == [][cpc = "stop" /\ cpc' = "idle" => Parked]_vars

(* "Start acqusition thread": after startAcq has woken the thread it runs.  *)
StartRunsThread == cpc = "wake" ~> At("start") \/ cpc = "dead"

(* An Edge's acquisition implements the abstract one: the thread's run from *)
(* its wake-up to the end of the acquisition is the run.  A Dimax's does    *)
(* not, its flag is clear while it is read out.  (kind never changes.)      *)
Call == IF Starting THEN "start" ELSE IF cpc \in {"stop", "dead"} THEN cpc ELSE "none"
Acquisition == INSTANCE PcoAcquisition WITH
                   Runs <- {"acq"}, flag <- started,
                   runs <- IF Parked THEN {} ELSE {"acq"}, call <- Call
EdgeImplementsAcquisition ==
    Acquisition!Init /\ [][kind = "Edge" => Acquisition!Next]_(Acquisition!vars)
=============================================================================
