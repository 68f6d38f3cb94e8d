------------------------- MODULE PcoLinAcq_proofs -------------------------
(* What PcoLinAcq promises, proved for every segment size and every set of  *)
(* requested frame counts, with and without shutter changes and the end of  *)
(* the camera.                                                              *)
EXTENDS PcoLinAcq, TLAPS

----------------------------------------------------------------------------
(* The inductive invariant.  An Edge's started flag is cleared by the end   *)
(* of its acquisition only, since it never records (RecordEnd) and never    *)
(* shows an Error (StartCheck), and startAcq, which passes a clear flag     *)
(* only, wakes a thread that waits.  A Dimax's images stay in the segment while *)
(* they are read: the camera is not rebooted, and starts no new recording.  *)

RecordPcs == {"record", "recloop", "recstop", "recount", "recend", "recret"}
EdgeNeverRecords == kind = "Edge" => acq.pc \notin RecordPcs /\ exposing # "Error"
DimaxNeverSwitches ==
    kind = "Dimax" => waitRolling /\ cpc # "shutter" /\ swpc \in {"init", "wait", "gone"}
Kept == valid >= acq.nb \/ acq.stop
ReadoutIsRecorded ==
    kind = "Dimax" => /\ acq.pc \in {"frames", "announced"} => Kept
                      /\ At("announced") => acq.nb = 0 \/ acq.frame < acq.nb

EdgeWakesParked ==
    kind = "Edge" => /\ ~waitFlag => started
                     /\ cpc \in {"camera", "status", "wake"} => Parked /\ waitFlag
                     /\ cpc \in {"status", "wake"} => started

IInv == /\ TypeOK
        /\ StartedCoversRun /\ EdgeNeverRecords /\ EdgeWakesParked
        /\ DimaxNeverSwitches /\ ReadoutIsRecorded

----------------------------------------------------------------------------
LEMMA GotoType ==
    ASSUME TypeOK, NEW pc \in AcqPcs, Goto(pc) PROVE acq' \in AcqStates
  BY DEF TypeOK, Goto, AcqStates

LEMMA NoAcqType == NoAcq \in AcqStates
  BY DEF NoAcq, AcqStates, AcqPcs

LEMMA TypeStep == TypeOK /\ [Next]_vars => TypeOK'
  <1> SUFFICES ASSUME TypeOK, [Next]_vars PROVE TypeOK'
    OBVIOUS
  <1> USE SizesAssumption
  <1> USE DEF TypeOK, config, flags, sync, camera, client, At, Free
  <1>1. CASE Prepare
    <2>1. recording' \in BOOLEAN /\ prepared' \in BOOLEAN
      BY <1>1, Zenon DEF Prepare
    <2> QED
      BY <1>1, <2>1 DEF Prepare
  <1>2. CASE StartIgnored
    <2>1. prepared' \in BOOLEAN
      BY <1>2, Zenon DEF StartIgnored
    <2> QED
      BY <1>2, <2>1 DEF StartIgnored
  <1>3. CASE StartEnter
    BY <1>3 DEF StartEnter
  <1>4. CASE StartCamera
    BY <1>4 DEF StartCamera
  <1>5. CASE StartStatus
    BY <1>5 DEF StartStatus
  <1>6. CASE StartWake
    <2>1. waitFlag' \in BOOLEAN
      BY <1>6, Zenon DEF StartWake
    <2> QED
      BY <1>6, <2>1 DEF StartWake
  <1>7. CASE StartCheck
    <2>1. started' \in BOOLEAN
      BY <1>7, Zenon DEF StartCheck
    <2> QED
      BY <1>7, <2>1 DEF StartCheck
  <1>8. CASE StartReturn
    BY <1>8 DEF StartReturn
  <1>9. CASE StopEnter
    BY <1>9 DEF StopEnter
  <1>10. CASE StopRequest
    BY <1>10 DEF StopRequest
  <1>11. CASE StopReturn
    BY <1>11 DEF StopReturn
  <1>12. CASE SetShutter
    BY <1>12 DEF SetShutter
  <1>13. CASE WakeSwitch
    <2>1. waitRolling' \in BOOLEAN
      BY <1>13, Zenon DEF WakeSwitch
    <2> QED
      BY <1>13, <2>1 DEF WakeSwitch
  <1>14. CASE Destroy
    BY <1>14 DEF Destroy
  <1>15. CASE DestroySwitch
    BY <1>15 DEF DestroySwitch
  <1>16. CASE ThreadInit
    <2>1. acq' \in AcqStates
      BY <1>16, GotoType DEF ThreadInit, AcqPcs
    <2>2. waitFlag' \in BOOLEAN /\ quit' \in BOOLEAN
      BY <1>16, Zenon DEF ThreadInit
    <2> QED
      BY <1>16, <2>1, <2>2 DEF ThreadInit
  <1>17. CASE Wake
    <2>1. acq' \in AcqStates
      BY <1>17 DEF Wake, NoAcq, AcqStates, AcqPcs
    <2> QED
      BY <1>17, <2>1 DEF Wake
  <1>18. CASE Quit
    <2>1. acq' \in AcqStates
      BY <1>18, GotoType DEF Quit, AcqPcs
    <2> QED
      BY <1>18, <2>1 DEF Quit
  <1>19. CASE StartOk
    <2>1. acq' \in AcqStates
      BY <1>19, GotoType DEF StartOk, AcqPcs
    <2>2. recording' \in BOOLEAN
      BY <1>19, Zenon DEF StartOk, RecordOn
    <2> QED
      BY <1>19, <2>1, <2>2 DEF StartOk, RecordOn
  <1>20. CASE StartFails
    <2>1. acq' \in AcqStates
      BY <1>20, GotoType DEF StartFails, AcqPcs
    <2>2. waitFlag' \in BOOLEAN /\ recording' \in BOOLEAN
      BY <1>20, Zenon DEF StartFails, RecordOn, Abort
    <2> QED
      BY <1>20, <2>1, <2>2 DEF StartFails, RecordOn, Abort
  <1>21. CASE RecordEnter
    <2>1. acq' \in AcqStates
      BY <1>21 DEF RecordEnter, AcqStates, AcqPcs
    <2> QED
      BY <1>21, <2>1 DEF RecordEnter
  <1>22. CASE RecordTooMany
    <2>1. acq' \in AcqStates
      BY <1>22 DEF RecordTooMany, LeaveRecordLoop, AcqStates, AcqPcs
    <2> QED
      BY <1>22, <2>1 DEF RecordTooMany
  <1>23. CASE RecordFull
    <2>1. acq' \in AcqStates
      BY <1>23 DEF RecordFull, LeaveRecordLoop, AcqStates, AcqPcs
    <2> QED
      BY <1>23, <2>1 DEF RecordFull
  <1>24. CASE RecordTimeout
    <2>1. acq' \in AcqStates
      BY <1>24 DEF RecordTimeout, LeaveRecordLoop, AcqStates, AcqPcs
    <2> QED
      BY <1>24, <2>1 DEF RecordTimeout
  <1>25. CASE RecordStopSeen
    <2>1. acq' \in AcqStates
      BY <1>25 DEF RecordStopSeen, LeaveRecordLoop, AcqStates, AcqPcs
    <2> QED
      BY <1>25, <2>1 DEF RecordStopSeen
  <1>26. CASE RecordOff
    <2>1. acq' \in AcqStates
      BY <1>26, GotoType DEF RecordOff, AcqPcs
    <2>2. recording' \in BOOLEAN
      BY <1>26, Zenon DEF RecordOff
    <2> QED
      BY <1>26, <2>1, <2>2 DEF RecordOff
  <1>27. CASE Recount
    <2>1. acq' \in AcqStates
      BY <1>27, GotoType DEF Recount, AcqPcs
    <2> QED
      BY <1>27, <2>1 DEF Recount
  <1>28. CASE RecordEnd
    <2>1. acq' \in AcqStates
      BY <1>28, GotoType DEF RecordEnd, AcqPcs
    <2>2. started' \in BOOLEAN
      BY <1>28, Zenon DEF RecordEnd
    <2> QED
      BY <1>28, <2>1, <2>2 DEF RecordEnd
  <1>29. CASE RecordAborted
    <2>1. acq' \in AcqStates
      BY <1>29, GotoType DEF RecordAborted, AcqPcs
    <2> QED
      BY <1>29, <2>1 DEF RecordAborted, Abort
  <1>30. CASE RecordDone
    <2>1. acq' \in AcqStates
      BY <1>30 DEF RecordDone, AcqStates, AcqPcs
    <2>2. recording' \in BOOLEAN
      BY <1>30, Zenon DEF RecordDone
    <2> QED
      BY <1>30, <2>1, <2>2 DEF RecordDone
  <1>31. CASE RecordDoneFails
    <2>1. acq' \in AcqStates
      BY <1>31, GotoType DEF RecordDoneFails, AcqPcs
    <2>2. recording' \in BOOLEAN
      BY <1>31, Zenon DEF RecordDoneFails
    <2> QED
      BY <1>31, <2>1, <2>2 DEF RecordDoneFails, Abort
  <1>32. CASE RecordAgain
    <2>1. acq' \in AcqStates
      BY <1>32, GotoType DEF RecordAgain, AcqPcs
    <2> QED
      BY <1>32, <2>1 DEF RecordAgain
  <1>33. CASE Frame
    <2>1. acq' \in AcqStates
      BY <1>33, GotoType DEF Frame, AcqPcs
    <2> QED
      BY <1>33, <2>1 DEF Frame
  <1>34. CASE FrameFails
    <2>1. acq' \in AcqStates
      BY <1>34, GotoType DEF FrameFails, AcqPcs
    <2> QED
      BY <1>34, <2>1 DEF FrameFails
  <1>35. CASE UnblockFails
    <2>1. acq' \in AcqStates
      BY <1>35, GotoType DEF UnblockFails, AcqPcs
    <2> QED
      BY <1>35, <2>1 DEF UnblockFails, Abort
  <1>36. CASE FrameDone
    <2>1. PICK continueAcq \in BOOLEAN :
            acq' = [acq EXCEPT !.frame = MinOf(acq.frame + 1, MaxFrames),
                               !.pc = IF stopReq \/ ~continueAcq THEN "finish" ELSE "frames"]
      BY <1>36, Zenon DEF FrameDone
    <2>2. MinOf(acq.frame + 1, MaxFrames) \in Nat
      BY DEF MinOf, AcqStates
    <2>3. acq' \in AcqStates
      BY <2>1, <2>2 DEF AcqStates, AcqPcs
    <2>4. waitFlag' \in BOOLEAN
      BY <1>36, Zenon DEF FrameDone
    <2> QED
      BY <1>36, <2>3, <2>4 DEF FrameDone
  <1>37. CASE FramesEnd
    <2>1. acq' \in AcqStates
      BY <1>37, GotoType DEF FramesEnd, AcqPcs
    <2> QED
      BY <1>37, <2>1 DEF FramesEnd
  <1>38. CASE Finish
    <2>1. acq' \in AcqStates
      BY <1>38, GotoType DEF Finish, AcqPcs
    <2>2. recording' \in BOOLEAN
      BY <1>38, Zenon DEF Finish
    <2> QED
      BY <1>38, <2>1, <2>2 DEF Finish, Abort
  <1>39. CASE SetReady
    <2>1. acq' \in AcqStates
      BY <1>39, GotoType DEF SetReady, AcqPcs
    <2> QED
      BY <1>39, <2>1 DEF SetReady
  <1>40. CASE ThreadEnd
    <2>1. acq' \in AcqStates
      BY <1>40, GotoType DEF ThreadEnd, AcqPcs
    <2>2. waitFlag' \in BOOLEAN /\ started' \in BOOLEAN
      BY <1>40, Zenon DEF ThreadEnd, Abort
    <2> QED
      BY <1>40, <2>1, <2>2 DEF ThreadEnd, Abort
  <1>41. CASE QuitThrows
    <2>1. acq' \in AcqStates
      BY <1>41, GotoType DEF QuitThrows, Terminate, AcqPcs
    <2> QED
      BY <1>41, <2>1 DEF QuitThrows, Terminate
  <1>42. CASE Crash
    <2>1. acq' \in AcqStates
      BY <1>42, GotoType DEF Crash, Terminate, AcqPcs
    <2>2. recording' \in BOOLEAN
      BY <1>42, Zenon DEF Crash, Terminate
    <2> QED
      BY <1>42, <2>1, <2>2 DEF Crash, Terminate
  <1>43. CASE SwitchInit
    BY <1>43 DEF SwitchInit
  <1>44. CASE SwitchBegin
    BY <1>44 DEF SwitchBegin
  <1>45. CASE SwitchEnd
    BY <1>45 DEF SwitchEnd
  <1>46. CASE SwitchReboot
    <2>1. recording' \in BOOLEAN
      BY <1>46, Zenon DEF SwitchReboot
    <2> QED
      BY <1>46, <2>1 DEF SwitchReboot
  <1>47. CASE Record
    BY <1>47 DEF Record
  <1>48. CASE UNCHANGED vars
    BY <1>48 DEF vars
  <1> QED
    BY <1>1, <1>2, <1>3, <1>4, <1>5, <1>6, <1>7, <1>8, <1>9, <1>10, <1>11, <1>12, <1>13, <1>14,
       <1>15, <1>16, <1>17, <1>18, <1>19, <1>20, <1>21, <1>22, <1>23, <1>24, <1>25, <1>26,
       <1>27, <1>28, <1>29, <1>30, <1>31, <1>32, <1>33, <1>34, <1>35, <1>36, <1>37, <1>38,
       <1>39, <1>40, <1>41, <1>42, <1>43, <1>44, <1>45, <1>46, <1>47, <1>48
    DEF Next, Client, Acquire, Switch, Terminated

LEMMA InvStep == IInv /\ [Next]_vars => IInv'
  <1> SUFFICES ASSUME IInv, [Next]_vars, TypeOK' PROVE IInv'
    BY TypeStep DEF IInv
  <1> USE DEF IInv, StartedCoversRun, EdgeNeverRecords, EdgeWakesParked, DimaxNeverSwitches, ReadoutIsRecorded,
              Kept, RecordPcs, Parked, TypeOK, AcqStates, config, flags, sync, camera, client,
              At, Goto, Free
  <1>1. CASE Prepare
    BY <1>1 DEF Prepare
  <1>2. CASE StartIgnored
    BY <1>2 DEF StartIgnored
  <1>3. CASE StartEnter
    BY <1>3 DEF StartEnter
  <1>4. CASE StartCamera
    BY <1>4 DEF StartCamera
  <1>5. CASE StartStatus
    BY <1>5 DEF StartStatus
  <1>6. CASE StartWake
    BY <1>6 DEF StartWake
  <1>7. CASE StartCheck
    BY <1>7 DEF StartCheck
  <1>8. CASE StartReturn
    BY <1>8 DEF StartReturn
  <1>9. CASE StopEnter
    BY <1>9 DEF StopEnter
  <1>10. CASE StopRequest
    BY <1>10 DEF StopRequest
  <1>11. CASE StopReturn
    BY <1>11 DEF StopReturn
  <1>12. CASE SetShutter
    BY <1>12 DEF SetShutter
  <1>13. CASE WakeSwitch
    BY <1>13 DEF WakeSwitch
  <1>14. CASE Destroy
    BY <1>14 DEF Destroy
  <1>15. CASE DestroySwitch
    BY <1>15 DEF DestroySwitch
  <1>16. CASE ThreadInit
    BY <1>16 DEF ThreadInit
  <1>17. CASE Wake
    BY <1>17 DEF Wake, NoAcq
  <1>18. CASE Quit
    BY <1>18 DEF Quit
  <1>19. CASE StartOk
    BY <1>19 DEF StartOk, RecordOn
  <1>20. CASE StartFails
    BY <1>20 DEF StartFails, RecordOn, Abort
  <1>21. CASE RecordEnter
    BY <1>21 DEF RecordEnter
  <1>22. CASE RecordTooMany
    BY <1>22 DEF RecordTooMany, LeaveRecordLoop
  <1>23. CASE RecordFull
    BY <1>23 DEF RecordFull, LeaveRecordLoop
  <1>24. CASE RecordTimeout
    BY <1>24 DEF RecordTimeout, LeaveRecordLoop
  <1>25. CASE RecordStopSeen
    BY <1>25 DEF RecordStopSeen, LeaveRecordLoop
  <1>26. CASE RecordOff
    BY <1>26 DEF RecordOff
  <1>27. CASE Recount
    BY <1>27 DEF Recount
  <1>28. CASE RecordEnd
    BY <1>28 DEF RecordEnd
  <1>29. CASE RecordAborted
    BY <1>29 DEF RecordAborted, Abort
  <1>30. CASE RecordDone
    BY <1>30 DEF RecordDone, Recorded
  <1>31. CASE RecordDoneFails
    BY <1>31 DEF RecordDoneFails, Recorded, Abort
  <1>32. CASE RecordAgain
    BY <1>32 DEF RecordAgain
  <1>33. CASE Frame
    BY <1>33 DEF Frame, More
  <1>34. CASE FrameFails
    BY <1>34 DEF FrameFails, More
  <1>35. CASE UnblockFails
    BY <1>35 DEF UnblockFails, Abort
  <1>36. CASE FrameDone
    BY <1>36 DEF FrameDone, MinOf
  <1>37. CASE FramesEnd
    BY <1>37 DEF FramesEnd
  <1>38. CASE Finish
    BY <1>38 DEF Finish, Abort
  <1>39. CASE SetReady
    BY <1>39 DEF SetReady
  <1>40. CASE ThreadEnd
    BY <1>40 DEF ThreadEnd, Abort
  <1>41. CASE QuitThrows
    BY <1>41 DEF QuitThrows, Terminate
  <1>42. CASE Crash
    BY <1>42 DEF Crash, Terminate
  <1>43. CASE SwitchInit
    BY <1>43 DEF SwitchInit
  <1>44. CASE SwitchBegin
    BY <1>44 DEF SwitchBegin
  <1>45. CASE SwitchEnd
    BY <1>45 DEF SwitchEnd
  <1>46. CASE SwitchReboot
    BY <1>46 DEF SwitchReboot
  <1>47. CASE Record
    BY <1>47 DEF Record
  <1>48. CASE UNCHANGED vars
    BY <1>48 DEF vars
  <1> QED
    BY <1>1, <1>2, <1>3, <1>4, <1>5, <1>6, <1>7, <1>8, <1>9, <1>10, <1>11, <1>12, <1>13, <1>14,
       <1>15, <1>16, <1>17, <1>18, <1>19, <1>20, <1>21, <1>22, <1>23, <1>24, <1>25, <1>26,
       <1>27, <1>28, <1>29, <1>30, <1>31, <1>32, <1>33, <1>34, <1>35, <1>36, <1>37, <1>38,
       <1>39, <1>40, <1>41, <1>42, <1>43, <1>44, <1>45, <1>46, <1>47, <1>48
    DEF Next, Client, Acquire, Switch, Terminated

LEMMA InvInit == Init => IInv
  <1> SUFFICES ASSUME Init PROVE IInv
    OBVIOUS
  <1>1. TypeOK
    BY NoAcqType DEF Init, TypeOK
  <1>2. acq.pc = "init"
    BY DEF Init, NoAcq
  <1>3. StartedCoversRun /\ EdgeNeverRecords /\ EdgeWakesParked
        /\ DimaxNeverSwitches /\ ReadoutIsRecorded
    BY <1>2 DEF Init, StartedCoversRun, EdgeNeverRecords, EdgeWakesParked, DimaxNeverSwitches,
       ReadoutIsRecorded,
       RecordPcs, Parked, At
  <1> QED
    BY <1>1, <1>3 DEF IInv

----------------------------------------------------------------------------
(* Every variable stays in its domain: PcoLinAcq's reading of startAcq and  *)
(* the two threads.                                                         *)
THEOREM TypeCorrect == Spec => []TypeOK
  <1>1. Init => TypeOK
    BY InvInit DEF IInv
  <1>2. TypeOK /\ [Next]_vars => TypeOK'
    BY TypeStep
  <1> QED
    BY <1>1, <1>2, PTL DEF Spec

(* An Edge acquisition runs under the started flag from its wake-up to its  *)
(* end, whatever the client calls and however often the shutter is changed. *)
THEOREM EdgeRunsStarted == Spec => []StartedCoversRun
  <1>1. IInv => StartedCoversRun
    BY DEF IInv
  <1> QED
    BY <1>1, InvInit, InvStep, PTL DEF Spec

(* On an Edge, stopAcq returns only when the acquisition thread waits.      *)
THEOREM EdgeStopIsSync == ASSUME Kinds = {"Edge"} PROVE Spec => StopIsSync
  <1> DEFINE Step == cpc = "stop" /\ cpc' = "idle" => Parked
  <1>1. IInv /\ [Next]_vars => [Step]_vars
    <2> SUFFICES ASSUME IInv, [Next]_vars, cpc = "stop", cpc' = "idle" PROVE Parked
      OBVIOUS
    <2>1. started => cpc' # "idle"
      <3> SUFFICES ASSUME started PROVE cpc' # "idle"
        OBVIOUS
      <3> QED
        BY DEF Next, Client, Acquire, Switch, Terminated, vars, config, client, Prepare,
           StartIgnored, StartEnter, StartCamera, StartStatus, StartWake, StartCheck,
           StartReturn, StopEnter, StopRequest, StopReturn, SetShutter, WakeSwitch, Destroy,
           DestroySwitch, ThreadInit, Wake, Quit, StartOk, StartFails, RecordEnter,
           RecordTooMany, RecordFull, RecordTimeout, RecordStopSeen, RecordOff, Recount,
           RecordEnd, RecordAborted, RecordDone, RecordDoneFails, RecordAgain, Frame,
           FrameFails, UnblockFails, FrameDone, FramesEnd, Finish, SetReady, ThreadEnd,
           QuitThrows, Crash, SwitchInit, SwitchBegin, SwitchEnd, SwitchReboot, Record,
           Terminate
    <2> QED
      BY <2>1 DEF IInv, TypeOK, StartedCoversRun
  <1> QED
    BY <1>1, InvInit, InvStep, PTL DEF Spec, StopIsSync

(* The images a Dimax announces under Linux have been recorded, unless the  *)
(* acquisition runs until stopped or was stopped while it recorded.         *)
THEOREM DimaxReadsRecorded == Spec => []FramesRecorded
  <1>1. IInv => FramesRecorded
    BY DEF IInv, TypeOK, AcqStates, FramesRecorded, ReadoutIsRecorded, Kept, At
  <1> QED
    BY <1>1, InvInit, InvStep, PTL DEF Spec
----------------------------------------------------------------------------
(* The refinement, for an Edge: the wake-up begins a run, ThreadEnd ends it.*)

QuietSteps ==
    \/ Prepare \/ StartIgnored \/ StartStatus \/ StartWake \/ StartCheck \/ StopRequest
    \/ SetShutter \/ WakeSwitch \/ Destroy \/ DestroySwitch \/ ThreadInit \/ Quit
    \/ StartOk \/ StartFails \/ RecordAborted \/ RecordDone \/ RecordDoneFails \/ RecordAgain
    \/ RecordEnter \/ RecordTooMany \/ RecordFull \/ RecordTimeout \/ RecordStopSeen
    \/ RecordOff \/ Recount \/ RecordEnd
    \/ Frame \/ FrameFails \/ UnblockFails \/ FrameDone \/ FramesEnd \/ Finish \/ SetReady
    \/ Switch \/ SwitchReboot \/ Record \/ UNCHANGED vars

LEMMA QuietRefines ==
    ASSUME IInv, kind = "Edge", QuietSteps
    PROVE  UNCHANGED Acquisition!vars
  <1> USE DEF TypeOK, AcqStates, IInv, Parked, Call, Starting, client, sync, At, Goto
  <1>1. CASE StartCheck
    BY <1>1 DEF StartCheck, EdgeNeverRecords, Acquisition!vars
  <1>2. CASE \/ RecordAborted \/ RecordDone \/ RecordDoneFails \/ RecordAgain
             \/ RecordEnter \/ RecordTooMany \/ RecordFull \/ RecordTimeout \/ RecordStopSeen
             \/ RecordOff \/ Recount \/ RecordEnd
    BY <1>2 DEF EdgeNeverRecords, RecordPcs, RecordAborted, RecordDone, RecordDoneFails,
                RecordAgain, RecordEnter, RecordTooMany, RecordFull, RecordTimeout,
                RecordStopSeen, RecordOff, Recount, RecordEnd
  <1>3. CASE \/ Prepare \/ StartIgnored \/ StartStatus \/ StartWake \/ StopRequest
             \/ SetShutter \/ WakeSwitch \/ Destroy \/ DestroySwitch \/ Switch
             \/ SwitchReboot \/ Record \/ UNCHANGED vars
    <2>1. UNCHANGED <<acq, started, Call>>
      BY <1>3 DEF Prepare, StartIgnored, StartStatus, StartWake, StopRequest, SetShutter,
                  WakeSwitch, Destroy, DestroySwitch, Switch, SwitchInit, SwitchBegin, SwitchEnd,
                  SwitchReboot, Record, vars
    <2> QED
      BY <2>1 DEF Acquisition!vars
  <1>4. CASE \/ ThreadInit \/ Quit \/ StartOk \/ StartFails \/ Frame \/ FrameFails
             \/ UnblockFails \/ FrameDone \/ FramesEnd \/ Finish \/ SetReady
    <2>1. UNCHANGED <<started, cpc>>
      BY <1>4 DEF ThreadInit, Quit, StartOk, StartFails, Frame, FrameFails, UnblockFails,
                  FrameDone, FramesEnd, Finish, SetReady
    <2>2. Parked' <=> Parked
      BY <1>4 DEF ThreadInit, Quit, StartOk, StartFails, Frame, FrameFails, UnblockFails,
                  FrameDone, FramesEnd, Finish, SetReady
    <2> QED
      BY <2>1, <2>2 DEF Acquisition!vars
  <1> QED
    BY <1>1, <1>2, <1>3, <1>4 DEF QuietSteps

LEMMA EdgeRefines ==
    ASSUME IInv, kind = "Edge", [Next]_vars
    PROVE  [Acquisition!Next]_(Acquisition!vars)
  <1> USE DEF TypeOK, AcqStates, IInv, Parked, Call, Starting, client, sync, At, Goto
  <1>1. CASE QuietSteps
    BY <1>1, QuietRefines
  <1>2. CASE StartEnter
    BY <1>2 DEF StartEnter, Acquisition!Start, Acquisition!Next
  <1>3. CASE StartCamera \/ StartReturn
    BY <1>3 DEF StartCamera, StartReturn, Acquisition!Flag, Acquisition!Next
  <1>4. CASE StopEnter
    BY <1>4 DEF StopEnter, Acquisition!Stop, Acquisition!Next
  <1>5. CASE StopReturn
    BY <1>5 DEF StopReturn, Acquisition!StopReturn, Acquisition!Next
  <1>6. CASE Wake
    <2>1. started /\ started' /\ Parked /\ cpc' = cpc
      BY <1>6 DEF Wake, EdgeWakesParked
    <2>2. ~Parked'
      BY <1>6 DEF Wake, NoAcq
    <2>3. Acquisition!Begin
      BY <2>1, <2>2 DEF Acquisition!Begin
    <2> QED
      BY <2>3 DEF Acquisition!Next
  <1>7. CASE ThreadEnd
    BY <1>7 DEF ThreadEnd, Acquisition!End, Acquisition!Next
  <1>8. CASE Terminate
    BY <1>8 DEF Terminate, Acquisition!Die, Acquisition!Next
  <1> QED
    BY <1>1, <1>2, <1>3, <1>4, <1>5, <1>6, <1>7, <1>8
    DEF Next, Client, Acquire, QuitThrows, Crash, Terminated, QuietSteps

(* An Edge under Linux implements the acquisition LIMA is promised,         *)
(* whatever the client calls, with shutter changes and the camera's end.    *)
THEOREM EdgeImplements == Spec => EdgeImplementsAcquisition
  <1>1. Init => Acquisition!Init
    BY DEF Init, Acquisition!Init, Call, Starting, Parked, NoAcq
  <1>2. IInv /\ [Next]_vars => [kind = "Edge" => Acquisition!Next]_(Acquisition!vars)
    BY EdgeRefines
  <1> QED
    BY <1>1, <1>2, InvInit, InvStep, PTL DEF Spec, EdgeImplementsAcquisition
----------------------------------------------------------------------------
(* The action properties.  Whoever wakes, ends or is ended is known from    *)
(* the flags: an acquisition under way has its wait flag clear, quit is set *)
(* by the end of the camera only, and the switch keeps the mutex.           *)
RebootIsLocked == Rebooting => mutex = "switch"

RunIsAwake == acq.pc \in RecordPcs \cup {"start", "frames", "announced"} => ~waitFlag

QuitIsLast == quit => cpc \in {"joinacq", "joinsw", "dead"}

(* Where no shutter is changed the status is Ready from the end of an       *)
(* acquisition to the status of the next one.                               *)
Unswitched == ~(Switches /\ kind = "Edge")
NeverSwitches == waitRolling /\ cpc # "shutter" /\ swpc \in {"init", "wait", "gone"}
AtRest == At("end") \/ (Parked /\ waitFlag)
ReadyIsAtRest ==
    Unswitched => /\ NeverSwitches
                  /\ prepared \/ cpc \in {"camera", "status"} => status = "Ready"
                  /\ status = "Ready" \/ cpc = "wake" => AtRest
                  /\ cpc = "wake" => status = "Exposure"
                  /\ cpc \in {"camera", "status", "wake"} => ~prepared

FlagInv == IInv /\ RebootIsLocked /\ RunIsAwake /\ QuitIsLast /\ ReadyIsAtRest

LEMMA FlagInit == Init => FlagInv
  BY InvInit DEF Init, NoAcq, FlagInv, RebootIsLocked, RunIsAwake, QuitIsLast, ReadyIsAtRest,
     Rebooting, RecordPcs, Unswitched, NeverSwitches, AtRest, Parked, At

LEMMA FlagStep == FlagInv /\ [Next]_vars => FlagInv'
  <1> SUFFICES ASSUME FlagInv, [Next]_vars, IInv', TypeOK
               PROVE  RebootIsLocked' /\ RunIsAwake' /\ QuitIsLast' /\ ReadyIsAtRest'
    BY InvStep DEF FlagInv, IInv
  <1> USE DEF FlagInv, RebootIsLocked, RunIsAwake, QuitIsLast, ReadyIsAtRest, Rebooting, RecordPcs,
              Unswitched, NeverSwitches, AtRest, Parked, TypeOK, AcqStates, config, flags, sync,
              camera, client, At, Goto, Free
  <1>1. CASE Prepare
    BY <1>1 DEF Prepare
  <1>2. CASE StartIgnored
    BY <1>2 DEF StartIgnored
  <1>3. CASE StartEnter
    BY <1>3 DEF StartEnter
  <1>4. CASE StartCamera
    BY <1>4 DEF StartCamera
  <1>5. CASE StartStatus
    <2>1. /\ UNCHANGED <<kind, swpc, mutex, acq, waitFlag, quit, waitRolling, prepared>>
          /\ cpc = "status" /\ cpc' = "wake" /\ status' = "Exposure"
      BY <1>5 DEF StartStatus
    <2>2. AtRest' <=> AtRest
      BY <2>1 DEF AtRest, Parked, At
    <2>3. ReadyIsAtRest'
      <3> SUFFICES ASSUME Unswitched PROVE (ReadyIsAtRest!2)'
        BY <2>1 DEF Unswitched
      <3> QED
        BY <2>1, <2>2
    <2> QED
      BY <2>1, <2>3
  <1>6. CASE StartWake
    BY <1>6 DEF StartWake
  <1>7. CASE StartCheck
    BY <1>7 DEF StartCheck
  <1>8. CASE StartReturn
    BY <1>8 DEF StartReturn
  <1>9. CASE StopEnter
    BY <1>9 DEF StopEnter
  <1>10. CASE StopRequest
    BY <1>10 DEF StopRequest
  <1>11. CASE StopReturn
    BY <1>11 DEF StopReturn
  <1>12. CASE SetShutter
    BY <1>12 DEF SetShutter
  <1>13. CASE WakeSwitch
    BY <1>13 DEF WakeSwitch
  <1>14. CASE Destroy
    BY <1>14 DEF Destroy
  <1>15. CASE DestroySwitch
    BY <1>15 DEF DestroySwitch
  <1>16. CASE ThreadInit
    BY <1>16 DEF ThreadInit
  <1>17. CASE Wake
    BY <1>17 DEF Wake, NoAcq
  <1>18. CASE Quit
    BY <1>18 DEF Quit
  <1>19. CASE StartOk
    BY <1>19 DEF StartOk, RecordOn
  <1>20. CASE StartFails
    BY <1>20 DEF StartFails, RecordOn, Abort
  <1>21. CASE RecordEnter
    BY <1>21 DEF RecordEnter
  <1>22. CASE RecordTooMany
    BY <1>22 DEF RecordTooMany, LeaveRecordLoop
  <1>23. CASE RecordFull
    BY <1>23 DEF RecordFull, LeaveRecordLoop
  <1>24. CASE RecordTimeout
    BY <1>24 DEF RecordTimeout, LeaveRecordLoop
  <1>25. CASE RecordStopSeen
    BY <1>25 DEF RecordStopSeen, LeaveRecordLoop
  <1>26. CASE RecordOff
    BY <1>26 DEF RecordOff
  <1>27. CASE Recount
    BY <1>27 DEF Recount
  <1>28. CASE RecordEnd
    BY <1>28 DEF RecordEnd
  <1>29. CASE RecordAborted
    BY <1>29 DEF RecordAborted, Abort
  <1>30. CASE RecordDone
    BY <1>30 DEF RecordDone, Recorded
  <1>31. CASE RecordDoneFails
    BY <1>31 DEF RecordDoneFails, Recorded, Abort
  <1>32. CASE RecordAgain
    BY <1>32 DEF RecordAgain
  <1>33. CASE Frame
    BY <1>33 DEF Frame, More
  <1>34. CASE FrameFails
    BY <1>34 DEF FrameFails, More
  <1>35. CASE UnblockFails
    BY <1>35 DEF UnblockFails, Abort
  <1>36. CASE FrameDone
    BY <1>36 DEF FrameDone, MinOf
  <1>37. CASE FramesEnd
    BY <1>37 DEF FramesEnd
  <1>38. CASE Finish
    BY <1>38 DEF Finish, Abort
  <1>39. CASE SetReady
    BY <1>39 DEF SetReady
  <1>40. CASE ThreadEnd
    BY <1>40 DEF ThreadEnd, Abort
  <1>41. CASE QuitThrows
    BY <1>41 DEF QuitThrows, Terminate
  <1>42. CASE Crash
    BY <1>42 DEF Crash, Terminate
  <1>43. CASE SwitchInit
    BY <1>43 DEF SwitchInit
  <1>44. CASE SwitchBegin
    BY <1>44 DEF SwitchBegin
  <1>45. CASE SwitchEnd
    BY <1>45 DEF SwitchEnd
  <1>46. CASE SwitchReboot
    BY <1>46 DEF SwitchReboot
  <1>47. CASE Record
    BY <1>47 DEF Record
  <1>48. CASE UNCHANGED vars
    BY <1>48 DEF vars
  <1> QED
    BY <1>1, <1>2, <1>3, <1>4, <1>5, <1>6, <1>7, <1>8, <1>9, <1>10, <1>11, <1>12, <1>13,
       <1>14, <1>15, <1>16, <1>17, <1>18, <1>19, <1>20, <1>21, <1>22, <1>23, <1>24, <1>25,
       <1>26, <1>27, <1>28, <1>29, <1>30, <1>31, <1>32, <1>33, <1>34, <1>35, <1>36, <1>37,
       <1>38, <1>39, <1>40, <1>41, <1>42, <1>43, <1>44, <1>45, <1>46, <1>47, <1>48
    DEF Next, Client, Acquire, Switch, Terminated

(* No acquisition begins and no status is set while a shutter change keeps  *)
(* the mutex: setup, reboot and open are one critical section of            *)
(* threadFunction_SwitchEdge.                                               *)
THEOREM SwitchExcludes == Spec => SwitchIsExclusive
  <1> DEFINE Step == Rebooting /\ Rebooting' => status' = status /\ ~(At("wait") /\ acq'.pc = "start")
  <1>1. FlagInv /\ [Next]_vars => [Step]_vars
    <2> SUFFICES ASSUME FlagInv, [Next]_vars, Rebooting, Rebooting'
                 PROVE  status' = status /\ ~(At("wait") /\ acq'.pc = "start")
      OBVIOUS
    <2>1. ~Free
      BY DEF FlagInv, RebootIsLocked, Free
    <2>2. TypeOK
      BY DEF FlagInv, IInv
    <2>3. CASE Prepare \/ StartIgnored \/ StartEnter \/ Client \/ StopEnter \/ SetShutter \/ Destroy
      BY <2>1, <2>2, <2>3
      DEF TypeOK, AcqStates, Rebooting, Free, At, Goto, config, flags, sync, camera, client,
          Prepare, StartIgnored, StartEnter, Client, StartCamera, StartStatus, StartWake,
          StartCheck, StartReturn, StopEnter, StopRequest, StopReturn, SetShutter, WakeSwitch,
          Destroy, DestroySwitch
    <2>4. CASE \/ ThreadInit \/ Wake \/ Quit \/ StartOk \/ StartFails \/ RecordEnter \/ RecordTooMany
               \/ RecordFull \/ RecordTimeout \/ RecordStopSeen \/ RecordOff \/ Recount \/ RecordEnd
      BY <2>1, <2>2, <2>4
      DEF TypeOK, AcqStates, Rebooting, Free, At, Goto, config, flags, sync, camera, client,
          ThreadInit, Wake, NoAcq, Quit, StartOk, RecordOn, StartFails, Abort, RecordEnter,
          RecordTooMany, LeaveRecordLoop, RecordFull, RecordTimeout, RecordStopSeen, RecordOff,
          Recount, RecordEnd
    <2>5. CASE \/ RecordAborted \/ RecordDone \/ RecordDoneFails \/ RecordAgain \/ Frame \/ FrameFails
               \/ UnblockFails \/ FrameDone \/ FramesEnd \/ Finish \/ SetReady \/ ThreadEnd
      BY <2>1, <2>2, <2>5
      DEF TypeOK, AcqStates, Rebooting, Free, At, Goto, config, flags, sync, camera, client,
          RecordAborted, RecordDone, Recorded, RecordDoneFails, RecordAgain, Abort, Frame, More,
          FrameFails, UnblockFails, FrameDone, MinOf, FramesEnd, Finish, SetReady, ThreadEnd,
          Quit, Wake, NoAcq
    <2>6. CASE QuitThrows \/ Crash \/ Switch \/ SwitchReboot \/ Record \/ Terminated \/ UNCHANGED vars
      BY <2>1, <2>2, <2>6
      DEF TypeOK, AcqStates, Rebooting, Free, At, Goto, config, flags, sync, camera, client,
          QuitThrows, Terminate, Crash, Switch, SwitchInit, SwitchBegin, SwitchEnd, SwitchReboot,
          Record, Terminated, vars
    <2> QED
      BY <2>3, <2>4, <2>5, <2>6 DEF Next, Acquire
  <1> QED
    BY <1>1, FlagInit, FlagStep, PTL DEF Spec, SwitchIsExclusive

(* The flag is left set for a thread that waits only by startAcq's last     *)
(* setStarted(true), or when a start came before threadFunction had begun:  *)
(* no end of an acquisition, no abort and no end of the camera does it.     *)
THEOREM OrphansFromStart == Spec => OrphansComeFromStart
  <1> DEFINE Step == ~Orphaned /\ Orphaned' => cpc = "started" \/ At("init")
  <1>1. FlagInv /\ [Next]_vars => [Step]_vars
    <2> SUFFICES ASSUME FlagInv, [Next]_vars, ~Orphaned, Orphaned', cpc # "started", ~At("init")
                 PROVE  UNCHANGED vars
      OBVIOUS
    <2>1. CASE Prepare \/ StartIgnored \/ StartEnter \/ Client \/ StopEnter \/ SetShutter \/ Destroy
      BY <2>1
      DEF FlagInv, IInv, RunIsAwake, RecordPcs, QuitIsLast, Orphaned, Starting, Parked, Free,
          TypeOK, AcqStates, At, Goto, config, flags, sync, camera, client, Prepare, StartIgnored,
          StartEnter, Client, StartCamera, StartStatus, StartWake, StartCheck, StartReturn,
          StopEnter, StopRequest, StopReturn, SetShutter, WakeSwitch, Destroy, DestroySwitch
    <2>2. CASE \/ ThreadInit \/ Wake \/ Quit \/ StartOk \/ StartFails \/ RecordEnter \/ RecordTooMany
               \/ RecordFull \/ RecordTimeout \/ RecordStopSeen \/ RecordOff \/ Recount \/ RecordEnd
      BY <2>2
      DEF FlagInv, IInv, RunIsAwake, RecordPcs, QuitIsLast, Orphaned, Starting, Parked, Free,
          TypeOK, AcqStates, At, Goto, config, flags, sync, camera, client, ThreadInit, Wake,
          NoAcq, Quit, StartOk, RecordOn, StartFails, Abort, RecordEnter, RecordTooMany,
          LeaveRecordLoop, RecordFull, RecordTimeout, RecordStopSeen, RecordOff, Recount,
          RecordEnd
    <2>3. CASE \/ RecordAborted \/ RecordDone \/ RecordDoneFails \/ RecordAgain \/ Frame \/ FrameFails
               \/ UnblockFails \/ FrameDone \/ FramesEnd \/ Finish \/ SetReady \/ ThreadEnd
      BY <2>3
      DEF FlagInv, IInv, RunIsAwake, RecordPcs, QuitIsLast, Orphaned, Starting, Parked, Free,
          TypeOK, AcqStates, At, Goto, config, flags, sync, camera, client, RecordAborted,
          RecordDone, Recorded, RecordDoneFails, RecordAgain, Abort, Frame, More, FrameFails,
          UnblockFails, FrameDone, MinOf, FramesEnd, Finish, SetReady, ThreadEnd, Quit, Wake,
          NoAcq
    <2>4. CASE QuitThrows \/ Crash \/ Switch \/ SwitchReboot \/ Record \/ Terminated \/ UNCHANGED vars
      BY <2>4
      DEF FlagInv, IInv, RunIsAwake, RecordPcs, QuitIsLast, Orphaned, Starting, Parked, Free,
          TypeOK, AcqStates, At, Goto, config, flags, sync, camera, client, QuitThrows, Terminate,
          Crash, Switch, SwitchInit, SwitchBegin, SwitchEnd, SwitchReboot, Record, Terminated,
          vars
    <2> QED
      BY <2>1, <2>2, <2>3, <2>4 DEF Next, Acquire
  <1> QED
    BY <1>1, FlagInit, FlagStep, PTL DEF Spec, OrphansComeFromStart

(* startAcq wakes an Edge thread that waits, and nothing takes the wake-up  *)
(* back but the thread's own init, its beginning and its end.               *)
THEOREM WakeIsKept == Spec => WakeKept
  <1> DEFINE Step == /\ kind = "Edge" /\ cpc = "wake" /\ cpc' = "check" => Parked
                     /\ Woken /\ ~Woken' => At("init") \/ acq'.pc \in {"start", "gone"}
  <1>1. FlagInv /\ [Next]_vars => [Step]_vars
    <2> SUFFICES ASSUME FlagInv, [Next]_vars, Woken, ~Woken', ~At("init")
                 PROVE  acq'.pc \in {"start", "gone"}
      BY DEF FlagInv, IInv, EdgeWakesParked
    <2>1. acq.pc = "wait" /\ ~waitFlag /\ acq \in AcqStates
      BY DEF FlagInv, IInv, Woken, TypeOK, At
    <2>2. waitFlag' \/ acq'.pc # "wait"
      BY <2>1 DEF Woken
    <2>3. CASE Wake \/ Quit \/ QuitThrows
      BY <2>1, <2>3 DEF Wake, NoAcq, Quit, QuitThrows, Terminate, Goto, AcqStates
    <2>4. CASE \/ Prepare \/ StartIgnored \/ StartEnter \/ Client \/ StopEnter \/ SetShutter
               \/ Destroy \/ Switch \/ SwitchReboot \/ Record \/ UNCHANGED vars
      <3>1. acq' = acq /\ ~waitFlag'
        BY <2>1, <2>4
        DEF Prepare, StartIgnored, StartEnter, Client, StartCamera, StartStatus, StartWake,
            StartCheck, StartReturn, StopEnter, StopRequest, StopReturn, SetShutter, WakeSwitch,
            Destroy, DestroySwitch, Switch, SwitchInit, SwitchBegin, SwitchEnd, SwitchReboot,
            Record, vars, flags
      <3> QED
        BY <2>1, <2>2, <3>1
    <2> QED
      BY <2>1, <2>3, <2>4
      DEF Next, Acquire, Terminated, At, ThreadInit, StartOk, StartFails, RecordEnter,
          RecordTooMany, RecordFull, RecordTimeout, RecordStopSeen, RecordOff, Recount, RecordEnd,
          RecordAborted, RecordDone, RecordDoneFails, RecordAgain, Frame, FrameFails, UnblockFails,
          FrameDone, FramesEnd, Finish, SetReady, ThreadEnd, Crash
  <1> QED
    BY <1>1, FlagInit, FlagStep, PTL DEF Spec, WakeKept

(* Where no shutter is changed, a start after a preparation is ignored only *)
(* when the flag is orphaned or in the window between the status Ready and  *)
(* the end of the acquisition.                                              *)
THEOREM IgnoredAtEnd == Spec => IgnoredOnlyAtEnd
  <1> DEFINE Step == prepared /\ ~prepared' /\ cpc' = "idle" /\ ~(Switches /\ kind = "Edge")
                         => Orphaned \/ At("end")
  <1>1. FlagInv /\ [Next]_vars => [Step]_vars
    <2> SUFFICES ASSUME FlagInv, [Next]_vars, prepared, ~prepared', cpc' = "idle", Unswitched
                 PROVE  Orphaned \/ At("end")
      BY DEF Unswitched
    <2>1. cpc = "idle" /\ started
      <3>1. CASE Prepare \/ StartIgnored \/ StartEnter \/ Client \/ StopEnter \/ SetShutter \/ Destroy
        BY <3>1
        DEF FlagInv, IInv, TypeOK, AcqStates, At, Goto, config, flags, sync, camera, client,
            Prepare, StartIgnored, StartEnter, Client, StartCamera, StartStatus, StartWake,
            StartCheck, StartReturn, StopEnter, StopRequest, StopReturn, SetShutter, WakeSwitch,
            Destroy, DestroySwitch
      <3>2. CASE \/ ThreadInit \/ Wake \/ Quit \/ StartOk \/ StartFails \/ RecordEnter \/ RecordTooMany
                 \/ RecordFull \/ RecordTimeout \/ RecordStopSeen \/ RecordOff \/ Recount \/ RecordEnd
        BY <3>2
        DEF FlagInv, IInv, TypeOK, AcqStates, At, Goto, config, flags, sync, camera, client,
            ThreadInit, Wake, NoAcq, Quit, StartOk, RecordOn, StartFails, Abort, RecordEnter,
            RecordTooMany, LeaveRecordLoop, RecordFull, RecordTimeout, RecordStopSeen, RecordOff,
            Recount, RecordEnd
      <3>3. CASE \/ RecordAborted \/ RecordDone \/ RecordDoneFails \/ RecordAgain \/ Frame \/ FrameFails
                 \/ UnblockFails \/ FrameDone \/ FramesEnd \/ Finish \/ SetReady \/ ThreadEnd
        BY <3>3
        DEF FlagInv, IInv, TypeOK, AcqStates, At, Goto, config, flags, sync, camera, client,
            RecordAborted, RecordDone, Recorded, RecordDoneFails, RecordAgain, Abort, Frame, More,
            FrameFails, UnblockFails, FrameDone, MinOf, FramesEnd, Finish, SetReady, ThreadEnd,
            Quit, Wake, NoAcq
      <3>4. CASE QuitThrows \/ Crash \/ Switch \/ SwitchReboot \/ Record \/ Terminated \/ UNCHANGED vars
        BY <3>4
        DEF FlagInv, IInv, TypeOK, AcqStates, At, Goto, config, flags, sync, camera, client,
            QuitThrows, Terminate, Crash, Switch, SwitchInit, SwitchBegin, SwitchEnd, SwitchReboot,
            Record, Terminated, vars
      <3> QED
        BY <3>1, <3>2, <3>3, <3>4 DEF Next, Acquire
    <2>2. AtRest
      BY DEF FlagInv, ReadyIsAtRest
    <2> QED
      BY <2>1, <2>2 DEF AtRest, Orphaned, Starting
  <1> QED
    BY <1>1, FlagInit, FlagStep, PTL DEF Spec, IgnoredOnlyAtEnd
============================================================================
