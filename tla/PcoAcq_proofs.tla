--------------------------- MODULE PcoAcq_proofs ---------------------------
(* What PcoAcq promises, proved for every number of threads, every segment  *)
(* size and every set of requested frame counts.                            *)
EXTENDS PcoAcq, TLAPS

----------------------------------------------------------------------------
(* The inductive invariant.  A thread is alive only while the flag started  *)
(* is set, and startAcq begins one only when none is left.  Both rest on    *)
(* the exposing status: the status of a fault makes getStatus answer Fault, *)
(* which lets LIMA prepare again, and an Error makes startAcq clear the     *)
(* flag, so neither may be seen while a thread still has its work to do.    *)

Faulty == {"Error", "PcoError"}
Working(t) == thr[t].pc \notin {"none", "lastoff", "end"}
Recorder(t) == thr[t].fn \in {"dimax", "trig"}
Starting == cpc \in {"camera", "record", "begin"}

LiveHasPlace == \A t \in Tids : Live(t) <=> thr[t].pc # "none"
LiveIsStarted == \A t \in Tids : Live(t) => started
StartingAlone == Starting => \A t \in Tids : ~Live(t)
StartedWhenBeginning == cpc \in {"record", "begin"} => started

NoErrorAtCheck == /\ Starting => exposing \notin Faulty
                  /\ cpc = "check" => exposing # "Error"
NoFaultWorking == \A t \in Tids : Working(t) => exposing \notin Faulty
NoErrorResult == \A t \in Tids : thr[t].status # "Error"

InRange == /\ cpc \in {"record", "begin"} => ~OutOfRange
           /\ \A t \in Tids : /\ Recorder(t) /\ At(t, "entry") => nbFrames <= CalcMax
                              /\ thr[t].pc \in {"recloop", "trigcheck"} => thr[t].nb <= HwMax

IInv == /\ TypeOK
        /\ OneThread
        /\ LiveHasPlace /\ LiveIsStarted /\ StartingAlone /\ StartedWhenBeginning
        /\ NoErrorAtCheck /\ NoFaultWorking /\ NoErrorResult /\ InRange
----------------------------------------------------------------------------
(* Type correctness.                                                        *)

LEMMA ModRange ==
    ASSUME NEW a \in Nat, NEW w \in Nat \ {0}
    PROVE  a % w \in Nat /\ a % w <= a
  OBVIOUS

LEMMA GotoType ==
    ASSUME thr \in [Tids -> ThreadStates], NEW t \in Tids, NEW pc \in ThreadPcs, Goto(t, pc)
    PROVE  thr' \in [Tids -> ThreadStates]
  BY DEF Goto, ThreadStates

LEMMA LeaveType ==
    ASSUME thr \in [Tids -> ThreadStates], NEW t \in Tids,
           NEW why \in {"full", "timeout", "stop", "range"}, LeaveRecordLoop(t, why)
    PROVE  thr' \in [Tids -> ThreadStates]
  <1> DEFINE left == [thr[t] EXCEPT !.pc = "recstop", !.why = why]
  <1>1. left \in ThreadStates
    BY DEF ThreadStates, ThreadPcs
  <1>2. thr' = [thr EXCEPT ![t] = left]
    BY DEF LeaveRecordLoop, ThreadStates
  <1> HIDE DEF left
  <1> QED
    BY <1>1, <1>2

LEMMA ReturnType ==
    ASSUME thr \in [Tids -> ThreadStates], NEW t \in Tids,
           NEW status \in Exposing, XferReturn(t, status)
    PROVE  thr' \in [Tids -> ThreadStates]
  <1> DEFINE returned == [thr[t] EXCEPT !.pc = "result", !.status = status]
  <1>1. returned \in ThreadStates
    BY DEF ThreadStates, ThreadPcs
  <1>2. thr' = [thr EXCEPT ![t] = returned]
    BY DEF XferReturn, ThreadStates
  <1> HIDE DEF returned
  <1> QED
    BY <1>1, <1>2

LEMMA TypeStep == TypeOK /\ [Next]_vars => TypeOK'
  <1> SUFFICES ASSUME TypeOK, [Next]_vars PROVE TypeOK'
    OBVIOUS
  <1> USE RequestsAssumption, SizesAssumption
  <1> USE DEF TypeOK, config, request, client
  <1>1. CASE Prepare
    <2>1. asked' \in Nat
      BY <1>1 DEF Prepare
    <2> QED
      BY <1>1, <2>1 DEF Prepare
  <1>2. CASE StartEnter
    <2>1. CASE started
      <3>1. UNCHANGED <<exposing, request, cpc>>
        BY <1>2, <2>1, Zenon DEF StartEnter
      <3> QED
        BY <1>2, <3>1 DEF StartEnter
    <2>2. CASE ~started
      <3>1. requestStop' = FALSE /\ nrStop' = 0 /\ exposing' = "Start" /\ cpc' = "camera"
        BY <1>2, <2>2, Zenon DEF StartEnter
      <3> QED
        BY <1>2, <3>1 DEF StartEnter, Exposing
    <2> QED
      BY <2>1, <2>2
  <1>3. CASE StopEnter
    BY <1>3 DEF StopEnter
  <1>4. CASE StartCamera
    BY <1>4 DEF StartCamera, Exposing
  <1>5. CASE StartRejected
    BY <1>5 DEF StartRejected, Exposing
  <1>6. CASE StartRecord
    <2>1. CASE UNCHANGED <<recording, valid, exposing>>
      BY <1>6, <2>1 DEF StartRecord
    <2>2. CASE recording' = TRUE /\ valid' = 0 /\ exposing' = "RecordStart"
      BY <1>6, <2>2 DEF StartRecord, Exposing
    <2> QED
      BY <1>6, <2>1, <2>2 DEF StartRecord, RecordOn, RecordOnFails
  <1>7. CASE StartThrows
    <2>1. CASE UNCHANGED <<recording, valid, exposing>>
      BY <1>7, <2>1 DEF StartThrows
    <2>2. CASE recording' = TRUE /\ valid' = 0 /\ exposing' = "RecordStart"
      BY <1>7, <2>2 DEF StartThrows, Exposing
    <2> QED
      BY <1>7, <2>1, <2>2 DEF StartThrows, RecordOn, RecordOnFails
  <1>8. CASE BeginThread
    <2>1. PICK t \in Tids : thr' = [thr EXCEPT ![t] = [NoThread EXCEPT !.fn = ThreadFunction,
                                                                       !.pc = "entry"]]
      BY <1>8 DEF BeginThread
    <2>2. [NoThread EXCEPT !.fn = ThreadFunction, !.pc = "entry"] \in ThreadStates
      BY DEF NoThread, ThreadFunction, ThreadStates, ThreadPcs, Functions, Exposing
    <2>3. thr' \in [Tids -> ThreadStates]
      BY <2>1, <2>2
    <2> QED
      BY <1>8, <2>3 DEF BeginThread
  <1>9. CASE StartCheck
    BY <1>9 DEF StartCheck
  <1>10. CASE StartWaited
    BY <1>10 DEF StartWaited
  <1>11. CASE StartReturn
    BY <1>11 DEF StartReturn
  <1>12. CASE StopRequest
    BY <1>12 DEF StopRequest, MaxNrStop
  <1>13. CASE StopReturn
    BY <1>13 DEF StopReturn
  <1>14. CASE Record
    BY <1>14 DEF Record
  <1>15. CASE RecordStopEvent
    BY <1>15 DEF RecordStopEvent
  <1>t. ASSUME NEW t \in Tids, Thread(t) \/ Errors(t) PROVE TypeOK'
    <2>1. CASE RecordInit(t)
      <3> DEFINE next == [thr[t] EXCEPT !.nb = nbFrames, !.pc = IF thr[t].fn = "dimax" THEN "recloop" ELSE "trigcheck"]
      <3>0. acqFrames' \in Nat
        BY <2>1 DEF RecordInit, MinOf, ThreadStates
      <3>a. next \in ThreadStates
        <4>1. (IF thr[t].fn = "dimax" THEN "recloop" ELSE "trigcheck") \in ThreadPcs
          BY DEF ThreadPcs
        <4> QED
          BY <3>0, <4>1 DEF ThreadStates
      <3>b. thr' = [thr EXCEPT ![t] = next]
        BY <2>1 DEF RecordInit
      <3> HIDE DEF next
      <3>1. thr' \in [Tids -> ThreadStates]
        BY <3>a, <3>b
      <3> QED
        BY <2>1, <3>0, <3>1 DEF RecordInit, Exposing
    <2>2. CASE RecordTooMany(t)
      <3>1. thr' \in [Tids -> ThreadStates]
        BY <2>2, LeaveType DEF RecordTooMany
      <3> QED
        BY <2>2, <3>1 DEF RecordTooMany, Exposing
    <2>3. CASE RecordFull(t)
      <3>1. thr' \in [Tids -> ThreadStates]
        BY <2>3, LeaveType DEF RecordFull
      <3> QED
        BY <2>3, <3>1 DEF RecordFull
    <2>4. CASE RecordTimeout(t)
      <3>1. thr' \in [Tids -> ThreadStates]
        BY <2>4, LeaveType DEF RecordTimeout
      <3> QED
        BY <2>4, <3>1 DEF RecordTimeout, Exposing
    <2>5. CASE TrigLoop(t)
      <3>1. thr' \in [Tids -> ThreadStates]
        BY <2>5, GotoType DEF TrigLoop, ThreadPcs
      <3> QED
        BY <2>5, <3>1 DEF TrigLoop
    <2>6. CASE TrigRecorded(t)
      <3>1. thr' \in [Tids -> ThreadStates]
        BY <2>6, LeaveType DEF TrigRecorded
      <3> QED
        BY <2>6, <3>1 DEF TrigRecorded
    <2>7. CASE RecordStopSeen(t)
      <3>1. thr' \in [Tids -> ThreadStates]
        BY <2>7, LeaveType DEF RecordStopSeen
      <3> QED
        BY <2>7, <3>1 DEF RecordStopSeen
    <2>8. CASE RecordOff(t)
      <3>1. thr' \in [Tids -> ThreadStates]
        BY <2>8, GotoType DEF RecordOff, ThreadPcs
      <3> QED
        BY <2>8, <3>1 DEF RecordOff
    <2>9. CASE Recount(t)
      <3>1. thr' \in [Tids -> ThreadStates]
        BY <2>9, GotoType DEF Recount, ThreadPcs
      <3>2. nbFrames' \in Nat
        BY <2>9, ModRange DEF Recount, Acquired, PcoRequested, MinOf, ThreadStates
      <3>3. exposing' \in Exposing
        BY <2>9 DEF Recount, Exposing
      <3> QED
        BY <2>9, <3>1, <3>2, <3>3 DEF Recount
    <2>10. CASE StreamInit(t)
      <3>1. thr' \in [Tids -> ThreadStates]
        BY <2>10, GotoType DEF StreamInit, ThreadPcs
      <3> QED
        BY <2>10, <3>1 DEF StreamInit
    <2>11. CASE XferEnter(t)
      <3> DEFINE next == [thr[t] EXCEPT !.limit = nbFrames, !.pc = IF Imag(t) THEN "assign" ELSE "frames"]
      <3>0. acqFrames' \in Nat
        BY <2>11 DEF XferEnter, MinOf, ThreadStates
      <3>a. next \in ThreadStates
        <4>1. (IF Imag(t) THEN "assign" ELSE "frames") \in ThreadPcs
          BY DEF ThreadPcs
        <4> QED
          BY <3>0, <4>1 DEF ThreadStates
      <3>b. thr' = [thr EXCEPT ![t] = next]
        BY <2>11 DEF XferEnter
      <3> HIDE DEF next
      <3>1. thr' \in [Tids -> ThreadStates]
        BY <3>a, <3>b
      <3> QED
        BY <2>11, <3>0, <3>1 DEF XferEnter
    <2>12. CASE XferAssign(t)
      <3>1. thr' \in [Tids -> ThreadStates]
        BY <2>12, GotoType DEF XferAssign, ThreadPcs
      <3> QED
        BY <2>12, <3>1 DEF XferAssign
    <2>13. CASE XferRunAfterAssign(t)
      <3>1. thr' \in [Tids -> ThreadStates]
        BY <2>13, GotoType DEF XferRunAfterAssign, ThreadPcs
      <3>2. CASE UNCHANGED <<recording, valid, exposing>>
        BY <2>13, <3>1, <3>2 DEF XferRunAfterAssign
      <3>3. CASE recording' = TRUE /\ valid' = 0 /\ exposing' = "RecordStart"
        BY <2>13, <3>1, <3>3 DEF XferRunAfterAssign, Exposing
      <3> QED
        BY <2>13, <3>2, <3>3 DEF XferRunAfterAssign, RecordOn, RecordOnFails
    <2>14. CASE XferFrame(t)
      <3>1. thr' \in [Tids -> ThreadStates]
        BY <2>14, GotoType DEF XferFrame, ThreadPcs
      <3> QED
        BY <2>14, <3>1 DEF XferFrame
    <2>15. CASE XferContinue(t)
      <3> DEFINE next == [thr[t] EXCEPT !.done = acqFrames', !.pc = "frames"]
      <3>0. acqFrames' \in Nat
        BY <2>15 DEF XferContinue, MinOf, ThreadStates
      <3>a. next \in ThreadStates
        BY <3>0 DEF ThreadStates, ThreadPcs
      <3>b. thr' = [thr EXCEPT ![t] = next]
        BY <2>15 DEF XferContinue
      <3> HIDE DEF next
      <3>1. thr' \in [Tids -> ThreadStates]
        BY <3>a, <3>b
      <3> QED
        BY <2>15, <3>0, <3>1 DEF XferContinue, MinOf
    <2>16. CASE XferEnd(t)
      <3>1. thr' \in [Tids -> ThreadStates]
        BY <2>16, ReturnType DEF XferEnd, Exposing
      <3> QED
        BY <2>16, <3>1 DEF XferEnd, XferReturn
    <2>17. CASE XferStop(t)
      <3>1. thr' \in [Tids -> ThreadStates]
        BY <2>17, ReturnType DEF XferStop, Exposing
      <3> QED
        BY <2>17, <3>1 DEF XferStop, XferReturn
    <2>18. CASE XferNothing(t)
      <3>1. thr' \in [Tids -> ThreadStates]
        BY <2>18, ReturnType DEF XferNothing, Exposing
      <3> QED
        BY <2>18, <3>1 DEF XferNothing, XferReturn
    <2>19. CASE Result(t)
      <3>1. thr' \in [Tids -> ThreadStates]
        BY <2>19, GotoType DEF Result, ThreadPcs
      <3> QED
        BY <2>19, <3>1 DEF Result, ThreadStates
    <2>20. CASE LastOff(t)
      <3>1. thr' \in [Tids -> ThreadStates]
        BY <2>20, GotoType DEF LastOff, ThreadPcs
      <3>2. recording' \in BOOLEAN
        BY <2>20 DEF LastOff
      <3> QED
        BY <2>20, <3>1, <3>2 DEF LastOff
    <2>21. CASE ThreadEnd(t)
      <3>0. NoThread \in ThreadStates
        BY DEF NoThread, ThreadStates, ThreadPcs, Exposing
      <3>1. thr' \in [Tids -> ThreadStates]
        BY <2>21, <3>0 DEF ThreadEnd
      <3> QED
        BY <2>21, <3>1 DEF ThreadEnd
    <2>22. CASE Throw(t)
      <3>0. NoThread \in ThreadStates
        BY DEF NoThread, ThreadStates, ThreadPcs, Exposing
      <3>1. thr' \in [Tids -> ThreadStates]
        BY <2>22, <3>0 DEF Throw, Terminate
      <3> QED
        BY <2>22, <3>1 DEF Throw, Terminate
    <2>23. CASE XferFails(t)
      <3>1. thr' \in [Tids -> ThreadStates]
        BY <2>23, ReturnType DEF XferFails, Exposing
      <3> QED
        BY <2>23, <3>1 DEF XferFails, XferReturn
    <2>24. CASE XferThrows(t)
      <3>0. NoThread \in ThreadStates
        BY DEF NoThread, ThreadStates, ThreadPcs, Exposing
      <3>1. thr' \in [Tids -> ThreadStates]
        BY <2>24, <3>0 DEF XferThrows, Terminate
      <3> QED
        BY <2>24, <3>1 DEF XferThrows, Terminate
    <2> QED
      BY <1>t, <2>1, <2>2, <2>3, <2>4, <2>5, <2>6, <2>7, <2>8, <2>9, <2>10, <2>11, <2>12, <2>13, <2>14, <2>15, <2>16, <2>17, <2>18, <2>19, <2>20, <2>21, <2>22, <2>23, <2>24 DEF Thread, Errors
  <1>16. CASE UNCHANGED vars
    BY <1>16 DEF vars
  <1> QED
    BY <1>t, <1>1, <1>2, <1>3, <1>4, <1>5, <1>6, <1>7, <1>8, <1>9, <1>10, <1>11, <1>12, <1>13, <1>14, <1>15, <1>16 DEF Next, Client, Terminated
----------------------------------------------------------------------------
(* What one step of a thread changes.                                       *)

Moves(t, pc) ==
    /\ thr'[t].pc = pc
    /\ thr'[t].fn = thr[t].fn
    /\ \A s \in Tids \ {t} : thr'[s] = thr[s]

LEMMA GotoMoves ==
    ASSUME thr \in [Tids -> ThreadStates], NEW t \in Tids, NEW pc, Goto(t, pc)
    PROVE  Moves(t, pc) /\ thr'[t].nb = thr[t].nb /\ thr'[t].status = thr[t].status
  BY DEF Goto, ThreadStates, Moves

LEMMA LeaveMoves ==
    ASSUME thr \in [Tids -> ThreadStates], NEW t \in Tids, NEW why, LeaveRecordLoop(t, why)
    PROVE  Moves(t, "recstop") /\ thr'[t].status = thr[t].status
  BY DEF LeaveRecordLoop, ThreadStates, Moves

LEMMA ReturnMoves ==
    ASSUME thr \in [Tids -> ThreadStates], NEW t \in Tids, NEW status, XferReturn(t, status)
    PROVE  Moves(t, "result") /\ thr'[t].status = status
  BY DEF XferReturn, ThreadStates, Moves

(* A thread goes on, without ending: it keeps its function, disturbs no     *)
(* other thread, and shows a fault only when its work is done.              *)
Progress(t) ==
    /\ thr[t].pc # "none" /\ \E pc \in ThreadPcs \ {"none", "entry"} : Moves(t, pc)
    /\ Working(t)' => Working(t)
    /\ UNCHANGED <<kind, trig, forced, started, cpc>>
    /\ thr'[t].status # "Error"
    /\ \/ exposing' = exposing
       \/ exposing' \notin Faulty
       \/ exposing' = "PcoError" /\ ~Working(t)'
    /\ nbFrames' = nbFrames \/ thr[t].pc = "recount"
    /\ thr'[t].pc \in {"recloop", "trigcheck"} => thr'[t].nb <= HwMax

LEMMA ThreadStep ==
    ASSUME CalcMax <= HwMax, IInv, NEW t \in Tids, Thread(t) \/ Errors(t)
    PROVE  Progress(t) \/ ThreadEnd(t) \/ Terminate
  <1> USE SizesAssumption
  <1> USE DEF Progress, Working, At, Faulty, ThreadPcs, config, client
  <1>1. thr \in [Tids -> ThreadStates] /\ nbFrames \in Nat
    BY DEF IInv, TypeOK
  <1>2. thr[t].status # "Error"
    BY DEF IInv, NoErrorResult
  <1>3. CASE RecordInit(t)
    <2>1. Moves(t, IF thr[t].fn = "dimax" THEN "recloop" ELSE "trigcheck")
          /\ thr'[t].status = thr[t].status /\ thr'[t].nb = nbFrames
      BY <1>3, <1>1 DEF RecordInit, ThreadStates, Moves
    <2>2. nbFrames <= HwMax
      BY <1>3, <1>1 DEF RecordInit, IInv, InRange, Recorder
    <2>3. \E pc \in ThreadPcs \ {"none", "entry"} : Moves(t, pc)
      BY <2>1
    <2>4. thr'[t].pc \in {"recloop", "trigcheck"} => thr'[t].nb <= HwMax
      BY <2>1, <2>2
    <2> QED
      BY <1>3, <1>2, <2>1, <2>3, <2>4 DEF RecordInit
  <1>4. CASE RecordTooMany(t)
    <2>1. thr[t].nb \in Nat /\ thr[t].nb <= HwMax /\ PcoRequested(t) <= thr[t].nb /\ PcoRequested(t) \in Nat
      BY <1>4, <1>1, ModRange DEF RecordTooMany, IInv, InRange, PcoRequested, ThreadStates
    <2> QED
      BY <1>4, <2>1 DEF RecordTooMany
  <1>5. CASE RecordFull(t)
    <2>1. Moves(t, "recstop") /\ thr'[t].status = thr[t].status
      BY <1>5, <1>1, LeaveMoves DEF RecordFull
    <2> QED
      BY <1>5, <1>2, <2>1 DEF RecordFull, Moves
  <1>6. CASE RecordTimeout(t)
    <2>1. Moves(t, "recstop") /\ thr'[t].status = thr[t].status
      BY <1>6, <1>1, LeaveMoves DEF RecordTimeout
    <2> QED
      BY <1>6, <1>2, <2>1 DEF RecordTimeout, Moves
  <1>7. CASE TrigLoop(t)
    <2>1. Moves(t, "trigloop")
          /\ thr'[t].status = thr[t].status
      BY <1>7, <1>1, GotoMoves DEF TrigLoop
    <2> QED
      BY <1>7, <1>2, <2>1 DEF TrigLoop, Moves
  <1>8. CASE TrigRecorded(t)
    <2>1. Moves(t, "recstop") /\ thr'[t].status = thr[t].status
      BY <1>8, <1>1, LeaveMoves DEF TrigRecorded
    <2> QED
      BY <1>8, <1>2, <2>1 DEF TrigRecorded, Moves
  <1>9. CASE RecordStopSeen(t)
    <2>1. Moves(t, "recstop") /\ thr'[t].status = thr[t].status
      BY <1>9, <1>1, LeaveMoves DEF RecordStopSeen
    <2> QED
      BY <1>9, <1>2, <2>1 DEF RecordStopSeen, Moves
  <1>10. CASE RecordOff(t)
    <2>1. Moves(t, IF thr[t].why \in {"stop", "range"} THEN "end" ELSE "recount")
          /\ thr'[t].status = thr[t].status
      BY <1>10, <1>1, GotoMoves DEF RecordOff
    <2> QED
      BY <1>10, <1>2, <2>1 DEF RecordOff, Moves
  <1>11. CASE Recount(t)
    <2>1. Moves(t, "xfer")
          /\ thr'[t].status = thr[t].status
      BY <1>11, <1>1, GotoMoves DEF Recount
    <2> QED
      BY <1>11, <1>2, <2>1 DEF Recount, Moves
  <1>12. CASE StreamInit(t)
    <2>1. Moves(t, "xfer")
          /\ thr'[t].status = thr[t].status
      BY <1>12, <1>1, GotoMoves DEF StreamInit
    <2> QED
      BY <1>12, <1>2, <2>1 DEF StreamInit, Moves
  <1>13. CASE XferEnter(t)
    <2>1. Moves(t, IF Imag(t) THEN "assign" ELSE "frames") /\ thr'[t].status = thr[t].status
      BY <1>13, <1>1 DEF XferEnter, ThreadStates, Moves
    <2>2. thr'[t].pc \in {"assign", "frames"} /\ \E pc \in ThreadPcs \ {"none", "entry"} : Moves(t, pc)
      BY <2>1 DEF Moves
    <2> QED
      BY <1>13, <1>2, <2>1, <2>2 DEF XferEnter
  <1>14. CASE XferAssign(t)
    <2>1. Moves(t, IF RunAfterAssign THEN "runafter" ELSE "frames")
          /\ thr'[t].status = thr[t].status
      BY <1>14, <1>1, GotoMoves DEF XferAssign
    <2> QED
      BY <1>14, <1>2, <2>1 DEF XferAssign, Moves
  <1>15. CASE XferRunAfterAssign(t)
    <2>1. Moves(t, "frames")
          /\ thr'[t].status = thr[t].status
      BY <1>15, <1>1, GotoMoves DEF XferRunAfterAssign
    <2> QED
      BY <1>15, <1>2, <2>1 DEF XferRunAfterAssign, RecordOn, RecordOnFails, Moves
  <1>16. CASE XferFrame(t)
    <2>1. Moves(t, "frameready")
          /\ thr'[t].status = thr[t].status
      BY <1>16, <1>1, GotoMoves DEF XferFrame
    <2> QED
      BY <1>16, <1>2, <2>1 DEF XferFrame, Moves
  <1>17. CASE XferContinue(t)
    <2>1. Moves(t, "frames") /\ thr'[t].status = thr[t].status
      BY <1>17, <1>1 DEF XferContinue, ThreadStates, Moves
    <2> QED
      BY <1>17, <1>2, <2>1 DEF XferContinue, Moves
  <1>18. CASE XferEnd(t)
    <2>1. Moves(t, "result") /\ thr'[t].status # "Error"
      BY <1>18, <1>1, ReturnMoves DEF XferEnd
    <2> QED
      BY <1>18, <2>1 DEF XferEnd, XferReturn, Moves
  <1>19. CASE XferStop(t)
    <2>1. Moves(t, "result") /\ thr'[t].status # "Error"
      BY <1>19, <1>1, ReturnMoves DEF XferStop
    <2> QED
      BY <1>19, <2>1 DEF XferStop, XferReturn, Moves
  <1>20. CASE XferNothing(t)
    <2>1. Moves(t, "result") /\ thr'[t].status # "Error"
      BY <1>20, <1>1, ReturnMoves DEF XferNothing
    <2> QED
      BY <1>20, <2>1 DEF XferNothing, XferReturn, Moves
  <1>21. CASE Result(t)
    <2>1. Moves(t, IF thr[t].fn \in {"edge", "live"} THEN "lastoff" ELSE "end")
          /\ thr'[t].status = thr[t].status
      BY <1>21, <1>1, GotoMoves DEF Result
    <2> QED
      BY <1>21, <1>2, <2>1 DEF Result, Moves
  <1>22. CASE LastOff(t)
    <2>1. Moves(t, "end")
          /\ thr'[t].status = thr[t].status
      BY <1>22, <1>1, GotoMoves DEF LastOff
    <2> QED
      BY <1>22, <1>2, <2>1 DEF LastOff, Moves
  <1>23. CASE XferFails(t)
    <2>1. Moves(t, "result") /\ thr'[t].status # "Error"
      BY <1>23, <1>1, ReturnMoves DEF XferFails
    <2> QED
      BY <1>23, <2>1 DEF XferFails, XferReturn, Moves
  <1> QED
    BY <1>3, <1>4, <1>5, <1>6, <1>7, <1>8, <1>9, <1>10, <1>11, <1>12, <1>13, <1>14, <1>15, <1>16, <1>17, <1>18, <1>19, <1>20, <1>21, <1>22, <1>23 DEF Thread, Errors, Throw, XferThrows
----------------------------------------------------------------------------
(* The invariant is inductive.                                              *)

LEMMA ProgressStep ==
    ASSUME CalcMax <= HwMax, IInv, TypeOK', NEW t \in Tids, Progress(t)
    PROVE  IInv'
  <1> USE DEF Live, Working, Recorder, Starting, Faulty, At
  <1>1. /\ thr'[t].pc \notin {"none", "entry"} /\ thr[t].pc # "none" /\ thr'[t].fn = thr[t].fn
        /\ \A s \in Tids : s # t => thr'[s] = thr[s]
    BY DEF Progress, Moves
  <1>2. thr[t].fn # "none" /\ started /\ started' /\ cpc' = cpc /\ ~Starting
    BY <1>1 DEF IInv, LiveHasPlace, LiveIsStarted, StartingAlone, Progress
  <1>3. \A s \in Tids : s # t => thr[s].fn = "none" /\ thr[s].pc = "none"
    BY <1>2 DEF IInv, OneThread, LiveHasPlace
  <1>4. OneThread' /\ LiveHasPlace' /\ LiveIsStarted' /\ StartingAlone' /\ StartedWhenBeginning'
    BY <1>1, <1>2, <1>3
       DEF OneThread, LiveHasPlace, LiveIsStarted, StartingAlone, StartedWhenBeginning
  <1>5. NoErrorAtCheck'
    BY <1>2 DEF IInv, NoErrorAtCheck, Progress
  <1>6. NoFaultWorking'
    BY <1>1, <1>3 DEF IInv, NoFaultWorking, Progress
  <1>7. NoErrorResult'
    BY <1>1 DEF IInv, NoErrorResult, Progress
  <1>8. InRange'
    BY <1>1, <1>2, <1>3 DEF IInv, InRange, Progress
  <1> QED
    BY <1>4, <1>5, <1>6, <1>7, <1>8 DEF IInv

LEMMA ThreadEndStep ==
    ASSUME IInv, TypeOK', NEW t \in Tids, ThreadEnd(t)
    PROVE  IInv'
  <1> USE DEF Live, Working, Recorder, Starting, Faulty, At
  <1>1. /\ thr'[t] = NoThread /\ \A s \in Tids : s # t => thr'[s] = thr[s]
        /\ UNCHANGED <<exposing, nbFrames, cpc, kind, forced>>
    BY DEF ThreadEnd, IInv, TypeOK, client, config
  <1>2. Live(t)
    BY DEF ThreadEnd, IInv, LiveHasPlace
  <1>3. \A s \in Tids : thr'[s].fn = "none" /\ thr'[s].pc = "none"
    BY <1>1, <1>2 DEF NoThread, IInv, OneThread, LiveHasPlace
  <1>4. ~Starting
    BY <1>2 DEF IInv, StartingAlone
  <1>5. \A s \in Tids : thr'[s].status # "Error"
    BY <1>1 DEF NoThread, IInv, NoErrorResult
  <1> QED
    BY <1>1, <1>3, <1>4, <1>5
       DEF IInv, OneThread, LiveHasPlace, LiveIsStarted, StartingAlone, StartedWhenBeginning,
           NoErrorAtCheck, NoFaultWorking, NoErrorResult, InRange

LEMMA TerminateStep ==
    ASSUME IInv, TypeOK', Terminate
    PROVE  IInv'
  BY DEF IInv, TypeOK, Terminate, NoThread, OneThread, LiveHasPlace, LiveIsStarted, StartingAlone,
         StartedWhenBeginning, NoErrorAtCheck, NoFaultWorking, NoErrorResult, InRange, Live,
         Working, Recorder, Starting, Faulty, At

LEMMA BeginStep ==
    ASSUME IInv, TypeOK', BeginThread
    PROVE  IInv'
  <1> USE DEF Live, Working, Recorder, Starting, Faulty, At
  <1> DEFINE new == [NoThread EXCEPT !.fn = ThreadFunction, !.pc = "entry"]
  <1>1. PICK t \in Tids : thr' = [thr EXCEPT ![t] = new]
    BY DEF BeginThread
  <1>2. /\ new.fn = ThreadFunction /\ new.pc = "entry" /\ new.status = "Idle"
    BY DEF NoThread
  <1> HIDE DEF new
  <1>3. /\ thr'[t].fn = ThreadFunction /\ thr'[t].pc = "entry" /\ thr'[t].status = "Idle"
        /\ \A s \in Tids : s # t => thr'[s] = thr[s]
    BY <1>1, <1>2 DEF IInv, TypeOK
  <1>4. cpc = "begin" /\ cpc' = "check" /\ UNCHANGED <<kind, forced, started, exposing, nbFrames>>
    BY DEF BeginThread, config
  <1>5. \A s \in Tids : thr[s].fn = "none" /\ thr[s].pc = "none"
    BY <1>4 DEF IInv, StartingAlone, LiveHasPlace
  <1>6. started /\ exposing \notin Faulty /\ ~OutOfRange
    BY <1>4 DEF IInv, StartedWhenBeginning, NoErrorAtCheck, InRange
  <1>7. ThreadFunction # "none"
    BY DEF ThreadFunction
  <1>8. ThreadFunction \in {"dimax", "trig"} => nbFrames <= CalcMax
    BY <1>6, SizesAssumption DEF ThreadFunction, LiveMode, OutOfRange, IInv, TypeOK
  <1>9. OneThread' /\ LiveHasPlace' /\ LiveIsStarted' /\ StartingAlone' /\ StartedWhenBeginning'
    BY <1>3, <1>4, <1>5, <1>6, <1>7
       DEF OneThread, LiveHasPlace, LiveIsStarted, StartingAlone, StartedWhenBeginning
  <1>10. NoErrorAtCheck' /\ NoFaultWorking' /\ NoErrorResult'
    BY <1>3, <1>4, <1>5, <1>6 DEF IInv, NoErrorAtCheck, NoFaultWorking, NoErrorResult
  <1>11. InRange'
    BY <1>3, <1>4, <1>5, <1>8 DEF IInv, InRange
  <1> QED
    BY <1>9, <1>10, <1>11 DEF IInv

LEMMA ClientStep ==
    ASSUME IInv, TypeOK', thr' = thr,
           \/ Prepare \/ StartEnter \/ StartCamera \/ StartRejected \/ StartRecord
           \/ StartThrows \/ StartCheck \/ StartWaited \/ StartReturn \/ StopEnter
           \/ StopRequest \/ StopReturn \/ Record \/ RecordStopEvent \/ UNCHANGED vars
    PROVE  IInv'
  <1> USE DEF Live, Working, Recorder, Starting, Faulty, At, OutOfRange, IsEdge, config, client, request,
              IInv, OneThread, LiveHasPlace, LiveIsStarted, StartingAlone, StartedWhenBeginning,
              NoErrorAtCheck, NoFaultWorking, NoErrorResult, InRange
  <1>1. CASE Prepare
    <2>1. \A t \in Tids : ~Working(t)
      BY <1>1 DEF Prepare, Status, TypeOK, Exposing
    <2> QED
      BY <1>1, <2>1 DEF Prepare
  <1>2. CASE StartEnter
    <2>1. CASE started
      <3>1. UNCHANGED <<exposing, cpc>>
        BY <1>2, <2>1, Zenon DEF StartEnter
      <3> QED
        BY <1>2, <3>1 DEF StartEnter
    <2>2. CASE ~started
      <3>1. exposing' = "Start" /\ cpc' = "camera"
        BY <1>2, <2>2, Zenon DEF StartEnter
      <3> QED
        BY <1>2, <2>2, <3>1 DEF StartEnter
    <2> QED
      BY <2>1, <2>2
  <1>3. CASE StartCamera
    BY <1>3 DEF StartCamera
  <1>4. CASE StartRejected
    BY <1>4 DEF StartRejected
  <1>5. CASE StartRecord
    BY <1>5 DEF StartRecord, RecordOn, RecordOnFails
  <1>6. CASE StartThrows
    BY <1>6 DEF StartThrows, RecordOn, RecordOnFails
  <1>7. CASE StartCheck
    BY <1>7 DEF StartCheck
  <1>8. CASE StartWaited
    BY <1>8 DEF StartWaited
  <1>9. CASE StartReturn
    BY <1>9 DEF StartReturn
  <1>10. CASE StopEnter
    BY <1>10 DEF StopEnter
  <1>11. CASE StopRequest
    BY <1>11 DEF StopRequest
  <1>12. CASE StopReturn
    BY <1>12 DEF StopReturn
  <1>13. CASE Record
    BY <1>13 DEF Record
  <1>14. CASE RecordStopEvent
    BY <1>14 DEF RecordStopEvent
  <1>15. CASE UNCHANGED vars
    BY <1>15 DEF vars
  <1> QED
    BY <1>1, <1>2, <1>3, <1>4, <1>5, <1>6, <1>7, <1>8, <1>9, <1>10, <1>11, <1>12, <1>13, <1>14, <1>15

LEMMA InvStep ==
    ASSUME CalcMax <= HwMax, IInv, [Next]_vars
    PROVE  IInv'
  <1>1. TypeOK'
    BY TypeStep DEF IInv
  <1>2. CASE \E t \in Tids : Thread(t) \/ Errors(t)
    BY <1>1, <1>2, ThreadStep, ProgressStep, ThreadEndStep, TerminateStep
  <1>3. CASE BeginThread
    BY <1>1, <1>3, BeginStep
  <1>4. CASE \/ Prepare \/ StartEnter \/ StartCamera \/ StartRejected \/ StartRecord
            \/ StartThrows \/ StartCheck \/ StartWaited \/ StartReturn \/ StopEnter
            \/ StopRequest \/ StopReturn \/ Record \/ RecordStopEvent \/ UNCHANGED vars
    <2>1. thr' = thr
      BY <1>4 DEF Prepare, StartEnter, StartCamera, StartRejected, StartRecord, StartThrows,
                  StartCheck, StartWaited, StartReturn, StopEnter, StopRequest, StopReturn,
                  Record, RecordStopEvent, vars
    <2> QED
      BY <1>1, <1>4, <2>1, ClientStep
  <1> QED
    BY <1>2, <1>3, <1>4 DEF Next, Client, Terminated

LEMMA InvInit == Init => IInv
  <1> SUFFICES ASSUME Init PROVE IInv
    OBVIOUS
  <1>1. NoThread \in ThreadStates
    BY DEF NoThread, ThreadStates, ThreadPcs, Exposing
  <1>2. TypeOK
    BY <1>1 DEF Init, TypeOK, Exposing
  <1> QED
    BY <1>2 DEF Init, IInv, NoThread, OneThread, LiveHasPlace, LiveIsStarted, StartingAlone,
                StartedWhenBeginning, NoErrorAtCheck, NoFaultWorking, NoErrorResult, InRange,
                Live, Working, Recorder, Starting, Faulty, At

----------------------------------------------------------------------------
(* Every variable of the acquisition stays in its domain, whatever MaxCalc  *)
(* estimates: PcoAcq's reading of getStatus, startAcq and the threads.      *)
THEOREM TypeCorrect == Spec => []TypeOK
  <1>1. Init => TypeOK
    BY InvInit DEF IInv
  <1>2. TypeOK /\ [Next]_vars => TypeOK'
    BY TypeStep
  <1> QED
    BY <1>1, <1>2, PTL DEF Spec

(* As long as MaxCalc does not promise more images than the RAM segment     *)
(* holds, startAcq never begins a second thread next to a first one.        *)
THEOREM SingleThread == ASSUME CalcMax <= HwMax PROVE Spec => []OneThread
  <1>1. Init => IInv
    BY InvInit
  <1>2. IInv /\ [Next]_vars => IInv'
    BY InvStep
  <1>3. IInv => OneThread
    BY DEF IInv
  <1> QED
    BY <1>1, <1>2, <1>3, PTL DEF Spec

(* As long as MaxCalc does not promise more images than the RAM segment     *)
(* holds, getStatus answers Ready only when every thread has ended.         *)
THEOREM ReadyMeansQuiet == ASSUME CalcMax <= HwMax PROVE Spec => []ReadyIsQuiet
  <1>1. Init => IInv
    BY InvInit
  <1>2. IInv /\ [Next]_vars => IInv'
    BY InvStep
  <1>3. IInv => ReadyIsQuiet
    BY DEF IInv, ReadyIsQuiet, Status, LiveIsStarted
  <1> QED
    BY <1>1, <1>2, <1>3, PTL DEF Spec

(* A thread that does not end keeps every thread alive.                     *)
FunctionsKept ==
    /\ UNCHANGED <<started, cpc>>
    /\ \A s \in Tids : thr'[s].fn = thr[s].fn

LEMMA ThreadKeeps ==
    ASSUME TypeOK, NEW t \in Tids, Thread(t) \/ Errors(t)
    PROVE  FunctionsKept \/ ThreadEnd(t) \/ Terminate
  <1> USE DEF FunctionsKept, client
  <1>1. thr \in [Tids -> ThreadStates]
    BY DEF TypeOK
  <1>2. ASSUME NEW pc, Moves(t, pc) PROVE \A s \in Tids : thr'[s].fn = thr[s].fn
    BY <1>2 DEF Moves
  <1>3. CASE \/ TrigLoop(t) \/ RecordOff(t) \/ Recount(t) \/ StreamInit(t) \/ XferAssign(t)
            \/ XferRunAfterAssign(t) \/ XferFrame(t) \/ Result(t) \/ LastOff(t)
    <2>1. PICK pc : Goto(t, pc)
      BY <1>3 DEF TrigLoop, RecordOff, Recount, StreamInit, XferAssign, XferRunAfterAssign,
                  XferFrame, Result, LastOff
    <2>2. UNCHANGED <<started, cpc>>
      BY <1>3 DEF TrigLoop, RecordOff, Recount, StreamInit, XferAssign, XferRunAfterAssign,
                  XferFrame, Result, LastOff
    <2> QED
      BY <1>1, <1>2, <2>1, <2>2, GotoMoves
  <1>4. CASE \/ RecordTooMany(t) \/ RecordFull(t) \/ RecordTimeout(t) \/ TrigRecorded(t)
            \/ RecordStopSeen(t)
    <2>1. PICK why : LeaveRecordLoop(t, why)
      BY <1>4 DEF RecordTooMany, RecordFull, RecordTimeout, TrigRecorded, RecordStopSeen
    <2>2. UNCHANGED <<started, cpc>>
      BY <1>4 DEF RecordTooMany, RecordFull, RecordTimeout, TrigRecorded, RecordStopSeen
    <2> QED
      BY <1>1, <1>2, <2>1, <2>2, LeaveMoves
  <1>5. CASE XferEnd(t) \/ XferStop(t) \/ XferNothing(t) \/ XferFails(t)
    <2>1. PICK status : XferReturn(t, status)
      BY <1>5 DEF XferEnd, XferStop, XferNothing, XferFails
    <2>2. UNCHANGED <<started, cpc>>
      BY <2>1 DEF XferReturn
    <2> QED
      BY <1>1, <1>2, <2>1, <2>2, ReturnMoves
  <1>6. CASE RecordInit(t)
    BY <1>1, <1>6 DEF RecordInit, ThreadStates
  <1>7. CASE XferEnter(t) \/ XferContinue(t)
    BY <1>1, <1>7 DEF XferEnter, XferContinue, ThreadStates
  <1> QED
    BY <1>3, <1>4, <1>5, <1>6, <1>7 DEF Thread, Errors, Throw, XferThrows

(* As long as MaxCalc does not exceed the segment, stopAcq returns only     *)
(* when no acquisition thread is left.                                      *)
THEOREM StopWaitsForThreads == ASSUME CalcMax <= HwMax PROVE Spec => StopIsSync
  <1> DEFINE Step == cpc = "stop" /\ cpc' = "idle" => \A t \in Tids : ~Live(t)
  <1>1. Init => IInv
    BY InvInit
  <1>2. IInv /\ [Next]_vars => IInv'
    BY InvStep
  <1>3. IInv /\ [Next]_vars => [Step]_vars
    <2> SUFFICES ASSUME IInv, Next, cpc = "stop", cpc' = "idle"
                 PROVE  \A t \in Tids : ~Live(t)
      OBVIOUS
    <2>1. StopReturn
      <3>1. ASSUME NEW t \in Tids, Thread(t) \/ Errors(t) PROVE cpc' # "idle"
        BY <3>1, ThreadKeeps DEF IInv, FunctionsKept, ThreadEnd, Terminate, client
      <3>2. CASE Prepare \/ StartEnter \/ StopEnter \/ Record \/ RecordStopEvent \/ Terminated
        BY <3>2 DEF Prepare, StartEnter, StopEnter, Record, RecordStopEvent, Terminated, client, vars
      <3>3. CASE Client
        BY <3>3 DEF Client, StartCamera, StartRejected, StartRecord, StartThrows, BeginThread,
                    StartCheck, StartWaited, StartReturn, StopRequest, client
      <3> QED
        BY <3>1, <3>2, <3>3 DEF Next
    <2>2. ~started
      BY <2>1 DEF StopReturn
    <2> QED
      BY <2>2 DEF IInv, LiveIsStarted
  <1> QED
    BY <1>1, <1>2, <1>3, PTL DEF Spec, StopIsSync

(* Whatever MaxCalc estimates, the flag started outlives the last thread    *)
(* only through startAcq: its late setStarted(true), or its exception.      *)
THEOREM OrphansComeFromStart == Spec => ThreadsClearStarted
  <1> DEFINE Step == ~Orphaned /\ Orphaned' => cpc \in {"started", "record"}
  <1>1. TypeOK /\ [Next]_vars => [Step]_vars
    <2> SUFFICES ASSUME TypeOK, Next, ~Orphaned, Orphaned'
                 PROVE  cpc \in {"started", "record"}
      OBVIOUS
    <2> USE DEF Orphaned, Live
    <2>1. CASE \E t \in Tids : Thread(t) \/ Errors(t)
      <3>1. PICK t \in Tids : Thread(t) \/ Errors(t)
        BY <2>1
      <3>2. CASE FunctionsKept
        BY <3>2 DEF FunctionsKept
      <3>3. CASE ThreadEnd(t)
        BY <3>3 DEF ThreadEnd
      <3>4. CASE Terminate
        BY <3>4 DEF Terminate
      <3> QED
        BY <3>1, <3>2, <3>3, <3>4, ThreadKeeps
    <2>2. CASE Prepare \/ StopEnter \/ Record \/ RecordStopEvent \/ Terminated
      BY <2>2 DEF Prepare, StopEnter, Record, RecordStopEvent, Terminated, client, vars
    <2>3. CASE StartEnter
      <3>1. cpc = "idle" /\ thr' = thr /\ started' = started
        BY <2>3 DEF StartEnter
      <3> QED
        BY <3>1
    <2>4. CASE Client
      BY <2>4 DEF Client, StartCamera, StartRejected, StartRecord, StartThrows, BeginThread,
                  StartCheck, StartWaited, StartReturn, StopRequest, StopReturn, client
    <2> QED
      BY <2>1, <2>2, <2>3, <2>4 DEF Next
  <1> QED
    BY <1>1, TypeCorrect, PTL DEF Spec, ThreadsClearStarted
----------------------------------------------------------------------------
(* The refinement.  Seen from LIMA a step of a thread is its end, the end   *)
(* of the process, or nothing.                                              *)

Running == {t \in Tids : Live(t)}

LEMMA RefineInit == Init => Acquisition!Init
  BY DEF Init, Acquisition!Init, Live, NoThread, Call

LEMMA RefineThread ==
    ASSUME IInv, NEW t \in Tids, Thread(t) \/ Errors(t)
    PROVE  [Acquisition!Next]_(Acquisition!vars)
  <1> USE DEF Live, client
  <1>1. CASE FunctionsKept
    BY <1>1 DEF FunctionsKept, Acquisition!vars, Call
  <1>2. CASE ThreadEnd(t)
    <2>1. \A s \in Tids : thr'[s].fn = "none"
      <3>1. thr'[t] = NoThread /\ \A s \in Tids : s # t => thr'[s] = thr[s]
        BY <1>2 DEF ThreadEnd, IInv, TypeOK
      <3>2. thr[t].fn # "none"
        BY <1>2 DEF ThreadEnd, IInv, LiveHasPlace, At
      <3> QED
        BY <3>1, <3>2 DEF NoThread, IInv, OneThread
    <2>2. t \in Running /\ UNCHANGED Call /\ started' = FALSE
      BY <1>2 DEF ThreadEnd, IInv, LiveHasPlace, At, Running, Call
    <2>3. Acquisition!End
      BY <2>1, <2>2 DEF Acquisition!End, Running
    <2> QED
      BY <2>3 DEF Acquisition!Next
  <1>3. CASE Terminate
    <2>1. Acquisition!Die
      BY <1>3 DEF Terminate, NoThread, Acquisition!Die, Call
    <2> QED
      BY <2>1 DEF Acquisition!Next
  <1> QED
    BY <1>1, <1>2, <1>3, ThreadKeeps DEF IInv

LEMMA RefineBegin ==
    ASSUME IInv, BeginThread
    PROVE  Acquisition!Begin
  <1> USE DEF Live
  <1> DEFINE new == [NoThread EXCEPT !.fn = ThreadFunction, !.pc = "entry"]
  <1>1. PICK t \in Tids : thr' = [thr EXCEPT ![t] = new]
    BY DEF BeginThread
  <1>2. new.fn # "none"
    BY DEF NoThread, ThreadFunction
  <1> HIDE DEF new
  <1>3. thr'[t].fn # "none" /\ \A s \in Tids : s # t => thr'[s] = thr[s]
    BY <1>1, <1>2 DEF IInv, TypeOK
  <1>4. started /\ UNCHANGED <<started, Call>> /\ \A s \in Tids : ~Live(s)
    BY DEF BeginThread, Call, IInv, StartedWhenBeginning, StartingAlone, Starting
  <1>5. {s \in Tids : Live(s)} = {} /\ {s \in Tids : Live(s)}' = {t}
    BY <1>3, <1>4
  <1> QED
    BY <1>4, <1>5 DEF Acquisition!Begin

LEMMA RefineClient ==
    ASSUME IInv, thr' = thr,
           \/ Prepare \/ StartEnter \/ StartCamera \/ StartRejected \/ StartRecord
           \/ StartThrows \/ StartCheck \/ StartWaited \/ StartReturn \/ StopEnter
           \/ StopRequest \/ StopReturn \/ Record \/ RecordStopEvent \/ UNCHANGED vars
    PROVE  [Acquisition!Next]_(Acquisition!vars)
  <1>1. Running' = Running
    BY DEF Running, Live
  <1>2. Starting => Running = {}
    BY DEF Running, IInv, StartingAlone
  <1> HIDE DEF Running
  <1> USE DEF Call, client
  <1>3. CASE StartEnter
    <2>1. CASE started
      <3>1. UNCHANGED <<started, cpc>>
        BY <1>3, <2>1, Zenon DEF StartEnter
      <3> QED
        BY <3>1, <1>1 DEF Acquisition!vars, Running
    <2>2. CASE ~started
      <3>1. cpc = "idle" /\ cpc' = "camera" /\ UNCHANGED started
        BY <1>3, <2>2, Zenon DEF StartEnter
      <3>2. Acquisition!Start
        BY <3>1, <2>2, <1>1 DEF Acquisition!Start, Running, IInv, TypeOK
      <3> QED
        BY <3>2 DEF Acquisition!Next
    <2> QED
      BY <2>1, <2>2
  <1>4. CASE StartCamera \/ StartRejected \/ StartThrows \/ StartReturn
    <2>1. /\ cpc \in {"camera", "record", "started"} /\ cpc' \in {"record", "idle"}
          /\ started' \in BOOLEAN /\ (started' \/ Running = {})
      BY <1>4, <1>2 DEF StartCamera, StartRejected, StartThrows, StartReturn, Starting,
                        IInv, TypeOK
    <2>2. Acquisition!Flag
      BY <2>1, <1>1 DEF Acquisition!Flag, Running
    <2> QED
      BY <2>2 DEF Acquisition!Next
  <1>5. CASE StopEnter
    <2>1. Acquisition!Stop
      BY <1>5, <1>1 DEF StopEnter, Acquisition!Stop, Running
    <2> QED
      BY <2>1 DEF Acquisition!Next
  <1>6. CASE StopReturn
    <2>1. Acquisition!StopReturn
      BY <1>6, <1>1 DEF StopReturn, Acquisition!StopReturn, Running, IInv, TypeOK
    <2> QED
      BY <2>1 DEF Acquisition!Next
  <1>7. CASE \/ Prepare \/ StartRecord \/ StartCheck \/ StartWaited \/ StopRequest
            \/ Record \/ RecordStopEvent \/ UNCHANGED vars
    <2>1. UNCHANGED <<started, Call>>
      BY <1>7 DEF Prepare, StartRecord, StartCheck, StartWaited, StopRequest, Record,
                  RecordStopEvent, vars, IInv, NoErrorAtCheck
    <2> QED
      BY <2>1, <1>1 DEF Acquisition!vars, Running
  <1> QED
    BY <1>3, <1>4, <1>5, <1>6, <1>7

LEMMA RefineStep ==
    ASSUME IInv, [Next]_vars
    PROVE  [Acquisition!Next]_(Acquisition!vars)
  <1>1. CASE \E t \in Tids : Thread(t) \/ Errors(t)
    BY <1>1, RefineThread
  <1>2. CASE BeginThread
    BY <1>2, RefineBegin DEF Acquisition!Next
  <1>3. CASE \/ Prepare \/ StartEnter \/ StartCamera \/ StartRejected \/ StartRecord
            \/ StartThrows \/ StartCheck \/ StartWaited \/ StartReturn \/ StopEnter
            \/ StopRequest \/ StopReturn \/ Record \/ RecordStopEvent \/ UNCHANGED vars
    <2>1. thr' = thr
      BY <1>3 DEF Prepare, StartEnter, StartCamera, StartRejected, StartRecord, StartThrows,
                  StartCheck, StartWaited, StartReturn, StopEnter, StopRequest, StopReturn,
                  Record, RecordStopEvent, vars
    <2> QED
      BY <1>3, <2>1, RefineClient
  <1> QED
    BY <1>1, <1>2, <1>3 DEF Next, Client, Terminated

(* As long as MaxCalc does not exceed the segment, startAcq, stopAcq and    *)
(* the four thread functions implement the acquisition LIMA is promised.    *)
THEOREM Implements == ASSUME CalcMax <= HwMax PROVE Spec => ImplementsAcquisition
  <1>1. Init => IInv
    BY InvInit
  <1>2. IInv /\ [Next]_vars => IInv'
    BY InvStep
  <1>3. Init => Acquisition!Init
    BY RefineInit
  <1>4. IInv /\ [Next]_vars => [Acquisition!Next]_(Acquisition!vars)
    BY RefineStep
  <1> QED
    BY <1>1, <1>2, <1>3, <1>4, PTL DEF Spec, ImplementsAcquisition, Acquisition!Spec

----------------------------------------------------------------------------
(* What follows from the promise itself, and so holds of an acquisition     *)
(* that implements it.                                                      *)

LEMMA PromiseStep ==
    Acquisition!Quiet /\ [Acquisition!Next]_(Acquisition!vars) => Acquisition!Quiet'
  BY DEF Acquisition!Quiet, Acquisition!Next, Acquisition!vars, Acquisition!Start,
         Acquisition!Flag, Acquisition!Begin, Acquisition!End, Acquisition!Stop,
         Acquisition!StopReturn, Acquisition!Die

(* While the started flag is clear nothing runs, and never two at a time.   *)
THEOREM PromiseIsQuiet == Acquisition!Spec => []Acquisition!Quiet
  <1>1. Acquisition!Init => Acquisition!Quiet
    BY DEF Acquisition!Init, Acquisition!Quiet
  <1> QED
    BY <1>1, PromiseStep, PTL DEF Acquisition!Spec

(* A stop that returns leaves nothing running.                              *)
THEOREM PromisedStopWaits == Acquisition!Spec => Acquisition!StopIsSync
  <1> DEFINE Step == Call = "stop" /\ Call' = "none" =>
                         {t \in Tids : Live(t)} = {} /\ {t \in Tids : Live(t)}' = {}
  <1>1. Acquisition!Quiet /\ [Acquisition!Next]_(Acquisition!vars) => [Step]_(Acquisition!vars)
    BY DEF Acquisition!Quiet, Acquisition!Next, Acquisition!vars, Acquisition!Start,
           Acquisition!Flag, Acquisition!Begin, Acquisition!End, Acquisition!Stop,
           Acquisition!StopReturn, Acquisition!Die
  <1> QED
    BY <1>1, PromiseIsQuiet, PTL DEF Acquisition!Spec, Acquisition!StopIsSync

----------------------------------------------------------------------------
(* The frame counts.  SyncCtrlObj's counts belong to the one thread that     *)
(* works, from its beginning to its result; a new preparation may change    *)
(* them only when no thread works, and a result that is still shown is      *)
(* then replaced before it can be taken for one of the new count.           *)

Recording == {"recloop", "trigcheck", "trigloop", "recstop", "recount"}
Streaming == {"frames", "frameready"}

(* what a thread at work knows of the counts *)
ThreadCounts(t) ==
    /\ thr[t].pc \in Recording \cup {"entry", "xfer", "assign", "runafter"} => thr[t].done = 0
    /\ thr[t].pc \in Recording \cup {"xfer", "assign", "runafter"} => acqFrames = 0
    /\ thr[t].pc \in {"assign", "runafter"} \cup Streaming => thr[t].limit = nbFrames
    /\ thr[t].pc \in Streaming =>
          acqFrames = thr[t].done /\ (thr[t].limit > 0 => thr[t].done <= thr[t].limit)
    /\ At(t, "frameready") /\ thr[t].limit > 0 => thr[t].done < thr[t].limit
    /\ thr[t].pc \in Streaming /\ thr[t].fn = "trig" /\ thr[t].limit = 0 =>
          thr[t].done = 0 /\ At(t, "frames")
    /\ At(t, "result") /\ thr[t].status = "TransferEnd" => acqFrames = nbFrames

(* and of the recording before it *)
ThreadRecords(t) ==
    /\ thr[t].pc \in Recording => thr[t].nb = nbFrames
    /\ thr[t].pc \in {"trigcheck", "trigloop"} => thr[t].fn = "trig"
    /\ thr[t].fn = "trig" => trig = "ExtTrigSingle"
    /\ At(t, "recount") => thr[t].why \in {"full", "timeout"}
    /\ thr[t].pc \in {"recstop", "recount"} /\ trig = "ExtTrigMult" =>
          thr[t].why # "timeout" /\ (thr[t].why = "full" => valid >= PcoRequested(t))

Resting == \A t \in Tids : ~Working(t)
Fresh == ~prepared /\ cpc \in {"idle", "stop"} /\ \A t \in Tids : ~Live(t)

PreparedAtRest ==
    prepared => /\ cpc \in {"idle", "stop", "dead"} /\ Resting
                /\ exposing = "TransferEnd" => ~started

EndIsCounted ==
    exposing = "TransferEnd" => Resting /\ ~Starting /\ (prepared \/ acqFrames = nbFrames)

Bounded == nbFrames <= MaxFrames \/ Fresh

AskedKept == trig = "ExtTrigMult" /\ asked < WordSize => nbFrames = asked

CountInv ==
    /\ \A t \in Tids : ThreadCounts(t) /\ ThreadRecords(t)
    /\ PreparedAtRest /\ EndIsCounted /\ Bounded /\ AskedKept

LEMMA InitCount == ASSUME Init PROVE CountInv
  BY DEF Init, NoThread, CountInv, ThreadCounts, ThreadRecords, PreparedAtRest, EndIsCounted, Bounded,
         AskedKept, Resting, Fresh, Working, Starting, Live, At, Recording, Streaming

(* The thread that takes a step is the only one, and knows the counts.      *)
LEMMA OnlyThread ==
    ASSUME IInv, CountInv, NEW t \in Tids, thr[t].pc # "none"
    PROVE  /\ thr \in [Tids -> ThreadStates] /\ thr[t] \in ThreadStates
           /\ nbFrames \in Nat /\ acqFrames \in Nat /\ valid \in Nat
           /\ nbFrames <= MaxFrames /\ started /\ ~Starting
           /\ ThreadCounts(t) /\ ThreadRecords(t)
           /\ Working(t) => ~prepared /\ exposing # "TransferEnd"
           /\ \A s \in Tids : s # t => thr[s].fn = "none" /\ thr[s].pc = "none"
  <1>1. Live(t)
    BY DEF IInv, LiveHasPlace
  <1>2. /\ thr \in [Tids -> ThreadStates] /\ thr[t] \in ThreadStates
        /\ nbFrames \in Nat /\ acqFrames \in Nat /\ valid \in Nat
    BY DEF IInv, TypeOK
  <1>3. nbFrames <= MaxFrames
    BY <1>1 DEF CountInv, Bounded, Fresh
  <1>4. started /\ ~Starting
    BY <1>1 DEF IInv, LiveIsStarted, StartingAlone
  <1>5. Working(t) => ~prepared /\ exposing # "TransferEnd"
    BY DEF CountInv, PreparedAtRest, EndIsCounted, Resting
  <1>6. \A s \in Tids : s # t => thr[s].fn = "none" /\ thr[s].pc = "none"
    BY <1>1 DEF IInv, OneThread, LiveHasPlace, Live
  <1> QED
    BY <1>2, <1>3, <1>4, <1>5, <1>6 DEF CountInv

(* It keeps the invariant when it keeps its own part, shows its result only *)
(* at its end, and changes nothing the client has set.                      *)
LEMMA OnlyThreadKeeps ==
    ASSUME IInv, CountInv, NEW t \in Tids, thr[t].pc # "none", thr'[t].pc # "none",
           \A s \in Tids : s # t => thr'[s] = thr[s],
           thr'[t].fn = thr[t].fn, Working(t)' => Working(t),
           UNCHANGED <<config, started, client>>,
           ThreadCounts(t)', ThreadRecords(t)',
           nbFrames' <= MaxFrames, AskedKept',
           ~Working(t) => UNCHANGED <<exposing, acqFrames, nbFrames>>,
           Working(t) => exposing' # "TransferEnd" \/ (~Working(t)' /\ acqFrames' = nbFrames')
    PROVE  CountInv'
  <1>1. /\ started /\ ~Starting
        /\ Working(t) => ~prepared /\ exposing # "TransferEnd"
        /\ \A s \in Tids : s # t => thr[s].fn = "none" /\ thr[s].pc = "none"
    BY OnlyThread
  <1>2. \A s \in Tids : s # t => thr'[s].fn = "none" /\ thr'[s].pc = "none"
    BY <1>1
  <1>3. \A s \in Tids : ThreadCounts(s)' /\ ThreadRecords(s)'
    BY <1>2 DEF ThreadCounts, ThreadRecords, Recording, Streaming, At
  <1>4. Resting' <=> ~Working(t)'
    BY <1>2 DEF Resting, Working
  <1>5. Resting <=> ~Working(t)
    BY <1>1 DEF Resting, Working
  <1>6. PreparedAtRest'
    BY <1>1, <1>4, <1>5 DEF CountInv, PreparedAtRest, client
  <1>7. EndIsCounted'
    BY <1>1, <1>4, <1>5 DEF CountInv, EndIsCounted, Starting, client
  <1> QED
    BY <1>3, <1>6, <1>7 DEF CountInv, Bounded

LEMMA GotoIs ==
    ASSUME thr \in [Tids -> ThreadStates], NEW t \in Tids, NEW pc, Goto(t, pc)
    PROVE  /\ thr'[t] = [thr[t] EXCEPT !.pc = pc]
           /\ \A s \in Tids : s # t => thr'[s] = thr[s]
  BY DEF Goto, ThreadStates

LEMMA LeaveIs ==
    ASSUME thr \in [Tids -> ThreadStates], NEW t \in Tids, NEW why, LeaveRecordLoop(t, why)
    PROVE  /\ thr'[t] = [thr[t] EXCEPT !.pc = "recstop", !.why = why]
           /\ \A s \in Tids : s # t => thr'[s] = thr[s]
  BY DEF LeaveRecordLoop, ThreadStates

LEMMA ReturnIs ==
    ASSUME thr \in [Tids -> ThreadStates], NEW t \in Tids, NEW status, XferReturn(t, status)
    PROVE  /\ thr'[t] = [thr[t] EXCEPT !.pc = "result", !.status = status]
           /\ \A s \in Tids : s # t => thr'[s] = thr[s]
  BY DEF XferReturn, ThreadStates

(* A shortened count is the one asked for, unless the recording timed out.  *)
LEMMA RecountKeeps ==
    ASSUME IInv, CountInv, NEW t \in Tids, Recount(t)
    PROVE  nbFrames' \in Nat /\ nbFrames' <= MaxFrames /\ AskedKept'
  <1>1. At(t, "recount") /\ nbFrames' = (IF Acquired(t) < thr[t].nb THEN Acquired(t) ELSE nbFrames)
        /\ UNCHANGED <<trig, asked>>
    BY DEF Recount, config, client
  <1>2. /\ nbFrames \in Nat /\ valid \in Nat /\ nbFrames <= MaxFrames /\ thr[t].nb = nbFrames
        /\ thr[t].fn = "trig" => trig = "ExtTrigSingle"
        /\ trig = "ExtTrigMult" => valid >= PcoRequested(t)
    BY <1>1, OnlyThread DEF At, ThreadRecords, Recording
  <1>3. PcoRequested(t) \in Nat /\ (nbFrames < WordSize => PcoRequested(t) = nbFrames)
    BY <1>2, SizesAssumption DEF PcoRequested
  <1>4. nbFrames' \in Nat /\ nbFrames' <= MaxFrames
    BY <1>1, <1>2, <1>3, SizesAssumption DEF Acquired, MinOf
  <1>5. AskedKept'
    <2> SUFFICES ASSUME trig = "ExtTrigMult", asked < WordSize PROVE nbFrames' = asked
      BY <1>1 DEF AskedKept
    <2>1. nbFrames = asked
      BY DEF CountInv, AskedKept
    <2>2. Acquired(t) = nbFrames
      BY <1>2, <1>3, <2>1 DEF Acquired, MinOf
    <2> QED
      BY <1>1, <1>2, <2>1, <2>2
  <1> QED
    BY <1>4, <1>5

LEMMA ThreadCount ==
    ASSUME CalcMax <= HwMax, IInv, CountInv, NEW t \in Tids, Thread(t) \/ Errors(t)
    PROVE  CountInv'
  <1> USE SizesAssumption
  <1> DEFINE Own == ThreadCounts(t)' /\ ThreadRecords(t)'
             Rest == /\ thr[t].pc # "none" /\ thr'[t].pc # "none"
                     /\ \A s \in Tids : s # t => thr'[s] = thr[s]
                     /\ thr'[t].fn = thr[t].fn /\ (Working(t)' => Working(t))
                     /\ UNCHANGED <<config, started, client>>
                     /\ nbFrames' <= MaxFrames /\ AskedKept'
                     /\ ~Working(t) => UNCHANGED <<exposing, acqFrames, nbFrames>>
                     /\ Working(t) => exposing' # "TransferEnd" \/ (~Working(t)' /\ acqFrames' = nbFrames')
  <1>a. Own /\ Rest => CountInv'
    BY OnlyThreadKeeps
  <1>b. thr[t].pc # "none" => AskedKept
    BY DEF CountInv
  <1> USE DEF ThreadCounts, ThreadRecords, PcoRequested, Recording, Streaming, At, Working
  <1>1. CASE RecordInit(t)
    <2>1. thr[t].pc # "none" /\ thr \in [Tids -> ThreadStates]
      BY <1>1 DEF RecordInit, IInv, TypeOK
    <2>2. thr'[t] = [thr[t] EXCEPT !.nb = nbFrames, !.pc = IF thr[t].fn = "dimax" THEN "recloop" ELSE "trigcheck"]
          /\ \A s \in Tids : s # t => thr'[s] = thr[s]
      BY <1>1, <2>1 DEF RecordInit, ThreadStates
    <2>3. Own
      BY <1>1, <2>1, <2>2, OnlyThread DEF RecordInit, ThreadStates, config
    <2>4. Rest
      BY <1>1, <1>b, <2>1, <2>2, OnlyThread DEF RecordInit, ThreadStates, AskedKept, config, client
    <2> QED
      BY <1>a, <2>3, <2>4
  <1>2. CASE RecordTooMany(t)
    <2>1. thr[t].pc # "none" /\ thr \in [Tids -> ThreadStates]
      BY <1>2 DEF RecordTooMany, IInv, TypeOK
    <2>2. thr'[t] = [thr[t] EXCEPT !.pc = "recstop", !.why = "range"]
          /\ \A s \in Tids : s # t => thr'[s] = thr[s]
      BY <1>2, <2>1, LeaveIs DEF RecordTooMany
    <2>3. Own
      BY <1>2, <2>1, <2>2, OnlyThread DEF RecordTooMany, ThreadStates, config
    <2>4. Rest
      BY <1>2, <1>b, <2>1, <2>2, OnlyThread DEF RecordTooMany, ThreadStates, AskedKept, config, client
    <2> QED
      BY <1>a, <2>3, <2>4
  <1>3. CASE RecordFull(t)
    <2>1. thr[t].pc # "none" /\ thr \in [Tids -> ThreadStates]
      BY <1>3 DEF RecordFull, IInv, TypeOK
    <2>2. thr'[t] = [thr[t] EXCEPT !.pc = "recstop", !.why = "full"]
          /\ \A s \in Tids : s # t => thr'[s] = thr[s]
      BY <1>3, <2>1, LeaveIs DEF RecordFull
    <2>3. Own
      BY <1>3, <2>1, <2>2, OnlyThread DEF RecordFull, ThreadStates, config
    <2>4. Rest
      BY <1>3, <1>b, <2>1, <2>2, OnlyThread DEF RecordFull, ThreadStates, AskedKept, config, client
    <2> QED
      BY <1>a, <2>3, <2>4
  <1>4. CASE RecordTimeout(t)
    <2>1. thr[t].pc # "none" /\ thr \in [Tids -> ThreadStates]
      BY <1>4 DEF RecordTimeout, IInv, TypeOK
    <2>2. thr'[t] = [thr[t] EXCEPT !.pc = "recstop", !.why = "timeout"]
          /\ \A s \in Tids : s # t => thr'[s] = thr[s]
      BY <1>4, <2>1, LeaveIs DEF RecordTimeout
    <2>3. Own
      BY <1>4, <2>1, <2>2, OnlyThread DEF RecordTimeout, ThreadStates, config
    <2>4. Rest
      BY <1>4, <1>b, <2>1, <2>2, OnlyThread DEF RecordTimeout, ThreadStates, AskedKept, config, client
    <2> QED
      BY <1>a, <2>3, <2>4
  <1>5. CASE TrigRecorded(t)
    <2>1. thr[t].pc # "none" /\ thr \in [Tids -> ThreadStates]
      BY <1>5 DEF TrigRecorded, IInv, TypeOK
    <2>2. thr'[t] = [thr[t] EXCEPT !.pc = "recstop", !.why = "full"]
          /\ \A s \in Tids : s # t => thr'[s] = thr[s]
      BY <1>5, <2>1, LeaveIs DEF TrigRecorded
    <2>3. Own
      BY <1>5, <2>1, <2>2, OnlyThread DEF TrigRecorded, ThreadStates, config
    <2>4. Rest
      BY <1>5, <1>b, <2>1, <2>2, OnlyThread DEF TrigRecorded, ThreadStates, AskedKept, config, client
    <2> QED
      BY <1>a, <2>3, <2>4
  <1>6. CASE RecordStopSeen(t)
    <2>1. thr[t].pc # "none" /\ thr \in [Tids -> ThreadStates]
      BY <1>6 DEF RecordStopSeen, IInv, TypeOK
    <2>2. thr'[t] = [thr[t] EXCEPT !.pc = "recstop", !.why = "stop"]
          /\ \A s \in Tids : s # t => thr'[s] = thr[s]
      BY <1>6, <2>1, LeaveIs DEF RecordStopSeen
    <2>3. Own
      BY <1>6, <2>1, <2>2, OnlyThread DEF RecordStopSeen, ThreadStates, config
    <2>4. Rest
      BY <1>6, <1>b, <2>1, <2>2, OnlyThread DEF RecordStopSeen, ThreadStates, AskedKept, config, client
    <2> QED
      BY <1>a, <2>3, <2>4
  <1>7. CASE TrigLoop(t)
    <2>1. thr[t].pc # "none" /\ thr \in [Tids -> ThreadStates]
      BY <1>7 DEF TrigLoop, IInv, TypeOK
    <2>2. thr'[t] = [thr[t] EXCEPT !.pc = "trigloop"]
          /\ \A s \in Tids : s # t => thr'[s] = thr[s]
      BY <1>7, <2>1, GotoIs DEF TrigLoop
    <2>3. Own
      BY <1>7, <2>1, <2>2, OnlyThread DEF TrigLoop, ThreadStates, config
    <2>4. Rest
      BY <1>7, <1>b, <2>1, <2>2, OnlyThread DEF TrigLoop, ThreadStates, AskedKept, config, client
    <2> QED
      BY <1>a, <2>3, <2>4
  <1>8. CASE RecordOff(t)
    <2>1. thr[t].pc # "none" /\ thr \in [Tids -> ThreadStates]
      BY <1>8 DEF RecordOff, IInv, TypeOK
    <2>2. thr'[t] = [thr[t] EXCEPT !.pc = IF thr[t].why \in {"stop", "range"} THEN "end" ELSE "recount"]
          /\ \A s \in Tids : s # t => thr'[s] = thr[s]
      BY <1>8, <2>1, GotoIs DEF RecordOff
    <2>3. Own
      BY <1>8, <2>1, <2>2, OnlyThread DEF RecordOff, ThreadStates, config
    <2>4. Rest
      BY <1>8, <1>b, <2>1, <2>2, OnlyThread DEF RecordOff, ThreadStates, AskedKept, config, client
    <2> QED
      BY <1>a, <2>3, <2>4
  <1>9. CASE Recount(t)
    <2>1. thr[t].pc # "none" /\ thr \in [Tids -> ThreadStates]
      BY <1>9 DEF Recount, IInv, TypeOK
    <2>2. thr'[t] = [thr[t] EXCEPT !.pc = "xfer"]
          /\ \A s \in Tids : s # t => thr'[s] = thr[s]
      BY <1>9, <2>1, GotoIs DEF Recount
    <2>3. Own
      BY <1>9, <2>1, <2>2, OnlyThread, RecountKeeps DEF Recount, ThreadStates, config
    <2>4. Rest
      BY <1>9, <1>b, <2>1, <2>2, OnlyThread, RecountKeeps DEF Recount, ThreadStates, AskedKept, config, client
    <2> QED
      BY <1>a, <2>3, <2>4
  <1>10. CASE StreamInit(t)
    <2>1. thr[t].pc # "none" /\ thr \in [Tids -> ThreadStates]
      BY <1>10 DEF StreamInit, IInv, TypeOK
    <2>2. thr'[t] = [thr[t] EXCEPT !.pc = "xfer"]
          /\ \A s \in Tids : s # t => thr'[s] = thr[s]
      BY <1>10, <2>1, GotoIs DEF StreamInit
    <2>3. Own
      BY <1>10, <2>1, <2>2, OnlyThread DEF StreamInit, ThreadStates, config
    <2>4. Rest
      BY <1>10, <1>b, <2>1, <2>2, OnlyThread DEF StreamInit, ThreadStates, AskedKept, config, client
    <2> QED
      BY <1>a, <2>3, <2>4
  <1>11. CASE XferAssign(t)
    <2>1. thr[t].pc # "none" /\ thr \in [Tids -> ThreadStates]
      BY <1>11 DEF XferAssign, IInv, TypeOK
    <2>2. thr'[t] = [thr[t] EXCEPT !.pc = IF RunAfterAssign THEN "runafter" ELSE "frames"]
          /\ \A s \in Tids : s # t => thr'[s] = thr[s]
      BY <1>11, <2>1, GotoIs DEF XferAssign
    <2>3. Own
      BY <1>11, <2>1, <2>2, OnlyThread DEF XferAssign, ThreadStates, config
    <2>4. Rest
      BY <1>11, <1>b, <2>1, <2>2, OnlyThread DEF XferAssign, ThreadStates, AskedKept, config, client
    <2> QED
      BY <1>a, <2>3, <2>4
  <1>12. CASE XferRunAfterAssign(t)
    <2>1. thr[t].pc # "none" /\ thr \in [Tids -> ThreadStates]
      BY <1>12 DEF XferRunAfterAssign, IInv, TypeOK
    <2>2. thr'[t] = [thr[t] EXCEPT !.pc = "frames"]
          /\ \A s \in Tids : s # t => thr'[s] = thr[s]
      BY <1>12, <2>1, GotoIs DEF XferRunAfterAssign
    <2>3. Own
      BY <1>12, <2>1, <2>2, OnlyThread DEF XferRunAfterAssign, ThreadStates, config, RecordOn, RecordOnFails
    <2>4. Rest
      BY <1>12, <1>b, <2>1, <2>2, OnlyThread DEF XferRunAfterAssign, ThreadStates, AskedKept, config, client, RecordOn, RecordOnFails
    <2> QED
      BY <1>a, <2>3, <2>4
  <1>13. CASE XferFrame(t)
    <2>1. thr[t].pc # "none" /\ thr \in [Tids -> ThreadStates]
      BY <1>13 DEF XferFrame, IInv, TypeOK
    <2>2. thr'[t] = [thr[t] EXCEPT !.pc = "frameready"]
          /\ \A s \in Tids : s # t => thr'[s] = thr[s]
      BY <1>13, <2>1, GotoIs DEF XferFrame
    <2>3. Own
      BY <1>13, <2>1, <2>2, OnlyThread DEF XferFrame, ThreadStates, config, MoreFrames, Available
    <2>4. Rest
      BY <1>13, <1>b, <2>1, <2>2, OnlyThread DEF XferFrame, ThreadStates, AskedKept, config, client, MoreFrames, Available
    <2> QED
      BY <1>a, <2>3, <2>4
  <1>14. CASE Result(t)
    <2>1. thr[t].pc # "none" /\ thr \in [Tids -> ThreadStates]
      BY <1>14 DEF Result, IInv, TypeOK
    <2>2. thr'[t] = [thr[t] EXCEPT !.pc = IF thr[t].fn \in {"edge", "live"} THEN "lastoff" ELSE "end"]
          /\ \A s \in Tids : s # t => thr'[s] = thr[s]
      BY <1>14, <2>1, GotoIs DEF Result
    <2>3. Own
      BY <1>14, <2>1, <2>2, OnlyThread DEF Result, ThreadStates, config
    <2>4. Rest
      BY <1>14, <1>b, <2>1, <2>2, OnlyThread DEF Result, ThreadStates, AskedKept, config, client
    <2> QED
      BY <1>a, <2>3, <2>4
  <1>15. CASE LastOff(t)
    <2>1. thr[t].pc # "none" /\ thr \in [Tids -> ThreadStates]
      BY <1>15 DEF LastOff, IInv, TypeOK
    <2>2. thr'[t] = [thr[t] EXCEPT !.pc = "end"]
          /\ \A s \in Tids : s # t => thr'[s] = thr[s]
      BY <1>15, <2>1, GotoIs DEF LastOff
    <2>3. Own
      BY <1>15, <2>1, <2>2, OnlyThread DEF LastOff, ThreadStates, config
    <2>4. Rest
      BY <1>15, <1>b, <2>1, <2>2, OnlyThread DEF LastOff, ThreadStates, AskedKept, config, client
    <2> QED
      BY <1>a, <2>3, <2>4
  <1>16. CASE XferEnter(t)
    <2>1. thr[t].pc # "none" /\ thr \in [Tids -> ThreadStates]
      BY <1>16 DEF XferEnter, IInv, TypeOK
    <2>2. thr'[t] = [thr[t] EXCEPT !.limit = nbFrames, !.pc = IF Imag(t) THEN "assign" ELSE "frames"]
          /\ \A s \in Tids : s # t => thr'[s] = thr[s]
      BY <1>16, <2>1 DEF XferEnter, ThreadStates
    <2>3. Own
      BY <1>16, <2>1, <2>2, OnlyThread DEF XferEnter, ThreadStates, config
    <2>4. Rest
      BY <1>16, <1>b, <2>1, <2>2, OnlyThread DEF XferEnter, ThreadStates, AskedKept, config, client
    <2> QED
      BY <1>a, <2>3, <2>4
  <1>17. CASE XferContinue(t)
    <2>1. thr[t].pc # "none" /\ thr \in [Tids -> ThreadStates]
      BY <1>17 DEF XferContinue, IInv, TypeOK
    <2>2. thr'[t] = [thr[t] EXCEPT !.done = acqFrames', !.pc = "frames"]
          /\ \A s \in Tids : s # t => thr'[s] = thr[s]
      BY <1>17, <2>1 DEF XferContinue, ThreadStates
    <2>3. Own
      BY <1>17, <2>1, <2>2, OnlyThread DEF XferContinue, ThreadStates, config, MinOf
    <2>4. Rest
      BY <1>17, <1>b, <2>1, <2>2, OnlyThread DEF XferContinue, ThreadStates, AskedKept, config, client, MinOf
    <2> QED
      BY <1>a, <2>3, <2>4
  <1>18. CASE XferEnd(t)
    <2>1. thr[t].pc # "none" /\ thr \in [Tids -> ThreadStates]
      BY <1>18 DEF XferEnd, IInv, TypeOK
    <2>2. thr'[t] = [thr[t] EXCEPT !.pc = "result", !.status = "TransferEnd"]
          /\ \A s \in Tids : s # t => thr'[s] = thr[s]
      BY <1>18, <2>1, ReturnIs DEF XferEnd
    <2>3. Own
      BY <1>18, <2>1, <2>2, OnlyThread DEF XferEnd, ThreadStates, config, XferReturn, MoreFrames
    <2>4. Rest
      BY <1>18, <1>b, <2>1, <2>2, OnlyThread DEF XferEnd, ThreadStates, AskedKept, config, client, XferReturn, MoreFrames
    <2> QED
      BY <1>a, <2>3, <2>4
  <1>19. CASE XferStop(t)
    <2>1. thr[t].pc # "none" /\ thr \in [Tids -> ThreadStates]
      BY <1>19 DEF XferStop, IInv, TypeOK
    <2>2. thr'[t] = [thr[t] EXCEPT !.pc = "result", !.status = "TransferStop"]
          /\ \A s \in Tids : s # t => thr'[s] = thr[s]
      BY <1>19, <2>1, ReturnIs DEF XferStop
    <2>3. Own
      BY <1>19, <2>1, <2>2, OnlyThread DEF XferStop, ThreadStates, config, XferReturn, MoreFrames
    <2>4. Rest
      BY <1>19, <1>b, <2>1, <2>2, OnlyThread DEF XferStop, ThreadStates, AskedKept, config, client, XferReturn, MoreFrames
    <2> QED
      BY <1>a, <2>3, <2>4
  <1>20. CASE XferFails(t)
    <2>1. thr[t].pc # "none" /\ thr \in [Tids -> ThreadStates]
      BY <1>20 DEF XferFails, IInv, TypeOK
    <2>2. thr'[t] = [thr[t] EXCEPT !.pc = "result", !.status = "PcoError"]
          /\ \A s \in Tids : s # t => thr'[s] = thr[s]
      BY <1>20, <2>1, ReturnIs DEF XferFails
    <2>3. Own
      BY <1>20, <2>1, <2>2, OnlyThread DEF XferFails, ThreadStates, config, XferReturn, MoreFrames
    <2>4. Rest
      BY <1>20, <1>b, <2>1, <2>2, OnlyThread DEF XferFails, ThreadStates, AskedKept, config, client, XferReturn, MoreFrames
    <2> QED
      BY <1>a, <2>3, <2>4
  <1>21. CASE XferNothing(t)
    <2>1. thr[t].pc # "none" /\ thr \in [Tids -> ThreadStates]
      BY <1>21 DEF XferNothing, IInv, TypeOK
    <2>2. PICK status \in {"TransferEnd", "TransferStop"} : XferReturn(t, status)
      BY <1>21 DEF XferNothing
    <2>3. thr'[t] = [thr[t] EXCEPT !.pc = "result", !.status = status]
          /\ \A s \in Tids : s # t => thr'[s] = thr[s]
      BY <2>1, <2>2, ReturnIs
    <2>4. Own
      BY <1>21, <2>1, <2>2, <2>3, OnlyThread DEF XferNothing, XferReturn, ThreadStates, config
    <2>5. Rest
      BY <1>21, <1>b, <2>1, <2>2, <2>3, OnlyThread
      DEF XferNothing, XferReturn, ThreadStates, AskedKept, config, client
    <2> QED
      BY <1>a, <2>4, <2>5
  <1>22. CASE ThreadEnd(t)
    <2>1. thr[t].pc # "none" /\ thr' = [thr EXCEPT ![t] = NoThread] /\ started' = FALSE
          /\ UNCHANGED <<trig, exposing, nbFrames, acqFrames, valid, client>>
      BY <1>22 DEF ThreadEnd, config
    <2>2. \A s \in Tids : thr'[s].pc = "none" /\ thr'[s].fn = "none"
      BY <2>1, OnlyThread DEF NoThread
    <2>3. nbFrames <= MaxFrames
      BY <2>1, OnlyThread
    <2> QED
      BY <2>1, <2>2, <2>3
      DEF CountInv, PreparedAtRest, EndIsCounted, Bounded, AskedKept, Resting, Starting, client
  <1>23. CASE Terminate /\ thr[t].pc # "none"
    <2>1. /\ cpc' = "dead" /\ \A s \in Tids : thr'[s].pc = "none" /\ thr'[s].fn = "none"
          /\ UNCHANGED <<trig, started, exposing, nbFrames, acqFrames, valid, prepared, asked>>
      BY <1>23 DEF Terminate, NoThread, config
    <2>2. nbFrames <= MaxFrames
      BY <1>23, OnlyThread
    <2> QED
      BY <2>1, <2>2
      DEF CountInv, PreparedAtRest, EndIsCounted, Bounded, AskedKept, Resting, Starting
  <1> QED
    BY <1>1, <1>2, <1>3, <1>4, <1>5, <1>6, <1>7, <1>8, <1>9, <1>10, <1>11, <1>12, <1>13, <1>14, <1>15, <1>16, <1>17, <1>18, <1>19, <1>20, <1>21, <1>22, <1>23 DEF Thread, Errors, Throw, XferThrows

LEMMA BeginCount == ASSUME IInv, CountInv, BeginThread PROVE CountInv'
  <1> DEFINE new == [NoThread EXCEPT !.fn = ThreadFunction, !.pc = "entry"]
  <1>1. PICK t \in Tids : thr' = [thr EXCEPT ![t] = new]
    BY DEF BeginThread
  <1>2. new.fn = ThreadFunction /\ new.pc = "entry" /\ new.status = "Idle" /\ new.done = 0
    BY DEF NoThread
  <1> HIDE DEF new
  <1>3. cpc = "begin" /\ cpc' = "check"
        /\ UNCHANGED <<trig, started, exposing, nbFrames, acqFrames, valid, prepared, asked>>
    BY DEF BeginThread, config
  <1>4. /\ thr'[t].fn = ThreadFunction /\ thr'[t].pc = "entry" /\ thr'[t].status = "Idle"
        /\ thr'[t].done = 0 /\ \A s \in Tids : s # t => thr'[s] = thr[s]
    BY <1>1, <1>2 DEF IInv, TypeOK
  <1>5. \A s \in Tids : thr[s].fn = "none" /\ thr[s].pc = "none"
    BY <1>3 DEF IInv, StartingAlone, LiveHasPlace, Starting, Live
  <1>6. ThreadFunction = "trig" => trig = "ExtTrigSingle"
    BY DEF ThreadFunction
  <1>7. \A s \in Tids : ThreadCounts(s)' /\ ThreadRecords(s)'
    BY <1>3, <1>4, <1>5, <1>6 DEF ThreadCounts, ThreadRecords, Recording, Streaming, At
  <1>8. ~prepared /\ exposing # "TransferEnd" /\ nbFrames <= MaxFrames
    BY <1>3 DEF CountInv, PreparedAtRest, EndIsCounted, Bounded, Fresh, Starting
  <1> QED
    BY <1>3, <1>7, <1>8 DEF CountInv, PreparedAtRest, EndIsCounted, Bounded, AskedKept

(* The threads' part when the client or the camera takes a step: the counts *)
(* and the segment are as they were, or no thread is at work.               *)
LEMMA ThreadsKeptCounts ==
    ASSUME IInv, CountInv, thr' = thr, trig' = trig,
           \/ Resting
           \/ UNCHANGED <<nbFrames, acqFrames>> /\ valid' \in Nat /\ valid' >= valid
    PROVE  \A t \in Tids : ThreadCounts(t)' /\ ThreadRecords(t)'
  <1> SUFFICES ASSUME NEW t \in Tids PROVE ThreadCounts(t)' /\ ThreadRecords(t)'
    OBVIOUS
  <1>1. ThreadCounts(t) /\ ThreadRecords(t) /\ valid \in Nat
    BY DEF CountInv, IInv, TypeOK
  <1>2. CASE Resting
    BY <1>1, <1>2 DEF Resting, Working, ThreadCounts, ThreadRecords, Recording, Streaming, At
  <1>3. CASE UNCHANGED <<nbFrames, acqFrames>> /\ valid' \in Nat /\ valid' >= valid
    <2>1. PcoRequested(t) \in Nat
      BY SizesAssumption DEF PcoRequested, IInv, TypeOK, ThreadStates
    <2>2. PcoRequested(t)' = PcoRequested(t)
      BY DEF PcoRequested
    <2>3. ThreadCounts(t)'
      BY <1>1, <1>3 DEF ThreadCounts, At
    <2>4. ThreadRecords(t)'
      BY <1>1, <1>3, <2>1, <2>2 DEF ThreadRecords, At
    <2> QED
      BY <2>3, <2>4
  <1> QED
    BY <1>2, <1>3

LEMMA ClientCount ==
    ASSUME IInv, CountInv, thr' = thr,
           \/ Prepare \/ StartEnter \/ StartCamera \/ StartRejected \/ StartRecord
           \/ StartThrows \/ StartCheck \/ StartWaited \/ StartReturn \/ StopEnter
           \/ StopRequest \/ StopReturn \/ Record \/ RecordStopEvent \/ UNCHANGED vars
    PROVE  CountInv'
  <1> DEFINE Own == \A t \in Tids : ThreadCounts(t)' /\ ThreadRecords(t)'
  <1>0. valid \in Nat /\ (Resting <=> Resting') /\ (Starting => Resting)
    BY DEF IInv, TypeOK, Resting, Working, StartingAlone, LiveHasPlace
  <1> USE DEF config, client, CountInv, PreparedAtRest, EndIsCounted, Bounded, AskedKept, Starting
  <1>1. CASE Prepare
    <2>1. Resting
      <3> SUFFICES ASSUME NEW t \in Tids, Working(t) PROVE FALSE
        BY DEF Resting
      <3>1. started /\ exposing \notin Faulty /\ exposing \in Exposing
        BY DEF IInv, TypeOK, LiveIsStarted, LiveHasPlace, NoFaultWorking, Working
      <3> QED
        BY <1>1, <3>1 DEF Prepare, Status, Exposing, Faulty
    <2>2. Own
      BY <1>1, <2>1, ThreadsKeptCounts DEF Prepare
    <2>3. exposing = "TransferEnd" => ~started
      BY <1>1 DEF Prepare, Status
    <2>4. nbFrames' <= MaxFrames /\ nbFrames' = asked' /\ prepared' /\ cpc' = "idle"
          /\ UNCHANGED <<exposing, started>>
      BY <1>1, RequestsAssumption, SizesAssumption DEF Prepare
    <2> QED
      BY <1>0, <2>1, <2>2, <2>3, <2>4
  <1>2. CASE StartEnter
    <2>1. /\ cpc = "idle" /\ prepared /\ ~prepared'
          /\ UNCHANGED <<trig, started, nbFrames, acqFrames, valid, asked>>
      BY <1>2 DEF StartEnter
    <2>2. Own
      BY <1>0, <2>1, ThreadsKeptCounts
    <2>3. nbFrames <= MaxFrames
      BY <2>1 DEF Fresh
    <2>4. CASE started
      <3>1. UNCHANGED <<exposing, cpc>>
        BY <1>2, <2>4, Zenon DEF StartEnter
      <3> QED
        BY <2>1, <2>2, <2>3, <2>4, <3>1
    <2>5. CASE ~started
      <3>1. exposing' = "Start" /\ cpc' = "camera"
        BY <1>2, <2>5, Zenon DEF StartEnter
      <3> QED
        BY <2>1, <2>2, <2>3, <3>1
    <2> QED
      BY <2>4, <2>5
  <1>3. CASE StartCamera \/ StartRejected
    <2>1. Own
      BY <1>0, <1>3, ThreadsKeptCounts DEF StartCamera, StartRejected
    <2>2. nbFrames <= MaxFrames /\ ~prepared
      BY <1>3 DEF StartCamera, StartRejected, Fresh
    <2> QED
      BY <1>3, <2>1, <2>2 DEF StartCamera, StartRejected
  <1>4. CASE StartRecord \/ StartThrows
    <2>1. cpc = "record" /\ Resting
      BY <1>0, <1>4 DEF StartRecord, StartThrows
    <2>2. UNCHANGED <<trig, started, nbFrames, acqFrames, prepared, asked>>
      BY <1>4 DEF StartRecord, StartThrows
    <2>3. Own
      BY <2>1, <2>2, ThreadsKeptCounts
    <2>4. nbFrames <= MaxFrames /\ ~prepared /\ exposing # "TransferEnd"
      BY <2>1 DEF Fresh
    <2>5. exposing' # "TransferEnd"
      BY <1>4, <2>4 DEF StartRecord, StartThrows, RecordOn, RecordOnFails
    <2> QED
      BY <2>2, <2>3, <2>4, <2>5
  <1>5. CASE StartCheck \/ StartWaited \/ StartReturn
    <2>1. Own
      BY <1>0, <1>5, ThreadsKeptCounts DEF StartCheck, StartWaited, StartReturn
    <2>2. nbFrames <= MaxFrames /\ ~prepared
      BY <1>5 DEF StartCheck, StartWaited, StartReturn, Fresh
    <2>3. UNCHANGED <<trig, exposing, nbFrames, acqFrames, prepared, asked>> /\ ~Starting'
      BY <1>5 DEF StartCheck, StartWaited, StartReturn
    <2> QED
      BY <1>0, <2>1, <2>2, <2>3
  <1>6. CASE StopEnter \/ StopRequest \/ StopReturn
    <2>1. Own
      BY <1>0, <1>6, ThreadsKeptCounts DEF StopEnter, StopRequest, StopReturn
    <2>2. /\ UNCHANGED <<trig, started, exposing, nbFrames, acqFrames, prepared, asked>>
          /\ cpc \in {"idle", "stop"} /\ cpc' \in {"idle", "stop"}
      BY <1>6 DEF StopEnter, StopRequest, StopReturn
    <2>3. Fresh => Fresh'
      BY <2>2 DEF Fresh, Live
    <2> QED
      BY <1>0, <2>1, <2>2, <2>3
  <1>7. CASE Record \/ RecordStopEvent \/ UNCHANGED vars
    <2>1. /\ UNCHANGED <<trig, started, exposing, nbFrames, acqFrames, cpc, prepared, asked>>
          /\ valid' \in Nat /\ valid' >= valid
      BY <1>0, <1>7 DEF Record, RecordStopEvent, vars
    <2>2. Own
      BY <2>1, ThreadsKeptCounts
    <2>3. Fresh => Fresh'
      BY <2>1 DEF Fresh, Live
    <2> QED
      BY <1>0, <2>1, <2>2, <2>3
  <1> QED
    BY <1>1, <1>2, <1>3, <1>4, <1>5, <1>6, <1>7

LEMMA CountStep ==
    ASSUME CalcMax <= HwMax, IInv, CountInv, [Next]_vars
    PROVE  CountInv'
  <1>1. CASE \E t \in Tids : Thread(t) \/ Errors(t)
    BY <1>1, ThreadCount
  <1>2. CASE BeginThread
    BY <1>2, BeginCount
  <1>3. CASE \/ Prepare \/ StartEnter \/ StartCamera \/ StartRejected \/ StartRecord
            \/ StartThrows \/ StartCheck \/ StartWaited \/ StartReturn \/ StopEnter
            \/ StopRequest \/ StopReturn \/ Record \/ RecordStopEvent \/ UNCHANGED vars
    <2>1. thr' = thr
      BY <1>3 DEF Prepare, StartEnter, StartCamera, StartRejected, StartRecord, StartThrows,
                  StartCheck, StartWaited, StartReturn, StopEnter, StopRequest, StopReturn,
                  Record, RecordStopEvent, vars
    <2> QED
      BY <1>3, <2>1, ClientCount
  <1> QED
    BY <1>1, <1>2, <1>3 DEF Next, Client, Terminated

(* As long as MaxCalc does not promise more images than the RAM segment     *)
(* holds, an acquisition that ended normally has transferred the frames     *)
(* SyncCtrlObj says, and the frames asked for when no recording can time    *)
(* out: nbFrames and acqFrames of SyncCtrlObj over the whole run.           *)
THEOREM EndCountsFramesAlways == ASSUME CalcMax <= HwMax PROVE Spec => []EndCountsFrames
  <1>1. Init => IInv /\ CountInv
    BY InvInit, InitCount
  <1>2. IInv /\ CountInv /\ [Next]_vars => IInv' /\ CountInv'
    BY InvStep, CountStep
  <1>3. CountInv => EndCountsFrames
    BY DEF CountInv, EndIsCounted, AskedKept, EndCountsFrames, Ended
  <1> QED
    BY <1>1, <1>2, <1>3, PTL DEF Spec
============================================================================
