--------------------------- MODULE PcoPrepare_proofs ---------------------------
(* Theorems about PcoPrepare, for every set of requests, widths and rates and *)
(* every number of buffers.  The argument: each setting is written at one      *)
(* place of prepareAcq and nothing undoes it on the way to the run, so that    *)
(* what was decided at that place still holds when the thread is chosen.       *)
EXTENDS PcoPrepare, TLAPS

Running == run # "none"
StorageSet == pc \in {"event", "rate", "transfer", "arm", "buffers", "image", "ready"}
StopEventSet == pc \in {"rate", "transfer", "arm", "buffers", "image", "ready"}
RateSet == pc \in {"transfer", "arm", "buffers", "image", "ready"}
TransferSet == pc \in {"arm", "buffers", "image", "ready"}
Armed == pc \in {"buffers", "image", "ready"}
Allocated == pc \in {"image", "ready"}

(* prepareAcq and a run exclude each other *)
RunIsApart == Running => pc = "idle"

(* what the camera was told of the recorder is what the request calls for *)
StorageFollows ==
    (StorageSet \/ Running) /\ ~IsEdge /\ "forced" \notin touched
        => cam.storage = StorageMode(trig, frames, forced)

StopEventFollows ==
    (StopEventSet \/ Running) /\ kind = "dimax" /\ TrigSingle(trig, frames) => cam.stopAt = frames

(* nothing is told to an armed camera *)
ArmedIsTold == Armed \/ Running => armed = cam

ReadsFollow ==
    (pc = "ready" \/ Running) /\ "forced" \notin touched
        => reads = IF IsEdge \/ forced THEN "recording" ELSE "segments"

ThreadFollows ==
    Running /\ "forced" \notin touched => run = ThreadFor(trig, frames, forced)

BuffersFollow ==
    (Allocated \/ Running) /\ "buffers" \notin touched
        => bufs = [nr |-> nrEvents, width |-> armed.width]

(* a rate asked for is still requested, or is set *)
RateKept == wanted # 0 => HasRate /\ (rateReq = wanted \/ (rateReq = 0 /\ cam.rate = wanted))
RateFollows == RateSet /\ "rate" \notin touched /\ wanted # 0 => cam.rate = wanted

(* the format is chosen for the width reported before arming *)
FormatFollows == TransferSet /\ IsEdge => cam.format = FormatFor(cam.rate, before)

(* a mode is on only in a camera that has it *)
ModesAllowed == (double => HasDouble) /\ (cdi => HasCdi)

IInv ==
    /\ TypeOK /\ RunIsApart /\ ModesAllowed
    /\ StorageFollows /\ StopEventFollows /\ ArmedIsTold
    /\ ReadsFollow /\ ThreadFollows /\ BuffersFollow
    /\ RateKept /\ RateFollows /\ FormatFollows

--------------------------------------------------------------------------------
LEMMA FullIsWidth == FullWidth \in Widths
BY WidthsAssumption DEF FullWidth

LEMMA InitInv == Init => IInv
<1> SUFFICES ASSUME Init PROVE IInv
  OBVIOUS
<1>1. TypeOK
  <2>1. Booted \in Settings
    BY FullIsWidth, RatesAssumption DEF Booted, Settings
  <2>2. (forced \in BOOLEAN /\ double \in BOOLEAN /\ cdi \in BOOLEAN /\ refused \in BOOLEAN)
    BY DEF Init
  <2> QED BY <2>1, <2>2, FullIsWidth, EventsAssumption DEF Init, TypeOK, InPrepare
<1>2. RunIsApart /\ StorageFollows /\ StopEventFollows /\ ArmedIsTold /\ ReadsFollow
      /\ ThreadFollows /\ BuffersFollow /\ RateKept /\ RateFollows /\ FormatFollows
      /\ ModesAllowed
  BY DEF Init, ModesAllowed, RunIsApart, StorageFollows, StopEventFollows, ArmedIsTold, ReadsFollow,
     ThreadFollows, BuffersFollow, RateKept, RateFollows, FormatFollows, Running,
     StorageSet, StopEventSet, RateSet, TransferSet, Armed, Allocated
<1> QED BY <1>1, <1>2 DEF IInv

(* one step per action: the types, and the invariants that relate the settings *)
LEMMA StepInv == IInv /\ [Next]_vars => IInv'
<1> SUFFICES ASSUME IInv, [Next]_vars PROVE IInv'
  OBVIOUS
<1> USE RequestsAssumption, RatesAssumption, EventsAssumption
<1> USE DEF IInv
<1>1. ASSUME NEW n \in Requests, NEW t \in TrigModes, NEW w \in Widths, Prepare(n, t, w) PROVE IInv'
  <2>1. TypeOK'
    <3>1. cam' \in Settings
      BY <1>1 DEF TypeOK, Settings, Prepare
    <3>2. InPrepare' /\ frames' \in Requests \cup {0} /\ trig' \in TrigModes \cup {"IntTrig"}
          /\ touched' = {} /\ refused' = FALSE
      BY <1>1 DEF InPrepare, Prepare
    <3> QED
      BY <1>1, <3>1, <3>2 DEF TypeOK, Prepare, plugin, modes
  <2>2. (RunIsApart /\ StorageFollows /\ StopEventFollows /\ ArmedIsTold /\ ReadsFollow)'
    BY <1>1 DEF RunIsApart, StorageFollows, StopEventFollows, ArmedIsTold, ReadsFollow, TypeOK,
       InPrepare, Settings, Prepare, IsEdge, plugin, modes, Running, StorageSet, StopEventSet,
       Armed
  <2>3. (ThreadFollows /\ BuffersFollow /\ RateKept /\ RateFollows /\ FormatFollows)'
    BY <1>1 DEF ThreadFollows, BuffersFollow, RateKept, RateFollows, FormatFollows, RunIsApart,
       HasRate, ThreadFor, TypeOK, InPrepare, Settings, Prepare, IsEdge, plugin, modes, Running,
       RateSet, TransferSet, Allocated
  <2>4. ModesAllowed'
    BY <1>1 DEF ModesAllowed, HasDouble, HasCdi, IsEdge, Prepare, plugin, modes
  <2> QED BY <2>1, <2>2, <2>3, <2>4
<1>2. CASE SetStorage
  <2>1. TypeOK'
    BY <1>2 DEF TypeOK, InPrepare, Settings, SetStorage, StorageMode, Step, IsEdge, request,
       plugin, modes, history
  <2>2. (RunIsApart /\ StorageFollows /\ StopEventFollows /\ ArmedIsTold /\ ReadsFollow)'
    BY <1>2 DEF RunIsApart, StorageFollows, StopEventFollows, ArmedIsTold, ReadsFollow, TypeOK,
       InPrepare, Settings, SetStorage, StorageMode, Step, IsEdge, request, plugin, modes, history,
       Running, StorageSet, StopEventSet, Armed
  <2>3. (ThreadFollows /\ BuffersFollow /\ RateKept /\ RateFollows /\ FormatFollows)'
    BY <1>2 DEF ThreadFollows, BuffersFollow, RateKept, RateFollows, FormatFollows, RunIsApart,
       HasRate, ThreadFor, TypeOK, InPrepare, Settings, SetStorage, StorageMode, Step, IsEdge,
       request, plugin, modes, history, Running, RateSet, TransferSet, Allocated
  <2>4. ModesAllowed'
    BY <1>2 DEF ModesAllowed, HasDouble, HasCdi, IsEdge, SetStorage, request, plugin, modes
  <2> QED BY <2>1, <2>2, <2>3, <2>4
<1>3. CASE SetStopEvent
  <2>1. TypeOK'
    BY <1>3 DEF TypeOK, InPrepare, Settings, SetStopEvent, Step, request, plugin, modes, history
  <2>2. (RunIsApart /\ StorageFollows /\ StopEventFollows /\ ArmedIsTold /\ ReadsFollow)'
    BY <1>3 DEF RunIsApart, StorageFollows, StopEventFollows, ArmedIsTold, ReadsFollow, TypeOK,
       InPrepare, Settings, SetStopEvent, Step, IsEdge, request, plugin, modes, history, Running,
       StorageSet, StopEventSet, Armed
  <2>3. (ThreadFollows /\ BuffersFollow /\ RateKept /\ RateFollows /\ FormatFollows)'
    BY <1>3 DEF ThreadFollows, BuffersFollow, RateKept, RateFollows, FormatFollows, RunIsApart,
       HasRate, ThreadFor, TypeOK, InPrepare, Settings, SetStopEvent, Step, IsEdge, request,
       plugin, modes, history, Running, RateSet, TransferSet, Allocated
  <2>4. ModesAllowed'
    BY <1>3 DEF ModesAllowed, HasDouble, HasCdi, IsEdge, SetStopEvent, request, plugin, modes
  <2> QED BY <2>1, <2>2, <2>3, <2>4
<1>4. CASE SetPixelRate
  <2>1. TypeOK'
    BY <1>4 DEF TypeOK, InPrepare, Settings, SetPixelRate, RateAfter, HasRate, Step, IsEdge,
       request, modes, history
  <2>2. (RunIsApart /\ StorageFollows /\ StopEventFollows /\ ArmedIsTold /\ ReadsFollow)'
    BY <1>4 DEF RunIsApart, StorageFollows, StopEventFollows, ArmedIsTold, ReadsFollow, TypeOK,
       InPrepare, Settings, SetPixelRate, RateAfter, HasRate, Step, IsEdge, request, modes,
       history, Running, StorageSet, StopEventSet, Armed
  <2>3. (ThreadFollows /\ BuffersFollow /\ RateKept /\ RateFollows /\ FormatFollows)'
    BY <1>4 DEF ThreadFollows, BuffersFollow, RateKept, RateFollows, FormatFollows, RunIsApart,
       HasRate, ThreadFor, TypeOK, InPrepare, Settings, SetPixelRate, RateAfter, Step, IsEdge,
       request, modes, history, Running, RateSet, TransferSet, Allocated
  <2>4. ModesAllowed'
    BY <1>4 DEF ModesAllowed, HasDouble, HasCdi, IsEdge, SetPixelRate, request, modes
  <2> QED BY <2>1, <2>2, <2>3, <2>4
<1>5. CASE PixelRateThrows
  <2>1. TypeOK'
    BY <1>5 DEF TypeOK, InPrepare, Settings, PixelRateThrows, RateAfter, HasRate, Step, request,
       plugin, modes, history
  <2>2. (RunIsApart /\ StorageFollows /\ StopEventFollows /\ ArmedIsTold /\ ReadsFollow)'
    BY <1>5 DEF RunIsApart, StorageFollows, StopEventFollows, ArmedIsTold, ReadsFollow, TypeOK,
       InPrepare, Settings, PixelRateThrows, RateAfter, HasRate, Step, IsEdge, request, plugin,
       modes, history, Running, StorageSet, StopEventSet, Armed
  <2>3. (ThreadFollows /\ BuffersFollow /\ RateKept /\ RateFollows /\ FormatFollows)'
    BY <1>5 DEF ThreadFollows, BuffersFollow, RateKept, RateFollows, FormatFollows, RunIsApart,
       HasRate, ThreadFor, TypeOK, InPrepare, Settings, PixelRateThrows, RateAfter, Step, IsEdge,
       request, plugin, modes, history, Running, RateSet, TransferSet, Allocated
  <2>4. ModesAllowed'
    BY <1>5 DEF ModesAllowed, HasDouble, HasCdi, IsEdge, PixelRateThrows, request, plugin, modes
  <2> QED BY <2>1, <2>2, <2>3, <2>4
<1>6. CASE SetTransfer
  <2>1. TypeOK'
    BY <1>6 DEF TypeOK, InPrepare, Settings, SetTransfer, FormatFor, Step, IsEdge, request,
       plugin, modes
  <2>2. (RunIsApart /\ StorageFollows /\ StopEventFollows /\ ArmedIsTold /\ ReadsFollow)'
    BY <1>6 DEF RunIsApart, StorageFollows, StopEventFollows, ArmedIsTold, ReadsFollow, TypeOK,
       InPrepare, Settings, SetTransfer, FormatFor, Step, IsEdge, request, plugin, modes, Running,
       StorageSet, StopEventSet, Armed
  <2>3. (ThreadFollows /\ BuffersFollow /\ RateKept /\ RateFollows /\ FormatFollows)'
    BY <1>6 DEF ThreadFollows, BuffersFollow, RateKept, RateFollows, FormatFollows, RunIsApart,
       HasRate, ThreadFor, TypeOK, InPrepare, Settings, SetTransfer, FormatFor, Step, IsEdge,
       request, plugin, modes, Running, RateSet, TransferSet, Allocated
  <2>4. ModesAllowed'
    BY <1>6 DEF ModesAllowed, HasDouble, HasCdi, IsEdge, SetTransfer, request, plugin, modes
  <2> QED BY <2>1, <2>2, <2>3, <2>4
<1>7. CASE Arm
  <2>1. TypeOK'
    BY <1>7 DEF TypeOK, InPrepare, Settings, Arm, Step, request, plugin, modes, history
  <2>2. (RunIsApart /\ StorageFollows /\ StopEventFollows /\ ArmedIsTold /\ ReadsFollow)'
    BY <1>7 DEF RunIsApart, StorageFollows, StopEventFollows, ArmedIsTold, ReadsFollow, TypeOK,
       InPrepare, Settings, Arm, Step, IsEdge, request, plugin, modes, history, Running,
       StorageSet, StopEventSet, Armed
  <2>3. (ThreadFollows /\ BuffersFollow /\ RateKept /\ RateFollows /\ FormatFollows)'
    BY <1>7 DEF ThreadFollows, BuffersFollow, RateKept, RateFollows, FormatFollows, RunIsApart,
       HasRate, ThreadFor, TypeOK, InPrepare, Settings, Arm, Step, IsEdge, request, plugin, modes,
       history, Running, RateSet, TransferSet, Allocated
  <2>4. ModesAllowed'
    BY <1>7 DEF ModesAllowed, HasDouble, HasCdi, IsEdge, Arm, request, plugin, modes
  <2> QED BY <2>1, <2>2, <2>3, <2>4
<1>8. CASE AllocBuffers
  <2>1. TypeOK'
    BY <1>8 DEF TypeOK, InPrepare, Settings, AllocBuffers, Touch, Step, request, plugin, modes
  <2>2. (RunIsApart /\ StorageFollows /\ StopEventFollows /\ ArmedIsTold /\ ReadsFollow)'
    BY <1>8 DEF RunIsApart, StorageFollows, StopEventFollows, ArmedIsTold, ReadsFollow, TypeOK,
       InPrepare, Settings, AllocBuffers, Touch, Step, IsEdge, request, plugin, modes, Running,
       StorageSet, StopEventSet, Armed
  <2>3. (ThreadFollows /\ BuffersFollow /\ RateKept /\ RateFollows /\ FormatFollows)'
    BY <1>8 DEF ThreadFollows, BuffersFollow, RateKept, RateFollows, FormatFollows, RunIsApart,
       HasRate, ThreadFor, TypeOK, InPrepare, Settings, AllocBuffers, Touch, Step, IsEdge, request,
       plugin, modes, Running, RateSet, TransferSet, Allocated
  <2>4. ModesAllowed'
    BY <1>8 DEF ModesAllowed, HasDouble, HasCdi, IsEdge, AllocBuffers, request, plugin, modes
  <2> QED BY <2>1, <2>2, <2>3, <2>4
<1>9. CASE SetImageParameters
  <2>1. TypeOK'
    BY <1>9 DEF TypeOK, InPrepare, Settings, SetImageParameters, Step, IsEdge, request, plugin,
       modes, history
  <2>2. (RunIsApart /\ StorageFollows /\ StopEventFollows /\ ArmedIsTold /\ ReadsFollow)'
    BY <1>9 DEF RunIsApart, StorageFollows, StopEventFollows, ArmedIsTold, ReadsFollow, TypeOK,
       InPrepare, Settings, SetImageParameters, Step, IsEdge, request, plugin, modes, history,
       Running, StorageSet, StopEventSet, Armed
  <2>3. (ThreadFollows /\ BuffersFollow /\ RateKept /\ RateFollows /\ FormatFollows)'
    BY <1>9 DEF ThreadFollows, BuffersFollow, RateKept, RateFollows, FormatFollows, RunIsApart,
       HasRate, ThreadFor, TypeOK, InPrepare, Settings, SetImageParameters, Step, IsEdge, request,
       plugin, modes, history, Running, RateSet, TransferSet, Allocated
  <2>4. ModesAllowed'
    BY <1>9 DEF ModesAllowed, HasDouble, HasCdi, IsEdge, SetImageParameters, request, plugin,
       modes
  <2> QED BY <2>1, <2>2, <2>3, <2>4
<1>10. CASE PrepareThrows
  <2>1. TypeOK'
    BY <1>10 DEF TypeOK, InPrepare, Settings, PrepareThrows, request, plugin, modes, history
  <2>2. (RunIsApart /\ StorageFollows /\ StopEventFollows /\ ArmedIsTold /\ ReadsFollow)'
    BY <1>10 DEF RunIsApart, StorageFollows, StopEventFollows, ArmedIsTold, ReadsFollow, TypeOK,
       InPrepare, Settings, PrepareThrows, IsEdge, request, plugin, modes, history, Running,
       StorageSet, StopEventSet, Armed
  <2>3. (ThreadFollows /\ BuffersFollow /\ RateKept /\ RateFollows /\ FormatFollows)'
    BY <1>10 DEF ThreadFollows, BuffersFollow, RateKept, RateFollows, FormatFollows, RunIsApart,
       HasRate, ThreadFor, TypeOK, InPrepare, Settings, PrepareThrows, IsEdge, request, plugin,
       modes, history, Running, RateSet, TransferSet, Allocated
  <2>4. ModesAllowed'
    BY <1>10 DEF ModesAllowed, HasDouble, HasCdi, IsEdge, PrepareThrows, request, plugin, modes
  <2> QED BY <2>1, <2>2, <2>3, <2>4
<1>11. CASE StartAcq
  <2>1. TypeOK'
    BY <1>11 DEF TypeOK, InPrepare, Settings, StartAcq, ThreadFor, Step, IsEdge, request,
       plugin, modes, history
  <2>2. (RunIsApart /\ StorageFollows /\ StopEventFollows /\ ArmedIsTold /\ ReadsFollow)'
    BY <1>11 DEF RunIsApart, StorageFollows, StopEventFollows, ArmedIsTold, ReadsFollow, TypeOK,
       InPrepare, Settings, StartAcq, ThreadFor, Step, IsEdge, request, plugin, modes, history,
       Running, StorageSet, StopEventSet, Armed
  <2>3. (ThreadFollows /\ BuffersFollow /\ RateKept /\ RateFollows /\ FormatFollows)'
    BY <1>11 DEF ThreadFollows, BuffersFollow, RateKept, RateFollows, FormatFollows, RunIsApart,
       HasRate, ThreadFor, TypeOK, InPrepare, Settings, StartAcq, Step, IsEdge, request, plugin,
       modes, history, Running, RateSet, TransferSet, Allocated
  <2>4. ModesAllowed'
    BY <1>11 DEF ModesAllowed, HasDouble, HasCdi, IsEdge, StartAcq, request, plugin, modes
  <2> QED BY <2>1, <2>2, <2>3, <2>4
<1>12. CASE RunEnd
  <2>1. TypeOK'
    BY <1>12 DEF TypeOK, InPrepare, Settings, RunEnd, request, plugin, modes, history
  <2>2. (RunIsApart /\ StorageFollows /\ StopEventFollows /\ ArmedIsTold /\ ReadsFollow)'
    BY <1>12 DEF RunIsApart, StorageFollows, StopEventFollows, ArmedIsTold, ReadsFollow, TypeOK,
       InPrepare, Settings, RunEnd, IsEdge, request, plugin, modes, history, Running, StorageSet,
       StopEventSet, Armed
  <2>3. (ThreadFollows /\ BuffersFollow /\ RateKept /\ RateFollows /\ FormatFollows)'
    BY <1>12 DEF ThreadFollows, BuffersFollow, RateKept, RateFollows, FormatFollows, RunIsApart,
       HasRate, ThreadFor, TypeOK, InPrepare, Settings, RunEnd, IsEdge, request, plugin, modes,
       history, Running, RateSet, TransferSet, Allocated
  <2>4. ModesAllowed'
    BY <1>12 DEF ModesAllowed, HasDouble, HasCdi, IsEdge, RunEnd, request, plugin, modes
  <2> QED BY <2>1, <2>2, <2>3, <2>4
<1>13. ASSUME NEW v \in BOOLEAN, SetForcedFifo(v) PROVE IInv'
  <2>1. TypeOK'
    <3>1. (forced \in BOOLEAN /\ double \in BOOLEAN /\ cdi \in BOOLEAN /\ refused \in BOOLEAN)'
      BY <1>13, Zenon DEF TypeOK, SetForcedFifo, HasDouble
    <3>2. (nrEvents \in 1 .. MaxEvents /\ rateReq \in Rates \cup {0})'
      BY <1>13 DEF TypeOK, SetForcedFifo
    <3>3. (touched \subseteq {"forced", "rate", "buffers"})'
      BY <1>13 DEF TypeOK, SetForcedFifo, Touch
    <3>4. UNCHANGED others
      BY <1>13 DEF SetForcedFifo
    <3> QED
      BY <3>1, <3>2, <3>3, <3>4 DEF TypeOK, InPrepare, others, request
  <2>2. (RunIsApart /\ StorageFollows /\ StopEventFollows /\ ArmedIsTold /\ ReadsFollow)'
    BY <1>13 DEF RunIsApart, StorageFollows, StopEventFollows, ArmedIsTold, ReadsFollow, TypeOK,
       InPrepare, Settings, SetForcedFifo, Touch, HasDouble, SettingTime, IsEdge, request, others,
       Running, StorageSet, StopEventSet, Armed
  <2>3. (ThreadFollows /\ BuffersFollow /\ RateKept /\ RateFollows /\ FormatFollows)'
    BY <1>13 DEF ThreadFollows, BuffersFollow, RateKept, RateFollows, FormatFollows, RunIsApart,
       HasRate, ThreadFor, TypeOK, InPrepare, Settings, SetForcedFifo, Touch, HasDouble,
       SettingTime, IsEdge, request, others, Running, RateSet, TransferSet, Allocated
  <2>4. ModesAllowed'
    BY <1>13, Zenon DEF ModesAllowed, HasDouble, HasCdi, IsEdge, SetForcedFifo, request, others
  <2> QED BY <2>1, <2>2, <2>3, <2>4
<1>14. ASSUME NEW v \in BOOLEAN, SetDoubleImage(v) PROVE IInv'
  <2>1. TypeOK'
    <3>1. (forced \in BOOLEAN /\ double \in BOOLEAN /\ cdi \in BOOLEAN /\ refused \in BOOLEAN)'
      BY <1>14, Zenon DEF TypeOK, SetDoubleImage, HasDouble, HasCdi
    <3>2. (nrEvents \in 1 .. MaxEvents /\ rateReq \in Rates \cup {0})'
      BY <1>14 DEF TypeOK, SetDoubleImage
    <3>3. (touched \subseteq {"forced", "rate", "buffers"})'
      BY <1>14 DEF TypeOK, SetDoubleImage, Touch
    <3>4. UNCHANGED others
      BY <1>14 DEF SetDoubleImage
    <3> QED
      BY <3>1, <3>2, <3>3, <3>4 DEF TypeOK, InPrepare, others, request
  <2>2. (RunIsApart /\ StorageFollows /\ StopEventFollows /\ ArmedIsTold /\ ReadsFollow)'
    BY <1>14 DEF RunIsApart, StorageFollows, StopEventFollows, ArmedIsTold, ReadsFollow, TypeOK,
       InPrepare, Settings, SetDoubleImage, Touch, HasDouble, SettingTime, IsEdge, request, others,
       Running, StorageSet, StopEventSet, Armed
  <2>3. (ThreadFollows /\ BuffersFollow /\ RateKept /\ RateFollows /\ FormatFollows)'
    BY <1>14 DEF ThreadFollows, BuffersFollow, RateKept, RateFollows, FormatFollows, RunIsApart,
       HasRate, ThreadFor, TypeOK, InPrepare, Settings, SetDoubleImage, Touch, HasDouble,
       SettingTime, IsEdge, request, others, Running, RateSet, TransferSet, Allocated
  <2>4. ModesAllowed'
    BY <1>14, Zenon DEF ModesAllowed, HasDouble, HasCdi, IsEdge, SetDoubleImage, request, others
  <2> QED BY <2>1, <2>2, <2>3, <2>4
<1>15. ASSUME NEW v \in BOOLEAN, SetCdi(v) PROVE IInv'
  <2>1. TypeOK'
    <3>1. (forced \in BOOLEAN /\ double \in BOOLEAN /\ cdi \in BOOLEAN /\ refused \in BOOLEAN)'
      BY <1>15, Zenon DEF TypeOK, SetCdi, HasCdi, plugin
    <3>2. (nrEvents \in 1 .. MaxEvents /\ rateReq \in Rates \cup {0})'
      BY <1>15 DEF TypeOK, SetCdi, plugin
    <3>3. (touched \subseteq {"forced", "rate", "buffers"})'
      BY <1>15 DEF TypeOK, SetCdi
    <3>4. UNCHANGED others
      BY <1>15 DEF SetCdi
    <3> QED
      BY <3>1, <3>2, <3>3, <3>4 DEF TypeOK, InPrepare, others, request
  <2>2. (RunIsApart /\ StorageFollows /\ StopEventFollows /\ ArmedIsTold /\ ReadsFollow)'
    BY <1>15 DEF RunIsApart, StorageFollows, StopEventFollows, ArmedIsTold, ReadsFollow, TypeOK,
       InPrepare, Settings, SetCdi, HasCdi, SettingTime, IsEdge, request, plugin, others, Running,
       StorageSet, StopEventSet, Armed
  <2>3. (ThreadFollows /\ BuffersFollow /\ RateKept /\ RateFollows /\ FormatFollows)'
    BY <1>15 DEF ThreadFollows, BuffersFollow, RateKept, RateFollows, FormatFollows, RunIsApart,
       HasRate, ThreadFor, TypeOK, InPrepare, Settings, SetCdi, HasCdi, SettingTime, IsEdge,
       request, plugin, others, Running, RateSet, TransferSet, Allocated
  <2>4. ModesAllowed'
    BY <1>15, Zenon DEF ModesAllowed, HasDouble, HasCdi, IsEdge, SetCdi, request, plugin, others
  <2> QED BY <2>1, <2>2, <2>3, <2>4
<1>16. ASSUME NEW r \in Rates, PresetPixelRate(r) PROVE IInv'
  <2>1. TypeOK'
    BY <1>16 DEF TypeOK, InPrepare, Settings, PresetPixelRate, Touch, HasRate, SettingTime,
       request, modes
  <2>2. (RunIsApart /\ StorageFollows /\ StopEventFollows /\ ArmedIsTold /\ ReadsFollow)'
    BY <1>16 DEF RunIsApart, StorageFollows, StopEventFollows, ArmedIsTold, ReadsFollow, TypeOK,
       InPrepare, Settings, PresetPixelRate, Touch, HasRate, SettingTime, IsEdge, request, modes,
       Running, StorageSet, StopEventSet, Armed
  <2>3. (ThreadFollows /\ BuffersFollow /\ RateKept /\ RateFollows /\ FormatFollows)'
    BY <1>16 DEF ThreadFollows, BuffersFollow, RateKept, RateFollows, FormatFollows, RunIsApart,
       HasRate, ThreadFor, TypeOK, InPrepare, Settings, PresetPixelRate, Touch, SettingTime,
       IsEdge, request, modes, Running, RateSet, TransferSet, Allocated
  <2>4. ModesAllowed'
    BY <1>16 DEF ModesAllowed, HasDouble, HasCdi, IsEdge, PresetPixelRate, request, modes
  <2> QED BY <2>1, <2>2, <2>3, <2>4
<1>17. ASSUME NEW n \in 0 .. MaxEvents + 1, SetNrEvents(n) PROVE IInv'
  <2>1. TypeOK'
    BY <1>17 DEF TypeOK, InPrepare, Settings, SetNrEvents, Touch, SettingTime, request, modes,
       others
  <2>2. (RunIsApart /\ StorageFollows /\ StopEventFollows /\ ArmedIsTold /\ ReadsFollow)'
    BY <1>17 DEF RunIsApart, StorageFollows, StopEventFollows, ArmedIsTold, ReadsFollow, TypeOK,
       InPrepare, Settings, SetNrEvents, Touch, SettingTime, IsEdge, request, modes, others,
       Running, StorageSet, StopEventSet, Armed
  <2>3. (ThreadFollows /\ BuffersFollow /\ RateKept /\ RateFollows /\ FormatFollows)'
    BY <1>17 DEF ThreadFollows, BuffersFollow, RateKept, RateFollows, FormatFollows, RunIsApart,
       HasRate, ThreadFor, TypeOK, InPrepare, Settings, SetNrEvents, Touch, SettingTime, IsEdge,
       request, modes, others, Running, RateSet, TransferSet, Allocated
  <2>4. ModesAllowed'
    BY <1>17 DEF ModesAllowed, HasDouble, HasCdi, IsEdge, SetNrEvents, request, modes, others
  <2> QED BY <2>1, <2>2, <2>3, <2>4
<1>18. CASE UNCHANGED vars
  BY <1>18 DEF vars, request, plugin, modes, history, TypeOK, InPrepare, RunIsApart,
     StorageFollows, StopEventFollows, ArmedIsTold, ReadsFollow, ThreadFollows, BuffersFollow,
     RateKept, RateFollows, FormatFollows, Running, StorageSet, StopEventSet, RateSet, TransferSet,
     Armed, Allocated, IsEdge, HasRate, ThreadFor, ModesAllowed, HasDouble, HasCdi
<1> QED
  BY <1>1, <1>2, <1>3, <1>4, <1>5, <1>6, <1>7, <1>8, <1>9, <1>10, <1>11, <1>12, <1>13, <1>14,
     <1>15, <1>16, <1>17, <1>18 DEF Next, PrepareStep, Setting

THEOREM Invariance == Spec => []IInv
<1> QED BY InitInv, StepInv, PTL DEF Spec

--------------------------------------------------------------------------------
(* Every variable of the preparation stays in its domain.                      *)
THEOREM TypeCorrect == Spec => []TypeOK
<1>1. IInv => TypeOK
  BY DEF IInv
<1> QED BY <1>1, Invariance, PTL

(* The thread startAcq begins suits the recorder prepareAcq armed, unless the  *)
(* forced Fifo was changed in between.                                         *)
THEOREM ThreadSuitsRecorder == Spec => []RunFitsRecorder
<1>1. ASSUME IInv PROVE RunFitsRecorder
  <2> SUFFICES ASSUME run # "none", "forced" \notin touched
               PROVE  /\ run = "seq" => armed.storage = "RecSeq" /\ reads = "segments"
                      /\ run = "trig" => /\ armed.storage = "RecRing" /\ reads = "segments"
                                         /\ kind = "dimax" => armed.stopAt = frames
                      /\ run = "live" => armed.storage = "Fifo" \/ (forced /\ TrigSingle(trig, frames))
                      /\ run = "edge" => reads = "recording"
    BY DEF RunFitsRecorder
  <2>1. run = ThreadFor(trig, frames, forced)
    BY <1>1 DEF IInv, ThreadFollows, Running
  <2>2. reads = IF IsEdge \/ forced THEN "recording" ELSE "segments"
    BY <1>1 DEF IInv, ReadsFollow, Running
  <2>3. armed = cam
    BY <1>1 DEF IInv, ArmedIsTold, Running
  <2>4. ~IsEdge => armed.storage = StorageMode(trig, frames, forced)
    BY <1>1, <2>3 DEF IInv, StorageFollows, Running
  <2>5. kind = "dimax" /\ TrigSingle(trig, frames) => armed.stopAt = frames
    BY <1>1, <2>3 DEF IInv, StopEventFollows, Running
  <2>6. frames \in Nat
    BY <1>1, RequestsAssumption DEF IInv, TypeOK
  <2> QED
    BY <2>1, <2>2, <2>4, <2>5, <2>6 DEF ThreadFor, StorageMode, TrigSingle, IsEdge
<1> QED BY <1>1, Invariance, PTL

(* A run has its buffers, as many and as wide as it counts on.                 *)
THEOREM BuffersAreThere == Spec => []BuffersFit
<1>1. IInv => BuffersFit
  BY DEF IInv, BuffersFollow, BuffersFit, Running
<1> QED BY <1>1, Invariance, PTL

(* A pixel rate asked for is armed by the next prepareAcq that succeeds.       *)
THEOREM RateIsArmed == Spec => []RateHonoured
<1>1. IInv => RateHonoured
  BY DEF IInv, RateFollows, ArmedIsTold, RateHonoured, RateSet, Armed
<1> QED BY <1>1, Invariance, PTL

(* The data format of an Edge is wrong only after a change of the width.       *)
THEOREM FormatFollowsWidth == Spec => []FormatIsStaleOnlyAfterResize
<1>1. IInv => FormatIsStaleOnlyAfterResize
  BY DEF IInv, FormatFollows, ArmedIsTold, FormatIsStaleOnlyAfterResize, TransferSet, Armed
<1> QED BY <1>1, Invariance, PTL

(* Exclusive modes come on together only when the SDK refused a call.          *)
THEOREM ConflictsAreRefusals == Spec => ConflictNeedsRefusal
<1>1. ASSUME IInv, [Next]_vars, ~Conflict, Conflict' PROVE refused'
  <2>1. ASSUME UNCHANGED modes, UNCHANGED forced PROVE FALSE
    BY <1>1, <2>1 DEF Conflict, modes
  <2>2. ASSUME NEW v \in BOOLEAN, SetForcedFifo(v) PROVE refused'
    BY <1>1, <2>2, Zenon DEF IInv, ModesAllowed, Conflict, SetForcedFifo
  <2>3. ASSUME NEW v \in BOOLEAN, SetDoubleImage(v) PROVE refused'
    BY <1>1, <2>3, Zenon DEF IInv, ModesAllowed, Conflict, SetDoubleImage
  <2>4. ASSUME NEW v \in BOOLEAN, SetCdi(v) PROVE refused'
    BY <1>1, <2>4, Zenon DEF Conflict, SetCdi, plugin
  <2>5. CASE \E n \in Requests, t \in TrigModes, w \in Widths : Prepare(n, t, w)
    BY <2>1, <2>5 DEF Prepare, plugin
  <2>6. CASE PrepareStep
    BY <2>1, <2>6 DEF PrepareStep, SetStorage, SetStopEvent, SetPixelRate, PixelRateThrows,
       SetTransfer, Arm, AllocBuffers, SetImageParameters, PrepareThrows, plugin
  <2>7. CASE StartAcq \/ RunEnd
    BY <2>1, <2>7 DEF StartAcq, RunEnd, plugin
  <2>8. CASE \E r \in Rates : PresetPixelRate(r)
    BY <2>1, <2>8 DEF PresetPixelRate
  <2>9. CASE \E n \in 0 .. MaxEvents + 1 : SetNrEvents(n)
    BY <2>1, <2>9 DEF SetNrEvents
  <2>10. CASE UNCHANGED vars
    BY <2>1, <2>10 DEF vars, plugin
  <2> QED
    BY <1>1, <2>2, <2>3, <2>4, <2>5, <2>6, <2>7, <2>8, <2>9, <2>10 DEF Next, Setting
<1>2. IInv /\ [Next]_vars => [~Conflict /\ Conflict' => refused']_vars
  BY <1>1
<1> QED BY <1>2, Invariance, PTL DEF Spec, ConflictNeedsRefusal

================================================================================
