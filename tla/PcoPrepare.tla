----------------------------- MODULE PcoPrepare -----------------------------
(* Preparation of an acquisition under Windows: Camera::prepareAcq and the    *)
(* SDK wrappers it calls, the choice of the thread in Camera::startAcq, and   *)
(* the settings made through the Python bindings: forced Fifo, double image,  *)
(* CDI, pixel rate, number of buffers.  What the camera was told (cam) and    *)
(* what it armed (armed) are two things: settings take effect with            *)
(* PCO_ArmCamera.  The bindings hold Python's lock during a call: a setting   *)
(* is made before or after prepareAcq and startAcq, not inside.  PcoAcq has   *)
(* the run, and that prepareAcq stops the recorder; PcoShutter has the reboot *)
(* of an Edge.  Times keep nothing a property needs; PCO_GetSizes and the     *)
(* getters of modes are taken to succeed.                                     *)
EXTENDS Integers

CONSTANTS
    Kinds,       \* a subset of {"edge", "dimax", "pco2k"}
    Requests,    \* frame counts LIMA asks for; 0: until stopped
    TrigModes,   \* a subset of {"IntTrig", "ExtTrigSingle"}
    Widths,      \* image widths LIMA asks for
    WidthHigh,   \* PCO_EDGE_WIDTH_HIGH
    Rates,       \* pixel rates the camera offers
    RateHigh,    \* PCO_EDGE_PIXEL_RATE_HIGH; the lower rates are LOW
    DefaultRate, \* pixel rate after PCO_ResetSettingsToDefault
    MaxEvents    \* PCO_BUFFER_NREVENTS

ASSUME RequestsAssumption == Requests \subseteq Nat
ASSUME RatesAssumption == Rates \subseteq Nat \ {0} /\ DefaultRate \in Rates
ASSUME WidthsAssumption == \E full \in Widths : \A w \in Widths : w <= full
ASSUME EventsAssumption == MaxEvents \in Nat \ {0}

VARIABLES
    kind,        \* the camera
    pc,          \* place of the control thread in prepareAcq, or idle, ready
    frames, trig,                      \* SyncCtrlObj: the request prepared
    forced,      \* m_bRecorderForcedFifo
    rateReq,     \* dwPixelRateRequested, 0: none
    nrEvents,    \* m_pco_buffer_nrevents
    cam, armed,  \* the camera's settings, and those it armed
    double, cdi, \* its double image and CDI modes
    reads,       \* flags of the last PCO_SetImageParameters
    bufs,        \* m_allocBuff: buffers allocated, and the width they fit
    run,         \* acquisition thread of the run: none, edge, seq, trig, live
    wanted,      \* history: the last pixel rate accepted, 0: none
    before,      \* history: width the camera reported for the data format
    touched,     \* history: what was changed or went wrong since prepareAcq began
    refused      \* history: the SDK refused a call of the last mode setting

request == <<kind, frames, trig>>
plugin == <<forced, rateReq, nrEvents>>
modes == <<double, cdi>>
history == <<wanted, before, touched, refused>>
vars == <<request, pc, plugin, modes, reads, cam, armed, bufs, run, history>>

Step(from, to) == pc = from /\ pc' = to
Touch(what) == touched' = touched \cup what
IsEdge == kind = "edge"
HasDouble == ~IsEdge
HasCdi == kind = "dimax"
HasRate == kind # "dimax"
TrigSingle(t, n) == t = "ExtTrigSingle" /\ n > 0

(* recorder mode chosen by prepareAcq, and thread chosen by startAcq *)
StorageMode_NoLive(t, n, f) ==          \* mutated form: an endless run is recorded
    IF TrigSingle(t, n) THEN "RecRing" ELSE IF f THEN "Fifo" ELSE "RecSeq"

StorageMode(t, n, f) ==
    IF TrigSingle(t, n) THEN "RecRing" ELSE IF f \/ n = 0 THEN "Fifo" ELSE "RecSeq"

ThreadFor(t, n, f) ==
    IF IsEdge THEN "edge" ELSE IF n = 0 \/ f THEN "live"
    ELSE IF t = "ExtTrigSingle" THEN "trig" ELSE "seq"

(* data format and lookup table of a rolling Edge on Camera Link *)
FormatFor(rate, width) == IF rate >= RateHigh /\ width > WidthHigh THEN "12sqrt" ELSE "16"

(* the camera's settings after _init reset it *)
FullWidth == CHOOSE full \in Widths : \A w \in Widths : w <= full
Booted == [width |-> FullWidth, rate |-> DefaultRate, storage |-> "RecSeq", stopAt |-> 0,
           format |-> "16"]

Init ==
    /\ kind \in Kinds /\ pc = "idle" /\ frames = 0 /\ trig = "IntTrig"
    /\ forced = FALSE /\ rateReq = 0 /\ nrEvents = MaxEvents
    /\ cam = Booted /\ armed = Booted
    /\ double = FALSE /\ cdi = FALSE /\ reads = "segments"
    /\ bufs = [nr |-> 0, width |-> 0] /\ run = "none"
    /\ wanted = 0 /\ before = FullWidth /\ touched = {} /\ refused = FALSE

----------------------------------------------------------------------------
(* LIMA prepares, having set frames, trigger mode and ROI                   *)

Prepare(n, t, w) ==
    /\ pc \in {"idle", "ready"} /\ run = "none"
    /\ pc' = "storage" /\ frames' = n /\ trig' = t
    /\ cam' = [cam EXCEPT !.width = w]
    /\ touched' = {} /\ refused' = FALSE
    /\ UNCHANGED <<kind, plugin, modes, reads, armed, bufs, run, wanted, before>>

InPrepare == pc \in {"storage", "event", "rate", "transfer", "arm", "buffers", "image"}

(* an SDK call fails: prepareAcq throws and nothing is undone *)
PrepareThrows ==
    /\ InPrepare /\ pc' = "idle"
    /\ UNCHANGED <<request, plugin, modes, reads, cam, armed, bufs, run, history>>

SetStorage ==
    /\ Step("storage", "event")
    /\ cam' = IF IsEdge THEN cam ELSE [cam EXCEPT !.storage = StorageMode(trig, frames, forced)]
    /\ UNCHANGED <<request, plugin, modes, reads, armed, bufs, run, history>>

SetStopEvent ==
    /\ Step("event", "rate")
    /\ cam' = IF kind = "dimax" /\ TrigSingle(trig, frames)
              THEN [cam EXCEPT !.stopAt = frames] ELSE cam
    /\ UNCHANGED <<request, plugin, modes, reads, armed, bufs, run, history>>

(* _pco_SetPixelRate *)
RateAfter == IF HasRate /\ rateReq \in Rates THEN rateReq ELSE cam.rate

SetPixelRate ==
    /\ Step("rate", "transfer")
    /\ cam' = [cam EXCEPT !.rate = RateAfter]
    /\ rateReq' = IF IsEdge THEN 0 ELSE rateReq
    /\ UNCHANGED <<request, forced, nrEvents, modes, reads, armed, bufs, run, history>>

PixelRateThrows_Forgets ==              \* mutated form: the request is reset before the calls
    /\ Step("rate", "idle")
    /\ rateReq' = 0
    /\ UNCHANGED <<request, forced, nrEvents, modes, reads, cam, armed, bufs, run, history>>

(* the rate is set but reading it back fails *)
PixelRateThrows ==
    /\ Step("rate", "idle")
    /\ cam' = [cam EXCEPT !.rate = RateAfter]
    /\ UNCHANGED <<request, plugin, modes, reads, armed, bufs, run, history>>

SetTransfer_CachedRate ==               \* mutated form: the rate armed before
    /\ Step("transfer", "arm")
    /\ before' = IF IsEdge THEN armed.width ELSE before
    /\ cam' = IF IsEdge THEN [cam EXCEPT !.format = FormatFor(armed.rate, armed.width)] ELSE cam
    /\ UNCHANGED <<request, plugin, modes, reads, armed, bufs, run, wanted, touched, refused>>

(* _pco_SetTransferParameter_SetActiveLookupTable: the width is the one of   *)
(* the last arming; the lookup table goes with the format                    *)
SetTransfer ==
    /\ Step("transfer", "arm")
    /\ before' = IF IsEdge THEN armed.width ELSE before
    /\ cam' = IF IsEdge THEN [cam EXCEPT !.format = FormatFor(cam.rate, armed.width)] ELSE cam
    /\ UNCHANGED <<request, plugin, modes, reads, armed, bufs, run, wanted, touched, refused>>

Arm ==
    /\ Step("arm", "buffers")
    /\ armed' = cam
    /\ UNCHANGED <<request, plugin, modes, reads, cam, bufs, run, history>>

(* _pcoAllocBuffers(false): errors of PCO_AllocateBuffer are not looked at *)
AllocBuffers ==
    /\ Step("buffers", "image")
    /\ \E n \in {nrEvents - 1, nrEvents} :
         /\ bufs' = [nr |-> n, width |-> armed.width]
         /\ Touch(IF n < nrEvents THEN {"buffers"} ELSE {})
    /\ UNCHANGED <<request, plugin, modes, reads, cam, armed, run, wanted, before, refused>>

(* _pco_SetImageParameters and _pco_GetCOCRuntime end prepareAcq *)
SetImageParameters ==
    /\ Step("image", "ready")
    /\ reads' = IF IsEdge \/ forced THEN "recording" ELSE "segments"
    /\ UNCHANGED <<request, plugin, modes, cam, armed, bufs, run, history>>

----------------------------------------------------------------------------
(* The run                                                                  *)

(* startAcq throws when a double image has half a pair to deliver *)
StartAcq ==
    /\ Step("ready", "idle")
    /\ run' = IF double /\ frames % 2 = 1 THEN "none" ELSE ThreadFor(trig, frames, forced)
    /\ UNCHANGED <<request, plugin, modes, reads, cam, armed, bufs, history>>

RunEnd ==
    /\ run # "none" /\ run' = "none"
    /\ UNCHANGED <<request, pc, plugin, modes, reads, cam, armed, bufs, history>>

----------------------------------------------------------------------------
(* Settings through the bindings                                            *)

SettingTime == pc \in {"idle", "ready"}
others == <<request, pc, reads, cam, armed, bufs, run, wanted, before>>

SetForcedFifo_Alone(v) ==               \* mutated form: double image is left on
    /\ SettingTime
    /\ forced' = v /\ refused' = FALSE
    /\ Touch(IF forced' = forced THEN {} ELSE {"forced"})
    /\ UNCHANGED <<others, rateReq, nrEvents, modes>>

SetForcedFifo(v) ==
    /\ SettingTime
    /\ forced' = v
    /\ \E ok \in BOOLEAN :
         /\ double' = IF v /\ HasDouble /\ ok THEN FALSE ELSE double
         /\ refused' = (v /\ HasDouble /\ ~ok)
    /\ Touch(IF forced' = forced THEN {} ELSE {"forced"})
    /\ UNCHANGED <<others, rateReq, nrEvents, cdi>>

SetDoubleImage(v) ==
    /\ SettingTime
    /\ forced' = (forced /\ ~v)
    /\ \E cdiOk, ok \in BOOLEAN :
         /\ double' = IF HasDouble /\ ok THEN v ELSE double
         /\ cdi' = IF v /\ HasCdi /\ cdiOk THEN FALSE ELSE cdi
         /\ refused' = (HasDouble /\ (~ok \/ (v /\ HasCdi /\ ~cdiOk)))
    /\ Touch(IF forced' = forced THEN {} ELSE {"forced"})
    /\ UNCHANGED <<others, rateReq, nrEvents>>

SetCdi(v) ==
    /\ SettingTime /\ HasCdi
    /\ \E doubleOk, ok \in BOOLEAN :
         /\ cdi' = IF ok THEN v ELSE cdi
         /\ double' = IF v /\ doubleOk THEN FALSE ELSE double
         /\ refused' = (~ok \/ (v /\ ~doubleOk))
    /\ UNCHANGED <<others, plugin, touched>>

PresetPixelRate(r) ==
    /\ SettingTime /\ HasRate
    /\ rateReq' = r /\ wanted' = r
    /\ Touch({"rate"})
    /\ UNCHANGED <<request, pc, forced, nrEvents, modes, reads, cam, armed, bufs, run,
                   before, refused>>

SetNrEvents(n) ==
    /\ SettingTime /\ n \in 1 .. MaxEvents
    /\ nrEvents' = n
    /\ Touch(IF n = nrEvents THEN {} ELSE {"buffers"})
    /\ UNCHANGED <<others, forced, rateReq, modes, refused>>

----------------------------------------------------------------------------
PrepareStep ==
    \/ SetStorage \/ SetStopEvent \/ SetPixelRate \/ PixelRateThrows
    \/ SetTransfer \/ Arm \/ AllocBuffers \/ SetImageParameters \/ PrepareThrows

Setting ==
    \/ \E v \in BOOLEAN : SetForcedFifo(v) \/ SetDoubleImage(v) \/ SetCdi(v)
    \/ \E r \in Rates : PresetPixelRate(r)
    \/ \E n \in 0 .. MaxEvents + 1 : SetNrEvents(n)

Next ==
    \/ \E n \in Requests, t \in TrigModes, w \in Widths : Prepare(n, t, w)
    \/ PrepareStep \/ StartAcq \/ RunEnd \/ Setting

Spec == Init /\ [][Next]_vars

----------------------------------------------------------------------------
Settings == [width : Widths, rate : Rates, storage : {"RecSeq", "RecRing", "Fifo"}, stopAt : Nat,
             format : {"16", "12sqrt"}]

(* Types of the variables; pc names the call prepareAcq makes next.          *)
TypeOK ==
    /\ kind \in Kinds /\ (InPrepare \/ pc \in {"idle", "ready"})
    /\ frames \in Requests \cup {0} /\ trig \in TrigModes \cup {"IntTrig"}
    /\ forced \in BOOLEAN /\ rateReq \in Rates \cup {0} /\ nrEvents \in 1 .. MaxEvents
    /\ cam \in Settings /\ armed \in Settings
    /\ double \in BOOLEAN /\ cdi \in BOOLEAN /\ reads \in {"recording", "segments"}
    /\ bufs \in [nr : 0 .. MaxEvents, width : Widths \cup {0}]
    /\ run \in {"none", "edge", "seq", "trig", "live"}
    /\ wanted \in Rates \cup {0} /\ before \in Widths
    /\ touched \subseteq {"forced", "rate", "buffers"}
    /\ refused \in BOOLEAN

(* The thread startAcq chooses suits the recorder prepareAcq armed, although *)
(* each of them decides by its own conditions: a recorded sequence, a        *)
(* triggered ring with its stop count, a live FIFO.  Excepted: a forced FIFO *)
(* changed in between, and the single trigger, which prepareAcq looks at     *)
(* before the forced FIFO and startAcq after it.                             *)
RunFitsRecorder ==
    run # "none" /\ "forced" \notin touched =>
        /\ run = "seq" => armed.storage = "RecSeq" /\ reads = "segments"
        /\ run = "trig" => /\ armed.storage = "RecRing" /\ reads = "segments"
                           /\ kind = "dimax" => armed.stopAt = frames
        /\ run = "live" => armed.storage = "Fifo" \/ (forced /\ TrigSingle(trig, frames))
        /\ run = "edge" => reads = "recording"

(* A run has the buffers the transfer loops count on, as wide as the image   *)
(* the camera armed, unless their number was changed or an allocation failed *)
(* unseen since prepareAcq began.                                            *)
BuffersFit ==
    run # "none" /\ "buffers" \notin touched =>
        bufs = [nr |-> nrEvents, width |-> armed.width]

(* A pixel rate asked for reaches the camera with the next prepareAcq that   *)
(* succeeds, whichever earlier ones failed halfway, although the request is  *)
(* forgotten when it is set.                                                 *)
RateHonoured ==
    pc = "ready" /\ "rate" \notin touched /\ wanted # 0 => armed.rate = wanted

(* The data format of a prepared Edge is wrong for its rate and width only   *)
(* when this prepareAcq changed the width.                                   *)
FormatIsStaleOnlyAfterResize ==
    IsEdge /\ pc = "ready" =>
        armed.format = FormatFor(armed.rate, armed.width) \/ before # armed.width

(* Forced FIFO and CDI exclude double image ("exclusive", PcoCameraSip.cpp   *)
(* and PcoCameraSdk.cpp): two of them come together only in a setting of     *)
(* which the SDK refused a call.                                             *)
Conflict == double /\ (forced \/ cdi)
ConflictNeedsRefusal == [][~Conflict /\ Conflict' => refused']_vars

=============================================================================
