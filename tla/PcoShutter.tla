----------------------------- MODULE PcoShutter -----------------------------
(* The change of an Edge's shutter mode under Windows next to the client's   *)
(* prepareAcq and startAcq.  setRollingShutter and the talk command begin a  *)
(* thread, which reboots the camera, frees its buffers, closes it and opens  *)
(* it again; meanwhile m_config makes the status AcqConfig, in which LIMA    *)
(* does not prepare (external).  The bindings hold Python's lock during a    *)
(* call, so the client makes one call at a time.  PcoPrepare has what        *)
(* prepareAcq sets, PcoAcq the run.  The SDK wrappers of the thread throw on *)
(* an error and nothing catches it: the process ends.                        *)
CONSTANTS
    Setups,    \* shutter modes of the camera
    Switches   \* identities of shutter threads: bounds how many are alive

ASSUME SetupsAssumption == Setups # {}

VARIABLES
    call,              \* the client, in prepareAcq at the call named
    run,               \* an acquisition thread is alive
    open, armed,       \* the camera: opened; armed since it was last booted
    setup,             \* its shutter mode
    bufs,              \* m_allocBuff holds buffers of the camera (PCO_AllocateBuffer worked)
    shutter, config,   \* dwRollingShutter, m_config
    sw, req,           \* per shutter thread: its place, and the mode it read
    stuck,             \* history: a thread returned with m_config set
    overlapped,        \* history: the last request found another thread alive
    late               \* history: a switch was under way, unseen, when the
                       \* client prepared, or was asked for since

camera == <<open, armed, setup, bufs>>
threads == <<sw, req, stuck>>
vars == <<call, run, camera, shutter, config, threads, overlapped, late>>

Active(s) == sw[s] # "none"

Init ==
    /\ call = "idle" /\ run = FALSE
    /\ open = TRUE /\ armed = FALSE /\ bufs = FALSE
    /\ setup \in Setups /\ shutter = setup /\ config = FALSE
    /\ sw = [s \in Switches |-> "none"] /\ req = [s \in Switches |-> setup]
    /\ stuck = FALSE /\ overlapped = FALSE /\ late = FALSE

----------------------------------------------------------------------------
(* The client                                                               *)

(* A thread that has begun but not set m_config yet is not in the status.   *)
Prepare ==
    /\ call \in {"idle", "ready"} /\ ~run /\ ~config
    /\ call' = "arm"
    /\ late' = \E s \in Switches : sw[s] = "begin"
    /\ UNCHANGED <<run, camera, shutter, config, threads, overlapped>>

Arm ==
    /\ call = "arm" /\ open
    /\ armed' = TRUE /\ call' = "buffers"
    /\ UNCHANGED <<run, open, setup, bufs, shutter, config, threads, overlapped, late>>

(* errors of PCO_AllocateBuffer are not looked at *)
AllocBuffers ==
    /\ call = "buffers"
    /\ bufs' = open /\ call' = "image"
    /\ UNCHANGED <<run, open, armed, setup, shutter, config, threads, overlapped, late>>

SetImageParameters ==
    /\ call = "image" /\ open
    /\ call' = "ready"
    /\ UNCHANGED <<run, camera, shutter, config, threads, overlapped, late>>

(* any SDK call before the allocation or after it fails *)
PrepareThrows ==
    /\ call \in {"arm", "image"} /\ call' = "idle"
    /\ UNCHANGED <<run, camera, shutter, config, threads, overlapped, late>>

(* PCO_SetRecordingState fails on a camera that is closed, and may fail *)
StartAcq ==
    /\ call = "ready" /\ ~run
    /\ run' \in {open, FALSE} /\ call' = "idle"
    /\ UNCHANGED <<camera, shutter, config, threads, overlapped, late>>

RunEnd ==
    /\ run /\ run' = FALSE /\ call # "dead"
    /\ UNCHANGED <<call, camera, shutter, config, threads, overlapped, late>>

(* RESET_CLOSE_INTERFACE stops the run first; the camera stays closed *)
Reset ==
    /\ call \in {"idle", "ready"} /\ ~run
    /\ bufs' = FALSE /\ open' = FALSE /\ armed' = FALSE /\ call' = "idle"
    /\ UNCHANGED <<run, setup, shutter, config, threads, overlapped, late>>

(* setRollingShutter: the camera is asked whether the mode is new, and       *)
(* nobody asks whether a thread is under way                                 *)
SetShutter(v) ==
    /\ call \in {"idle", "ready"} /\ open /\ v # setup
    /\ shutter' = v
    /\ \E s \in Switches : ~Active(s) /\ sw' = [sw EXCEPT ![s] = "begin"]
    /\ overlapped' = \E s \in Switches : Active(s)
    /\ late' = (late \/ call = "ready" \/ run)
    /\ UNCHANGED <<call, run, camera, config, req, stuck>>

----------------------------------------------------------------------------
(* The thread: _pco_set_shutter_rolling_edge                                *)

SwitchStep(s, from, to) ==
    /\ call # "dead" /\ sw[s] = from /\ sw' = [sw EXCEPT ![s] = to]
client == <<call, run, shutter, overlapped, late>>

SwitchBegin_Quiet(s) ==                 \* mutated form: no status before the checks
    /\ SwitchStep(s, "begin", "get")
    /\ req' = [req EXCEPT ![s] = shutter]
    /\ UNCHANGED <<client, camera, config, stuck>>

SwitchBegin(s) ==
    /\ SwitchStep(s, "begin", "get")
    /\ config' = TRUE /\ req' = [req EXCEPT ![s] = shutter]
    /\ UNCHANGED <<client, camera, stuck>>

(* PCO_GetCameraSetup, and the timeouts of a reboot *)
SwitchNew(s) ==
    /\ SwitchStep(s, "get", "setup") /\ open /\ req[s] # setup
    /\ UNCHANGED <<client, camera, config, req, stuck>>

SwitchSame_KeepsConfig(s) ==            \* mutated form: a bare return
    /\ SwitchStep(s, "get", "none") /\ open /\ req[s] = setup
    /\ UNCHANGED <<client, camera, config, req, stuck>>

SwitchSame(s) ==
    /\ SwitchStep(s, "get", "none") /\ open /\ req[s] = setup
    /\ config' = FALSE
    /\ UNCHANGED <<client, camera, req, stuck>>

SwitchSetup_Now(s) ==                   \* mutated form: the mode read is written back
    /\ SwitchStep(s, "setup", "reboot") /\ open
    /\ UNCHANGED <<client, camera, config, req, stuck>>

SwitchSetup(s) ==
    /\ SwitchStep(s, "setup", "reboot") /\ open
    /\ setup' = req[s]
    /\ UNCHANGED <<client, open, armed, bufs, config, req, stuck>>

SwitchReboot(s) ==
    /\ SwitchStep(s, "reboot", "free") /\ open
    /\ armed' = FALSE
    /\ UNCHANGED <<client, open, setup, bufs, config, req, stuck>>

SwitchFree(s) ==
    /\ SwitchStep(s, "free", "close")
    /\ bufs' = FALSE
    /\ UNCHANGED <<client, open, armed, setup, config, req, stuck>>

(* m_handle is cleared whether or not PCO_CloseCamera succeeds; an error     *)
(* returns with m_config set                                                 *)
SwitchClose(s) ==
    /\ SwitchStep(s, "close", "init") /\ open
    /\ open' = FALSE
    /\ UNCHANGED <<client, armed, setup, bufs, config, req, stuck>>

SwitchCloseFails(s) ==
    /\ SwitchStep(s, "close", "none")
    /\ open' = FALSE /\ stuck' = TRUE
    /\ UNCHANGED <<client, armed, setup, bufs, config, req>>

(* after 10 s; _init closes a camera another thread has opened *)
SwitchInit(s) ==
    /\ SwitchStep(s, "init", "none")
    /\ open' = TRUE /\ armed' = FALSE /\ config' = FALSE
    /\ UNCHANGED <<client, setup, bufs, req, stuck>>

(* An exception leaves a thread, of the shutter or of the run.               *)
Throws ==
    /\ call # "dead" /\ call' = "dead"
    /\ UNCHANGED <<run, camera, shutter, config, threads, overlapped, late>>

SwitchThrows(s) == sw[s] \in {"get", "setup", "reboot", "init"} /\ Throws
RunThrows == run /\ Throws

----------------------------------------------------------------------------
Client ==
    \/ Prepare \/ Arm \/ AllocBuffers \/ SetImageParameters \/ PrepareThrows
    \/ StartAcq \/ RunEnd \/ Reset
    \/ \E v \in Setups : SetShutter(v)

Switch(s) ==
    \/ SwitchBegin(s) \/ SwitchNew(s) \/ SwitchSame(s) \/ SwitchSetup(s) \/ SwitchReboot(s)
    \/ SwitchFree(s) \/ SwitchClose(s) \/ SwitchCloseFails(s) \/ SwitchInit(s)
    \/ SwitchThrows(s)

Next == Client \/ RunThrows \/ \E s \in Switches : Switch(s)

(* the threads are scheduled, and the SDK's calls return *)
Spec == Init /\ [][Next]_vars /\ \A s \in Switches : WF_vars(Switch(s))

----------------------------------------------------------------------------
Places == {"none", "begin", "get", "setup", "reboot", "free", "close", "init"}

(* Every variable of the client, the camera and the threads keeps to its     *)
(* domain.                                                                   *)
TypeOK ==
    /\ call \in {"idle", "arm", "buffers", "image", "ready", "dead"} /\ run \in BOOLEAN
    /\ open \in BOOLEAN /\ armed \in BOOLEAN /\ bufs \in BOOLEAN
    /\ setup \in Setups /\ shutter \in Setups /\ config \in BOOLEAN
    /\ sw \in [Switches -> Places] /\ req \in [Switches -> Setups]
    /\ stuck \in BOOLEAN /\ overlapped \in BOOLEAN /\ late \in BOOLEAN

(* While a shutter thread works on the camera the status is AcqConfig        *)
(* (doc/pco_edge.rst: "meanwhile the acq status is AcqConfig"); only a       *)
(* second thread can end that early.                                         *)
SwitchIsConfig ==
    \A s \in Switches : sw[s] \notin {"none", "begin"} => config \/ overlapped

(* A run keeps the camera armed and its buffers allocated, whatever shutter  *)
(* changes came before it: the status alone keeps prepareAcq out of a        *)
(* reboot, but for a thread that has only begun, one asked for after         *)
(* prepareAcq, and two threads at once.                                      *)
RunKeepsCamera == run => (armed /\ bufs) \/ late \/ overlapped

(* When no shutter thread is left the camera has the mode accepted last,     *)
(* unless a thread gave up or two were at work together.                     *)
ModeReached ==
    (\A s \in Switches : ~Active(s)) /\ ~stuck /\ call # "dead" =>
        setup = shutter \/ overlapped

(* The status AcqConfig ends, unless a thread returned on the error of       *)
(* PCO_CloseCamera, or the process ended.                                    *)
ConfigEnds == config ~> ~config \/ stuck \/ call = "dead"
=============================================================================
