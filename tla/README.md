# A TLA+ model of the LIMA PCO camera plugin

This directory holds TLA+ modules that model the control of the plugin in
`src/` (C++, Windows and Linux), the TLC configurations that check them on small
instances, and proofs of the main safety properties for every instance.

## The system

LIMA, a detector-control framework, drives the plugin through a small set of
control objects; the plugin drives a PCO camera through PCO's SDK.

| part | source | state | operations |
|---|---|---|---|
| `Interface` | `PcoInterface.cpp` | none | forwards `prepareAcq`, `startAcq`, `stopAcq`, `getStatus`, `reset` |
| `SyncCtrlObj` | `PcoSyncCtrlObj.cpp` | `m_started`, `m_exposing`, `m_requestStop`, `m_requestStopRetry`, frame counts, times, trigger mode | `startAcq`, `stopAcq`, `getStatus`, `setStarted`, `setExposing`, `_setRequestStop` |
| `Camera` (Windows) | `PcoCameraWin.cpp` | the camera handle, the acquisition trace | `startAcq` and the thread functions `dimax`, `dimax_trig_single`, `dimax_live`, `edge` |
| `Camera` (Linux) | `PcoCameraLin.cpp` | one thread with wait, run and quit flags under a condition variable | `startAcq`, `threadFunction`, `_AcqThread` loops, shutter switch |
| `Camera` (both) | `PcoCamera.cpp` | configuration and state flags, valid ranges, forced Fifo, requested pixel rate | `prepareAcq`, `reset`, shutter switch, ROI, timing |
| SDK wrappers | `PcoCameraSdk*.cpp` | recording state, segment image counts | one method per SDK call |
| `BufferCtrlObj` | `PcoBufferCtrlObj.cpp` | `m_allocBuff`: per ring buffer an SDK number, an event, the frame assigned, a LIMA pointer | `_xferImag`, `_xferImagMult`, `_xferImag_getImage`, double-image variants, buffer allocation |
| ROI, binning, detector | `PcoRoiCtrlObj.cpp`, `PcoBinCtrlObj.cpp`, `PcoDetInfoCtrlObj.cpp` | the ROI | check, set, fix and translate |
| events, utilities, SIP, Tango | `PcoHwEventCtrlObj.cpp`, `PcoCameraUtils.cpp`, `PcoCameraSip.cpp`, `tango/` | a ring log, counters, attributes | formatting, diagnostics, attribute access |

How they meet: LIMA's control thread calls `SyncCtrlObj::startAcq`, which calls
`Camera::startAcq`, which begins an acquisition thread and returns. From then on
control thread and acquisition thread share the flag `started`, the status
`exposing`, the stop request and the frame counts, some under a mutex, some not.
The acquisition thread calls a transfer function of `BufferCtrlObj`, which
shares the ring of buffers with the SDK's driver and announces frames to LIMA
with the callback `newFrameReady`. The camera records at its own pace.

What is hard, and tested little: the control thread sets and clears `started`
around a thread that does the same; an error of the thread is seen by the
control thread early, late or not at all; a stop is consumed by one loop and
needed by another; a camera error throws on either thread; the driver refills
buffers while the thread copies from them; a count is narrowed to 16 bits; and
zero frames means "until stopped" on several paths that compute a count.

Correct means: one acquisition at a time and none alive when LIMA is told Ready;
calls of the control thread return; a number of frames asked for is delivered
and counted; each frame carries its own image, in order; nothing waits for ever.

## Modules

| module | models |
|---|---|
| `PcoAcquisition` | what an acquisition promises LIMA on either platform, in three variables: the started flag, the runs at work, the call the client waits in |
| `PcoFrameStream` | what a transfer promises LIMA, in three variables: frames with ever newer images, a normal end only at the requested number, nothing after the end |
| `PcoAcq` | `SyncCtrlObj`, Windows `Camera::startAcq` and the four acquisition threads; the transfer as the thread sees it |
| `PcoLinAcq` | the Linux side: `Camera::startAcq` that wakes one thread, the loops for Edge and Dimax, `_waitForRecording`, the shutter switch, the end of the camera |
| `PcoXferImag` | `_xferImag` with `_assignImage2Buffer` and `_xferImag_buff2lima`; the SDK's queue, events and buffers and the camera as environment |
| `PcoXferDouble` | `_xferImagDoubleImage` with its own use of `_assignImage2Buffer`, LIMA's pool as environment |
| `PcoXferRead` | the transfers that read image after image: `_xferImag_getImage`, `_xferImag_getImage_edge`, `_xferImagMult`, `_xferImagMultDoubleImage` with `_getLimaBuffer` |
| `PcoPrepare` | `prepareAcq` call by call, the choice of recorder and of thread, and the settings made through the bindings |
| `PcoShutter` | the Windows shutter switch, `_init` and the reset beside a client that prepares and starts |
| `PcoRoi`, `MCPcoRoi` | checking, fixing and setting a ROI and a binning; the instance for TLC |
| `*_proofs` | theorems, one module for each of `PcoAcq`, `PcoLinAcq`, `PcoXferImag`, `PcoXferDouble`, `PcoXferRead`, `PcoPrepare`, `PcoShutter`, `PcoRoi` |

How they compose. `PcoAcq` and `PcoLinAcq` both implement `PcoAcquisition`
(properties `ImplementsAcquisition` and `EdgeImplementsAcquisition`): the flag is
`started`, the runs are the live threads under Windows and the one thread that
does not wait under Linux, and `call` collects the places of the control thread
in `startAcq` and `stopAcq`. A Dimax under Linux is excepted: its flag is clear
while its recording is read out. `PcoXferImag` implements `PcoFrameStream`
(`ImplementsStream`, a mapping on the announced frames); `PcoXferDouble`, a pair
counting as one image, and the readouts of a finished recording in `PcoXferRead`
implement it too (theorems `Implements` of their `_proofs` modules).

`PcoAcq` and the three transfer modules meet at the transfer call: `PcoAcq` keeps
from a transfer when it looks at the stop request, when it can wait for an
image, what it counts and how it ends; the transfer modules have everything
between the call and the return. `PcoPrepare` comes before the run that `PcoAcq`
follows: it ends where `startAcq` has chosen a thread. `PcoShutter` has the same
client at the granularity of what the switch destroys: arming and buffers. The
width `PcoPrepare` gets is one `PcoRoi` answered.

### PcoXferImag: state and steps

`pc` names the place in the function: `assign` (the first loop, lines 770-828),
`start` (832-845), `loop` (the head of the `for`, 854-920), `poll` (the wait,
934-994), `copy` (1045), `recycle` (1059-1140), `ram` and `ramread` (1156-1205),
`done`. `frameIdx`, `first`, `bufIdx`, `polled` are `dwFrameIdx`,
`dwFrameFirst2assign`, `bufIdx` and the index behind `sBufNr`; `assigned` and
`limaPtr` are arrays of `m_allocBuff`, where 0 stands for -1 and NULL.
`pending`, `event`, `content` are the driver's queue, the event of each buffer
and the number of the image in it. A frame is recorded in `ready` when
`newFrameReady` is called, with the frame whose LIMA buffer was written and the
image that was copied. The search for a buffer is one step: it only reads
locals. When it finds nothing the code goes on with the last SDK buffer number
and an index past the ring, and so does the model. One frame per buffer is what
`pcoGetFramesPerBuffer` returns for these cameras. Debug switches are off.
The wrappers of `PCO_AddBufferEx` and `PCO_GetBufferStatus` throw on an error and
nothing catches it: `CameraThrows` ends in `dead`, as the process does.

The client does one thing here: it requests a stop. `stop` stands for the
request together with the retry count above `MAX_NR_STOP`, which is 0.

### PcoAcq: state and steps

`cpc` is the place of the control thread: `idle`, then through `startAcq`
(`camera`, `record`, `begin` inside `Camera::startAcq`, `check`, `wait`,
`started` after it), or `stop` inside `stopAcq`; `dead` when an exception left a
thread function, which ends the process. `thr` maps each thread to its function,
place, frame count, reason to leave the record loop, transfer limit, frames
transferred and transfer result. `valid` is the image count of the segment;
`HwMax` what the segment holds and `CalcMax` what `MaxCalc` estimates: two
different numbers in the code, compared at two different places.

`exposing` carries the values the modelled paths set. `nrStop` counts to
`MAX_NR_STOP + 1`; further requests change nothing. The 2 s and 5 s waits may
end at any time. `prepareAcq` appears as what matters here: a running recording
is stopped and the frame count is the one asked for.

### PcoLinAcq: state and steps

`waitFlag`, `quit`, `waitRolling` are `m_wait_flag`, `m_quit` and
`m_wait_flag_rolling`; `mutex` says whether the shutter switch holds `m_cond`'s
mutex, which it does from `SwitchBegin` to `SwitchEnd`, the reboot included. All
other critical sections are one step each, enabled while the mutex is free.
`acq` has the locals of the acquisition thread: its place, the frame count it
read at its start (`nb`), the one `_waitForRecording` read (`rec`), the frame
number, why the record loop ended and `bRequestStop`. `status` is
`m_status`; `exposing` the value in `SyncCtrlObj`, written after a recording
with an uninitialised variable (`Recount`: any of its values). `Prepare` is
possible when the status is Ready, as LIMA's. An exception that leaves the
thread function ends the process (`Crash`, `Terminate`).

### PcoXferRead: state and steps

`mode` names the function, or the use of it: `last` for `_xferImag_getImage`,
`edge` for `_xferImag_getImage_edge`, `first` and `live` for `_xferImagMult` on a
finished recording and an endless one, `double` for `_xferImagMultDoubleImage`.
`k` counts the PCO images transferred, and the body of the loop is the walk of
`pc`: `loop`, `wait` (the inner loop of `_xferImagMult` that polls the image
count), `read` (`PCO_GetImageEx`), `first` and `second` (the LIMA buffer, the
copy and `newFrameReady`, once or twice per image), `check` (the stop request,
then `setAcqFrames`). `ImageIdx` is the index given to the SDK: 0 for the newest
image, else counted from one, and for `last` computed from the image count and
clamped to it. `pool` is LIMA's ring of frame buffers and `saved` the number of
frames it has released; a frame's buffer is given when the one `LimaBuffers`
frames earlier was released. `seen` is `_stopReq`, `unset` until it is read: a
transfer without a frame returns what it happens to be. `stopAt` is a history
variable. A recording is over when it is read, and the count of `first`, `last`
and `double` was corrected to it by the thread.

### PcoXferDouble: state and steps

As in `PcoXferImag`, but for what the two functions do differently: `pair` is
the PCO image to be announced next; `marked` is `bufferReady`, set for every
buffer whose event is set after a wait on all of them (`WaitFired`); `retries`
counts the timeouts down (`WaitRetry`, `WaitAbort`). `Assign` waits for the LIMA
buffer of the pair's first frame only, because the code waits twice with the
same frame number (`LimaReady`). A LIMA buffer is in use from the announcement
of its frame to its release; it is chosen at the assignment and written when the
image has come (`Announce`). `event` starts with any value: the events live as
long as the buffers and the transfer before may have left them set.

### PcoPrepare: state and steps

`cam` is what the camera was told, `armed` what it armed: width, pixel rate,
storage mode (with the recorder's submode), stop count of a triggered recording,
data format (with the lookup table). `pc` is the call `prepareAcq` makes next.
Each call is an action; each may fail, and `PrepareThrows` leaves everything as
it is. `bufs` is `m_allocBuff`, `reads` the flag given to
`PCO_SetImageParameters`. The actions under "Settings" are the attribute setters:
Python's lock is held during a call, so they run between preparation and start or
beside a run, never inside `prepareAcq`. `wanted`, `before`, `touched`,
`refused` are history variables; no action reads them.

### PcoShutter: state and steps

`call` is the next call of `prepareAcq` (`arm`, `buffers`, `image`), or `idle`,
`ready` (prepared), `dead`. `open` is the handle, `bufs` whether `m_allocBuff`
has buffers of the open camera, `config` is `m_config`. Each shutter thread `s`
is at `sw[s]`: `begin` when `_beginthread` has returned but `m_config` is not set
yet, then one place per SDK call of `_pco_set_shutter_rolling_edge`. The
wrappers of those calls throw, which ends the process (`SwitchThrows`); the
error returns written after them are never taken and not modelled. Only
`PCO_CloseCamera` returns its error (`SwitchCloseFails`). `stuck`, `overlapped`
and `late` are history variables: the cases in which the code promises nothing.

### PcoRoi: state and steps

One axis, since `_fixValidRoi` handles the axes one by one. `FixValidRoi` is the
function's four corrections in its order, with unsigned differences modulo
`DWordMod` where the code has them; `CheckValidRoi` adds the description in
binned pixels and the symmetry of the camera. `Valid` is what the SDK accepts,
and independent of the corrections: the reference they are checked against.

## Runs

| run | module | checks | shows |
|---|---|---|---|
| `AcqLife` | `PcoAcq` | `EndCountsFrames`, `ThreadsClearStarted`, `StopEnds`, `AcqEnds`, `ImplementsAcquisition` | the acquisition's life for all camera kinds and trigger modes, when `MaxCalc` keeps to the segment: it keeps the promises of `PcoAcquisition`, counts what it delivers and ends |
| `AcqOversized` | `PcoAcq` | `StopEnds` | when it does not, two threads overlap; a stop still ends |
| `LinLife` | `PcoLinAcq` | `FramesRecorded`, `EdgeImplementsAcquisition`, `SwitchIsExclusive`, `OrphansComeFromStart`, `IgnoredOnlyAtEnd`, `WakeKept`, `StopEnds`, `AcqEnds` | the Linux thread of an Edge and a Dimax with all starts, stops, time-outs and errors, a shutter switched at any time and a camera that is deleted |
| `LinStartLost` | `PcoLinAcq` | `StartRunsThread`, violated | a wake-up is overwritten, the acquisition never runs |
| `XferStream` | `PcoXferImag` | `FrameHasItsImage`, `ImagesInOrder`, `Returns`, `ImplementsStream` | streaming with lost images, stops and SDK errors |
| `XferAll` | `PcoXferImag` | `PlaybackExact`, `CountMatches`, `UncopiedImageKept`, `StopReturns` | streaming, playback and RAM readout |
| `XferPlaybackOverrun` | `PcoXferImag` | `FrameHasItsImage`, violated | playback past the ring announces frames without an image |
| `ReadLife` | `PcoXferRead` | `FrameHasItsImage`, `HeldFramesKept`, `ResultIsTrue`, `StopIsPrompt`, `StopReturns` | the reading transfers: which image each frame gets, what happens when LIMA is slow, what the status and the count are worth |
| `DoubleLife` | `PcoXferDouble` | `FrameHasItsImage`, `OnlySecondOverwrites`, `TimeoutsEnd` | double images through a ring with events left over from before: order, LIMA's buffers, the limit on timeouts |
| `PrepLife` | `PcoPrepare` | `RunFitsRecorder`, `RateHonoured`, `FormatIsStaleOnlyAfterResize`, `ConflictNeedsRefusal` | preparations that fail anywhere, with settings before, after and beside runs |
| `ShutterLife` | `PcoShutter` | `RunKeepsCamera`, `ModeReached`, `ConfigEnds` | two shutter threads beside the client, with errors of every call |
| `RoiFix` | `MCPcoRoi` | `FixedIsValid`, `FixedCovers`, `FixedIsSmallest` | every request on four sensors in every binning |

`LinLife` and `ShutterLife` do not check for deadlock: in the first `~Camera`
really waits for ever (see below), in the second the process may end. No other
run turns the check off. The type invariants `TypeOK` are proved, and not
checked again.

### Bounds

- `AcqLife`: requests 0 (until stopped), 2 (regular), 3 (the modulus `WordSize`,
  so that the 16-bit count wraps to zero) and 4 (out of range); a segment of 3
  images. Requests above 4 meet the same comparisons. Two thread identities are
  enough: `SingleThread` is proved, so a third would never be used. `MaxFrames`
  caps the counter of an unlimited acquisition only.
- `AcqOversized`: one request larger than the segment and not larger than the
  estimate. Two identities bound the number of overlapping threads: a start that
  would need a third waits.
- `LinLife`: requests 0, 2 and 3 on a segment of 2: unlimited, as many, more.
  `MaxFrames` caps the counter of an unlimited acquisition.
- `XferStream`: three buffers and 0, 1, 3 and 5 frames: fewer than the ring, as
  many, more (a buffer is used twice), and unlimited. One image may be lost at
  any time. `DWordMax` is beyond every image number, as in the code.
- `XferAll`: two buffers, 0, 2 and 4 frames, so that playback just fits and
  overruns.
- `ReadLife`: a pool of three LIMA buffers and up to four images, so that frames
  must wait for a release and indexes meet the image count from both sides; 0, 1,
  2 and 5 frames: endless, an odd number that leaves no pair, one pair, and more
  than was recorded. `DWordMax` stands for an endless transfer's count: it is
  beyond every image the camera takes.
- `DoubleLife`: three buffers and up to six pairs, so that each is used twice; a
  pool of seven frames, one more than the ring needs, so that a slot does not
  belong to one half; no limit on timeouts, and a limit of two.
- `PrepLife`: two widths on either side of `WidthHigh`, two rates on either side
  of `RateHigh`, requests with and without an end, all three kinds of camera. The
  number of buffers matters to `BuffersFit` only, which is proved and has no run.
- `ShutterLife`: the three modes of an Edge, so that a mode asked for during a
  switch may be the old one, the new one or a third; two threads, which the
  theorems extend to any number.
- `RoiFix`: sensors of 6 to 12 pixels with every combination of what the
  corrections compare: step one, a step of the minimum size, a step that binning
  divides down, one and two ADCs, power-of-two and linear binning. `DWordMod`
  is beyond twice the sensor, as in the code.

### Fairness

`PcoAcq` is weakly fair to the control thread inside a call, to each
acquisition thread's own steps and to the camera while it records: threads are
scheduled, and every wait in the code polls with a time-out. Nobody has to start,
stop or trigger, errors never have to happen, and the camera stopping by itself
is not assumed. `PcoXferImag` is weakly fair to the thread and to the camera's
delivery while images and buffers are left. `PcoXferRead` and `PcoXferDouble` are
weakly fair to the thread only: its waits for an image, an event or a LIMA buffer
time out, but nobody has to deliver an image, release a frame or stop.

`PcoLinAcq` is weakly fair to the client inside a call, to the switch and to a
recording camera, and strongly fair to the acquisition thread: the switch takes
and gives back the mutex as often as the client likes, and a thread that waits
for a mutex gets it in the end. The thread is not assumed to survive errors
(`Crash`). `PcoShutter` is weakly fair to each shutter thread. `PcoPrepare` and
`PcoRoi` have no liveness properties.

The liveness properties name what the code cannot promise: `StopEnds` excepts
the flag orphaned by `startAcq` and a `_xferImagMult` that waits for an image
that never comes, as `StopReturns` of `PcoXferRead` does; `AcqEnds` excepts a
starved transfer, a camera that does not record and, under Linux, a timed-out
recording; `Returns` excepts a Camera Link Edge whose start failed;
`TimeoutsEnd` excepts an event nobody resets; `ConfigEnds` excepts an error of
`PCO_CloseCamera` and the end of the process.

### What the runs found

1. A recording longer than the ring of buffers is not played back: after the
   last assigned frame no buffer has the next one, and stale events let the
   loop announce frames without an image (`PcoBufferCtrlObj.cpp:1093`).
2. Under Linux a start is lost when its wake-up comes before the thread's
   unlocked initialisation or before its end (`PcoCameraLin.cpp:134`).

What was met on the way and has no run of its own, because a property names it
as its exception or because it is plain to see:

- Under Linux a recording that timed out is compared with the wrong count and
  repeated for ever (`PcoCameraLin.cpp:1233`; the exception in `AcqEnds`).
- The data format of an Edge is chosen by the width armed before the change
  (`PcoCameraSdk.cpp:2666`; `FormatIsStaleOnlyAfterResize`).
- The SDK wrappers throw on an error (`PCO_THROW_OR_TRACE`, `Pco.h:192`), and the
  thread functions catch nothing: an SDK error in a thread ends the process.
- `_xferImag` reads `acqTimeoutRetry` (`PcoBufferCtrlObj.cpp:671`) and does not
  use it: the wait has no end but a stop. `_xferImagDoubleImage` counts its
  timeouts, but an event left set after a copied image or by an earlier transfer
  keeps `WaitForMultipleObjects` from timing out at all (`TimeoutsEnd`).
- The LIMA buffer of a pair's second frame is not waited for: the wait is done
  twice for the first one (`PcoBufferCtrlObj.cpp:336`; `OnlySecondOverwrites`).
- An odd number of double frames is rounded down to whole pairs, and a request
  of one frame becomes zero, which means until stopped.
- A stop in the record phase skips the transfer that the comment at
  `PcoCameraWin.cpp:317` promises for that case.
- The RAM readout starts at image count minus frames left, which may be zero,
  the newest image, and calls `_xferImag_buff2lima` with one frame number for
  every image (`PcoBufferCtrlObj.cpp:1188`, `:1201`). The flag that leads there
  cannot be set while an acquisition runs (`PcoCameraSip.cpp:888`).
- `stopAcq` is synchronous under Windows only while `MaxCalc` does not exceed
  the segment: otherwise `startAcq` clears the flag while the rejected thread is
  alive. Under Linux it is synchronous for an Edge only: `_waitForRecording`
  clears the flag of a Dimax before the readout (`PcoCameraLin.cpp:1310`).
- `~Camera` under Linux joins a switch thread whose quit flag is never set
  (`PcoCameraLin.cpp:1635`); `LinLife` reaches that state.
- Under Windows a shutter thread is visible in the status only once it has set
  `m_config` (`PcoCamera.cpp:1769`): a preparation in between is undone by the
  reboot (`late` in `RunKeepsCamera`). A request for the old mode while a switch
  is under way begins no thread and is lost, and two threads may reboot one
  camera (`PcoCameraSip.cpp:979`; `overlapped`).
- The error return after `PCO_CloseCamera` leaves `m_config` set, and so the
  status Configuring, for ever (`PcoCamera.cpp:1851`; `stuck`). The error returns
  after the other calls of the switch are never taken, since those wrappers throw.
- `Camera::reset` closes the camera and does not open it again.
- A ROI step of zero is said to allow the full size only
  (`PcoRoiCtrlObj.cpp:177`); a request away from the lower edge is instead grown
  upwards past the sensor. `Regular` asks for a step.
- Errors of `PCO_GetBinning` and `PCO_SetROI` are traced and forgotten
  (`PcoCameraSdk.cpp:3205`, `:3076`); the answer of `PcoRoi` is then one for a
  camera that is set differently.
- A single trigger with forced Fifo gets a ring recorder from `prepareAcq` and
  the live thread from `startAcq`; `RunFitsRecorder` excepts it.
- Errors of `PCO_AllocateBuffer` are not looked at (`PcoBufferCtrlObj.cpp:2241`).

## Proofs

All theorems hold for every value of the constants that meets the named
assumptions of the module.

**`PcoAcq_proofs`**, for any number of threads, segment size, modulus and set
of requests: `TypeCorrect` (`Spec => []TypeOK`); with `CalcMax <= HwMax`,
`SingleThread` (`[]OneThread`), `ReadyMeansQuiet` (`[]ReadyIsQuiet`) and
`StopWaitsForThreads` (`StopIsSync`); `OrphansComeFromStart`
(`ThreadsClearStarted`) without that condition; with it `Implements`
(`ImplementsAcquisition`). Of the abstract acquisition itself `PromiseIsQuiet`
and `PromisedStopWaits` prove what it is there for, so that whatever implements
it is quiet when the flag is clear and stops synchronously.

The assumption is the one `AcqOversized` drops. The argument: a thread is alive
only while `started` is set, and `startAcq` passes only when it is not. Two
places could clear the flag under a living thread: the control thread, when it
sees `Error` after `Camera::startAcq`, and the end of another thread. The
invariant `IInv` therefore says that no thread is alive while one is being
started, that the control thread never sees `Error` at that place, that a
thread with work left has not set a fault (or LIMA could prepare a new count
under it), and that the counts on the way to a record loop fit the segment, so
the branch that sets `Error` is not taken. `ThreadStep` reduces the many steps
of a thread to one formula, `Progress`, and two endings; the invariant is
preserved by each, and each is a step or a stutter of `PcoAcquisition`.

`EndCountsFramesAlways` (`EndCountsFrames`, same condition) needs a second
invariant, `CountInv`, on top of the first. The counts belong to the one thread
that works: what it has recorded, taken as its limit and transferred is related
to `SyncCtrlObj`'s counts at each place of it (`ThreadCounts`,
`ThreadRecords`). A preparation writes them only when no thread works, and the
result an earlier acquisition left is replaced before it could be taken for one
of the new count (`PreparedAtRest`, `EndIsCounted`). `RecountKeeps` shows that a
recording that did not time out is not shortened.

**`PcoLinAcq_proofs`**, for any segment and requests, with and without shutter
changes and deletion: `TypeCorrect`; `EdgeRunsStarted` (`[]StartedCoversRun`);
`EdgeStopIsSync` (with `Kinds = {"Edge"}`, `StopIsSync`); `DimaxReadsRecorded`
(`[]FramesRecorded`); `EdgeImplements` (`EdgeImplementsAcquisition`). The flag of an Edge is cleared by the end of its
acquisition only: the other places need a recording or the exposing value
`Error`, and `EdgeNeverRecords` excludes both. The images of a Dimax stay while
they are read because nothing reboots the camera (`DimaxNeverSwitches`) and the
count read is what was recorded (`ReadoutIsRecorded`).

The action properties need to know who may wake, end or switch, which the flags
tell (`FlagInv`, on top of `IInv`): the switch holds the mutex while it reboots
(`RebootIsLocked`), an acquisition under way has its wait flag clear
(`RunIsAwake`), only the end of the camera sets the quit flag (`QuitIsLast`), and
where no shutter is changed the status is Ready just while the thread is at rest
or at its end (`ReadyIsAtRest`). From it follow `SwitchExcludes`
(`SwitchIsExclusive`), `OrphansFromStart` (`OrphansComeFromStart`), `WakeIsKept`
(`WakeKept`) and `IgnoredAtEnd` (`IgnoredOnlyAtEnd`).

**`PcoPrepare_proofs`**, for any requests, widths, rates and number of buffers:
`TypeCorrect`, `ThreadSuitsRecorder` (`[]RunFitsRecorder`), `BuffersAreThere`
(`[]BuffersFit`), `RateIsArmed` (`[]RateHonoured`), `FormatFollowsWidth`
(`[]FormatIsStaleOnlyAfterResize`) and `ConflictsAreRefusals`
(`ConflictNeedsRefusal`). The invariant follows a setting from the call that
makes it to the run: once told, it is as the request and the settings call for
(`StorageFollows`, `RateFollows`, ...), and an armed camera is told nothing more
(`ArmedIsTold`). `RateKept` carries a requested rate over preparations that
fail: it is still requested, or it is set.

**`PcoRoi_proofs`**, for every regular description, binning and request:
`TypeCorrect`, `AnswersAreValid` (`[]FixedIsValid`), `AnswersCover`
(`[]FixedCovers`) and `AnswersAreSmallest` (`[]FixedIsSmallest`). One
lemma per correction says what it establishes and that it keeps what the earlier
ones did (`AlignedIsStepped`, `GrownIsLarge`, `MirroredIsSymmetric`), put
together in `FixedIsCorrect`; they rest on a few facts about quotients. That no
smaller answer exists is an argument per correction too: the aligned ROI is
within every stepped one around the request (`AlignedIsLeast`), growing stops at
the minimum size (`GrownToMinimum`), and a valid symmetrical ROI holds the mirror
image of what it holds (`MirroredMovesOneEnd`); `FixedIsLeast` joins them.
`Regular` is what the corrections need: step and minimum size divide the sensor
as they presume. `AnswerIsTaken` is about LIMA's two calls: `setRoi` corrects the
answer of `checkRoi` a second time. A valid ROI is not corrected any more
(`ValidIsFixed`), so it is the answer that is set, unless the number of ADCs was
changed in between and the camera needs symmetry only since then; what is set then
is still valid and covers the request.

**`PcoXferImag_proofs`**, for any ring, any requests and any lost images. In
every transfer: `TypeCorrect`, `CountMatchesAlways`, `PlaybackExactAlways` and
`UncopiedImageKeptAlways`. In the transfers that satisfy `Fits`, a condition on
the parameters of one transfer and not on the constants, also
`FrameHasItsImageAlways`, `ImagesInOrderAlways` and `Implements`
(`ImplementsStream`). `Fits` leaves out the two kinds of transfer for which these
three do not hold: a recorded sequence longer than the ring (`Overrun`, finding 1)
and one that ends in a RAM readout (`Readout`), which announces one frame number
for every image.

The properties speak of the frames announced, the danger is in the ring; the
invariant `IInv` ties them together. `Numbered`: the frames from the next one to
the last assigned have a buffer each, and no two share one. `Queued`: the
driver's queue holds the buffers of the last of those frames in order, so
everything before `Filled` has come, and an event that is set belongs to a filled
buffer. `Ordered`: later frames have later images, those announced and those that
still wait in the ring. `Counting` and `Exact` relate the announced frames to the
loop's index and `SyncCtrlObj`'s count. A RAM readout leaves the ring for good
(`Reading`), so what is said of the ring is said while the transfer is `Live`.
None of this holds of an overrun, where the loop polls a buffer that is not the
frame's; its invariant `OverInv` says instead that nothing is assigned a second
time, so each buffer is filled once (`FilledOnce`), while the loop counts every
frame it announces (`Uncounted`). Every transfer is in one of the two
situations from its first step to its last. The refinement follows from `IInv`:
an announcement appends a newer image, and `TransferEnd` is returned at the
requested number.

`OverrunIsEmpty` says what an overrun announces: as many frames as the ring has
buffers are played back exactly, and every later one has no image. Buffer `b` is
assigned to frame `b + 1` and to no other (`Once`), so the search finds the buffer
of a frame up to the end of the ring and none after it (`Found`), while the event
of the last buffer, which nothing resets, lets the loop go on.

**`PcoXferDouble_proofs`**, for any ring, pool, requests and retries:
`FrameHasItsImageAlways`. Events left from before may be set at any time, so an
event alone proves nothing. `SetMeansFilled` says what does: once a buffer is
assigned, its mark or event is set only when the image asked for is in it, since
the assignment resets both. `BufferIsFound` and `LengthFits` carry that to the
announcement. `OnlySecondOverwritesAlways`, when the pool holds the frames of
the ring: the LIMA buffer of a pair's first frame was free when the image was
asked for, and fewer frames than a ring have been announced since (`Reserved`
with `Window`), so it is free still; nothing of the kind holds of the second
frame, whose buffer is asked for at the announcement. `Implements`: the transfer
is a `PcoFrameStream` whose images are the pairs, each delivered with its second
half (`Stream` in this module). What that needs beyond the order of the frames is
that no buffer is queued for an image that was not recorded (`AsksRecorded`): the
thread has corrected the count, and the loop never passes it.

**`PcoXferRead_proofs`**, for any pool, requests and number of images:
`TypeCorrect`, `FrameHasItsImageAlways`, `HeldFramesKeptAlways`,
`ResultIsTrueAlways`, `StopIsPromptAlways`. The invariant: a finished recording
keeps its images and has those asked for (`RecordingIsKept`), the number of
frames follows the place in the loop (`LengthFits`), the image just read is the
one of the next frames (`ImageIsRead`), and once a stop is requested the loop is
on its last image (`StopIsSeen`). `Implements`: reading a finished recording is a
`PcoFrameStream`, of single images or of pairs, since each image asked for was
recorded or is waited for (`ReadsRecorded`). It is stated for `~IsLive`: a live
transfer asks for the newest image and may deliver the same one twice, which TLC
shows at once, so of it `FrameHasItsImageAlways` says only that images never grow
older.

**`PcoShutter_proofs`**, for any modes and number of threads: `TypeCorrect`,
`SwitchIsConfigAlways`, `RunKeepsCameraAlways`, `ModeReachedAlways`. Without an
overlap one thread is at work (`OneThread`); what it has done so far is known at
each place (`ModeFollows`), and a preparation that is under way is not disturbed
(`Undisturbed`, `PreparedSoFar`).

Only model-checked is what needs fairness, which is out of the prover's reach:
`Returns`, `StopReturns`, `StopEnds`, `AcqEnds`, `TimeoutsEnd` and `ConfigEnds`.

## Not modelled

Debug and test command modes other than the default; double-image counts in the
thread functions; exposure and delay times, and with them the conversion to the
SDK's time base; what `_init` asks of the camera beyond opening it; the thread
function for the ring buffer that no path begins; image contents beyond the
image's number; formatting and tracing. `HwEventCtrlObj` and the utilities
(ring log, frame-number check, talk commands) report and are not read back. Most
lines of the repository are PCO's headers and libraries, which are the
environment here. The components without a module, or with a part of one, are
listed in `PROJECT.json` with the reason.

## Plan

Done: the acquisition on both platforms and its common abstraction, all transfer
functions, preparation, shutter switch, ROI, with their proofs. What would add
most next:

1. The conversion of times to the SDK's base and count, `_pco_time2dwbase`,
   against a reference over the bounds of a DWORD.
2. The ring log of the utilities as a bounded buffer.
