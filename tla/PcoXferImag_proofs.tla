------------------------- MODULE PcoXferImag_proofs -------------------------
(* Proofs about the transfer loop _xferImag for every ring, every number of  *)
(* requested frames and every camera.  Two situations are told apart: a      *)
(* transfer whose frames keep to the ring (IInv), up to a RAM readout if one *)
(* is asked for, and a recorded sequence longer than the ring (OverInv).     *)
EXTENDS PcoXferImag, TLAPS

(* A recorded sequence that does not fit in the ring.                        *)
Overrun == ByNumber /\ req > Nrevents

(* A transfer that ends in a RAM readout, after its first frame.             *)
Readout == LiveMode /\ CamRAM /\ recStop

Fits == ~Overrun /\ ~Readout

(* The frames go through the ring.                                           *)
Live == pc \notin {"done", "dead", "ramread"}

(* Frames whose buffer the camera has filled: the queue holds the rest.      *)
Filled == first - 1 - Len(pending)

(* The newest image that can be in the ring.                                 *)
Newest == IF ByNumber THEN Filled ELSE taken

(* The first frame that is not announced.                                    *)
NextOut == IF pc = "recycle" THEN frameIdx + 1 ELSE frameIdx

(* The modes: a camera whose recording is over only plays back; the others   *)
(* give nothing until they record.                                           *)
ModesKept ==
    /\ pc = "ram" => Readout
    /\ mode = "record" => ~recording /\ (req > 0 => req <= Nrevents)
    /\ pc = "start" => mode = "edgeCL"
    /\ mode = "edgeCL" /\ pc \in {"assign", "start"} => ~recording
    /\ taken <= MaxImages

Quiet ==
    ~recording /\ ~ByNumber => Filled = 0 /\ pc \notin {"copy", "recycle"}

(* The queueing at the beginning.                                            *)
Beginning ==
    /\ pc \in {"assign", "start"} => frameIdx = 1 /\ ready = <<>>
    /\ pc = "assign" => first = idx + 1 /\ \A b \in Ring : b >= idx => assigned[b] = 0

(* The frames of the loop: those from frameIdx to first - 1 have a buffer    *)
(* each, and no two buffers have one frame.                                  *)
Numbered ==
    /\ first <= RequestedFrames + 1 /\ frameIdx <= RequestedFrames + 1
    /\ pc \notin {"assign", "start"} => frameIdx < first \/ first = RequestedFrames + 1
    /\ ByNumber /\ pc # "assign" => first = RequestedFrames + 1
    /\ pc = "start" => frameIdx < first
    /\ pc \in {"poll", "copy", "recycle"} => frameIdx <= RequestedFrames
    /\ \A b \in Ring : assigned[b] < first /\ limaPtr[b] = assigned[b]
    /\ \A b, c \in Ring : assigned[b] = assigned[c] /\ assigned[b] > 0 => b = c
    /\ \A f \in frameIdx .. first - 1 : \E b \in Ring : assigned[b] = f
    /\ pc \in {"poll", "copy", "recycle"} =>
          bufIdx \in Ring /\ polled = bufIdx /\ assigned[bufIdx] = frameIdx
    /\ pc \in {"copy", "recycle"} => frameIdx <= Filled

(* The queue is in the order of the frames, and an event tells that the      *)
(* buffer is filled.                                                         *)
Queued ==
    /\ Filled \in Nat
    /\ \A i \in 1 .. Len(pending) : assigned[pending[i]] = Filled + i
    /\ \A b \in Ring : event[b] => assigned[b] \in 1 .. Filled

(* Later frames have later images, also those that wait in the ring.         *)
Waiting(b) == assigned[b] \in NextOut .. Filled
Ordered ==
    /\ Newest <= taken
    /\ \A b \in Ring : Waiting(b) => content[b] \in 1 .. Newest
    /\ \A b, c \in Ring : Waiting(b) /\ Waiting(c) /\ assigned[b] < assigned[c]
                              => content[b] < content[c]
    /\ \A k \in 1 .. Len(ready) : ready[k].image <= Newest
    /\ \A k \in 1 .. Len(ready), b \in Ring : Waiting(b) => ready[k].image < content[b]

Counting ==
    /\ ret = NoRet
    /\ Len(ready) = NextOut - 1

Announced == FrameHasItsImage /\ ImagesInOrder

(* While the RAM is read nothing is recorded any more.                       *)
Reading == Readout /\ ~recording /\ ret = NoRet /\ ramIdx \in Nat

LoopInv == ModesKept /\ Quiet /\ Beginning /\ Numbered /\ Queued /\ Ordered /\ Counting
IInv ==
    /\ TypeOK
    /\ Live => LoopInv
    /\ Live \/ ~Readout => Announced
    /\ pc = "ramread" => Reading

----------------------------------------------------------------------------
LEMMA Appended ==
    ASSUME NEW S, NEW s \in Seq(S), NEW x \in S
    PROVE  /\ Append(s, x) \in Seq(S)
           /\ Len(Append(s, x)) = Len(s) + 1
           /\ \A n \in 1 .. Len(s) : Append(s, x)[n] = s[n]
           /\ Append(s, x)[Len(s) + 1] = x
  OBVIOUS

LEMMA HeadOff ==
    ASSUME NEW S, NEW s \in Seq(S), s # <<>>
    PROVE  /\ Head(s) \in S /\ Tail(s) \in Seq(S) /\ Head(s) = s[1]
           /\ Len(s) \in Nat \ {0} /\ Len(Tail(s)) = Len(s) - 1
           /\ \A n \in 1 .. Len(s) - 1 : Tail(s)[n] = s[n + 1]
  OBVIOUS

LEMMA RequestedIsPositive ==
    ASSUME TypeOK PROVE RequestedFrames \in Nat \ {0}
  BY RequestsAssumption, BoundsAssumption DEF TypeOK, RequestedFrames

LEMMA RingTypes ==
    ASSUME TypeOK
    PROVE  /\ assigned \in [Ring -> Nat] /\ limaPtr \in [Ring -> Nat]
           /\ pending \in Seq(Ring) /\ event \in [Ring -> BOOLEAN] /\ content \in [Ring -> Nat]
           /\ first \in Nat \ {0} /\ Len(pending) \in Nat
           /\ \A i \in 1 .. Len(pending) : pending[i] \in Ring
           /\ \A b \in Ring : assigned[b] \in Nat /\ content[b] \in Nat
  BY DEF TypeOK

LEMMA ReadyTypes ==
    ASSUME TypeOK
    PROVE  /\ ready \in Seq([frame : Nat, dest : Nat, image : Int]) /\ Len(ready) \in Nat
           /\ \A k \in 1 .. Len(ready) : ready[k].image \in Int
  <1>1. ready \in Seq([frame : Nat, dest : Nat, image : Int])
    BY DEF TypeOK
  <1> DEFINE S == [frame : Nat, dest : Nat, image : Int]
  <1> HIDE DEF S
  <1>2. Len(ready) \in Nat /\ \A k \in 1 .. Len(ready) : ready[k] \in S
    <2>1. ready \in Seq(S)
      BY <1>1 DEF S
    <2> QED
      BY <2>1
  <1>3. \A x \in S : x.image \in Int
    BY DEF S
  <1> QED
    BY <1>1, <1>2, <1>3

LEMMA EmptyQueue == Len(<<>>) = 0
  OBVIOUS

LEMMA InitTypeOK == ASSUME Init PROVE TypeOK /\ taken <= MaxImages
  <1> USE RequestsAssumption, BoundsAssumption, NreventsAssumption
  <1>1. req \in Nat /\ taken \in Nat /\ taken <= MaxImages
    BY DEF Init
  <1>2. TypeOK
    <2>1. pending \in Seq(Ring) /\ ready \in Seq([frame : Nat, dest : Nat, image : Int])
      BY DEF Init
    <2>2. assigned \in [Ring -> Nat] /\ limaPtr \in [Ring -> Nat]
          /\ event \in [Ring -> BOOLEAN] /\ content \in [Ring -> Nat]
      BY DEF Init
    <2>3. bufIdx \in Ring \cup {NoBuf} /\ polled \in Ring /\ idx \in 0 .. Nrevents
      BY DEF Init, Ring
    <2>4. recording \in BOOLEAN
      <3>1. recording = (mode \in {"edge", "fifo"})
        BY Zenon DEF Init
      <3>2. (mode \in {"edge", "fifo"}) \in BOOLEAN
        OBVIOUS
      <3> QED
        BY <3>1, <3>2, Zenon
    <2>5. mode \in Modes /\ req \in Requests /\ recStop \in RecStops /\ pc = "assign" /\ ret = NoRet
          /\ frameIdx = 1 /\ first = 1 /\ ramIdx = 0 /\ acqFrames = 0
      BY DEF Init
    <2>6. stop \in BOOLEAN
      BY DEF Init
    <2> QED
      BY <1>1, <2>1, <2>2, <2>3, <2>4, <2>5, <2>6 DEF TypeOK
  <1> QED
    BY <1>1, <1>2

LEMMA InitIInv == ASSUME ~Overrun, Init PROVE IInv
  <1> USE RequestsAssumption, BoundsAssumption, NreventsAssumption
  <1>1. req \in Nat /\ taken \in Nat /\ taken <= MaxImages
    BY InitTypeOK DEF TypeOK
  <1>2. TypeOK
    BY InitTypeOK
  <1>3. RequestedFrames \in Nat \ {0}
    BY <1>2, RequestedIsPositive
  <1>4. Filled = 0 /\ Newest \in Nat /\ Newest <= taken
    <2>1. pending = <<>> /\ first = 1
      BY DEF Init
    <2>2. Filled = 1 - 1 - 0
      BY <2>1, EmptyQueue DEF Filled
    <2> QED
      BY <1>1, <2>2 DEF Newest
  <1>5. ModesKept
    <2>1. mode = "record" => ~recording /\ (req > 0 => req <= Nrevents)
      <3> SUFFICES ASSUME mode = "record" PROVE ~recording /\ (req > 0 => req <= Nrevents)
        OBVIOUS
      <3>1. mode \notin {"edge", "fifo"}
        OBVIOUS
      <3>2. ~recording
        BY <3>1, Zenon DEF Init
      <3>3. req > 0 => req <= Nrevents
        BY <1>1 DEF Overrun, ByNumber, LiveMode
      <3> QED
        BY <3>2, <3>3
    <2> QED
      BY <1>1, <2>1 DEF Init, ModesKept
  <1>6. Quiet /\ Beginning /\ Counting /\ Announced
    BY <1>4 DEF Init, Quiet, Beginning, Counting, Announced, NextOut, FrameHasItsImage, ImagesInOrder
  <1>7. Numbered
    BY <1>3 DEF Init, Numbered, Ring
  <1>8. Queued
    BY <1>4 DEF Init, Queued
  <1>9. Ordered
    BY <1>4 DEF Init, Ordered, Waiting, NextOut
  <1> QED
    BY <1>2, <1>5, <1>6, <1>7, <1>8, <1>9 DEF IInv, LoopInv, Init

(* Queueing a buffer whose image is not waited for any more keeps the order  *)
(* of the queue, and gives the new frame a buffer of its own.                *)
LEMMA AssignKeeps ==
    ASSUME TypeOK, Queued, Numbered, NEW b \in Ring, Assign(b), assigned[b] <= Filled
    PROVE  /\ assigned' \in [Ring -> Nat] /\ limaPtr' \in [Ring -> Nat]
           /\ event' \in [Ring -> BOOLEAN] /\ content' = content
           /\ pending' \in Seq(Ring) /\ first' = first + 1 /\ first' \in Nat \ {0}
           /\ Filled' = Filled /\ Filled < first /\ Queued'
           /\ assigned'[b] = first
           /\ \A c \in Ring : c # b => assigned'[c] = assigned[c]
           /\ \A c \in Ring : assigned'[c] < first' /\ limaPtr'[c] = assigned'[c]
           /\ \A c, d \in Ring : assigned'[c] = assigned'[d] /\ assigned'[c] > 0 => c = d
  <1>1. /\ assigned' \in [Ring -> Nat] /\ limaPtr' \in [Ring -> Nat]
        /\ event' \in [Ring -> BOOLEAN] /\ content' = content
        /\ first' = first + 1 /\ first' \in Nat \ {0}
    BY RingTypes DEF Assign
  <1>2. /\ pending' \in Seq(Ring) /\ Len(pending') = Len(pending) + 1
        /\ \A i \in 1 .. Len(pending) : pending'[i] = pending[i]
        /\ pending'[Len(pending) + 1] = b
    BY RingTypes, Appended DEF Assign
  <1>3. Len(pending) \in Nat /\ first \in Nat \ {0} /\ Filled \in Nat
    BY RingTypes DEF Queued
  <1>4. Filled' = Filled /\ Filled = first - 1 - Len(pending)
    BY <1>1, <1>2, <1>3 DEF Filled
  <1>5. /\ assigned'[b] = first /\ limaPtr'[b] = first /\ event'[b] = FALSE
        /\ \A c \in Ring : c # b => /\ assigned'[c] = assigned[c] /\ limaPtr'[c] = limaPtr[c]
                                    /\ event'[c] = event[c]
    BY RingTypes DEF Assign
  <1>6. \A i \in 1 .. Len(pending') : assigned'[pending'[i]] = Filled' + i
    <2> SUFFICES ASSUME NEW i \in 1 .. Len(pending')
                 PROVE  assigned'[pending'[i]] = Filled + i
      BY <1>4
    <2>1. CASE i = Len(pending) + 1
      <3>1. pending'[i] = b
        BY <1>2, <2>1
      <3>2. assigned'[b] = first
        BY <1>5
      <3>3. Filled + i = first
        BY <1>3, <1>4, <2>1
      <3> QED
        BY <3>1, <3>2, <3>3
    <2>2. CASE i \in 1 .. Len(pending)
      <3>1. assigned[pending[i]] = Filled + i /\ pending[i] \in Ring
        BY <2>2, RingTypes DEF Queued
      <3>2. pending[i] # b
        BY <1>3, <2>2, <3>1
      <3> QED
        BY <1>2, <1>5, <2>2, <3>1, <3>2
    <2> QED
      BY <1>2, <1>3, <2>1, <2>2
  <1>7. Queued'
    BY <1>3, <1>4, <1>5, <1>6 DEF Queued
  <1>8. \A c \in Ring : assigned[c] < first /\ assigned[c] \in Nat /\ limaPtr[c] = assigned[c]
    BY RingTypes DEF Numbered
  <1>9. \A c \in Ring : assigned'[c] < first' /\ limaPtr'[c] = assigned'[c]
    <2> SUFFICES ASSUME NEW c \in Ring
                 PROVE  assigned'[c] < first' /\ limaPtr'[c] = assigned'[c]
      OBVIOUS
    <2>1. first' = first + 1 /\ assigned[c] < first /\ limaPtr[c] = assigned[c]
      BY <1>1, <1>8
    <2>2. CASE c = b
      BY <1>3, <1>5, <2>1, <2>2
    <2>3. CASE c # b
      <3>1. assigned'[c] = assigned[c] /\ limaPtr'[c] = limaPtr[c] /\ assigned[c] \in Nat
        BY <1>5, <1>8, <2>3
      <3> QED
        BY <1>3, <2>1, <3>1
    <2> QED
      BY <2>2, <2>3
  <1>10. \A c, d \in Ring : assigned'[c] = assigned'[d] /\ assigned'[c] > 0 => c = d
    <2> SUFFICES ASSUME NEW c \in Ring, NEW d \in Ring, c # d,
                        assigned'[c] = assigned'[d], assigned'[c] > 0
                 PROVE  FALSE
      OBVIOUS
    <2>1. assigned[c] < first /\ assigned[d] < first /\ assigned[c] \in Nat /\ assigned[d] \in Nat
      BY <1>8
    <2>2. CASE c # b /\ d # b
      <3>1. assigned[c] = assigned[d] /\ assigned[c] > 0
        BY <1>5, <2>2
      <3> QED
        BY <3>1 DEF Numbered
    <2>3. CASE c = b \/ d = b
      BY <1>3, <1>5, <2>1, <2>3
    <2> QED
      BY <2>2, <2>3
  <1> QED
    BY <1>1, <1>2, <1>3, <1>4, <1>5, <1>7, <1>9, <1>10

(* The first queued buffer takes an image newer than all the others.         *)
LEMMA FillKeeps ==
    ASSUME TypeOK, Queued, Numbered, Ordered, pending # <<>>,
           Newest \in Nat, Newest' = Newest + 1, Newest' <= taken',
           Fill(Newest + 1), frameIdx \in Nat, NextOut \in Nat \ {0},
           UNCHANGED <<frameIdx, pc, first, ring, ready>>
    PROVE  /\ pending' \in Seq(Ring) /\ event' \in [Ring -> BOOLEAN] /\ content' \in [Ring -> Nat]
           /\ Filled' = Filled + 1 /\ Queued' /\ Ordered'
  <1> DEFINE h == Head(pending)
  <1>1. /\ h \in Ring /\ pending' \in Seq(Ring) /\ h = pending[1]
        /\ Len(pending) \in Nat \ {0} /\ Len(pending') = Len(pending) - 1
        /\ \A n \in 1 .. Len(pending) - 1 : pending'[n] = pending[n + 1]
    BY RingTypes, HeadOff DEF Fill
  <1>2. content' \in [Ring -> Nat] /\ event' \in [Ring -> BOOLEAN]
    BY <1>1, RingTypes DEF Fill
  <1>3. /\ content'[h] = Newest + 1 /\ event'[h] = TRUE
        /\ \A c \in Ring : c # h => content'[c] = content[c] /\ event'[c] = event[c]
    BY <1>1, RingTypes DEF Fill
  <1> HIDE DEF h
  <1>4. assigned' = assigned /\ first' = first /\ ready' = ready /\ NextOut' = NextOut
    BY DEF ring, NextOut
  <1>5. Filled \in Nat /\ Filled' = Filled + 1
    BY <1>1, <1>4, RingTypes DEF Filled, Queued
  <1>6. assigned[h] = Filled + 1
    BY <1>1 DEF Queued
  <1>7. Queued'
    <2>1. \A i \in 1 .. Len(pending') : assigned'[pending'[i]] = Filled' + i
      BY <1>1, <1>4, <1>5 DEF Queued
    <2>2. \A b \in Ring : event'[b] => assigned'[b] \in 1 .. Filled'
      <3> SUFFICES ASSUME NEW b \in Ring, event'[b] PROVE assigned[b] \in 1 .. Filled + 1
        BY <1>4, <1>5
      <3>1. CASE b = h
        BY <1>5, <1>6, <3>1
      <3>2. CASE b # h
        <4>1. event[b]
          BY <1>3, <3>2
        <4>2. assigned[b] \in 1 .. Filled
          BY <4>1 DEF Queued
        <4> QED
          BY <1>5, <4>2
      <3> QED
        BY <3>1, <3>2
    <2> QED
      BY <1>5, <2>1, <2>2 DEF Queued
  <1>8. \A b \in Ring : assigned[b] \in Nat
    BY RingTypes
  <1>9. \A b \in Ring : Waiting(b)' => b = h \/ (b # h /\ Waiting(b) /\ assigned[b] <= Filled)
    <2> SUFFICES ASSUME NEW b \in Ring, Waiting(b)', b # h
                 PROVE  Waiting(b) /\ assigned[b] <= Filled
      OBVIOUS
    <2>1. assigned[b] # assigned[h]
      BY <1>1, <1>5, <1>6, <1>8 DEF Numbered
    <2>2. assigned[b] \in NextOut .. Filled + 1
      BY <1>4, <1>5 DEF Waiting
    <2> QED
      BY <1>5, <1>6, <1>8, <2>1, <2>2 DEF Waiting
  <1>10. \A b \in Ring : Waiting(b) => content[b] \in 1 .. Newest
    BY DEF Ordered
  <1>11. \A b \in Ring : Waiting(b)' => content'[b] \in 1 .. Newest'
    <2> SUFFICES ASSUME NEW b \in Ring, Waiting(b)' PROVE content'[b] \in 1 .. Newest + 1
      OBVIOUS
    <2>1. CASE b = h
      BY <1>3, <2>1
    <2>2. CASE b # h
      BY <1>3, <1>9, <1>10, <2>2
    <2> QED
      BY <2>1, <2>2
  <1>12. \A b, c \in Ring : Waiting(b)' /\ Waiting(c)' /\ assigned'[b] < assigned'[c]
                               => content'[b] < content'[c]
    <2> SUFFICES ASSUME NEW b \in Ring, NEW c \in Ring, Waiting(b)', Waiting(c)',
                        assigned[b] < assigned[c]
                 PROVE  content'[b] < content'[c]
      BY <1>4
    <2>1. b # h
      <3> SUFFICES ASSUME b = h PROVE FALSE
        OBVIOUS
      <3>1. c # h
        BY <1>5, <1>6
      <3>2. assigned[c] <= Filled
        BY <1>9, <3>1
      <3> QED
        BY <1>5, <1>6, <1>8, <3>2
    <2>2. Waiting(b) /\ content[b] \in 1 .. Newest /\ content'[b] = content[b]
      BY <1>3, <1>9, <1>10, <2>1
    <2>3. CASE c = h
      BY <1>3, <2>2, <2>3
    <2>4. CASE c # h
      BY <1>3, <1>9, <2>2, <2>4 DEF Ordered
    <2> QED
      BY <2>3, <2>4
  <1>13. \A k \in 1 .. Len(ready') : ready'[k].image <= Newest'
    <2> SUFFICES ASSUME NEW k \in 1 .. Len(ready) PROVE ready[k].image <= Newest + 1
      BY <1>4
    <2>1. ready[k].image <= Newest /\ ready[k].image \in Int
      BY ReadyTypes DEF Ordered
    <2> QED
      BY <2>1
  <1>14. \A k \in 1 .. Len(ready'), b \in Ring : Waiting(b)' => ready'[k].image < content'[b]
    <2> SUFFICES ASSUME NEW k \in 1 .. Len(ready), NEW b \in Ring, Waiting(b)'
                 PROVE  ready[k].image < content'[b]
      BY <1>4
    <2>1. ready[k].image <= Newest /\ ready[k].image \in Int
      BY ReadyTypes DEF Ordered
    <2>2. CASE b = h
      BY <1>3, <2>1, <2>2
    <2>3. CASE b # h
      BY <1>3, <1>9, <2>3 DEF Ordered
    <2> QED
      BY <2>2, <2>3
  <1>15. Ordered'
    BY <1>11, <1>12, <1>13, <1>14 DEF Ordered
  <1> QED
    BY <1>1, <1>2, <1>5, <1>7, <1>15

(* A step that leaves the ring and the announced frames alone.               *)
LEMMA SameRing ==
    ASSUME Queued, Ordered, NextOut' = NextOut, UNCHANGED <<params, first, ring, sdk, taken, ready>>
    PROVE  Filled' = Filled /\ Queued' /\ Ordered'
  <1>1. Filled' = Filled /\ Newest' = Newest
    BY DEF Filled, Newest, ByNumber, LiveMode, params, sdk
  <1> QED
    BY <1>1 DEF Queued, Ordered, Waiting, ring, sdk

(* The loop is left, or the process ends.                                    *)
LEMMA EndKeeps ==
    ASSUME IInv, pc' \in {"done", "dead"}, ret' \in Statuses \cup {NoRet},
           UNCHANGED <<params, frameIdx, first, idx, bufIdx, polled, ramIdx,
                       ring, sdk, camera, stop, out>>
    PROVE  IInv'
  BY DEF IInv, TypeOK, Announced, FrameHasItsImage, ImagesInOrder, Live, Reading, Readout,
         LiveMode, CamRAM, params, ring, sdk, camera, out

LEMMA InitialAssignKeeps == ASSUME IInv, InitialAssign PROVE IInv'
  <1>1. /\ TypeOK /\ Announced /\ ModesKept /\ Quiet /\ Beginning /\ Numbered /\ Queued
        /\ Ordered /\ Counting
    BY DEF IInv, Live, LoopInv, InitialAssign
  <1>2. pc = "assign" /\ pc' = pc /\ idx < Nrevents /\ first <= RequestedFrames /\ Assign(idx)
        /\ idx' = idx + 1 /\ UNCHANGED <<params, frameIdx, bufIdx, polled, ramIdx, ret, camera, stop, out>>
    BY DEF InitialAssign, MoreToAssign
  <1>3. idx \in Ring /\ idx \in Nat /\ Nrevents \in Nat
    BY <1>1, <1>2, NreventsAssumption DEF TypeOK, Ring
  <1>4. frameIdx = 1 /\ ready = <<>> /\ first = idx + 1 /\ assigned[idx] = 0
        /\ \A b \in Ring : b >= idx => assigned[b] = 0
    BY <1>1, <1>2, <1>3 DEF Beginning
  <1>5. Filled \in Nat
    BY <1>1 DEF Queued
  <1>6. /\ assigned' \in [Ring -> Nat] /\ limaPtr' \in [Ring -> Nat]
        /\ event' \in [Ring -> BOOLEAN] /\ content' = content
        /\ pending' \in Seq(Ring) /\ first' = first + 1 /\ first' \in Nat \ {0}
        /\ Filled' = Filled /\ Filled < first /\ Queued'
        /\ assigned'[idx] = first
        /\ \A c \in Ring : c # idx => assigned'[c] = assigned[c]
        /\ \A c \in Ring : assigned'[c] < first' /\ limaPtr'[c] = assigned'[c]
        /\ \A c, d \in Ring : assigned'[c] = assigned'[d] /\ assigned'[c] > 0 => c = d
    BY <1>1, <1>2, <1>3, <1>4, <1>5, AssignKeeps
  <1>7. TypeOK'
    <2>1. idx' \in 0 .. Nrevents
      BY <1>2, <1>3
    <2>2. /\ mode' \in Modes /\ req' \in Requests /\ recStop' \in RecStops /\ polled' \in Ring
          /\ bufIdx' \in Ring \cup {NoBuf} /\ frameIdx' \in Nat \ {0} /\ ramIdx' \in Int
          /\ ret' \in Statuses \cup {NoRet} /\ stop' \in BOOLEAN
      BY <1>1, <1>2 DEF TypeOK, params
    <2>3. /\ recording' \in BOOLEAN /\ taken' \in Nat /\ acqFrames' \in Nat
          /\ ready' \in Seq([frame : Nat, dest : Nat, image : Int])
          /\ content' \in [Ring -> Nat]
      BY <1>1, <1>2, <1>6 DEF TypeOK, camera, out
    <2> QED
      BY <1>2, <1>6, <2>1, <2>2, <2>3 DEF TypeOK
  <1>8. Announced' /\ Counting' /\ NextOut' = NextOut
    BY <1>1, <1>2 DEF Announced, FrameHasItsImage, ImagesInOrder, Counting, NextOut, out
  <1>9. ModesKept' /\ Quiet'
    BY <1>1, <1>2, <1>6 DEF ModesKept, Quiet, Readout, CamRAM, ByNumber, LiveMode, params, camera
  <1>10. Beginning'
    <2>1. \A b \in Ring : b >= idx + 1 => b # idx /\ b >= idx
      BY <1>3 DEF Ring
    <2> QED
      BY <1>2, <1>4, <1>6, <2>1 DEF Beginning, out
  <1>11. Numbered'
    <2>1. RequestedFrames' = RequestedFrames /\ RequestedFrames \in Nat \ {0}
      BY <1>1, <1>2, RequestedIsPositive DEF RequestedFrames, params
    <2>2. first' <= RequestedFrames' + 1 /\ frameIdx' <= RequestedFrames' + 1
      BY <1>1, <1>2, <1>4, <1>6, <2>1, RingTypes
    <2>3. \A f \in frameIdx' .. first' - 1 : \E b \in Ring : assigned'[b] = f
      <3> SUFFICES ASSUME NEW f \in 1 .. first PROVE \E b \in Ring : assigned'[b] = f
        BY <1>2, <1>4, <1>6
      <3>1. CASE f = first
        BY <1>3, <1>6, <3>1
      <3>2. CASE f # first
        <4>1. f \in frameIdx .. first - 1
          BY <1>1, <1>4, <3>2, RingTypes
        <4>2. PICK b \in Ring : assigned[b] = f
          BY <1>1, <4>1 DEF Numbered
        <4>3. b # idx
          BY <1>4, <4>1, <4>2
        <4> QED
          BY <1>6, <4>2, <4>3
      <3> QED
        BY <3>1, <3>2
    <2> QED
      BY <1>2, <1>6, <2>2, <2>3 DEF Numbered
  <1>12. Ordered'
    <2>1. Newest' = Newest
      BY <1>2, <1>6 DEF Newest, ByNumber, LiveMode, params, camera
    <2>2. \A b \in Ring : Waiting(b)' => Waiting(b) /\ assigned'[b] = assigned[b]
      <3> SUFFICES ASSUME NEW b \in Ring, Waiting(b)' PROVE Waiting(b) /\ assigned'[b] = assigned[b]
        OBVIOUS
      <3>1. assigned'[b] \in NextOut .. Filled
        BY <1>6, <1>8 DEF Waiting
      <3>2. b # idx
        BY <1>1, <1>5, <1>6, <3>1, RingTypes
      <3> QED
        BY <1>6, <3>1, <3>2 DEF Waiting
    <2>3. ready' = ready /\ taken' = taken
      BY <1>2 DEF out, camera
    <2> QED
      BY <1>1, <1>6, <2>1, <2>2, <2>3 DEF Ordered
  <1> QED
    BY <1>2, <1>7, <1>8, <1>9, <1>10, <1>11, <1>12, <1>6 DEF IInv, LoopInv

LEMMA InitialAssignDoneKeeps == ASSUME IInv, InitialAssignDone PROVE IInv'
  <1>1. /\ TypeOK /\ Announced /\ ModesKept /\ Quiet /\ Beginning /\ Numbered /\ Queued
        /\ Ordered /\ Counting
    BY DEF IInv, Live, LoopInv, InitialAssignDone
  <1>2. /\ pc = "assign" /\ (idx = Nrevents \/ first > RequestedFrames)
        /\ pc' = IF mode = "edgeCL" THEN "start" ELSE "loop"
        /\ UNCHANGED <<params, frameIdx, first, idx, bufIdx, polled, ramIdx, ret,
                       ring, sdk, camera, stop, out>>
    BY <1>1, RingTypes, RequestedIsPositive DEF InitialAssignDone, MoreToAssign, RunAfterAssign
  <1>3. NextOut' = NextOut /\ NextOut = frameIdx
    BY <1>2 DEF NextOut
  <1>4. Filled' = Filled /\ Queued' /\ Ordered'
    BY <1>1, <1>2, <1>3, SameRing DEF camera, out
  <1>5. TypeOK' /\ Announced' /\ Counting'
    BY <1>1, <1>2, <1>3
    DEF TypeOK, Announced, FrameHasItsImage, ImagesInOrder, Counting, params, ring, sdk, camera, out
  <1>6. ModesKept' /\ Quiet'
    BY <1>1, <1>2, <1>4 DEF ModesKept, Quiet, Readout, CamRAM, ByNumber, LiveMode, params, camera
  <1>7. Beginning'
    BY <1>1, <1>2 DEF Beginning, out
  <1>8. RequestedFrames \in Nat \ {0} /\ RequestedFrames' = RequestedFrames
    BY <1>1, <1>2, RequestedIsPositive DEF RequestedFrames, params
  <1>9. frameIdx = 1 /\ first = idx + 1 /\ Nrevents \in Nat \ {0} /\ idx \in Nat
    BY <1>1, <1>2, NreventsAssumption DEF Beginning, TypeOK
  <1>10. frameIdx < first
    BY <1>2, <1>8, <1>9
  <1>11. ByNumber => first = RequestedFrames + 1
    <2> SUFFICES ASSUME ByNumber PROVE first = RequestedFrames + 1
      OBVIOUS
    <2>1. req \in Nat
      BY <1>1, RequestsAssumption DEF TypeOK
    <2>2. RequestedFrames = req /\ req <= Nrevents
      BY <1>1, <2>1 DEF ByNumber, LiveMode, ModesKept, RequestedFrames
    <2>3. first <= RequestedFrames + 1
      BY <1>1 DEF Numbered
    <2> QED
      BY <1>2, <1>8, <1>9, <2>2, <2>3
  <1>12. Numbered'
    BY <1>1, <1>2, <1>8, <1>10, <1>11 DEF Numbered, ByNumber, LiveMode, params, ring
  <1> QED
    BY <1>2, <1>4, <1>5, <1>6, <1>7, <1>12 DEF IInv, LoopInv

LEMMA StartRecordingKeeps == ASSUME IInv, StartRecording PROVE IInv'
  <1>1. /\ TypeOK /\ Announced /\ ModesKept /\ Quiet /\ Beginning /\ Numbered /\ Queued
        /\ Ordered /\ Counting
    BY DEF IInv, Live, LoopInv, StartRecording
  <1>2. /\ pc = "start" /\ pc' = "loop" /\ recording' \in BOOLEAN
        /\ UNCHANGED <<params, frameIdx, first, idx, bufIdx, polled, ramIdx, ret,
                       ring, sdk, taken, stop, out>>
    BY DEF StartRecording
  <1>3. NextOut' = NextOut
    BY <1>2 DEF NextOut
  <1>4. Filled' = Filled /\ Queued' /\ Ordered'
    BY <1>1, <1>2, <1>3, SameRing DEF out
  <1>5. TypeOK' /\ Announced' /\ Counting'
    BY <1>1, <1>2, <1>3
    DEF TypeOK, Announced, FrameHasItsImage, ImagesInOrder, Counting, params, ring, sdk, out
  <1>6. mode = "edgeCL" /\ ~recording /\ ~ByNumber
    BY <1>1, <1>2 DEF ModesKept, ByNumber
  <1>7. ModesKept' /\ Quiet' /\ Beginning'
    BY <1>1, <1>2, <1>4, <1>6 DEF ModesKept, Quiet, Beginning, Readout, CamRAM, ByNumber, LiveMode,
                                   params, out
  <1>8. Numbered'
    BY <1>1, <1>2, <1>6 DEF Numbered, ByNumber, LiveMode, RequestedFrames, params, ring
  <1> QED
    BY <1>2, <1>4, <1>5, <1>7, <1>8 DEF IInv, LoopInv

(* The buffer of a frame is found: it has been queued, and for no other.     *)
LEMMA FindBufferKeeps == ASSUME IInv, FindBuffer PROVE IInv'
  <1>1. /\ TypeOK /\ Announced /\ ModesKept /\ Quiet /\ Beginning /\ Numbered /\ Queued
        /\ Ordered /\ Counting
    BY DEF IInv, Live, LoopInv, FindBuffer
  <1>2. /\ pc = "loop" /\ pc' = "poll" /\ frameIdx <= RequestedFrames
        /\ UNCHANGED <<params, frameIdx, first, idx, ramIdx, ret, ring, sdk, camera, stop, out>>
    BY DEF FindBuffer
  <1>3. PICK b \in Ring : assigned[b] = frameIdx
    <2>1. frameIdx \in Nat \ {0} /\ first \in Nat /\ RequestedFrames \in Nat
      BY <1>1, RequestedIsPositive DEF TypeOK
    <2>2. frameIdx \in frameIdx .. first - 1
      BY <1>1, <1>2, <2>1 DEF Numbered
    <2> QED
      BY <1>1, <2>2 DEF Numbered
  <1>4. Holders = {b}
    <2>1. \A c \in Ring : assigned[c] = frameIdx => c = b
      BY <1>1, <1>3 DEF Numbered, TypeOK
    <2> QED
      BY <1>3, <2>1 DEF Holders
  <1>5. b \in Int
    BY NreventsAssumption DEF Ring
  <1>6. bufIdx' = b /\ polled' = b
    <2>1. (CHOOSE x \in {b} : \A c \in {b} : x <= c) = b
      BY <1>5
    <2> QED
      BY <1>4, <2>1 DEF FindBuffer
  <1>7. NextOut' = NextOut
    BY <1>2 DEF NextOut
  <1>8. Filled' = Filled /\ Queued' /\ Ordered'
    BY <1>1, <1>2, <1>7, SameRing DEF camera, out
  <1>9. TypeOK' /\ Announced' /\ Counting'
    BY <1>1, <1>2, <1>6, <1>7
    DEF TypeOK, Announced, FrameHasItsImage, ImagesInOrder, Counting, params, ring, sdk, camera, out
  <1>10. ModesKept' /\ Quiet' /\ Beginning'
    BY <1>1, <1>2, <1>8 DEF ModesKept, Quiet, Beginning, Readout, CamRAM, ByNumber, LiveMode,
                                   params, camera, out
  <1>11. Numbered'
    BY <1>1, <1>2, <1>3, <1>6 DEF Numbered, ByNumber, LiveMode, RequestedFrames, params, ring
  <1> QED
    BY <1>2, <1>8, <1>9, <1>10, <1>11 DEF IInv, LoopInv

LEMMA EventFiredKeeps == ASSUME IInv, EventFired PROVE IInv'
  <1>1. /\ TypeOK /\ Announced /\ ModesKept /\ Quiet /\ Beginning /\ Numbered /\ Queued
        /\ Ordered /\ Counting
    BY DEF IInv, Live, LoopInv, EventFired
  <1>2. /\ pc = "poll" /\ pc' = "copy" /\ event[polled]
        /\ UNCHANGED <<params, frameIdx, first, idx, bufIdx, polled, ramIdx, ret,
                       ring, sdk, camera, stop, out>>
    BY DEF EventFired
  <1>3. bufIdx \in Ring /\ assigned[bufIdx] = frameIdx /\ event[bufIdx]
    BY <1>1, <1>2 DEF Numbered
  <1>4. frameIdx \in 1 .. Filled
    BY <1>1, <1>3 DEF Queued
  <1>5. frameIdx <= Filled /\ Filled # 0
    BY <1>1, <1>4 DEF Queued
  <1>6. NextOut' = NextOut
    BY <1>2 DEF NextOut
  <1>7. Filled' = Filled /\ Queued' /\ Ordered'
    BY <1>1, <1>2, <1>6, SameRing DEF camera, out
  <1>8. TypeOK' /\ Announced' /\ Counting'
    BY <1>1, <1>2, <1>6
    DEF TypeOK, Announced, FrameHasItsImage, ImagesInOrder, Counting, params, ring, sdk, camera, out
  <1>9. ModesKept' /\ Quiet' /\ Beginning'
    BY <1>1, <1>2, <1>5, <1>7 DEF ModesKept, Quiet, Beginning, Readout, CamRAM, ByNumber, LiveMode,
                                   params, camera, out
  <1>10. Numbered'
    BY <1>1, <1>2, <1>5, <1>7 DEF Numbered, ByNumber, LiveMode, RequestedFrames, params, ring
  <1> QED
    BY <1>2, <1>7, <1>8, <1>9, <1>10 DEF IInv, LoopInv

(* The frame announced is the one of its buffer, and its image is older than *)
(* those that wait.                                                          *)
LEMMA Buff2LimaKeeps == ASSUME IInv, Buff2Lima PROVE IInv'
  <1>1. /\ TypeOK /\ Announced /\ ModesKept /\ Quiet /\ Beginning /\ Numbered /\ Queued
        /\ Ordered /\ Counting
    BY DEF IInv, Live, LoopInv, Buff2Lima
  <1> DEFINE x == Announcement(bufIdx)
             n == Len(ready)
  <1>2. /\ pc = "copy" /\ pc' = "recycle" /\ ready' = Append(ready, x)
        /\ UNCHANGED <<params, frameIdx, first, idx, bufIdx, polled, ramIdx, ret,
                       ring, sdk, camera, stop, acqFrames>>
    BY DEF Buff2Lima
  <1>3. /\ bufIdx \in Ring /\ assigned[bufIdx] = frameIdx /\ limaPtr[bufIdx] = frameIdx
        /\ frameIdx <= Filled /\ frameIdx \in Nat \ {0} /\ Filled \in Nat
    BY <1>1, <1>2 DEF Numbered, Queued, TypeOK
  <1>4. NextOut = frameIdx /\ NextOut' = frameIdx + 1 /\ n = frameIdx - 1
    BY <1>1, <1>2 DEF NextOut, Counting
  <1>5. Waiting(bufIdx) /\ content[bufIdx] \in 1 .. Newest /\ Newest' = Newest /\ Filled' = Filled
    BY <1>1, <1>2, <1>3, <1>4
    DEF Waiting, Ordered, Newest, Filled, ByNumber, LiveMode, params, sdk, camera
  <1>6. Newest \in Int
    BY <1>1, <1>3 DEF Newest, TypeOK
  <1>7. /\ x.frame = frameIdx /\ x.dest = frameIdx /\ x.image = content[bufIdx]
        /\ x \in [frame : Nat, dest : Nat, image : Int]
    BY <1>3, <1>5, <1>6 DEF Announcement
  <1> HIDE DEF x
  <1>8. ready \in Seq([frame : Nat, dest : Nat, image : Int]) /\ n \in Nat
    BY <1>1, ReadyTypes
  <1>9. /\ ready' \in Seq([frame : Nat, dest : Nat, image : Int]) /\ Len(ready') = n + 1
        /\ \A k \in 1 .. n : ready'[k] = ready[k]
        /\ ready'[n + 1] = x
    <2> DEFINE S == [frame : Nat, dest : Nat, image : Int]
    <2> HIDE DEF S
    <2>1. ready \in Seq(S) /\ x \in S
      BY <1>7, <1>8 DEF S
    <2>2. Append(ready, x) \in Seq(S) /\ Len(Append(ready, x)) = n + 1
          /\ (\A k \in 1 .. n : Append(ready, x)[k] = ready[k]) /\ Append(ready, x)[n + 1] = x
      BY <2>1, Appended
    <2> QED
      BY <1>2, <2>2 DEF S
  <1> HIDE DEF n
  <1>10. TypeOK'
    BY <1>1, <1>2, <1>9 DEF TypeOK, params, ring, sdk, camera
  <1>11. FrameHasItsImage'
    <2> SUFFICES ASSUME NEW k \in 1 .. n + 1
                 PROVE  ready'[k].dest = ready'[k].frame /\ ready'[k].image > 0
      BY <1>9 DEF FrameHasItsImage
    <2>1. CASE k = n + 1
      <3>1. content[bufIdx] > 0
        BY <1>5, <1>6
      <3> QED
        BY <1>7, <1>9, <2>1, <3>1
    <2>2. CASE k \in 1 .. n
      BY <1>1, <1>9, <2>2 DEF Announced, FrameHasItsImage, n
    <2> QED
      BY <1>8, <2>1, <2>2 DEF n
  <1>12. \A k \in 1 .. n : ready[k].image < x.image
    BY <1>1, <1>3, <1>5, <1>7 DEF Ordered, n
  <1>13. ImagesInOrder'
    <2> SUFFICES ASSUME NEW j \in 1 .. n + 1, NEW k \in 1 .. n + 1, j < k
                 PROVE  ready'[j].image < ready'[k].image
      BY <1>9 DEF ImagesInOrder
    <2>1. j \in 1 .. n
      BY <1>8 DEF n
    <2>2. CASE k = n + 1
      BY <1>9, <1>12, <2>1, <2>2
    <2>3. CASE k \in 1 .. n
      BY <1>1, <1>9, <2>1, <2>3 DEF Announced, ImagesInOrder, n
    <2> QED
      BY <1>8, <2>2, <2>3 DEF n
  <1>14. Counting'
    BY <1>1, <1>2, <1>3, <1>4, <1>9 DEF Counting
  <1>15. ModesKept' /\ Quiet' /\ Beginning'
    BY <1>1, <1>2, <1>5 DEF ModesKept, Quiet, Beginning, Readout, CamRAM, ByNumber, LiveMode,
                                   params, camera
  <1>16. Numbered'
    BY <1>1, <1>2, <1>5 DEF Numbered, ByNumber, LiveMode, RequestedFrames, params, ring
  <1>17. Queued'
    BY <1>1, <1>2, <1>5 DEF Queued, ring, sdk
  <1>18. Ordered'
    <2>1. \A b \in Ring : Waiting(b)' => Waiting(b) /\ assigned[b] > frameIdx
      <3> SUFFICES ASSUME NEW b \in Ring, Waiting(b)' PROVE Waiting(b) /\ assigned[b] > frameIdx
        OBVIOUS
      <3>1. assigned[b] \in frameIdx + 1 .. Filled
        BY <1>2, <1>4, <1>5 DEF Waiting, ring
      <3> QED
        BY <1>3, <1>4, <3>1 DEF Waiting
    <2>2. content' = content /\ assigned' = assigned /\ taken' = taken
      BY <1>2 DEF sdk, ring, camera
    <2>3. \A b \in Ring : Waiting(b)' => content'[b] \in 1 .. Newest'
      BY <1>1, <1>5, <2>1, <2>2 DEF Ordered
    <2>4. \A b, c \in Ring : Waiting(b)' /\ Waiting(c)' /\ assigned'[b] < assigned'[c]
                                => content'[b] < content'[c]
      BY <1>1, <2>1, <2>2 DEF Ordered
    <2>5. \A k \in 1 .. n + 1 : ready'[k].image <= Newest
      <3> SUFFICES ASSUME NEW k \in 1 .. n + 1 PROVE ready'[k].image <= Newest
        OBVIOUS
      <3>1. CASE k = n + 1
        BY <1>5, <1>6, <1>7, <1>9, <3>1
      <3>2. CASE k \in 1 .. n
        BY <1>1, <1>9, <3>2 DEF Ordered, n
      <3> QED
        BY <1>8, <3>1, <3>2 DEF n
    <2>6. \A k \in 1 .. n + 1, b \in Ring : Waiting(b)' => ready'[k].image < content'[b]
      <3> SUFFICES ASSUME NEW k \in 1 .. n + 1, NEW b \in Ring, Waiting(b)'
                   PROVE  ready'[k].image < content[b]
        BY <2>2
      <3>1. Waiting(b) /\ assigned[b] > frameIdx
        BY <2>1
      <3>2. CASE k = n + 1
        <4>1. content[bufIdx] < content[b]
          BY <1>1, <1>3, <1>5, <3>1 DEF Ordered
        <4> QED
          BY <1>7, <1>9, <3>2, <4>1
      <3>3. CASE k \in 1 .. n
        BY <1>1, <1>9, <3>1, <3>3 DEF Ordered, n
      <3> QED
        BY <1>8, <3>2, <3>3 DEF n
    <2>7. Newest' <= taken'
      BY <1>1, <1>5, <2>2 DEF Ordered
    <2> QED
      BY <1>5, <1>9, <2>3, <2>4, <2>5, <2>6, <2>7 DEF Ordered
  <1> QED
    BY <1>2, <1>10, <1>11, <1>13, <1>14, <1>15, <1>16, <1>17, <1>18 DEF IInv, LoopInv, Announced

(* Going on to the next frame: its buffer is in the ring, unless all frames  *)
(* have been announced.                                                      *)
LEMMA NextFrameKeeps ==
    ASSUME IInv, pc = "recycle", NextFrame,
           UNCHANGED <<params, idx, bufIdx, polled, ramIdx, ret, camera, stop, ready>>
    PROVE  /\ pc' \in {"loop", "ram"} /\ NextOut' = NextOut /\ NextOut = frameIdx + 1
           /\ frameIdx' = frameIdx + 1 /\ frameIdx \in Nat \ {0} /\ acqFrames' = frameIdx
           /\ RequestedFrames' = RequestedFrames /\ RequestedFrames \in Nat \ {0}
           /\ Announced' /\ Counting' /\ ModesKept' /\ Beginning' /\ Quiet'
           /\ bufIdx \in Ring /\ assigned[bufIdx] = frameIdx /\ frameIdx <= Filled
           /\ frameIdx < first /\ frameIdx <= RequestedFrames /\ Filled \in Nat
  <1>1. /\ TypeOK /\ Announced /\ ModesKept /\ Quiet /\ Beginning /\ Numbered /\ Queued
        /\ Ordered /\ Counting
    BY DEF IInv, Live, LoopInv
  <1>2. /\ pc' \in {"loop", "ram"} /\ frameIdx' = frameIdx + 1 /\ acqFrames' = frameIdx
        /\ frameIdx \in Nat \ {0} /\ NextOut' = NextOut /\ NextOut = frameIdx + 1
        /\ pc' = "ram" => Readout
    BY <1>1 DEF NextFrame, TypeOK, NextOut, Readout
  <1>3. RequestedFrames' = RequestedFrames /\ RequestedFrames \in Nat \ {0}
    BY <1>1, RequestedIsPositive DEF RequestedFrames, params
  <1>4. bufIdx \in Ring /\ assigned[bufIdx] = frameIdx /\ frameIdx <= Filled
        /\ frameIdx <= RequestedFrames /\ Filled \in Nat
    BY <1>1 DEF Numbered, Queued
  <1>5. assigned[bufIdx] < first
    BY <1>1, <1>4 DEF Numbered
  <1>6. Announced' /\ Counting' /\ ModesKept' /\ Beginning'
    BY <1>1, <1>2
    DEF Announced, FrameHasItsImage, ImagesInOrder, Counting, ModesKept, Beginning, Readout,
        LiveMode, CamRAM, params, camera
  <1>7. Quiet'
    <2>1. recording \/ ByNumber
      BY <1>1 DEF Quiet
    <2> QED
      BY <2>1 DEF Quiet, ByNumber, LiveMode, params, camera
  <1> QED
    BY <1>2, <1>3, <1>4, <1>5, <1>6, <1>7

LEMMA ReassignKeeps == ASSUME IInv, Reassign PROVE IInv'
  <1>1. /\ TypeOK /\ Announced /\ ModesKept /\ Quiet /\ Beginning /\ Numbered /\ Queued
        /\ Ordered /\ Counting
    BY DEF IInv, Live, LoopInv, Reassign
  <1>2. /\ pc = "recycle" /\ first <= RequestedFrames /\ Assign(bufIdx) /\ NextFrame
        /\ UNCHANGED <<params, idx, bufIdx, polled, ramIdx, ret, camera, stop, ready>>
    BY DEF Reassign, MoreToAssign
  <1>3. /\ pc' \in {"loop", "ram"} /\ NextOut' = NextOut /\ NextOut = frameIdx + 1
        /\ frameIdx' = frameIdx + 1 /\ frameIdx \in Nat \ {0} /\ acqFrames' = frameIdx
        /\ RequestedFrames' = RequestedFrames /\ RequestedFrames \in Nat \ {0}
        /\ Announced' /\ Counting' /\ ModesKept' /\ Beginning' /\ Quiet'
        /\ bufIdx \in Ring /\ assigned[bufIdx] = frameIdx /\ frameIdx <= Filled
        /\ frameIdx < first /\ frameIdx <= RequestedFrames /\ Filled \in Nat
    BY <1>2, NextFrameKeeps
  <1>4. /\ assigned' \in [Ring -> Nat] /\ limaPtr' \in [Ring -> Nat]
        /\ event' \in [Ring -> BOOLEAN] /\ content' = content
        /\ pending' \in Seq(Ring) /\ first' = first + 1 /\ first' \in Nat \ {0}
        /\ Filled' = Filled /\ Filled < first /\ Queued'
        /\ assigned'[bufIdx] = first
        /\ \A c \in Ring : c # bufIdx => assigned'[c] = assigned[c]
        /\ \A c \in Ring : assigned'[c] < first' /\ limaPtr'[c] = assigned'[c]
        /\ \A c, d \in Ring : assigned'[c] = assigned'[d] /\ assigned'[c] > 0 => c = d
    BY <1>1, <1>2, <1>3, AssignKeeps
  <1>5. TypeOK'
    <2>1. pc' \in {"assign", "start", "loop", "poll", "copy", "recycle", "ram", "ramread", "done", "dead"}
      BY <1>3
    <2>2. frameIdx' \in Nat \ {0} /\ acqFrames' \in Nat
      BY <1>3
    <2> QED
      BY <1>1, <1>2, <1>4, <2>1, <2>2 DEF TypeOK, params, camera
  <1>6. first \in Nat \ {0}
    BY <1>1, RingTypes
  <1>7. Numbered'
    <2>1. first' <= RequestedFrames' + 1 /\ frameIdx' <= RequestedFrames' + 1 /\ frameIdx' < first'
      BY <1>2, <1>3, <1>4, <1>6
    <2>2. \A f \in frameIdx' .. first' - 1 : \E b \in Ring : assigned'[b] = f
      <3> SUFFICES ASSUME NEW f \in frameIdx + 1 .. first PROVE \E b \in Ring : assigned'[b] = f
        BY <1>3, <1>4, <1>6
      <3>1. CASE f = first
        BY <1>3, <1>4, <3>1
      <3>2. CASE f # first
        <4>1. f \in frameIdx .. first - 1 /\ f # frameIdx
          BY <1>3, <1>6, <3>2
        <4>2. PICK b \in Ring : assigned[b] = f
          BY <1>1, <4>1 DEF Numbered
        <4> QED
          BY <1>3, <1>4, <4>1, <4>2
      <3> QED
        BY <3>1, <3>2
    <2>3. ~ByNumber'
      <3>1. first # RequestedFrames + 1
        BY <1>2, <1>3, <1>6
      <3> QED
        BY <1>1, <1>2, <3>1 DEF Numbered, ByNumber, LiveMode, params
    <2> QED
      BY <1>3, <1>4, <2>1, <2>2, <2>3 DEF Numbered
  <1>8. Ordered'
    <2>1. Newest' = Newest
      BY <1>2, <1>4 DEF Newest, ByNumber, LiveMode, params, camera
    <2>2. \A b \in Ring : Waiting(b)' => Waiting(b) /\ assigned'[b] = assigned[b]
      <3> SUFFICES ASSUME NEW b \in Ring, Waiting(b)' PROVE Waiting(b) /\ assigned'[b] = assigned[b]
        OBVIOUS
      <3>1. assigned'[b] \in NextOut .. Filled
        BY <1>3, <1>4 DEF Waiting
      <3>2. b # bufIdx
        BY <1>3, <1>4, <1>6, <3>1
      <3> QED
        BY <1>4, <3>1, <3>2 DEF Waiting
    <2>3. ready' = ready /\ taken' = taken
      BY <1>2 DEF camera
    <2> QED
      BY <1>1, <1>4, <2>1, <2>2, <2>3 DEF Ordered
  <1> QED
    BY <1>3, <1>4, <1>5, <1>7, <1>8 DEF IInv, LoopInv

(* A camera that does not record has no frame left to assign.                *)
LEMMA ReassignIgnoredKeeps == ASSUME IInv, ReassignIgnored PROVE IInv'
  <1>1. TypeOK /\ Quiet /\ Numbered
    BY DEF IInv, Live, LoopInv, ReassignIgnored
  <1>2. ByNumber /\ first <= RequestedFrames
    BY <1>1 DEF ReassignIgnored, Quiet, MoreToAssign
  <1>3. first = RequestedFrames + 1
    BY <1>1, <1>2 DEF Numbered, ReassignIgnored
  <1> QED
    BY <1>1, <1>2, <1>3, RequestedIsPositive

LEMMA ResetBufferEventKeeps == ASSUME IInv, ResetBufferEvent PROVE IInv'
  <1>1. /\ TypeOK /\ Announced /\ ModesKept /\ Quiet /\ Beginning /\ Numbered /\ Queued
        /\ Ordered /\ Counting
    BY DEF IInv, Live, LoopInv, ResetBufferEvent
  <1>2. /\ pc = "recycle" /\ ~(first <= RequestedFrames) /\ NextFrame
        /\ event' = [event EXCEPT ![bufIdx] = FALSE]
        /\ UNCHANGED <<params, first, idx, bufIdx, polled, ramIdx, ret,
                       ring, pending, content, camera, stop, ready>>
    BY DEF ResetBufferEvent, MoreToAssign
  <1>3. /\ pc' \in {"loop", "ram"} /\ NextOut' = NextOut /\ NextOut = frameIdx + 1
        /\ frameIdx' = frameIdx + 1 /\ frameIdx \in Nat \ {0} /\ acqFrames' = frameIdx
        /\ RequestedFrames' = RequestedFrames /\ RequestedFrames \in Nat \ {0}
        /\ Announced' /\ Counting' /\ ModesKept' /\ Beginning' /\ Quiet'
        /\ bufIdx \in Ring /\ frameIdx <= RequestedFrames
    BY <1>2, NextFrameKeeps
  <1>4. event' \in [Ring -> BOOLEAN] /\ \A b \in Ring : event'[b] => event[b]
    BY <1>1, <1>2, <1>3, RingTypes
  <1>5. TypeOK'
    BY <1>1, <1>2, <1>3, <1>4 DEF TypeOK, params, ring, camera
  <1>6. Filled' = Filled /\ Newest' = Newest
    BY <1>2 DEF Filled, Newest, ByNumber, LiveMode, params, camera
  <1>7. Queued'
    BY <1>1, <1>2, <1>4, <1>6 DEF Queued, ring
  <1>8. Ordered'
    BY <1>1, <1>2, <1>3, <1>6 DEF Ordered, Waiting, ring, camera
  <1>9. Numbered'
    <2>1. first = RequestedFrames + 1 /\ frameIdx + 1 <= RequestedFrames + 1
      BY <1>1, <1>2, <1>3, RingTypes DEF Numbered
    <2>2. \A f \in frameIdx + 1 .. first - 1 : f \in frameIdx .. first - 1
      BY <1>3, <2>1
    <2> QED
      BY <1>1, <1>2, <1>3, <2>1, <2>2 DEF Numbered, ByNumber, LiveMode, params, ring
  <1> QED
    BY <1>3, <1>5, <1>7, <1>8, <1>9 DEF IInv, LoopInv

(* What a filled buffer leaves as it was.                                    *)
LEMMA FilledKeeps ==
    ASSUME IInv, Live, Filled' = Filled + 1, ~ByNumber => recording,
           taken' \in Nat, taken' <= MaxImages,
           pending' \in Seq(Ring), event' \in [Ring -> BOOLEAN], content' \in [Ring -> Nat],
           Queued', Ordered', Unchanged_sdk_env
    PROVE  IInv'
  <1>1. /\ TypeOK /\ Announced /\ ModesKept /\ Quiet /\ Beginning /\ Numbered /\ Queued
        /\ Ordered /\ Counting
    BY DEF IInv, LoopInv
  <1>2. UNCHANGED <<params, pc, frameIdx, first, idx, bufIdx, polled, ramIdx,
                    ret, ring, recording, stop, out>>
    BY DEF Unchanged_sdk_env
  <1>3. TypeOK'
    BY <1>1, <1>2 DEF TypeOK, params, ring, out
  <1>4. Announced' /\ Counting' /\ ModesKept' /\ Quiet' /\ Beginning'
    BY <1>1, <1>2
    DEF Announced, FrameHasItsImage, ImagesInOrder, Counting, NextOut, ModesKept, Quiet, Beginning,
        Readout, CamRAM, ByNumber, LiveMode, params, ring, out
  <1>5. Numbered'
    <2>1. Filled \in Nat /\ frameIdx \in Nat
      BY <1>1 DEF Queued, TypeOK
    <2>2. frameIdx <= Filled => frameIdx <= Filled'
      BY <2>1
    <2> QED
      BY <1>1, <1>2, <2>2 DEF Numbered, ByNumber, LiveMode, RequestedFrames, params, ring
  <1> QED
    BY <1>2, <1>3, <1>4, <1>5 DEF IInv, LoopInv, Live

(* A new image goes to the oldest frame in the queue.                        *)
LEMMA ExposeKeeps == ASSUME IInv, Expose PROVE IInv'
  <1>1. /\ TypeOK /\ Announced /\ ModesKept /\ Quiet /\ Beginning /\ Numbered /\ Queued
        /\ Ordered /\ Counting /\ Live
    BY DEF IInv, Live, LoopInv, Reading, Expose
  <1>2. /\ recording /\ taken < MaxImages /\ pending # <<>> /\ taken' = taken + 1
        /\ Fill(taken + 1) /\ Unchanged_sdk_env
    BY DEF Expose
  <1>3. ~ByNumber /\ taken \in Nat /\ MaxImages \in Nat /\ frameIdx \in Nat \ {0}
    BY <1>1, <1>2, BoundsAssumption DEF ByNumber, ModesKept, TypeOK
  <1>4. UNCHANGED <<params, frameIdx, pc, first, ring, ready>>
    BY <1>2 DEF Unchanged_sdk_env, out
  <1>5. Newest = taken /\ Newest' = taken'
    BY <1>3, <1>4 DEF Newest, ByNumber, LiveMode, params
  <1>6. NextOut \in Nat \ {0}
    BY <1>3 DEF NextOut
  <1>7. /\ pending' \in Seq(Ring) /\ event' \in [Ring -> BOOLEAN] /\ content' \in [Ring -> Nat]
        /\ Filled' = Filled + 1 /\ Queued' /\ Ordered'
    BY <1>1, <1>2, <1>3, <1>4, <1>5, <1>6, FillKeeps
  <1> QED
    BY <1>1, <1>2, <1>3, <1>7, FilledKeeps

(* A recorded image goes to the frame it was asked for.                      *)
LEMMA ReadOutKeeps == ASSUME IInv, ReadOut PROVE IInv'
  <1>1. /\ TypeOK /\ Announced /\ ModesKept /\ Quiet /\ Beginning /\ Numbered /\ Queued
        /\ Ordered /\ Counting /\ Live
    BY DEF IInv, Live, LoopInv, Reading, Readout, ByNumber, ReadOut
  <1>2. /\ ByNumber /\ pending # <<>> /\ assigned[Head(pending)] <= taken
        /\ Fill(assigned[Head(pending)]) /\ taken' = taken /\ Unchanged_sdk_env
    BY DEF ReadOut
  <1>3. Head(pending) = pending[1] /\ Len(pending) \in Nat \ {0}
    BY <1>1, <1>2, RingTypes, HeadOff
  <1>4. assigned[Head(pending)] = Filled + 1 /\ Filled \in Nat
    BY <1>1, <1>3 DEF Queued
  <1>5. taken \in Nat /\ taken <= MaxImages /\ frameIdx \in Nat \ {0}
    BY <1>1 DEF ModesKept, TypeOK
  <1>6. UNCHANGED <<params, frameIdx, pc, first, ring, ready>>
    BY <1>2 DEF Unchanged_sdk_env, out
  <1>7. NextOut \in Nat \ {0}
    BY <1>5 DEF NextOut
  <1>8. Newest = Filled /\ Newest' = Filled' /\ ByNumber'
    BY <1>2, <1>6 DEF Newest, ByNumber, LiveMode, params
  <1>9. Filled' = Filled + 1
    <2>1. Len(pending') = Len(pending) - 1
      BY <1>1, <1>2, RingTypes, HeadOff DEF Fill
    <2>2. first' = first /\ first \in Nat
      BY <1>1, <1>6, RingTypes
    <2> QED
      BY <1>3, <2>1, <2>2 DEF Filled
  <1>10. /\ pending' \in Seq(Ring) /\ event' \in [Ring -> BOOLEAN] /\ content' \in [Ring -> Nat]
         /\ Queued' /\ Ordered'
    BY <1>1, <1>2, <1>4, <1>5, <1>6, <1>7, <1>8, <1>9, FillKeeps
  <1> QED
    BY <1>1, <1>2, <1>5, <1>9, <1>10, FilledKeeps

(* An image that finds no buffer is lost, and the ones after it are newer.   *)
LEMMA ExposeLostKeeps == ASSUME IInv, ExposeLost PROVE IInv'
  <1>1. /\ TypeOK /\ Announced /\ ModesKept /\ Quiet /\ Beginning /\ Numbered /\ Queued
        /\ Ordered /\ Counting /\ Live
    BY DEF IInv, Live, LoopInv, Reading, ExposeLost
  <1>2. /\ recording /\ taken < MaxImages /\ taken' = taken + 1 /\ UNCHANGED sdk
        /\ UNCHANGED <<params, pc, frameIdx, first, idx, bufIdx, polled, ramIdx,
                       ret, ring, recording, stop, out>>
    BY DEF ExposeLost, Unchanged_sdk_env
  <1>3. ~ByNumber /\ taken \in Nat /\ MaxImages \in Nat
    BY <1>1, <1>2, BoundsAssumption DEF ByNumber, ModesKept, TypeOK
  <1>4. Filled' = Filled /\ Newest = taken /\ Newest' = taken + 1 /\ NextOut' = NextOut
    BY <1>2, <1>3 DEF Filled, Newest, NextOut, ByNumber, LiveMode, params, sdk
  <1>5. TypeOK'
    BY <1>1, <1>2, <1>3 DEF TypeOK, params, ring, sdk, out
  <1>6. Announced' /\ Counting' /\ ModesKept' /\ Quiet' /\ Beginning'
    BY <1>1, <1>2, <1>3, <1>4
    DEF Announced, FrameHasItsImage, ImagesInOrder, Counting, ModesKept, Quiet, Beginning,
        Readout, CamRAM, LiveMode, params, ring, out
  <1>7. Numbered' /\ Queued'
    BY <1>1, <1>2, <1>4 DEF Numbered, Queued, ByNumber, LiveMode, RequestedFrames, params, ring, sdk
  <1>8. Ordered'
    <2>1. ready' = ready /\ content' = content /\ assigned' = assigned
      BY <1>2 DEF out, sdk, ring
    <2>2. \A b \in Ring : Waiting(b)' => Waiting(b)
      BY <1>4, <2>1 DEF Waiting
    <2>3. \A b \in Ring : Waiting(b)' => content'[b] \in 1 .. Newest'
      BY <1>1, <1>3, <1>4, <2>1, <2>2 DEF Ordered
    <2>4. \A k \in 1 .. Len(ready) : ready[k].image <= taken + 1
      <3> SUFFICES ASSUME NEW k \in 1 .. Len(ready) PROVE ready[k].image <= taken + 1
        OBVIOUS
      <3>1. ready[k].image <= taken /\ ready[k].image \in Int
        BY <1>1, <1>4, ReadyTypes DEF Ordered
      <3> QED
        BY <1>3, <3>1
    <2>5. Newest' <= taken'
      BY <1>2, <1>3, <1>4
    <2> QED
      BY <1>1, <1>4, <2>1, <2>2, <2>3, <2>4, <2>5 DEF Ordered
  <1> QED
    BY <1>1, <1>2, <1>5, <1>6, <1>7, <1>8 DEF IInv, LoopInv, Live

(* A step that changes nothing but the stop request.                         *)
LEMMA StopKeeps ==
    ASSUME IInv, stop' \in BOOLEAN,
           UNCHANGED <<params, pc, frameIdx, first, idx, bufIdx, polled, ramIdx, ret,
                       ring, sdk, camera, out>>
    PROVE  IInv'
  <1>1. NextOut' = NextOut /\ Live' = Live /\ Readout' = Readout
    BY DEF NextOut, Live, Readout, LiveMode, CamRAM, params
  <1>2. TypeOK' /\ Announced' = Announced /\ (pc' = "ramread" => Reading')
    BY <1>1 DEF IInv, TypeOK, Announced, FrameHasItsImage, ImagesInOrder, Reading, params, ring, sdk,
                camera, out
  <1>3. CASE ~Live
    BY <1>1, <1>2, <1>3 DEF IInv
  <1>4. CASE Live
    <2>1. /\ TypeOK /\ ModesKept /\ Quiet /\ Beginning /\ Numbered /\ Queued
          /\ Ordered /\ Counting
      BY <1>4 DEF IInv, LoopInv
    <2>2. Filled' = Filled /\ Queued' /\ Ordered'
      BY <1>1, <2>1, SameRing DEF camera, out
    <2>3. ModesKept'
      BY <1>1, <2>1 DEF ModesKept, params, camera
    <2>4. Quiet'
      BY <2>1, <2>2 DEF Quiet, ByNumber, LiveMode, params, camera
    <2>5. Beginning' /\ Counting'
      BY <1>1, <2>1 DEF Beginning, Counting, ring, out
    <2>6. Numbered'
      BY <2>1, <2>2 DEF Numbered, ByNumber, LiveMode, RequestedFrames, params, ring
    <2> QED
      BY <1>1, <1>2, <1>4, <2>2, <2>3, <2>4, <2>5, <2>6 DEF IInv, LoopInv
  <1> QED
    BY <1>3, <1>4

(* The readout of the RAM gives up the ring.                                 *)
LEMMA RamStartKeeps == ASSUME IInv, RamStart PROVE IInv'
  <1>1. TypeOK /\ Readout /\ Counting /\ pc = "ram" /\ pc' = "ramread"
    BY DEF IInv, Live, LoopInv, ModesKept, RamStart
  <1>2. RequestedFrames \in Nat /\ frameIdx \in Nat /\ taken \in Nat
    BY <1>1, RequestedIsPositive DEF TypeOK
  <1>3. ramIdx' \in Nat
    BY <1>2 DEF RamStart
  <1>4. /\ recording' = FALSE /\ pending' = <<>> /\ bufIdx' = 0
        /\ UNCHANGED <<params, frameIdx, first, idx, polled, ret, ring, event, content,
                       taken, stop, out>>
    BY DEF RamStart
  <1>5. TypeOK'
    <2>1. 0 \in Ring /\ pending' \in Seq(Ring)
      BY <1>4, NreventsAssumption DEF Ring
    <2>2. recording' \in BOOLEAN /\ ramIdx' \in Int /\ bufIdx' \in Ring \cup {NoBuf}
      <3>1. recording' \in BOOLEAN
        BY <1>4
      <3>2. ramIdx' \in Int
        BY <1>3
      <3>3. bufIdx' = 0
        BY <1>4
      <3> QED
        BY <2>1, <3>1, <3>2, <3>3
    <2>3. /\ mode' \in Modes /\ req' \in Requests /\ recStop' \in RecStops /\ polled' \in Ring
          /\ frameIdx' \in Nat \ {0} /\ first' \in Nat \ {0} /\ idx' \in 0 .. Nrevents
          /\ ret' \in Statuses \cup {NoRet} /\ stop' \in BOOLEAN /\ taken' \in Nat
      BY <1>1, <1>4 DEF TypeOK, params
    <2>4. /\ assigned' \in [Ring -> Nat] /\ limaPtr' \in [Ring -> Nat]
          /\ event' \in [Ring -> BOOLEAN] /\ content' \in [Ring -> Nat]
          /\ ready' \in Seq([frame : Nat, dest : Nat, image : Int]) /\ acqFrames' \in Nat
      BY <1>1, <1>4 DEF TypeOK, ring, out
    <2> QED
      BY <1>1, <2>1, <2>2, <2>3, <2>4 DEF TypeOK
  <1>6. Readout' /\ Reading'
    BY <1>1, <1>3, <1>4 DEF Readout, Reading, LiveMode, CamRAM, Counting, params
  <1> QED
    BY <1>1, <1>5, <1>6 DEF IInv, Live

LEMMA RamReadKeeps == ASSUME IInv, RamRead PROVE IInv'
  <1>1. TypeOK /\ Reading /\ pc = "ramread" /\ pc' = pc /\ ramIdx \in Nat /\ taken \in Nat
    BY DEF IInv, Reading, RamRead, TypeOK
  <1> DEFINE image == IF ramIdx = 0 THEN taken ELSE ramIdx
             x == [Announcement(0) EXCEPT !.image = content'[0]]
  <1>2. /\ content' = [content EXCEPT ![0] = image]
        /\ ready' = IF stop THEN ready ELSE Append(ready, x)
        /\ ramIdx' = ramIdx + 1
        /\ UNCHANGED <<params, frameIdx, first, idx, bufIdx, polled, ret,
                       ring, pending, event, camera, stop, acqFrames>>
    BY DEF RamRead
  <1>3. 0 \in Ring /\ image \in Nat
    BY <1>1, NreventsAssumption DEF Ring
  <1>4. content' \in [Ring -> Nat] /\ content'[0] \in Nat
    BY <1>1, <1>2, <1>3, RingTypes
  <1>5. x \in [frame : Nat, dest : Nat, image : Int]
    <2>1. frameIdx \in Nat /\ limaPtr[0] \in Nat
      BY <1>1, <1>3 DEF TypeOK
    <2> QED
      BY <1>3, <1>4, <2>1 DEF Announcement
  <1> HIDE DEF x, image
  <1>6. ready' \in Seq([frame : Nat, dest : Nat, image : Int])
    BY <1>1, <1>2, <1>5, ReadyTypes, Appended
  <1>7. TypeOK'
    BY <1>1, <1>2, <1>4, <1>6 DEF TypeOK, params, ring, camera
  <1>8. Readout' /\ Reading'
    BY <1>1, <1>2 DEF Readout, Reading, LiveMode, CamRAM, params, camera
  <1> QED
    BY <1>1, <1>7, <1>8 DEF IInv, Live

LEMMA StepKeeps == ASSUME IInv, [Next]_vars PROVE IInv'
  <1>1. CASE RequestStop \/ UNCHANGED vars
    <2>1. stop' \in BOOLEAN
      BY <1>1 DEF RequestStop, vars, IInv, TypeOK
    <2> QED
      BY <1>1, <2>1, StopKeeps DEF RequestStop, vars
  <1>2. CASE InitialAssignFails \/ LoopEnd \/ StopSeen \/ ReassignFails \/ RamDone \/ CameraThrows
    <2>1. pc' \in {"done", "dead"} /\ ret' \in Statuses \cup {NoRet}
      <3>1. ret \in Statuses \cup {NoRet}
        BY DEF IInv, TypeOK
      <3> QED
        BY <1>2, <3>1 DEF InitialAssignFails, LoopEnd, StopSeen, ReassignFails, RamDone,
                          CameraThrows, Return, Statuses
    <2> QED
      BY <1>2, <2>1, EndKeeps
      DEF InitialAssignFails, LoopEnd, StopSeen, ReassignFails, RamDone, CameraThrows
  <1>3. CASE Thread
    BY <1>2, <1>3, InitialAssignKeeps, InitialAssignDoneKeeps, StartRecordingKeeps,
       FindBufferKeeps, EventFiredKeeps, Buff2LimaKeeps, ReassignKeeps, ReassignIgnoredKeeps,
       ResetBufferEventKeeps, RamStartKeeps, RamReadKeeps DEF Thread
  <1> QED
    BY <1>1, <1>2, <1>3, ExposeKeeps, ExposeLostKeeps, ReadOutKeeps DEF Next, Returned

----------------------------------------------------------------------------
LEMMA ParamsStay == ASSUME [Next]_vars PROVE UNCHANGED params
  BY DEF Next, Thread, InitialAssign, InitialAssignFails, InitialAssignDone, StartRecording, LoopEnd,
         StopSeen, FindBuffer, EventFired, Buff2Lima, Reassign, ReassignFails, ReassignIgnored,
         ResetBufferEvent, RamStart, RamRead, RamDone, CameraThrows, Expose, ExposeLost, ReadOut,
         RequestStop, Returned, Unchanged_sdk_env, vars

LEMMA FitsStays == ASSUME Fits, [Next]_vars PROVE Fits'
  <1>1. UNCHANGED params
    BY ParamsStay
  <1> QED
    BY <1>1 DEF Fits, Overrun, Readout, ByNumber, LiveMode, CamRAM, params

LEMMA FitsInit == ASSUME Fits, Init PROVE IInv
  BY InitIInv DEF Fits

(* Every frame announced by _xferImag is in its own LIMA buffer and holds an *)
(* image of the camera.                                                      *)
THEOREM FrameHasItsImageAlways == Fits /\ Spec => []FrameHasItsImage
  <1>1. Fits /\ IInv => FrameHasItsImage
    BY DEF Fits, IInv, Announced
  <1>2. Fits /\ Init => IInv
    BY FitsInit
  <1>3. IInv /\ [Next]_vars => IInv'
    BY StepKeeps
  <1>4. Fits /\ [Next]_vars => Fits'
    BY FitsStays
  <1> QED
    BY <1>1, <1>2, <1>3, <1>4, PTL DEF Spec

(* The ring never mixes up the order of the images, however the camera fills *)
(* and the thread empties it.                                                *)
THEOREM ImagesInOrderAlways == Fits /\ Spec => []ImagesInOrder
  <1>1. Fits /\ IInv => ImagesInOrder
    BY DEF Fits, IInv, Announced
  <1>2. Fits /\ Init => IInv
    BY FitsInit
  <1>3. IInv /\ [Next]_vars => IInv'
    BY StepKeeps
  <1>4. Fits /\ [Next]_vars => Fits'
    BY FitsStays
  <1> QED
    BY <1>1, <1>2, <1>3, <1>4, PTL DEF Spec

----------------------------------------------------------------------------
(* What is counted, and which image a recorded sequence gives each frame.    *)
Played ==
    /\ Live => \A b \in Ring : Waiting(b) => content[b] = assigned[b]
    /\ \A k \in 1 .. Len(ready) : ready[k].image = k

Counts ==
    /\ Live => /\ acqFrames = frameIdx - 1 /\ frameIdx - 1 <= Filled
               /\ ~ByNumber => Filled <= taken
    /\ CountMatches

Exact == Counts /\ (ByNumber => Played)

LEMMA InitExact == ASSUME ~Overrun, Init PROVE Exact
  <1>1. Len(ready) = 0 /\ Filled = 0 /\ taken \in Nat /\ frameIdx = 1 /\ acqFrames = 0
    <2>1. taken \in Nat
      BY InitIInv DEF IInv, TypeOK
    <2>2. ready = <<>> /\ pending = <<>> /\ first = 1 /\ frameIdx = 1 /\ acqFrames = 0
      BY DEF Init
    <2>3. Len(pending) = 0 /\ Len(ready) = 0
      BY <2>2, EmptyQueue, Zenon
    <2>4. first = 1
      BY <2>2
    <2>5. Filled = 0
      BY <2>3, <2>4 DEF Filled
    <2> QED
      BY <2>1, <2>2, <2>3, <2>5
  <1>2. ret = NoRet /\ acqFrames \in {Len(ready), Len(ready) - 1}
    BY <1>1 DEF Init
  <1>3. CountMatches
    BY <1>2 DEF CountMatches, NoRet
  <1>4. Counts
    BY <1>1, <1>3 DEF Counts
  <1>5. Played
    BY <1>1 DEF Init, Played, Waiting, NextOut
  <1> QED
    BY <1>5, <1>4 DEF Exact

(* A step that moves neither frames nor images.                              *)
LEMMA ExactKept ==
    ASSUME IInv, Exact, Live, pc' \notin {"done", "dead"}, ret' = ret, NextOut' = NextOut,
           Filled' = Filled, UNCHANGED <<params, frameIdx, content, taken, out>>,
           \A b \in Ring : Waiting(b)' => Waiting(b) /\ assigned'[b] = assigned[b]
    PROVE  Exact'
  <1>1. ByNumber' = ByNumber
    BY DEF ByNumber, LiveMode, params
  <1>2. ret' = NoRet
    BY DEF IInv, LoopInv, Counting
  <1>3. frameIdx \in Nat /\ acqFrames = frameIdx - 1 /\ Len(ready) = NextOut - 1
    BY DEF IInv, TypeOK, LoopInv, Counting, Exact, Counts
  <1>4. acqFrames \in {Len(ready), Len(ready) - 1}
    BY <1>3 DEF NextOut
  <1>5. CountMatches'
    BY <1>2, <1>4 DEF CountMatches, NoRet, out
  <1>6. Counts'
    BY <1>1, <1>5 DEF Exact, Counts, out
  <1>7. ByNumber => Played'
    BY DEF Exact, Played, Live, out
  <1> QED
    BY <1>1, <1>6, <1>7 DEF Exact

(* A return, and the end of the process.                                     *)
LEMMA ExactAtEnd ==
    ASSUME IInv, Exact, Live, pc' \in {"done", "dead"},
           pc' = "dead" => ret' = ret, ret' = "TransferEnd" => LoopEnd,
           UNCHANGED <<params, frameIdx, first, sdk, taken, out>>
    PROVE  Exact'
  <1>1. /\ TypeOK /\ ModesKept /\ Numbered /\ Ordered /\ Counting /\ Queued
    BY DEF IInv, LoopInv
  <1>2. acqFrames = frameIdx - 1 /\ Len(ready) = NextOut - 1 /\ frameIdx \in Nat \ {0}
    BY <1>1 DEF Exact, Counts, Counting, TypeOK
  <1>3. acqFrames \in {Len(ready), Len(ready) - 1}
    BY <1>2 DEF NextOut
  <1>4. ret' = "TransferEnd" => acqFrames = req /\ Len(ready) = req
    <2> SUFFICES ASSUME LoopEnd PROVE acqFrames = req /\ Len(ready) = req
      OBVIOUS
    <2>1. RequestedFrames \in Nat \ {0} /\ frameIdx = RequestedFrames + 1 /\ NextOut = frameIdx
      <3>1. RequestedFrames \in Nat \ {0}
        BY <1>1, RequestedIsPositive
      <3>2. frameIdx > RequestedFrames /\ frameIdx <= RequestedFrames + 1 /\ pc = "loop"
        BY <1>1 DEF LoopEnd, Numbered
      <3> QED
        BY <1>2, <3>1, <3>2 DEF NextOut
    <2>2. acqFrames = RequestedFrames /\ Len(ready) = RequestedFrames
      BY <1>2, <2>1
    <2>3. CASE req > 0
      BY <2>2, <2>3 DEF RequestedFrames
    <2>4. CASE ~(req > 0)
      <3>1. req = 0 /\ RequestedFrames = DWordMax
        BY <1>1, <2>4, RequestsAssumption DEF TypeOK, RequestedFrames
      <3>2. ~ByNumber
        BY <3>1 DEF ByNumber, LiveMode
      <3>3. DWordMax <= Filled /\ Filled <= taken /\ taken <= MaxImages
        BY <1>1, <2>1, <3>1, <3>2 DEF Exact, Counts, ModesKept
      <3>4. Filled \in Nat /\ taken \in Nat
        BY <1>1 DEF Queued, TypeOK
      <3> QED
        BY <3>3, <3>4, BoundsAssumption
    <2> QED
      BY <2>3, <2>4
  <1>5. ready' = ready /\ acqFrames' = acqFrames /\ req' = req /\ ByNumber' = ByNumber
    BY DEF out, params, ByNumber, LiveMode
  <1>6. Counts'
    BY <1>3, <1>4, <1>5 DEF Counts, CountMatches, Live
  <1>7. ByNumber => Played'
    BY <1>5 DEF Exact, Played, Live
  <1> QED
    BY <1>5, <1>6, <1>7 DEF Exact

(* The camera fills the buffer at the head of the queue, or none.            *)
LEMMA FilledGrows ==
    ASSUME TypeOK, Queued
    PROVE  /\ Filled \in Nat
           /\ Expose \/ ReadOut => Filled' = Filled + 1
           /\ ExposeLost => Filled' = Filled
  <1>1. Filled \in Nat
    BY DEF Queued
  <1>2. Expose \/ ReadOut => Filled' = Filled + 1
    <2> SUFFICES ASSUME Expose \/ ReadOut PROVE Filled' = Filled + 1
      OBVIOUS
    <2>1. pending # <<>> /\ pending' = Tail(pending) /\ first' = first
      BY DEF Expose, ReadOut, Fill, Unchanged_sdk_env
    <2>2. Len(pending) \in Nat \ {0} /\ Len(pending') = Len(pending) - 1 /\ first \in Nat
      BY <2>1, RingTypes, HeadOff
    <2> QED
      BY <2>1, <2>2 DEF Filled
  <1>3. ExposeLost => Filled' = Filled
    BY DEF ExposeLost, Unchanged_sdk_env, sdk, Filled
  <1> QED
    BY <1>1, <1>2, <1>3

LEMMA DifferentFrames ==
    ASSUME Numbered, NEW b \in Ring, NEW c \in Ring, b # c, assigned[c] > 0
    PROVE  assigned[b] # assigned[c]
  BY DEF Numbered

(* A readout promises nothing of the count, and its transfer does not end    *)
(* normally.                                                                 *)
LEMMA ExactInReadout ==
    ASSUME IInv, [Next]_vars, RamStart \/ pc = "ramread" PROVE Exact'
  <1>1. ret = NoRet /\ ~ByNumber
    BY DEF IInv, Live, LoopInv, ModesKept, Counting, Reading, Readout, ByNumber, RamStart
  <1>2. ByNumber' = ByNumber
    BY ParamsStay DEF ByNumber, LiveMode, params
  <1>3. \/ pc' \in {"ramread", "dead"} /\ ret' = ret
        \/ pc' = "done" /\ ret' = "RecordStop"
    <2>1. CASE RamStart
      BY <2>1 DEF RamStart
    <2>2. CASE pc = "ramread"
      <3>1. ~recording
        BY <2>2 DEF IInv, Reading
      <3>2. RamRead \/ RamDone \/ CameraThrows \/ RequestStop \/ UNCHANGED vars
        BY <1>1, <2>2, <3>1
        DEF Next, Thread, InitialAssign, InitialAssignFails, InitialAssignDone, StartRecording,
            LoopEnd, StopSeen, FindBuffer, EventFired, Buff2Lima, Reassign, ReassignFails,
            ReassignIgnored, ResetBufferEvent, RamStart, Expose, ExposeLost, ReadOut, Returned
      <3> QED
        BY <2>2, <3>2 DEF RamRead, RamDone, CameraThrows, RequestStop, Return, vars
    <2> QED
      BY <2>1, <2>2
  <1>4. ~Live' /\ CountMatches'
    BY <1>1, <1>3 DEF Live, CountMatches, NoRet
  <1> QED
    BY <1>1, <1>2, <1>4 DEF Exact, Counts

LEMMA ExactStep == ASSUME IInv, IInv', Exact, [Next]_vars PROVE Exact'
  <1> USE DEF Exact
  <1> SUFFICES ASSUME ~RamStart, pc # "ramread" PROVE Exact'
    BY ExactInReadout
  <1>1. CASE UNCHANGED vars
    <2>1. Live' = Live /\ Filled' = Filled /\ NextOut' = NextOut /\ ByNumber' = ByNumber
          /\ UNCHANGED <<req, pc, frameIdx, ret, assigned, content, taken, ready, acqFrames>>
      BY <1>1 DEF Live, Filled, NextOut, ByNumber, LiveMode, vars, params, ring, sdk, camera, out
    <2>2. Counts'
      BY <2>1 DEF Counts, CountMatches
    <2>3. ByNumber => Played'
      BY <2>1 DEF Played, Waiting
    <2> QED
      BY <2>1, <2>2, <2>3
  <1>2. CASE InitialAssignFails \/ LoopEnd \/ StopSeen \/ ReassignFails \/ CameraThrows
    <2>1. Live /\ UNCHANGED <<params, frameIdx, first, sdk, taken, out>>
      BY <1>2 DEF InitialAssignFails, LoopEnd, StopSeen, ReassignFails, CameraThrows, Live, camera
    <2>2. CASE LoopEnd
      BY <2>1, <2>2, ExactAtEnd DEF LoopEnd, Return
    <2>3. CASE InitialAssignFails \/ StopSeen \/ ReassignFails
      <3>1. pc' = "done" /\ ret' # "TransferEnd"
        BY <2>3 DEF InitialAssignFails, StopSeen, ReassignFails, Return
      <3> QED
        BY <2>1, <3>1, ExactAtEnd
    <2>4. CASE CameraThrows
      <3>1. pc' = "dead" /\ ret' = ret /\ ret # "TransferEnd"
        BY <2>1, <2>4 DEF CameraThrows, IInv, LoopInv, Counting, NoRet
      <3> QED
        BY <2>1, <3>1, ExactAtEnd
    <2> QED
      BY <1>2, <2>2, <2>3, <2>4
  <1>3. CASE InitialAssignDone \/ StartRecording \/ FindBuffer \/ EventFired \/ RequestStop
    <2>1. Live /\ pc' \notin {"done", "dead"} /\ ret' = ret /\ NextOut' = NextOut
          /\ UNCHANGED <<params, frameIdx, first, ring, sdk, taken, out>>
      BY <1>3 DEF InitialAssignDone, StartRecording, FindBuffer, EventFired, RequestStop, Live,
                  NextOut, camera
    <2>2. Filled' = Filled /\ content' = content /\ assigned' = assigned
      BY <2>1 DEF Filled, sdk, ring
    <2>3. \A b \in Ring : Waiting(b)' => Waiting(b)
      BY <2>1, <2>2 DEF Waiting
    <2> QED
      BY <2>1, <2>2, <2>3, ExactKept
  <1>4. CASE InitialAssign
    <2>1. /\ TypeOK /\ Beginning /\ Numbered /\ Queued /\ Live
          /\ pc = "assign" /\ pc' = pc /\ idx < Nrevents /\ Assign(idx)
          /\ UNCHANGED <<params, frameIdx, ret, camera, out>>
      BY <1>4 DEF IInv, Live, LoopInv, InitialAssign
    <2>2. idx \in Ring /\ assigned[idx] = 0 /\ Filled \in Nat
      BY <2>1, NreventsAssumption DEF TypeOK, Ring, Beginning, Queued
    <2>3. /\ Filled' = Filled /\ content' = content /\ assigned'[idx] = first /\ Filled < first
          /\ \A c \in Ring : c # idx => assigned'[c] = assigned[c]
      BY <2>1, <2>2, AssignKeeps
    <2>4. NextOut' = NextOut
      BY <2>1 DEF NextOut
    <2>5. \A b \in Ring : Waiting(b)' => Waiting(b) /\ assigned'[b] = assigned[b]
      <3> SUFFICES ASSUME NEW b \in Ring, Waiting(b)' PROVE Waiting(b) /\ assigned'[b] = assigned[b]
        OBVIOUS
      <3>1. assigned'[b] \in NextOut .. Filled
        BY <2>3, <2>4 DEF Waiting
      <3>2. b # idx
        BY <2>1, <2>2, <2>3, <3>1, RingTypes
      <3> QED
        BY <2>3, <3>1, <3>2 DEF Waiting
    <2> QED
      BY <2>1, <2>3, <2>4, <2>5, ExactKept DEF Live, camera
  <1>5. CASE Buff2Lima
    <2>1. /\ TypeOK /\ Numbered /\ Queued /\ Counting /\ Live /\ pc = "copy" /\ pc' = "recycle"
          /\ ready' = Append(ready, Announcement(bufIdx))
          /\ UNCHANGED <<params, frameIdx, first, ret, ring, sdk, taken, acqFrames>>
      BY <1>5 DEF IInv, Live, LoopInv, Buff2Lima, camera
    <2>2. /\ frameIdx \in Nat \ {0} /\ Len(ready) = frameIdx - 1 /\ acqFrames = frameIdx - 1
          /\ bufIdx \in Ring /\ assigned[bufIdx] = frameIdx /\ frameIdx <= Filled /\ Filled \in Nat
      BY <2>1 DEF TypeOK, Counting, NextOut, Counts, Numbered, Queued
    <2>3. /\ Filled' = Filled /\ ByNumber' = ByNumber /\ content' = content
          /\ assigned' = assigned /\ NextOut' = frameIdx + 1 /\ NextOut = frameIdx /\ Live'
      BY <2>1 DEF Filled, ByNumber, LiveMode, NextOut, Live, params, ring, sdk
    <2>4. Announcement(bufIdx) \in [frame : Nat, dest : Nat, image : Int]
      BY <2>1, <2>2, RingTypes DEF Announcement
    <2>5. /\ Len(ready') = Len(ready) + 1
          /\ \A n \in 1 .. Len(ready) : ready'[n] = ready[n]
          /\ ready'[Len(ready) + 1] = Announcement(bufIdx)
      BY <2>1, <2>4, ReadyTypes, Appended
    <2>6. Counts'
      <3>1. ret' = NoRet /\ acqFrames' = Len(ready') - 1
        BY <2>1, <2>2, <2>5 DEF Counting
      <3>2. CountMatches'
        BY <3>1 DEF CountMatches, NoRet
      <3> QED
        BY <2>1, <2>2, <2>3, <3>2 DEF Counts
    <2>7. ByNumber => Played'
      <3> SUFFICES ASSUME ByNumber PROVE Played'
        OBVIOUS
      <3>1. content[bufIdx] = frameIdx
        BY <2>2, <2>3, <2>1 DEF Played, Waiting
      <3>2. \A b \in Ring : Waiting(b)' => Waiting(b)
        <4> SUFFICES ASSUME NEW b \in Ring, assigned[b] \in frameIdx + 1 .. Filled
                     PROVE  assigned[b] \in frameIdx .. Filled
          BY <2>3 DEF Waiting
        <4> QED
          BY <2>2
      <3>3. \A k \in 1 .. Len(ready') : ready'[k].image = k
        <4> SUFFICES ASSUME NEW k \in 1 .. Len(ready') PROVE ready'[k].image = k
          OBVIOUS
        <4>1. k \in 1 .. Len(ready) \/ k = Len(ready) + 1
          BY <2>2, <2>5
        <4>2. Announcement(bufIdx).image = Len(ready) + 1
          BY <2>2, <3>1 DEF Announcement
        <4> QED
          BY <2>5, <4>1, <4>2 DEF Played
      <3> QED
        BY <2>1, <2>3, <3>2, <3>3 DEF Played
    <2> QED
      BY <2>3, <2>6, <2>7
  <1>6. CASE Reassign \/ ReassignIgnored \/ ResetBufferEvent
    <2>1. /\ Live /\ TypeOK /\ Queued /\ Numbered /\ Counting /\ pc = "recycle" /\ NextFrame
          /\ UNCHANGED <<params, idx, bufIdx, polled, ramIdx, ret, camera, stop, ready>>
      BY <1>6 DEF IInv, Live, LoopInv, Reassign, ReassignIgnored, ResetBufferEvent
    <2>2. /\ pc' \in {"loop", "ram"} /\ NextOut' = NextOut /\ NextOut = frameIdx + 1
          /\ frameIdx' = frameIdx + 1 /\ frameIdx \in Nat \ {0} /\ acqFrames' = frameIdx
          /\ bufIdx \in Ring /\ assigned[bufIdx] = frameIdx /\ frameIdx <= Filled
          /\ frameIdx < first /\ Filled \in Nat
      BY <2>1, NextFrameKeeps
    <2>3. /\ Filled' = Filled /\ content' = content
          /\ \A b \in Ring : Waiting(b)' => Waiting(b) /\ assigned'[b] = assigned[b]
      <3>1. CASE Reassign
        <4>1. /\ Filled' = Filled /\ content' = content /\ assigned'[bufIdx] = first
              /\ Filled < first /\ \A c \in Ring : c # bufIdx => assigned'[c] = assigned[c]
          BY <2>1, <2>2, <3>1, AssignKeeps DEF Reassign
        <4>2. ASSUME NEW b \in Ring, Waiting(b)' PROVE Waiting(b) /\ assigned'[b] = assigned[b]
          <5>1. assigned'[b] \in NextOut .. Filled
            BY <2>2, <4>1, <4>2 DEF Waiting
          <5>2. b # bufIdx
            BY <2>1, <2>2, <4>1, <5>1, RingTypes
          <5> QED
            BY <4>1, <5>1, <5>2 DEF Waiting
        <4> QED
          BY <4>1, <4>2
      <3>2. CASE ReassignIgnored \/ ResetBufferEvent
        <4>1. UNCHANGED <<first, pending, content, assigned>>
          BY <3>2 DEF ReassignIgnored, ResetBufferEvent, ring, sdk
        <4>2. Filled' = Filled
          BY <4>1 DEF Filled
        <4> QED
          BY <2>2, <4>1, <4>2 DEF Waiting
      <3> QED
        BY <1>6, <3>1, <3>2
    <2>4. /\ ready' = ready /\ taken' = taken /\ ret' = NoRet /\ ByNumber' = ByNumber
          /\ Len(ready) = frameIdx
      BY <2>1, <2>2 DEF camera, Counting, ByNumber, LiveMode, params
    <2>5. CountMatches'
      BY <2>2, <2>4 DEF CountMatches, NoRet
    <2>6. Counts'
      BY <2>1, <2>2, <2>3, <2>4, <2>5 DEF Counts
    <2>7. ByNumber => Played'
      BY <2>1, <2>3, <2>4 DEF Played
    <2> QED
      BY <2>4, <2>6, <2>7
  <1>7. CASE Expose \/ ExposeLost
    <2>1. /\ Live /\ TypeOK /\ ModesKept /\ Queued /\ recording /\ taken' = taken + 1
          /\ UNCHANGED <<params, pc, frameIdx, ret, out>>
      BY <1>7 DEF IInv, Live, LoopInv, Reading, Expose, ExposeLost, Unchanged_sdk_env
    <2>2. ~ByNumber /\ ByNumber' = ByNumber /\ taken \in Nat
      BY <2>1 DEF ModesKept, ByNumber, LiveMode, params, TypeOK
    <2>3. Filled' \in {Filled, Filled + 1} /\ Filled \in Nat
      BY <1>7, <2>1, FilledGrows
    <2>4. CountMatches'
      BY <2>1 DEF Counts, CountMatches, params, out
    <2>5. Counts'
      BY <2>1, <2>2, <2>3, <2>4 DEF Counts, Live, out, TypeOK
    <2> QED
      BY <2>2, <2>5
  <1>8. CASE ReadOut
    <2>1. /\ Live /\ TypeOK /\ Queued /\ Numbered /\ ByNumber /\ pending # <<>>
          /\ Fill(assigned[Head(pending)])
          /\ UNCHANGED <<params, pc, frameIdx, first, ret, assigned, out>>
      BY <1>8 DEF IInv, Live, LoopInv, Reading, Readout, ByNumber, ReadOut,
                  Unchanged_sdk_env, ring
    <2>2. Filled' = Filled + 1 /\ Filled \in Nat
      BY <1>8, <2>1, FilledGrows
    <2>3. ByNumber' = ByNumber /\ NextOut' = NextOut /\ Live' = Live
      BY <2>1 DEF ByNumber, LiveMode, NextOut, Live, params
    <2>4. Counts'
      <3>1. CountMatches'
        BY <2>1 DEF Counts, CountMatches, params, out
      <3> QED
        BY <2>1, <2>2, <2>3, <3>1 DEF Counts, TypeOK, out
    <2>5. Played'
      <3> DEFINE h == Head(pending)
      <3>1. h \in Ring /\ h = pending[1] /\ assigned[h] = Filled + 1
        <4>1. Head(pending) \in Ring /\ Head(pending) = pending[1] /\ Len(pending) \in Nat \ {0}
          BY <2>1, RingTypes, HeadOff
        <4> QED
          BY <2>1, <2>2, <4>1 DEF Queued
      <3>2. content'[h] = assigned[h] /\ \A c \in Ring : c # h => content'[c] = content[c]
        BY <2>1, <3>1, RingTypes DEF Fill
      <3> HIDE DEF h
      <3>3. ASSUME NEW b \in Ring, Waiting(b)' PROVE content'[b] = assigned'[b]
        <4>1. assigned[b] \in NextOut .. Filled + 1 /\ assigned'[b] = assigned[b]
          BY <2>1, <2>2, <2>3, <3>3 DEF Waiting
        <4>2. CASE b = h
          BY <3>2, <4>1, <4>2
        <4>3. CASE b # h
          <5>1. assigned[b] # Filled + 1
            BY <2>1, <2>2, <3>1, <4>3, DifferentFrames
          <5>2. Waiting(b)
            BY <2>1, <2>2, <4>1, <5>1, RingTypes DEF Waiting
          <5> QED
            BY <2>1, <3>2, <4>1, <4>3, <5>2 DEF Played
        <4> QED
          BY <4>2, <4>3
      <3>4. ready' = ready
        BY <2>1 DEF out
      <3> QED
        BY <2>1, <3>3, <3>4 DEF Played
    <2> QED
      BY <2>3, <2>4, <2>5
  <1> QED
    BY <1>1, <1>2, <1>3, <1>4, <1>5, <1>6, <1>7, <1>8 DEF Next, Thread, Returned, RamRead, RamDone

----------------------------------------------------------------------------
(* A recorded sequence longer than the ring: the loop never assigns a buffer *)
(* again, so the ring is filled once, in the order of its buffers, and each  *)
(* event is set once.  What is announced is counted all the same.            *)
FilledOnce ==
    /\ \A b \in Ring : assigned[b] \in {0, b + 1}
    /\ \A i \in 1 .. Len(pending) : pending[i] < first - 1 /\ ~event[pending[i]]
    /\ \A i, j \in 1 .. Len(pending) : i < j => pending[i] < pending[j]

Uncounted ==
    /\ ret = NoRet /\ Len(ready) = NextOut - 1 /\ acqFrames = frameIdx - 1
    /\ frameIdx <= req + 1 /\ (pc \in {"poll", "copy", "recycle"} => frameIdx <= req)

OverInv ==
    /\ TypeOK /\ Overrun /\ FilledOnce /\ CountMatches
    /\ ~recording /\ pc \notin {"start", "ram", "ramread"}
    /\ first <= Nrevents + 1
    /\ pc = "assign" => first = idx + 1
    /\ Live => Uncounted

LEMMA OverInit == ASSUME Overrun, Init PROVE OverInv
  <1>1. TypeOK
    BY InitTypeOK
  <1>2. ~recording
    <2>1. mode \notin {"edge", "fifo"}
      BY DEF Overrun, ByNumber
    <2> QED
      BY <2>1, Zenon DEF Init
  <1>3. Len(pending) = 0 /\ Len(ready) = 0
    BY EmptyQueue, Zenon DEF Init
  <1>4. req \in Nat /\ Nrevents \in Nat
    BY <1>1, RequestsAssumption, NreventsAssumption DEF TypeOK
  <1>5. FilledOnce
    BY <1>3 DEF FilledOnce, Init
  <1>6. pc = "assign" /\ ret = NoRet /\ first = 1 /\ frameIdx = 1 /\ acqFrames = 0 /\ idx = 0
    BY DEF Init
  <1>7. CountMatches /\ Uncounted
    BY <1>3, <1>4, <1>6 DEF CountMatches, Uncounted, NextOut, NoRet
  <1> QED
    BY <1>1, <1>2, <1>4, <1>5, <1>6, <1>7 DEF OverInv

(* What holds all through the loop in this situation.                        *)
LEMMA OverLoop ==
    ASSUME OverInv
    PROVE  /\ TypeOK /\ ByNumber /\ ~Readout /\ ~RunAfterAssign /\ ~recording
           /\ req \in Nat /\ RequestedFrames = req /\ MoreToAssign
           /\ first \in Nat \ {0} /\ frameIdx \in Nat \ {0} /\ Nrevents \in Nat \ {0}
  <1>1. TypeOK /\ ByNumber /\ req > Nrevents /\ first <= Nrevents + 1 /\ ~recording
    BY DEF OverInv, Overrun
  <1>2. req \in Nat /\ Nrevents \in Nat \ {0} /\ first \in Nat \ {0} /\ frameIdx \in Nat \ {0}
    BY <1>1, RequestsAssumption, NreventsAssumption DEF TypeOK
  <1>3. RequestedFrames = req /\ first <= req
    BY <1>1, <1>2 DEF RequestedFrames
  <1> QED
    BY <1>1, <1>2, <1>3 DEF ByNumber, Readout, RunAfterAssign, MoreToAssign

(* Frames announced are counted when the loop goes on or ends.               *)
LEMMA OverCounts ==
    ASSUME Uncounted, frameIdx \in Nat
    PROVE  acqFrames \in {Len(ready), Len(ready) - 1} /\ CountMatches
  <1>1. Len(ready) = NextOut - 1 /\ acqFrames = frameIdx - 1 /\ ret = NoRet
    BY DEF Uncounted
  <1>2. acqFrames \in {Len(ready), Len(ready) - 1}
    BY <1>1 DEF NextOut
  <1> QED
    BY <1>1, <1>2 DEF CountMatches, NoRet

LEMMA OverCountsNext ==
    ASSUME Uncounted', frameIdx' \in Nat PROVE CountMatches'
  <1>1. Len(ready)' = NextOut' - 1 /\ acqFrames' = frameIdx' - 1 /\ ret' = NoRet
    BY DEF Uncounted
  <1>2. acqFrames' \in {Len(ready)', Len(ready)' - 1}
    BY <1>1 DEF NextOut
  <1> QED
    BY <1>1, <1>2 DEF CountMatches, NoRet

LEMMA OverAssign == ASSUME OverInv, InitialAssign PROVE OverInv'
  <1>1. TypeOK /\ first \in Nat \ {0} /\ Nrevents \in Nat \ {0} /\ frameIdx \in Nat
    BY OverLoop
  <1>2. /\ pc = "assign" /\ pc' = pc /\ idx < Nrevents /\ Assign(idx) /\ idx' = idx + 1
        /\ first = idx + 1 /\ Uncounted /\ FilledOnce
        /\ UNCHANGED <<params, frameIdx, bufIdx, polled, ramIdx, ret, camera, stop, out>>
    BY DEF InitialAssign, OverInv, Live
  <1>3. idx \in Ring /\ idx \in Nat
    BY <1>1, <1>2 DEF TypeOK, Ring
  <1>4. /\ assigned' \in [Ring -> Nat] /\ limaPtr' \in [Ring -> Nat]
        /\ event' \in [Ring -> BOOLEAN] /\ content' = content /\ first' = first + 1
        /\ event'[idx] = FALSE /\ \A b \in Ring : b # idx => event'[b] = event[b]
    BY <1>1, <1>2, <1>3, RingTypes DEF Assign
  <1>5. /\ pending' \in Seq(Ring) /\ Len(pending') = Len(pending) + 1 /\ Len(pending) \in Nat
        /\ \A i \in 1 .. Len(pending) : pending'[i] = pending[i] /\ pending[i] \in Ring
        /\ pending'[Len(pending) + 1] = idx
    BY <1>1, <1>2, <1>3, RingTypes, Appended DEF Assign
  <1>6. TypeOK'
    <2>1. first' \in Nat \ {0} /\ idx' \in 0 .. Nrevents /\ pending' \in Seq(Ring)
      BY <1>1, <1>2, <1>3, <1>4, <1>5
    <2> QED
      BY <1>1, <1>2, <1>4, <2>1 DEF TypeOK, params, camera, out
  <1>7. FilledOnce'
    <2>1. \A i \in 1 .. Len(pending) : pending'[i] \in Ring /\ pending'[i] < idx
                                       /\ ~event'[pending'[i]]
      <3> SUFFICES ASSUME NEW i \in 1 .. Len(pending)
                   PROVE  pending[i] \in Ring /\ pending[i] < idx /\ ~event'[pending[i]]
        BY <1>5
      <3>1. pending[i] \in Ring /\ pending[i] < first - 1 /\ ~event[pending[i]]
        BY <1>2, <1>5 DEF FilledOnce
      <3>2. pending[i] < idx /\ pending[i] # idx
        BY <1>2, <1>3, <3>1 DEF Ring
      <3> QED
        BY <1>4, <3>1, <3>2
    <2>2. \A i \in 1 .. Len(pending') : pending'[i] < first' - 1 /\ ~event'[pending'[i]]
      <3> SUFFICES ASSUME NEW i \in 1 .. Len(pending')
                   PROVE  pending'[i] < first' - 1 /\ ~event'[pending'[i]]
        OBVIOUS
      <3>1. CASE i = Len(pending) + 1
        BY <1>2, <1>3, <1>4, <1>5, <3>1
      <3>2. CASE i \in 1 .. Len(pending)
        <4>1. pending'[i] < idx /\ ~event'[pending'[i]] /\ pending'[i] \in Int /\ first' - 1 = idx + 1
          BY <1>2, <1>3, <1>4, <2>1, <3>2 DEF Ring
        <4> QED
          BY <1>3, <4>1
      <3> QED
        BY <1>5, <3>1, <3>2
    <2>3. \A i, j \in 1 .. Len(pending') : i < j => pending'[i] < pending'[j]
      <3> SUFFICES ASSUME NEW i \in 1 .. Len(pending'), NEW j \in 1 .. Len(pending'), i < j
                   PROVE  pending'[i] < pending'[j]
        OBVIOUS
      <3>1. i \in 1 .. Len(pending)
        BY <1>5
      <3>2. CASE j = Len(pending) + 1
        BY <1>5, <2>1, <3>1, <3>2
      <3>3. CASE j \in 1 .. Len(pending)
        BY <1>2, <1>5, <3>1, <3>3 DEF FilledOnce
      <3> QED
        BY <1>5, <3>2, <3>3
    <2>4. \A b \in Ring : assigned'[b] \in {0, b + 1}
      BY <1>1, <1>2, <1>3, RingTypes DEF Assign, FilledOnce
    <2> QED
      BY <2>2, <2>3, <2>4 DEF FilledOnce
  <1>8. Uncounted' /\ frameIdx' \in Nat
    BY <1>1, <1>2 DEF Uncounted, NextOut, params, out
  <1>9. CountMatches'
    BY <1>2 DEF CountMatches, OverInv, params, out
  <1>10. Overrun' /\ ~recording'
    BY <1>2 DEF OverInv, Overrun, ByNumber, LiveMode, params, camera
  <1>11. first' <= Nrevents + 1 /\ first' = idx' + 1
    BY <1>1, <1>2, <1>3, <1>4
  <1> QED
    BY <1>2, <1>6, <1>7, <1>8, <1>9, <1>10, <1>11 DEF OverInv

(* A step to another place that moves neither the queue nor the count.       *)
LEMMA OverMoves ==
    ASSUME OverInv, InitialAssignDone \/ FindBuffer \/ EventFired
    PROVE  OverInv'
  <1>1. TypeOK /\ Uncounted /\ ~RunAfterAssign /\ RequestedFrames = req /\ frameIdx \in Nat
    BY OverLoop DEF Live, InitialAssignDone, FindBuffer, EventFired, OverInv
  <1>2. UNCHANGED <<params, frameIdx, first, idx, ramIdx, ret, ring, sdk, camera, stop, out>>
    BY DEF InitialAssignDone, FindBuffer, EventFired
  <1>3. \/ pc' = "loop" /\ pc = "assign"
        \/ pc' = "poll" /\ pc = "loop" /\ frameIdx <= req
        \/ pc' = "copy" /\ pc = "poll" /\ frameIdx <= req
    BY <1>1 DEF InitialAssignDone, FindBuffer, EventFired, Uncounted
  <1>4. bufIdx' \in Ring \cup {NoBuf} /\ polled' \in Ring
    <2>1. CASE FindBuffer
      <3>1. CASE Holders = {}
        BY <2>1, <3>1, NreventsAssumption DEF FindBuffer, Ring
      <3>2. CASE Holders # {}
        <4>1. PICK b \in Ring : assigned[b] = frameIdx
          BY <3>2 DEF Holders
        <4>2. Holders = {b} /\ b \in Int
          <5>1. \A c \in Ring : c \in Int /\ (assigned[c] = frameIdx => c = frameIdx - 1)
            <6> SUFFICES ASSUME NEW c \in Ring PROVE c \in Int /\ (assigned[c] = frameIdx => c = frameIdx - 1)
              OBVIOUS
            <6>1. c \in Int /\ assigned[c] \in {0, c + 1} /\ frameIdx # 0
              BY <1>1, NreventsAssumption DEF Ring, TypeOK, OverInv, FilledOnce
            <6> QED
              BY <1>1, <6>1
          <5> QED
            BY <4>1, <5>1 DEF Holders
        <4>3. (CHOOSE x \in {b} : \A c \in {b} : x <= c) = b
          BY <4>2
        <4> QED
          BY <2>1, <4>1, <4>2, <4>3 DEF FindBuffer
      <3> QED
        BY <3>1, <3>2
    <2>2. CASE InitialAssignDone \/ EventFired
      BY <1>1, <2>2 DEF InitialAssignDone, EventFired, TypeOK
    <2> QED
      BY <2>1, <2>2
  <1>5. TypeOK'
    BY <1>1, <1>2, <1>3, <1>4 DEF TypeOK, params, ring, sdk, camera, out
  <1>6. Uncounted' /\ frameIdx' \in Nat
    BY <1>1, <1>2, <1>3 DEF Uncounted, NextOut, params, out
  <1>7. CountMatches'
    BY <1>6, OverCountsNext
  <1>8. Overrun' /\ FilledOnce' /\ ~recording'
    BY <1>2 DEF OverInv, Overrun, ByNumber, LiveMode, FilledOnce, params, ring, sdk, camera
  <1> QED
    BY <1>2, <1>3, <1>5, <1>6, <1>7, <1>8 DEF OverInv

LEMMA OverOut == ASSUME OverInv, Buff2Lima PROVE OverInv'
  <1> DEFINE x == Announcement(bufIdx)
             n == Len(ready)
  <1>1. /\ TypeOK /\ Uncounted /\ pc = "copy" /\ pc' = "recycle" /\ ready' = Append(ready, x)
        /\ frameIdx \in Nat \ {0}
        /\ UNCHANGED <<params, frameIdx, first, idx, bufIdx, polled, ramIdx, ret,
                       ring, sdk, camera, stop, acqFrames>>
    BY OverLoop DEF Buff2Lima, OverInv, Live
  <1>2. x \in [frame : Nat, dest : Nat, image : Int]
    <2>1. \A b \in Ring : limaPtr[b] \in Nat /\ content[b] \in Nat
      BY <1>1, RingTypes
    <2> QED
      BY <1>1, <2>1 DEF Announcement
  <1> HIDE DEF x
  <1>3. /\ ready' \in Seq([frame : Nat, dest : Nat, image : Int]) /\ Len(ready') = n + 1
        /\ n \in Nat
    BY <1>1, <1>2, ReadyTypes, Appended
  <1> HIDE DEF n
  <1>4. TypeOK'
    BY <1>1, <1>3 DEF TypeOK, params, ring, sdk, camera
  <1>5. n = frameIdx - 1 /\ acqFrames = frameIdx - 1 /\ ret = NoRet /\ frameIdx <= req
        /\ frameIdx <= req + 1
    BY <1>1 DEF Uncounted, NextOut, n
  <1>6. Uncounted' /\ frameIdx' \in Nat
    BY <1>1, <1>3, <1>5 DEF Uncounted, NextOut, params
  <1>7. CountMatches'
    BY <1>6, OverCountsNext
  <1>8. Overrun' /\ FilledOnce' /\ ~recording'
    BY <1>1 DEF OverInv, Overrun, ByNumber, LiveMode, FilledOnce, params, ring, sdk, camera
  <1> QED
    BY <1>1, <1>4, <1>6, <1>7, <1>8 DEF OverInv

LEMMA OverIgnored == ASSUME OverInv, ReassignIgnored PROVE OverInv'
  <1>1. /\ TypeOK /\ Uncounted /\ pc = "recycle" /\ NextFrame /\ ~Readout
        /\ frameIdx \in Nat \ {0} /\ req \in Nat
        /\ UNCHANGED <<params, first, idx, bufIdx, polled, ramIdx, ret,
                       ring, sdk, camera, stop, ready>>
    BY OverLoop DEF ReassignIgnored, OverInv, Live
  <1>2. pc' = "loop" /\ frameIdx' = frameIdx + 1 /\ acqFrames' = frameIdx
    BY <1>1 DEF NextFrame, Readout
  <1>3. TypeOK'
    BY <1>1, <1>2 DEF TypeOK, params, ring, sdk, camera
  <1>4. Len(ready) = frameIdx /\ ret = NoRet /\ frameIdx <= req
    BY <1>1 DEF Uncounted, NextOut
  <1>5. Uncounted' /\ frameIdx' \in Nat
    BY <1>1, <1>2, <1>4 DEF Uncounted, NextOut, params
  <1>6. CountMatches'
    BY <1>5, OverCountsNext
  <1>7. Overrun' /\ FilledOnce' /\ ~recording'
    BY <1>1 DEF OverInv, Overrun, ByNumber, LiveMode, FilledOnce, params, ring, sdk, camera
  <1> QED
    BY <1>1, <1>2, <1>3, <1>5, <1>6, <1>7 DEF OverInv

(* The buffer filled is the next of the ring, and its event was never set.   *)
LEMMA OverFilled ==
    ASSUME OverInv, ReadOut
    PROVE  /\ OverInv' /\ Head(pending) \in Ring /\ ~event[Head(pending)]
           /\ \A b \in Ring : b # Head(pending) => content'[b] = content[b]
  <1> DEFINE h == Head(pending)
  <1>1. /\ TypeOK /\ FilledOnce /\ pending # <<>> /\ Fill(assigned[h]) /\ taken' = taken
        /\ UNCHANGED <<params, pc, frameIdx, first, idx, bufIdx, polled, ramIdx,
                       ret, ring, recording, stop, out>>
    BY DEF ReadOut, OverInv, Unchanged_sdk_env
  <1>2. /\ h \in Ring /\ h = pending[1] /\ Len(pending) \in Nat \ {0}
        /\ pending' \in Seq(Ring) /\ Len(pending') = Len(pending) - 1
        /\ \A i \in 1 .. Len(pending) - 1 : pending'[i] = pending[i + 1]
        /\ \A i \in 1 .. Len(pending) : pending[i] \in Ring
    BY <1>1, RingTypes, HeadOff DEF Fill
  <1>3. /\ content' \in [Ring -> Nat] /\ event' \in [Ring -> BOOLEAN]
        /\ \A b \in Ring : b # h => content'[b] = content[b] /\ event'[b] = event[b]
    BY <1>1, <1>2, RingTypes DEF Fill
  <1>4. h < first - 1 /\ ~event[h]
    BY <1>1, <1>2 DEF FilledOnce
  <1> HIDE DEF h
  <1>5. TypeOK'
    BY <1>1, <1>2, <1>3 DEF TypeOK, params, ring, out
  <1>6. FilledOnce'
    <2>1. ASSUME NEW i \in 1 .. Len(pending')
          PROVE  pending'[i] = pending[i + 1] /\ i + 1 \in 1 .. Len(pending) /\ pending[i + 1] # h
                 /\ pending[i + 1] \in Ring
      <3>1. pending'[i] = pending[i + 1] /\ i + 1 \in 1 .. Len(pending) /\ 1 < i + 1
        BY <1>2
      <3>2. pending[1] < pending[i + 1]
        BY <1>1, <1>2, <3>1 DEF FilledOnce
      <3>3. h \in Int /\ pending[i + 1] \in Ring
        BY <1>2, <3>1 DEF Ring
      <3> QED
        BY <1>2, <3>1, <3>2, <3>3
    <2>2. \A i \in 1 .. Len(pending') : pending'[i] < first' - 1 /\ ~event'[pending'[i]]
      BY <1>1, <1>3, <2>1 DEF FilledOnce
    <2>3. \A i, j \in 1 .. Len(pending') : i < j => pending'[i] < pending'[j]
      <3> SUFFICES ASSUME NEW i \in 1 .. Len(pending'), NEW j \in 1 .. Len(pending'), i < j
                   PROVE  pending[i + 1] < pending[j + 1]
        BY <2>1
      <3>1. i + 1 \in 1 .. Len(pending) /\ j + 1 \in 1 .. Len(pending) /\ i + 1 < j + 1
        BY <2>1
      <3> QED
        BY <1>1, <3>1 DEF FilledOnce
    <2>4. \A b \in Ring : assigned'[b] \in {0, b + 1}
      BY <1>1 DEF FilledOnce, ring
    <2> QED
      BY <2>2, <2>3, <2>4 DEF FilledOnce
  <1>7. OverInv'
    BY <1>1, <1>5, <1>6
    DEF OverInv, Overrun, ByNumber, LiveMode, Live, Uncounted, NextOut, CountMatches, params, out
  <1> QED
    BY <1>2, <1>3, <1>4, <1>7 DEF h

LEMMA OverStep ==
    ASSUME OverInv, [Next]_vars
    PROVE  /\ OverInv'
           /\ ~ReadOut => content' = content
  <1>1. /\ TypeOK /\ ByNumber /\ ~Readout /\ ~RunAfterAssign /\ ~recording
        /\ RequestedFrames = req /\ MoreToAssign /\ pc \notin {"start", "ram", "ramread"}
        /\ frameIdx \in Nat /\ req \in Nat
    BY OverLoop DEF OverInv
  <1>2. ~(StartRecording \/ Reassign \/ ResetBufferEvent \/ RamStart \/ RamRead \/ RamDone
          \/ ReassignFails \/ Expose \/ ExposeLost)
    BY <1>1 DEF StartRecording, Reassign, ResetBufferEvent, RamStart, RamRead, RamDone,
                ReassignFails, Expose, ExposeLost
  <1>3. CASE InitialAssignFails \/ LoopEnd \/ StopSeen \/ CameraThrows
    <2>1. Live /\ Uncounted
      BY <1>1, <1>3 DEF Live, InitialAssignFails, LoopEnd, StopSeen, CameraThrows, OverInv
    <2>2. /\ (pc' = "done" /\ ret' \in Statuses) \/ (pc' = "dead" /\ ret' = ret)
          /\ ret' = "TransferEnd" => pc = "loop" /\ frameIdx > req
          /\ UNCHANGED <<params, frameIdx, first, idx, bufIdx, polled, ramIdx, ring, sdk,
                         camera, stop, out>>
      BY <1>1, <1>3, <2>1
      DEF InitialAssignFails, LoopEnd, StopSeen, CameraThrows, Return, Statuses, Uncounted, NoRet
    <2>3. TypeOK'
      BY <1>1, <2>2 DEF TypeOK, params, ring, sdk, camera, out
    <2>4. acqFrames \in {Len(ready), Len(ready) - 1}
      BY <1>1, <2>1, OverCounts
    <2>5. ret' = "TransferEnd" => acqFrames = req /\ Len(ready) = req
      BY <1>1, <2>1, <2>2 DEF Uncounted, NextOut
    <2>6. CountMatches'
      BY <2>2, <2>4, <2>5 DEF CountMatches, params, out
    <2> QED
      BY <2>2, <2>3, <2>6
      DEF OverInv, Overrun, ByNumber, LiveMode, FilledOnce, Live, params, ring, sdk, camera
  <1>4. CASE RequestStop \/ UNCHANGED vars
    <2>1. stop' \in BOOLEAN /\ UNCHANGED <<params, pc, frameIdx, first, idx, bufIdx, polled, ramIdx,
                                           ret, ring, sdk, camera, out>>
      BY <1>1, <1>4 DEF RequestStop, vars, TypeOK
    <2>2. TypeOK'
      BY <1>1, <2>1 DEF TypeOK, params, ring, sdk, camera, out
    <2> QED
      BY <2>1, <2>2
      DEF OverInv, Overrun, ByNumber, LiveMode, FilledOnce, Live, Uncounted, NextOut, CountMatches,
          params, ring, sdk, camera, out
  <1>5. CASE InitialAssign
    BY <1>5, OverAssign DEF InitialAssign, Assign
  <1>6. CASE InitialAssignDone \/ FindBuffer \/ EventFired
    BY <1>6, OverMoves DEF InitialAssignDone, FindBuffer, EventFired, sdk
  <1>7. CASE Buff2Lima
    BY <1>7, OverOut DEF Buff2Lima, sdk
  <1>8. CASE ReassignIgnored
    BY <1>8, OverIgnored DEF ReassignIgnored, sdk
  <1>9. CASE ReadOut
    BY <1>9, OverFilled
  <1> QED
    BY <1>2, <1>3, <1>4, <1>5, <1>6, <1>7, <1>8, <1>9 DEF Next, Thread, Returned

----------------------------------------------------------------------------
(* Both situations together.                                                 *)
Inv == OverInv \/ (IInv /\ Exact)

LEMMA InvInit == ASSUME Init PROVE Inv
  BY InitIInv, InitExact, OverInit DEF Inv

LEMMA InvStep == ASSUME Inv, [Next]_vars PROVE Inv'
  BY StepKeeps, ExactStep, OverStep DEF Inv

(* Every variable stays in its domain.                                       *)
THEOREM TypeCorrect == Spec => []TypeOK
  <1>1. Inv => TypeOK
    BY DEF Inv, IInv, OverInv
  <1>2. Init => Inv
    BY InvInit
  <1>3. Inv /\ [Next]_vars => Inv'
    BY InvStep
  <1> QED
    BY <1>1, <1>2, <1>3, PTL DEF Spec

(* The count of acquired frames is what was announced, at the end exactly,   *)
(* whatever is asked of the ring (setAcqFrames in _xferImag).                *)
THEOREM CountMatchesAlways == Spec => []CountMatches
  <1>1. Inv => CountMatches
    BY DEF Inv, Exact, Counts, OverInv
  <1>2. Init => Inv
    BY InvInit
  <1>3. Inv /\ [Next]_vars => Inv'
    BY InvStep
  <1> QED
    BY <1>1, <1>2, <1>3, PTL DEF Spec

(* A recorded sequence that fits in the ring is played back image by image.  *)
THEOREM PlaybackExactAlways == Spec => []PlaybackExact
  <1>1. Inv => PlaybackExact
    <2>1. OverInv => PlaybackExact
      <3> SUFFICES ASSUME OverInv PROVE ~(req <= Nrevents)
        BY DEF PlaybackExact
      <3>1. req \in Nat /\ Nrevents \in Nat /\ req > Nrevents
        BY OverLoop DEF OverInv, Overrun
      <3> QED
        BY <3>1
    <2> QED
      BY <2>1 DEF Inv, Exact, Played, PlaybackExact
  <1>2. Init => Inv
    BY InvInit
  <1>3. Inv /\ [Next]_vars => Inv'
    BY InvStep
  <1> QED
    BY <1>1, <1>2, <1>3, PTL DEF Spec

(* Only the buffer at the head of the queue is written, and its event is     *)
(* reset until then.                                                         *)
LEMMA OnlyQueuedIsFilled ==
    ASSUME IInv, [Next]_vars, pc # "ramread", NEW b \in Ring, content'[b] # content[b]
    PROVE  ~event[b]
  <1>1. content' # content
    OBVIOUS
  <1>2. CASE Expose \/ ReadOut
    <2>1. /\ TypeOK /\ Queued /\ pending # <<>>
          /\ content' = [content EXCEPT ![Head(pending)] = content'[Head(pending)]]
      <3>1. TypeOK /\ Queued /\ pending # <<>> /\ \E image : Fill(image)
        BY <1>2 DEF IInv, LoopInv, Live, Expose, ReadOut
      <3>2. content \in [Ring -> Nat] /\ Head(pending) \in Ring
        BY <3>1, RingTypes, HeadOff
      <3> QED
        BY <3>1, <3>2 DEF Fill
    <2>2. Head(pending) = pending[1] /\ Head(pending) \in Ring /\ Len(pending) \in Nat \ {0}
      BY <2>1, RingTypes, HeadOff
    <2>3. b = Head(pending)
      BY <2>1, <2>2, RingTypes
    <2>4. assigned[b] = Filled + 1 /\ Filled \in Nat
      BY <2>1, <2>2, <2>3 DEF Queued
    <2> QED
      BY <2>1, <2>4 DEF Queued
  <1>4. CASE [Thread \/ CameraThrows \/ ExposeLost \/ RequestStop \/ Returned]_vars
    <2>1. content' = content
      BY <1>4
      DEF Thread, InitialAssign, InitialAssignFails, InitialAssignDone, StartRecording, LoopEnd,
          StopSeen, FindBuffer, EventFired, Buff2Lima, Reassign, ReassignFails, ReassignIgnored,
          ResetBufferEvent, RamStart, RamRead, RamDone, CameraThrows, ExposeLost, RequestStop, Returned, Assign, vars, sdk
    <2> QED
      BY <1>1, <2>1
  <1> QED
    BY <1>2, <1>4 DEF Next

(* The camera never overwrites an image that LIMA has not got.               *)
THEOREM UncopiedImageKeptAlways == Spec => UncopiedImageKept
  <1> DEFINE Kept == \A b \in Ring : content'[b] # content[b] /\ pc # "ramread"
                         => ~(event[b] /\ assigned[b] >= frameIdx)
  <1>1. Init => Inv
    BY InvInit
  <1>2. Inv /\ [Next]_vars => Inv'
    BY InvStep
  <1>3. Inv /\ [Next]_vars => [Kept]_vars
    <2>1. IInv /\ [Next]_vars => Kept
      BY OnlyQueuedIsFilled
    <2>2. OverInv /\ [Next]_vars => Kept
      BY OverStep, OverFilled
    <2> QED
      BY <2>1, <2>2 DEF Inv
  <1> QED
    BY <1>1, <1>2, <1>3, PTL DEF Spec, UncopiedImageKept

----------------------------------------------------------------------------
(* What is announced of such a sequence: buffer b has frame b + 1 and no     *)
(* other, so frames past the ring find no buffer.                            *)
Once ==
    /\ \A b \in Ring : limaPtr[b] = assigned[b] /\ (b + 1 < first => assigned[b] = b + 1)
    /\ pc \in {"loop", "poll", "copy", "recycle"} => first = Nrevents + 1
    /\ \A b \in Ring : event[b] => content[b] = b + 1

Found ==
    pc \in {"poll", "copy", "recycle"} =>
       IF frameIdx <= Nrevents
       THEN bufIdx = frameIdx - 1 /\ polled = bufIdx /\ (pc = "copy" => event[bufIdx])
       ELSE bufIdx = NoBuf

Emptied(k) ==
    IF k <= Nrevents THEN [frame |-> k, dest |-> k, image |-> k]
                     ELSE [frame |-> k, dest |-> 0, image |-> 0]

EmptyPastRing == \A k \in 1 .. Len(ready) : ready[k] = Emptied(k)

PastRing == Once /\ Found /\ EmptyPastRing

LEMMA PastInit == ASSUME Overrun, Init PROVE PastRing
  <1>1. Nrevents \in Nat \ {0} /\ Len(ready) = 0
    BY NreventsAssumption, EmptyQueue, Zenon DEF Init
  <1>2. pc = "assign" /\ first = 1
    BY DEF Init
  <1>3. \A b \in Ring : ~(b + 1 < first) /\ limaPtr[b] = assigned[b] /\ ~event[b]
    BY <1>1 DEF Init, Ring
  <1> QED
    BY <1>1, <1>2, <1>3 DEF PastRing, Once, Found, EmptyPastRing

LEMMA PastAssign == ASSUME OverInv, PastRing, InitialAssign PROVE PastRing'
  <1>1. TypeOK /\ Nrevents \in Nat \ {0}
    BY OverLoop
  <1>2. /\ pc = "assign" /\ pc' = pc /\ Assign(idx) /\ first = idx + 1 /\ ready' = ready /\ idx \in Ring
    BY <1>1 DEF InitialAssign, OverInv, out, TypeOK, Ring
  <1>3. /\ assigned'[idx] = first /\ limaPtr'[idx] = first /\ ~event'[idx] /\ content' = content
        /\ \A b \in Ring \ {idx} :
              assigned'[b] = assigned[b] /\ limaPtr'[b] = limaPtr[b] /\ event'[b] = event[b]
        /\ first' = first + 1
    BY <1>1, <1>2, RingTypes DEF Assign
  <1>4. \A b \in Ring : limaPtr'[b] = assigned'[b] /\ (b + 1 < first' => assigned'[b] = b + 1)
    <2> SUFFICES ASSUME NEW b \in Ring
                 PROVE  limaPtr'[b] = assigned'[b] /\ (b + 1 < first' => assigned'[b] = b + 1)
      OBVIOUS
    <2>1. CASE b = idx
      BY <1>2, <1>3, <2>1
    <2>2. CASE b # idx
      <3>1. b \in Int /\ idx \in Int
        BY <1>1, <1>2 DEF Ring
      <3>2. b + 1 < first' => b + 1 < first
        BY <1>2, <1>3, <2>2, <3>1
      <3> QED
        BY <1>3, <2>2, <3>2 DEF PastRing, Once
    <2> QED
      BY <2>1, <2>2
  <1>5. \A b \in Ring : event'[b] => content'[b] = b + 1
    BY <1>2, <1>3 DEF PastRing, Once
  <1> QED
    BY <1>2, <1>4, <1>5 DEF PastRing, Once, Found, EmptyPastRing, Emptied

LEMMA PastFind == ASSUME OverInv, PastRing, FindBuffer PROVE PastRing'
  <1>1. TypeOK /\ Nrevents \in Nat \ {0} /\ frameIdx \in Nat \ {0}
    BY OverLoop
  <1>2. /\ pc = "loop" /\ pc' = "poll" /\ first = Nrevents + 1
        /\ UNCHANGED <<frameIdx, first, ring, sdk, ready>>
    BY DEF FindBuffer, PastRing, Once, out
  <1>3. \A b \in Ring : b \in Int /\ b < Nrevents /\ assigned[b] = b + 1
    BY <1>1, <1>2 DEF Ring, PastRing, Once
  <1>4. CASE frameIdx <= Nrevents
    <2>1. frameIdx - 1 \in Ring
      BY <1>1, <1>4 DEF Ring
    <2>2. Holders = {frameIdx - 1}
      BY <1>1, <1>3, <2>1 DEF Holders
    <2>3. bufIdx' = frameIdx - 1 /\ polled' = bufIdx'
      <3>1. (CHOOSE x \in {frameIdx - 1} : \A c \in {frameIdx - 1} : x <= c) = frameIdx - 1
        BY <1>1
      <3> QED
        BY <2>2, <3>1 DEF FindBuffer
    <2> QED
      BY <1>2, <1>4, <2>3 DEF PastRing, Once, Found, EmptyPastRing, Emptied, ring, sdk
  <1>5. CASE ~(frameIdx <= Nrevents)
    <2>1. Holders = {}
      BY <1>1, <1>3, <1>5 DEF Holders
    <2>2. bufIdx' = NoBuf
      BY <2>1 DEF FindBuffer
    <2> QED
      BY <1>2, <1>5, <2>2 DEF PastRing, Once, Found, EmptyPastRing, Emptied, ring, sdk
  <1> QED
    BY <1>4, <1>5

LEMMA PastOut == ASSUME OverInv, PastRing, Buff2Lima PROVE PastRing'
  <1>1. /\ TypeOK /\ Nrevents \in Nat \ {0} /\ frameIdx \in Nat \ {0} /\ pc = "copy" /\ Uncounted
        /\ pc' = "recycle" /\ ready' = Append(ready, Announcement(bufIdx))
        /\ UNCHANGED <<frameIdx, first, bufIdx, polled, ring, sdk>>
    BY OverLoop DEF Buff2Lima, OverInv, Live
  <1>2. Len(ready) = frameIdx - 1
    BY <1>1 DEF Uncounted, NextOut
  <1>3. Announcement(bufIdx) = Emptied(frameIdx)
    <2>1. CASE frameIdx <= Nrevents
      <3>1. bufIdx = frameIdx - 1 /\ event[bufIdx] /\ bufIdx \in Ring /\ first = Nrevents + 1
        BY <1>1, <2>1 DEF PastRing, Found, Once, Ring
      <3>2. limaPtr[bufIdx] = frameIdx /\ content[bufIdx] = frameIdx
        BY <1>1, <2>1, <3>1 DEF PastRing, Once
      <3> QED
        BY <2>1, <3>1, <3>2 DEF Announcement, Emptied
    <2>2. CASE ~(frameIdx <= Nrevents)
      <3>1. bufIdx \notin Ring
        BY <1>1, <2>2 DEF PastRing, Found, NoBuf, Ring
      <3> QED
        BY <2>2, <3>1 DEF Announcement, Emptied
    <2> QED
      BY <2>1, <2>2
  <1>4. Announcement(bufIdx) \in [frame : Nat, dest : Nat, image : Int]
    BY <1>1, <1>3 DEF Emptied
  <1>5. /\ Len(ready') = frameIdx /\ ready'[frameIdx] = Emptied(frameIdx)
        /\ \A k \in 1 .. frameIdx - 1 : ready'[k] = ready[k]
    <2>1. ready \in Seq([frame : Nat, dest : Nat, image : Int]) /\ frameIdx = Len(ready) + 1
          /\ Len(ready) \in Nat
      BY <1>1, <1>2, ReadyTypes
    <2> QED
      BY <1>1, <1>3, <1>4, <2>1, Appended
  <1>6. EmptyPastRing'
    <2> SUFFICES ASSUME NEW k \in 1 .. frameIdx PROVE ready'[k] = Emptied(k)
      BY <1>5 DEF EmptyPastRing, Emptied
    <2>1. CASE k = frameIdx
      BY <1>5, <2>1
    <2>2. CASE k # frameIdx
      BY <1>1, <1>2, <1>5, <2>2 DEF PastRing, EmptyPastRing
    <2> QED
      BY <2>1, <2>2
  <1> QED
    BY <1>1, <1>6 DEF PastRing, Once, Found, ring, sdk

LEMMA PastFilled == ASSUME OverInv, PastRing, ReadOut PROVE PastRing'
  <1> DEFINE h == Head(pending)
  <1>1. /\ TypeOK /\ FilledOnce /\ pending # <<>> /\ Fill(assigned[h]) /\ Nrevents \in Nat \ {0}
        /\ first \in Nat
        /\ UNCHANGED <<pc, frameIdx, first, bufIdx, polled, assigned, limaPtr, ready>>
    BY OverLoop DEF ReadOut, OverInv, Unchanged_sdk_env, ring, out
  <1>2. h \in Ring /\ h = pending[1] /\ Len(pending) \in Nat \ {0}
    BY <1>1, RingTypes, HeadOff
  <1>3. assigned[h] = h + 1
    <2>1. h < first - 1 /\ h \in Int
      BY <1>1, <1>2 DEF FilledOnce, Ring
    <2> QED
      BY <1>1, <1>2, <2>1 DEF PastRing, Once
  <1>4. /\ content'[h] = h + 1 /\ event'[h]
        /\ \A b \in Ring \ {h} : content'[b] = content[b] /\ event'[b] = event[b]
    BY <1>1, <1>2, <1>3, RingTypes DEF Fill
  <1>5. \A b \in Ring : (event'[b] => content'[b] = b + 1) /\ (event[b] => event'[b])
    BY <1>4 DEF PastRing, Once
  <1>6. Found'
    <2>1. CASE pc \in {"poll", "copy", "recycle"} /\ frameIdx <= Nrevents
      <3>1. bufIdx \in Ring /\ frameIdx \in Nat \ {0}
        BY <1>1, <2>1 DEF PastRing, Found, TypeOK, Ring
      <3> QED
        BY <1>1, <1>5, <2>1, <3>1 DEF PastRing, Found
    <2> QED
      BY <1>1, <2>1 DEF PastRing, Found
  <1> QED
    BY <1>1, <1>5, <1>6 DEF PastRing, Once, EmptyPastRing, Emptied

LEMMA PastStep == ASSUME OverInv, PastRing, [Next]_vars PROVE PastRing'
  <1>1. /\ TypeOK /\ ~Readout /\ ~RunAfterAssign /\ ~recording /\ MoreToAssign
        /\ pc \notin {"start", "ram", "ramread"} /\ frameIdx \in Nat \ {0} /\ Nrevents \in Nat \ {0}
    BY OverLoop DEF OverInv
  <1>2. ~(StartRecording \/ Reassign \/ ResetBufferEvent \/ RamStart \/ RamRead \/ RamDone
          \/ ReassignFails \/ Expose \/ ExposeLost)
    BY <1>1 DEF StartRecording, Reassign, ResetBufferEvent, RamStart, RamRead, RamDone,
                ReassignFails, Expose, ExposeLost
  <1>3. CASE InitialAssignFails \/ LoopEnd \/ StopSeen \/ CameraThrows
    <2>1. pc' \in {"done", "dead"} /\ UNCHANGED <<frameIdx, first, bufIdx, polled, ring, sdk, out>>
      BY <1>3 DEF InitialAssignFails, LoopEnd, StopSeen, CameraThrows, Return
    <2> QED
      BY <2>1 DEF PastRing, Once, Found, EmptyPastRing, Emptied, ring, sdk, out
  <1>4. CASE RequestStop \/ UNCHANGED vars
    <2>1. UNCHANGED <<pc, frameIdx, first, bufIdx, polled, ring, sdk, out>>
      BY <1>4 DEF RequestStop, vars
    <2> QED
      BY <2>1 DEF PastRing, Once, Found, EmptyPastRing, Emptied, ring, sdk, out
  <1>5. CASE InitialAssignDone
    <2>1. pc' = "loop" /\ first = Nrevents + 1
          /\ UNCHANGED <<frameIdx, first, bufIdx, polled, ring, sdk, out>>
      BY <1>1, <1>5 DEF InitialAssignDone, OverInv
    <2> QED
      BY <2>1 DEF PastRing, Once, Found, EmptyPastRing, Emptied, ring, sdk, out
  <1>6. CASE EventFired
    <2>1. /\ pc = "poll" /\ pc' = "copy" /\ event[polled]
          /\ UNCHANGED <<frameIdx, first, bufIdx, polled, ring, sdk, out>>
      BY <1>6 DEF EventFired
    <2> QED
      BY <2>1 DEF PastRing, Once, Found, EmptyPastRing, Emptied, ring, sdk, out
  <1>7. CASE ReassignIgnored
    <2>1. pc = "recycle" /\ pc' = "loop" /\ UNCHANGED <<first, bufIdx, polled, ring, sdk, ready>>
      BY <1>1, <1>7 DEF ReassignIgnored, NextFrame, Readout
    <2> QED
      BY <2>1 DEF PastRing, Once, Found, EmptyPastRing, Emptied, ring, sdk
  <1>8. CASE InitialAssign
    BY <1>8, PastAssign
  <1>9. CASE FindBuffer
    BY <1>9, PastFind
  <1>10. CASE Buff2Lima
    BY <1>10, PastOut
  <1>11. CASE ReadOut
    BY <1>11, PastFilled
  <1> QED
    BY <1>2, <1>3, <1>4, <1>5, <1>6, <1>7, <1>8, <1>9, <1>10, <1>11 DEF Next, Thread, Returned

(* A recorded sequence longer than the ring is played back only as far as    *)
(* the ring goes: every later frame is announced without an image, and       *)
(* nothing is copied for it (the search for a buffer in _xferImag).          *)
THEOREM OverrunIsEmpty == Spec => [](Overrun => EmptyPastRing)
  <1> DEFINE J == Overrun => OverInv /\ PastRing
  <1>1. Init => J
    BY OverInit, PastInit
  <1>2. J /\ [Next]_vars => J'
    <2> SUFFICES ASSUME J, [Next]_vars, Overrun' PROVE OverInv' /\ PastRing'
      OBVIOUS
    <2>1. Overrun
      BY ParamsStay DEF Overrun, ByNumber, LiveMode, params
    <2> QED
      BY <2>1, OverStep, PastStep
  <1>3. J => (Overrun => EmptyPastRing)
    BY DEF PastRing
  <1> QED
    BY <1>1, <1>2, <1>3, PTL DEF Spec

----------------------------------------------------------------------------
(* The refinement: Buff2Lima delivers, a return ends, the rest stutters.     *)
LEMMA DeliverStep ==
    ASSUME IInv, IInv', Buff2Lima PROVE Stream!Deliver
  <1> DEFINE f == [k \in 1 .. Len(ready) |-> ready[k].image]
             image == ready'[Len(ready) + 1].image
  <1>1. /\ TypeOK /\ Numbered /\ Counting /\ pc = "copy" /\ pc' = "recycle" /\ TypeOK' /\ Ordered'
        /\ ModesKept' /\ ImagesInOrder' /\ FrameHasItsImage'
    BY DEF IInv, Live, LoopInv, Buff2Lima, Announced
  <1>2. ready' = Append(ready, Announcement(bufIdx)) /\ ret' = ret /\ UNCHANGED params
    BY DEF Buff2Lima
  <1>3. Len(ready) \in Nat /\ Len(ready') = Len(ready) + 1
        /\ \A k \in 1 .. Len(ready) : ready'[k] = ready[k]
    <2>1. ready \in Seq([frame : Nat, dest : Nat, image : Int]) /\ Len(ready) \in Nat
      BY <1>1, ReadyTypes
    <2> QED
      BY <1>2, <2>1
  <1>4. ret = NoRet /\ Len(ready) < RequestedFrames
    <2>1. frameIdx \in Nat /\ RequestedFrames \in Nat
      BY <1>1, RequestedIsPositive DEF TypeOK
    <2>2. ret = NoRet /\ Len(ready) = frameIdx - 1 /\ frameIdx <= RequestedFrames
      BY <1>1 DEF Counting, Numbered, NextOut
    <2> QED
      BY <2>1, <2>2
  <1>5. image \in 1 .. MaxImages
    <2>1. image > 0 /\ image \in Int
      <3>1. bufIdx \in Ring /\ content[bufIdx] \in Nat
        BY <1>1, RingTypes DEF Numbered
      <3>2. ready'[Len(ready) + 1] = Announcement(bufIdx)
        <4>1. ready \in Seq([frame : Nat, dest : Nat, image : Int])
          BY <1>1, ReadyTypes
        <4> QED
          BY <1>2, <4>1
      <3>3. image \in Int
        BY <3>1, <3>2 DEF Announcement
      <3>4. Len(ready) + 1 \in 1 .. Len(ready')
        BY <1>3
      <3> QED
        BY <1>1, <3>3, <3>4 DEF FrameHasItsImage
    <2>2. image <= Newest' /\ Newest' <= taken' /\ taken' <= MaxImages
      BY <1>1, <1>3 DEF Ordered, ModesKept
    <2>3. taken' \in Int /\ Newest' \in Int /\ MaxImages \in Int
      <3>1. Filled' \in Int
        <4>1. first' \in Nat /\ pending' \in Seq(Ring)
          BY <1>1 DEF TypeOK
        <4>2. Len(pending') \in Nat
          BY <4>1
        <4> QED
          BY <4>1, <4>2 DEF Filled
      <3> QED
        BY <1>1, <3>1, BoundsAssumption DEF Newest, TypeOK
    <2> QED
      BY <2>1, <2>2, <2>3
  <1>6. \A k \in 1 .. Len(ready) : ready[k].image < image
    BY <1>1, <1>3 DEF ImagesInOrder
  <1>7. [k \in 1 .. Len(ready') |-> ready'[k].image] = Append(f, image)
    <2>1. f \in Seq(Int) /\ Len(f) = Len(ready)
      <3>1. \A k \in 1 .. Len(ready) : ready[k].image \in Int
        BY <1>1, ReadyTypes
      <3> QED
        BY <1>3, <3>1
    <2>2. image \in Int
      BY <1>5
    <2>3. Append(f, image) = [k \in 1 .. Len(ready) + 1 |-> IF k = Len(ready) + 1 THEN image ELSE f[k]]
      BY <2>1, <2>2
    <2>4. \A k \in 1 .. Len(ready) : f[k] = ready'[k].image
      BY <1>3
    <2> QED
      BY <1>3, <2>3, <2>4
  <1>8. RequestedFrames' = RequestedFrames
    BY <1>2 DEF RequestedFrames, params
  <1>9. Len(f) = Len(ready) /\ \A k \in 1 .. Len(f) : f[k] = ready[k].image
    BY <1>3
  <1> QED
    BY <1>2, <1>4, <1>5, <1>6, <1>7, <1>8, <1>9 DEF Stream!Deliver

LEMMA EndStep ==
    ASSUME IInv, NEW status \in Statuses, Live, Return(status), UNCHANGED <<params, ready>>,
           status = "TransferEnd" => pc = "loop" /\ frameIdx > RequestedFrames
    PROVE  Stream!End
  <1> DEFINE f == [k \in 1 .. Len(ready) |-> ready[k].image]
  <1>1. TypeOK /\ Numbered /\ Counting
    BY DEF IInv, LoopInv
  <1>2. Len(ready) \in Nat /\ RequestedFrames \in Nat /\ frameIdx \in Nat
    BY <1>1, ReadyTypes, RequestedIsPositive DEF TypeOK
  <1>3. status = "TransferEnd" => Len(ready) = RequestedFrames
    BY <1>1, <1>2 DEF Numbered, Counting, NextOut
  <1>4. Len(f) = Len(ready)
    BY <1>2
  <1>5. ret = NoRet /\ ret' = status
    BY <1>1 DEF Counting, Return
  <1>6. RequestedFrames' = RequestedFrames
    BY DEF RequestedFrames, params
  <1> QED
    BY <1>3, <1>4, <1>5, <1>6 DEF Stream!End

LEMMA RefinementStep == ASSUME Fits, IInv, IInv', [Next]_vars PROVE [Stream!Next]_(Stream!vars)
  <1>1. CASE UNCHANGED <<params, ready, ret>>
    BY <1>1 DEF Stream!vars, RequestedFrames, params
  <1>2. CASE Buff2Lima
    BY <1>2, DeliverStep DEF Stream!Next
  <1>3. CASE InitialAssignFails \/ LoopEnd \/ StopSeen \/ ReassignFails
    <2>1. PICK status \in Statuses :
             /\ Return(status)
             /\ status = "TransferEnd" => pc = "loop" /\ frameIdx > RequestedFrames
      BY <1>3 DEF InitialAssignFails, LoopEnd, StopSeen, ReassignFails, Statuses
    <2>2. Live /\ UNCHANGED <<params, ready>>
      BY <1>3 DEF InitialAssignFails, LoopEnd, StopSeen, ReassignFails, Live, out
    <2> QED
      BY <2>1, <2>2, EndStep DEF Stream!Next
  <1>4. ~(RamStart \/ RamRead \/ RamDone)
    BY DEF RamStart, RamRead, RamDone, IInv, LoopInv, Live, ModesKept, Reading, Fits
  <1>5. CASE InitialAssign \/ InitialAssignDone \/ StartRecording \/ FindBuffer \/ EventFired
    BY <1>1, <1>5 DEF InitialAssign, InitialAssignDone, StartRecording, FindBuffer, EventFired, out
  <1>6. CASE Reassign \/ ReassignIgnored \/ ResetBufferEvent
    BY <1>1, <1>6 DEF Reassign, ReassignIgnored, ResetBufferEvent
  <1>7. CASE CameraThrows \/ Expose \/ ExposeLost \/ ReadOut \/ RequestStop \/ Returned
    BY <1>1, <1>7
    DEF CameraThrows, Expose, ExposeLost, ReadOut, RequestStop, Returned, Unchanged_sdk_env, out, vars
  <1>8. CASE UNCHANGED vars
    BY <1>1, <1>8 DEF vars, out
  <1> QED
    BY <1>2, <1>3, <1>4, <1>5, <1>6, <1>7, <1>8 DEF Next, Thread

(* _xferImag delivers what an acquisition promises: the frames one after the *)
(* other, each with a newer image, no more than asked for, all of them when  *)
(* it ends normally, and none after its end.                                 *)
THEOREM Implements == Fits /\ Spec => ImplementsStream
  <1>1. Fits /\ Init => IInv
    BY FitsInit
  <1>2. IInv /\ [Next]_vars => IInv'
    BY StepKeeps
  <1>3. Fits /\ Init => Stream!Init
    <2> SUFFICES ASSUME Fits, Init PROVE Stream!Init
      OBVIOUS
    <2>1. IInv
      BY FitsInit
    <2>2. RequestedFrames \in Nat
      BY <2>1, RequestedIsPositive DEF IInv
    <2>3. ready = <<>> /\ ret = NoRet
      BY DEF Init
    <2>4. [k \in 1 .. Len(ready) |-> ready[k].image] = <<>>
      BY <2>3
    <2> QED
      BY <2>2, <2>3, <2>4 DEF Stream!Init
  <1>4. Fits /\ IInv /\ IInv' /\ [Next]_vars => [Stream!Next]_(Stream!vars)
    BY RefinementStep
  <1>5. Fits /\ [Next]_vars => Fits'
    BY FitsStays
  <1> QED
    BY <1>1, <1>2, <1>3, <1>4, <1>5, PTL DEF Spec, ImplementsStream, Stream!Spec
=============================================================================
