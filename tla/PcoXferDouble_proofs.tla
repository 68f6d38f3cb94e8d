------------------------ MODULE PcoXferDouble_proofs ------------------------
(* The double transfer announces each half of each recorded image as its    *)
(* frame, for every size of the ring, of LIMA's pool and of the recording.  *)
(* The invariant behind it: a buffer that is marked, or whose event is set, *)
(* holds the image it was last queued for, whatever other buffers hold, and *)
(* the place in the loop says how many frames have been announced.          *)
EXTENDS PcoXferDouble, TLAPS

(* an event or a mark that outlives its buffer's image would break this;    *)
(* an unassigned buffer may carry an event of an earlier transfer           *)
SetMeansFilled ==
    \A b \in Ring : assigned[b] > 0 /\ (event[b] \/ marked[b]) => content[b] = assigned[b]

BufferIsFound ==
    pc \in {"img1", "img2"} =>
        /\ buf \in Ring
        /\ assigned[buf] = pair /\ content[buf] = pair

BufferIsInRing == pc = "recycle" => buf \in Ring

LengthFits ==
    /\ pc \in {"assign", "loop", "wait", "img1"} => Len(frames) = 2 * (pair - 1)
    /\ pc = "img2" => Len(frames) = 2 * (pair - 1) + 1
    /\ pc = "recycle" => Len(frames) = 2 * pair

IInv ==
    /\ TypeOK
    /\ SetMeansFilled
    /\ BufferIsFound
    /\ BufferIsInRing
    /\ LengthFits
    /\ FrameHasItsImage

(* Appending a record extends a sequence of records by one.                 *)
LEMMA Appended ==
    ASSUME NEW S, NEW s \in Seq(S), NEW x \in S
    PROVE  /\ Append(s, x) \in Seq(S)
           /\ Len(Append(s, x)) = Len(s) + 1
           /\ \A n \in 1 .. Len(s) : Append(s, x)[n] = s[n]
           /\ Append(s, x)[Len(s) + 1] = x
  OBVIOUS

LEMMA Halves ==
    ASSUME NEW p \in Nat, NEW h \in {0, 1}
    PROVE  (2 * p + h) \div 2 = p /\ (2 * p + h) % 2 = h
  OBVIOUS

(* Writing a number into the pool keeps it a pool.                          *)
LEMMA Written ==
    ASSUME NEW m \in [Slots -> Nat], NEW s, NEW n \in Nat
    PROVE  [m EXCEPT ![s] = n] \in [Slots -> Nat]
  OBVIOUS

LEMMA InitIInv == ASSUME Init PROVE IInv
  <1>1. valid \in Nat /\ limit \in Nat
    BY SizesAssumption DEF Init
  <1>2. \A asked \in Requests : Recorded(asked) \in Nat
    <2> SUFFICES ASSUME NEW asked \in Requests PROVE Recorded(asked) \in Nat
      OBVIOUS
    <2>1. asked \in Nat
      BY SizesAssumption
    <2>2. asked \div 2 \in Nat
      BY <2>1
    <2> QED
      BY <1>1, <2>2 DEF Recorded, MinOf
  <1>3. TypeOK
    <2>1. req \in Nat /\ retries \in Int /\ buf \in 0 .. Nrevents
      BY <1>1, <1>2, SizesAssumption DEF Init
    <2>2. /\ pending \in Seq(Ring) /\ frames \in Seq(Frames)
          /\ assigned \in [Ring -> Nat] /\ content \in [Ring -> Nat] /\ pool \in [Slots -> Nat]
          /\ marked \in [Ring -> BOOLEAN] /\ event \in [Ring -> BOOLEAN]
      BY DEF Init
    <2>3. pair \in Nat \ {0} /\ first \in Nat \ {0} /\ acqFrames \in Nat /\ saved \in Nat
      BY DEF Init
    <2>4. pc = "assign" /\ ret = "none" /\ stop \in BOOLEAN
      BY DEF Init
    <2> QED
      BY <1>1, <2>1, <2>2, <2>3, <2>4, Zenon DEF TypeOK
  <1> QED
    BY <1>3, SizesAssumption
    DEF Init, IInv, SetMeansFilled, BufferIsFound, BufferIsInRing, LengthFits, FrameHasItsImage, Ring

(* Queueing a buffer for the next image keeps what its flags promise.       *)
LEMMA AssignKeeps ==
    ASSUME TypeOK, SetMeansFilled, NEW b \in Ring, Assign(b)
    PROVE  /\ SetMeansFilled'
           /\ assigned' \in [Ring -> Nat] /\ marked' \in [Ring -> BOOLEAN]
           /\ event' \in [Ring -> BOOLEAN] /\ content' \in [Ring -> Nat]
           /\ pending' \in Seq(Ring) /\ first' \in Nat \ {0}
  <1>1. assigned' \in [Ring -> Nat] /\ marked' \in [Ring -> BOOLEAN]
        /\ event' \in [Ring -> BOOLEAN] /\ content' \in [Ring -> Nat]
    BY DEF TypeOK, Assign
  <1>2. pending' \in Seq(Ring) /\ first' \in Nat \ {0}
    BY DEF TypeOK, Assign
  <1>3. SetMeansFilled'
    <2> SUFFICES ASSUME NEW c \in Ring, assigned'[c] > 0, event'[c] \/ marked'[c]
                 PROVE  content'[c] = assigned'[c]
      BY DEF SetMeansFilled
    <2>1. c # b
      BY DEF TypeOK, Assign
    <2>2. assigned'[c] = assigned[c] /\ event'[c] = event[c] /\ marked'[c] = marked[c]
          /\ content'[c] = content[c]
      BY <2>1 DEF TypeOK, Assign
    <2> QED
      BY <2>2 DEF SetMeansFilled
  <1> QED
    BY <1>1, <1>2, <1>3

(* One more half of the pair's image is announced as the next frame.        *)
LEMMA AnnounceKeeps ==
    ASSUME IInv, NEW half \in {0, 1}, Announce(half), pc \in {"img1", "img2"},
           Len(frames) = 2 * (pair - 1) + half
    PROVE  /\ frames' \in Seq(Frames) /\ pool' \in [Slots -> Nat]
           /\ Len(frames') = Len(frames) + 1
           /\ FrameHasItsImage'
  <1> DEFINE nr == LimaFrame(assigned[buf], half)
             x == [nr |-> nr, image |-> content[buf], half |-> half]
  <1>1. buf \in Ring /\ assigned[buf] = pair /\ content[buf] = pair /\ pair \in Nat \ {0}
    BY DEF IInv, TypeOK, BufferIsFound
  <1>2. nr = Len(frames) /\ nr \in Nat
    BY <1>1 DEF LimaFrame, IInv, TypeOK
  <1>3. x \in Frames
    BY <1>1, <1>2 DEF Frames
  <1>4. frames \in Seq(Frames)
    BY DEF IInv, TypeOK
  <1>5. frames' = Append(frames, x)
    BY DEF Announce
  <1>6. /\ frames' \in Seq(Frames)
        /\ Len(frames') = Len(frames) + 1
        /\ \A n \in 1 .. Len(frames) : frames'[n] = frames[n]
        /\ frames'[Len(frames) + 1] = x
    BY <1>3, <1>4, <1>5, Appended
  <1>7. pool' \in [Slots -> Nat]
    <2>1. pool' = [pool EXCEPT ![Slot(nr)] = nr + 1]
      BY DEF Announce
    <2>2. pool \in [Slots -> Nat]
      BY DEF IInv, TypeOK
    <2>3. nr + 1 \in Nat
      BY <1>2
    <2> QED
      BY <2>1, <2>2, <2>3, Written
  <1>8. x = [nr |-> Len(frames), image |-> Len(frames) \div 2 + 1, half |-> Len(frames) % 2]
    <2>1. Len(frames) \div 2 = pair - 1 /\ Len(frames) % 2 = half
      <3>1. pair - 1 \in Nat
        BY <1>1
      <3> QED
        BY <3>1, Halves
    <2> QED
      BY <1>1, <1>2, <2>1
  <1>9. FrameHasItsImage'
    <2> SUFFICES ASSUME NEW n \in 1 .. Len(frames')
                 PROVE  frames'[n] = [nr |-> n - 1, image |-> (n - 1) \div 2 + 1, half |-> (n - 1) % 2]
      BY DEF FrameHasItsImage
    <2>1. CASE n \in 1 .. Len(frames)
      BY <1>6, <2>1 DEF IInv, FrameHasItsImage
    <2>2. CASE n = Len(frames) + 1
      <3>1. n - 1 = Len(frames)
        BY <1>4, <2>2
      <3> QED
        BY <1>6, <1>8, <2>2, <3>1
    <2>3. Len(frames) \in Nat
      BY <1>4
    <2> QED
      BY <1>6, <2>1, <2>2, <2>3
  <1> QED
    BY <1>6, <1>7, <1>9

LEMMA NextIInv == ASSUME IInv, [Next]_vars PROVE IInv'
  <1> USE SizesAssumption
  <1>1. CASE UNCHANGED vars
    BY <1>1 DEF IInv, TypeOK, SetMeansFilled, BufferIsFound, BufferIsInRing, LengthFits,
                FrameHasItsImage, vars, config, locals, ring, sdk, lima
  <1>2. ASSUME InitialAssign PROVE IInv'
    <2>1. buf \in Ring
      BY <1>2 DEF InitialAssign, IInv, TypeOK, Ring
    <2>2. Assign(buf) /\ pc = "assign" /\ pc' = pc /\ buf' = buf + 1
          /\ UNCHANGED <<config, pair, retries, ret, stop, acqFrames, lima>>
      BY <1>2 DEF InitialAssign
    <2>3. /\ SetMeansFilled'
          /\ assigned' \in [Ring -> Nat] /\ marked' \in [Ring -> BOOLEAN]
          /\ event' \in [Ring -> BOOLEAN] /\ content' \in [Ring -> Nat]
          /\ pending' \in Seq(Ring) /\ first' \in Nat \ {0}
      BY <2>1, <2>2, AssignKeeps DEF IInv
    <2>4. buf' \in 0 .. Nrevents
      BY <2>1, <2>2 DEF Ring
    <2>5. TypeOK'
      BY <2>2, <2>3, <2>4 DEF IInv, TypeOK, config, lima
    <2> QED
      BY <2>2, <2>3, <2>5 DEF IInv, BufferIsFound, BufferIsInRing, LengthFits, FrameHasItsImage, lima
  <1>3. ASSUME InitialAssignDone PROVE IInv'
    BY <1>3 DEF InitialAssignDone, IInv, TypeOK, SetMeansFilled, BufferIsFound, BufferIsInRing,
                LengthFits, FrameHasItsImage, config, locals, ring, sdk, lima
  <1>4. ASSUME NoLimaBuffer \/ LoopEnd \/ StopSeen PROVE IInv'
    <2>1. PICK status \in {"TransferEnd", "TransferStop", "PcoError"} : Return(status)
      BY <1>4 DEF NoLimaBuffer, LoopEnd, StopSeen
    <2> QED
      BY <2>1 DEF Return, IInv, TypeOK, SetMeansFilled, BufferIsFound, BufferIsInRing,
                  LengthFits, FrameHasItsImage, config, ring, sdk, lima
  <1>5. ASSUME FindBuffer PROVE IInv'
    <2>1. buf' \in Found
      BY <1>5 DEF FindBuffer
    <2>2. buf' \in Ring /\ assigned[buf'] = pair /\ marked[buf']
      BY <2>1 DEF Found
    <2>3. content[buf'] = pair
      BY <2>2 DEF IInv, TypeOK, SetMeansFilled
    <2>4. /\ pc = "loop" /\ pc' = "img1"
          /\ UNCHANGED <<config, pair, first, retries, ret, ring, sdk, stop, acqFrames, lima>>
      BY <1>5 DEF FindBuffer
    <2>5. TypeOK'
      <3>1. buf' \in 0 .. Nrevents
        BY <2>2 DEF Ring
      <3> QED
        BY <2>4, <3>1 DEF IInv, TypeOK, config, ring, sdk, lima
    <2>6. SetMeansFilled' /\ FrameHasItsImage'
      BY <2>4 DEF IInv, SetMeansFilled, FrameHasItsImage, ring, sdk, lima
    <2>7. BufferIsFound' /\ BufferIsInRing'
      BY <2>2, <2>3, <2>4 DEF IInv, BufferIsFound, BufferIsInRing, ring, sdk
    <2>8. LengthFits'
      BY <2>4 DEF IInv, LengthFits, lima
    <2> QED
      BY <2>5, <2>6, <2>7, <2>8 DEF IInv
  <1>6. ASSUME NoneFound PROVE IInv'
    BY <1>6 DEF NoneFound, IInv, TypeOK, SetMeansFilled, BufferIsFound, BufferIsInRing,
                LengthFits, FrameHasItsImage, config, locals, ring, sdk, lima
  <1>7. ASSUME Img1 PROVE IInv'
    <2>1. Announce(0) /\ pc = "img1" /\ pc' = "img2"
      BY <1>7 DEF Img1
    <2>2. Len(frames) = 2 * (pair - 1) + 0
      BY <2>1 DEF IInv, LengthFits, TypeOK
    <2>3. /\ frames' \in Seq(Frames) /\ pool' \in [Slots -> Nat]
          /\ Len(frames') = Len(frames) + 1
          /\ FrameHasItsImage'
      BY <2>1, <2>2, AnnounceKeeps
    <2>4. UNCHANGED <<config, locals, ring, sdk, stop, acqFrames, saved>>
      BY <2>1 DEF Announce
    <2>5. LengthFits'
      BY <2>1, <2>2, <2>3, <2>4 DEF LengthFits, IInv, TypeOK, locals
    <2> QED
      BY <2>1, <2>3, <2>4, <2>5
      DEF IInv, TypeOK, SetMeansFilled, BufferIsFound, BufferIsInRing, config, locals, ring, sdk
  <1>8. ASSUME Img2 PROVE IInv'
    <2>1. Announce(1) /\ pc = "img2" /\ pc' = "recycle"
      BY <1>8 DEF Img2
    <2>2. Len(frames) = 2 * (pair - 1) + 1
      BY <2>1 DEF IInv, LengthFits
    <2>3. /\ frames' \in Seq(Frames) /\ pool' \in [Slots -> Nat]
          /\ Len(frames') = Len(frames) + 1
          /\ FrameHasItsImage'
      BY <2>1, <2>2, AnnounceKeeps
    <2>4. UNCHANGED <<config, locals, ring, sdk, stop, acqFrames, saved>>
      BY <2>1 DEF Announce
    <2>5. LengthFits'
      BY <2>1, <2>2, <2>3, <2>4 DEF LengthFits, IInv, TypeOK, locals
    <2> QED
      BY <2>1, <2>3, <2>4, <2>5
      DEF IInv, TypeOK, SetMeansFilled, BufferIsFound, BufferIsInRing, config, locals, ring, sdk
  <1>9. ASSUME Reassign PROVE IInv'
    <2>1. Assign(buf) /\ NextPair /\ pc = "recycle" /\ buf \in Ring
      BY <1>9 DEF Reassign, IInv, BufferIsInRing
    <2>2. /\ SetMeansFilled'
          /\ assigned' \in [Ring -> Nat] /\ marked' \in [Ring -> BOOLEAN]
          /\ event' \in [Ring -> BOOLEAN] /\ content' \in [Ring -> Nat]
          /\ pending' \in Seq(Ring) /\ first' \in Nat \ {0}
      BY <2>1, AssignKeeps DEF IInv
    <2>3. TypeOK'
      <3>1. pair' \in Nat \ {0} /\ acqFrames' \in Nat /\ pc' = "loop"
        BY <2>1 DEF NextPair, IInv, TypeOK
      <3>2. /\ req' \in Nat /\ limit' \in Nat /\ valid' \in Nat /\ buf' \in 0 .. Nrevents
            /\ retries' \in Int /\ stop' \in BOOLEAN
            /\ ret' \in {"none", "TransferEnd", "TransferStop", "WaitTimeout", "PcoError"}
        BY <2>1 DEF NextPair, IInv, TypeOK, config
      <3>3. frames' \in Seq(Frames) /\ pool' \in [Slots -> Nat] /\ saved' \in Nat
        BY <2>1 DEF NextPair, IInv, TypeOK, lima
      <3> QED
        BY <2>2, <3>1, <3>2, <3>3 DEF TypeOK
    <2>4. LengthFits'
      BY <2>1 DEF NextPair, IInv, TypeOK, LengthFits, lima
    <2> QED
      BY <2>1, <2>2, <2>3, <2>4
      DEF NextPair, IInv, BufferIsFound, BufferIsInRing, FrameHasItsImage, lima
  <1>10. ASSUME NoneToAssign PROVE IInv'
    <2>1. LengthFits'
      BY <1>10 DEF NoneToAssign, NextPair, IInv, TypeOK, LengthFits, lima
    <2> QED
      BY <1>10, <2>1
      DEF NoneToAssign, NextPair, IInv, TypeOK, SetMeansFilled, BufferIsFound, BufferIsInRing,
          FrameHasItsImage, config, ring, sdk, lima
  <1>11. ASSUME WaitFired PROVE IInv'
    <2>1. marked' \in [Ring -> BOOLEAN] /\ \A b \in Ring : marked'[b] => marked[b] \/ event[b]
      BY <1>11 DEF WaitFired, Fired
    <2>2. SetMeansFilled'
      BY <1>11, <2>1 DEF WaitFired, IInv, SetMeansFilled, sdk
    <2> QED
      BY <1>11, <2>1, <2>2
      DEF WaitFired, IInv, TypeOK, BufferIsFound, BufferIsInRing, LengthFits, FrameHasItsImage,
          config, locals, sdk, lima
  <1>12. ASSUME WaitRetry PROVE IInv'
    <2>1. retries' \in Int
      BY <1>12 DEF WaitRetry, RetriesLeft, IInv, TypeOK
    <2> QED
      BY <1>12, <2>1
      DEF WaitRetry, IInv, TypeOK, SetMeansFilled, BufferIsFound, BufferIsInRing, LengthFits,
          FrameHasItsImage, config, ring, sdk, lima
  <1>13. ASSUME WaitAbort PROVE IInv'
    BY <1>13 DEF WaitAbort, IInv, TypeOK, SetMeansFilled, BufferIsFound, BufferIsInRing,
                 LengthFits, FrameHasItsImage, config, ring, sdk, lima
  <1>14. ASSUME CameraThrows PROVE IInv'
    BY <1>14 DEF CameraThrows, IInv, TypeOK, SetMeansFilled, BufferIsFound, BufferIsInRing,
                 LengthFits, FrameHasItsImage, config, locals, ring, sdk, lima
  <1>15. ASSUME ReadOut PROVE IInv'
    <2> DEFINE h == Head(pending)
    <2>1. h \in Ring /\ pending' \in Seq(Ring)
      BY <1>15 DEF ReadOut, IInv, TypeOK
    <2>2. content' = [content EXCEPT ![h] = assigned[h]] /\ event' = [event EXCEPT ![h] = TRUE]
          /\ UNCHANGED <<config, pc, locals, ring, stop, acqFrames, lima>>
      BY <1>15 DEF ReadOut
    <2>3. content' \in [Ring -> Nat] /\ event' \in [Ring -> BOOLEAN]
      BY <2>1, <2>2 DEF IInv, TypeOK
    <2>4. \A b \in Ring : content'[b] = (IF b = h THEN assigned[b] ELSE content[b])
      BY <2>1, <2>2 DEF IInv, TypeOK
    <2>5. \A b \in Ring : b # h => event'[b] = event[b]
      BY <2>1, <2>2 DEF IInv, TypeOK
    <2>6. assigned' = assigned /\ marked' = marked /\ pair' = pair /\ buf' = buf /\ pc' = pc
      BY <2>2 DEF ring, locals
    <2>7. SetMeansFilled'
      BY <2>4, <2>5, <2>6 DEF IInv, SetMeansFilled
    <2>8. BufferIsFound'
      BY <2>4, <2>6 DEF IInv, BufferIsFound
    <2> QED
      BY <2>1, <2>2, <2>3, <2>7, <2>8
      DEF IInv, TypeOK, BufferIsInRing, LengthFits, FrameHasItsImage, config, locals, ring, lima
  <1>16. ASSUME RequestStop PROVE IInv'
    BY <1>16 DEF RequestStop, IInv, TypeOK, SetMeansFilled, BufferIsFound, BufferIsInRing,
                 LengthFits, FrameHasItsImage, config, locals, ring, sdk, lima
  <1>17. ASSUME Release PROVE IInv'
    BY <1>17 DEF Release, IInv, TypeOK, SetMeansFilled, BufferIsFound, BufferIsInRing,
                 LengthFits, FrameHasItsImage, config, locals, ring, sdk
  <1>18. ASSUME Stopped PROVE IInv'
    BY <1>18, <1>1 DEF Stopped
  <1> QED
    BY <1>1, <1>2, <1>3, <1>4, <1>5, <1>6, <1>7, <1>8, <1>9, <1>10, <1>11, <1>12, <1>13,
       <1>14, <1>15, <1>16, <1>17, <1>18
    DEF Next, Transfer

(* The halves of each recorded image are announced in order, as the frames  *)
(* of that pair (BufferCtrlObj::_xferImagDoubleImage).                      *)
THEOREM FrameHasItsImageAlways == Spec => []FrameHasItsImage
  <1>1. IInv => FrameHasItsImage
    BY DEF IInv
  <1> QED
    BY <1>1, InitIInv, NextIInv, PTL DEF Spec

----------------------------------------------------------------------------
(* LIMA's buffers.  The LIMA buffer of a pair's first frame was free when    *)
(* the image was asked for, and no frame announced since then has taken it:  *)
(* those are fewer than the ring holds, which is at most LIMA's pool.        *)
Wide == LimaBuffers >= 2 * Nrevents

Held(f) == f \in saved .. Len(frames) - 1

(* the frames asked for, and not announced yet, are at most a ring           *)
Window ==
    /\ pc = "assign" => pair = 1 /\ first = buf + 1
    /\ first <= pair + Nrevents
    /\ \A b \in Ring : assigned[b] < first

Reserved ==
    \A p \in Nat \ {0} : p < first /\ Len(frames) <= LimaFrame(p, 0) =>
        \A g \in Int : Held(g) => Slot(g) # Slot(LimaFrame(p, 0))

KeptOrHalved ==
    \A f \in Int : Held(f) /\ pool[Slot(f)] # f + 1 => (pool[Slot(f)] - 1) % 2 = 1

PoolInv == IInv /\ Window /\ Reserved /\ KeptOrHalved

LEMMA Division ==
    ASSUME NEW n \in Nat, NEW s \in Nat \ {0}
    PROVE  n = s * (n \div s) + (n % s) /\ n % s \in 0 .. s - 1 /\ n \div s \in Nat
  OBVIOUS

(* Frames less than a pool apart have LIMA buffers of their own.             *)
LEMMA SlotsDiffer ==
    ASSUME NEW g \in Nat, NEW h \in Nat, g < h, h - g < LimaBuffers
    PROVE  Slot(g) # Slot(h)
  <1> DEFINE q == g \div LimaBuffers
             r == h \div LimaBuffers
  <1>1. LimaBuffers \in Nat \ {0}
    BY SizesAssumption
  <1>2. /\ g = LimaBuffers * q + (g % LimaBuffers) /\ g % LimaBuffers \in 0 .. LimaBuffers - 1
        /\ h = LimaBuffers * r + (h % LimaBuffers) /\ h % LimaBuffers \in 0 .. LimaBuffers - 1
        /\ q \in Nat /\ r \in Nat
    BY <1>1, Division
  <1> SUFFICES ASSUME g % LimaBuffers = h % LimaBuffers PROVE FALSE
    BY DEF Slot
  <1> HIDE DEF q, r
  <1>3. h - g = LimaBuffers * (r - q)
    BY <1>1, <1>2
  <1>4. r - q \in Int
    BY <1>2
  <1>5. CASE r - q <= 0
    <2>1. LimaBuffers * (r - q) <= 0
      BY <1>1, <1>4, <1>5
    <2> QED
      BY <1>3, <2>1
  <1>6. CASE r - q >= 1
    <2>1. LimaBuffers * (r - q) >= LimaBuffers
      BY <1>1, <1>4, <1>6
    <2> QED
      BY <1>1, <1>3, <2>1
  <1> QED
    BY <1>4, <1>5, <1>6

LEMMA InitPool == ASSUME Init PROVE PoolInv
  <1>1. IInv
    BY InitIInv
  <1>2. Window
    BY SizesAssumption DEF Init, Window
  <1>3. Len(frames) = 0 /\ saved = 0
    BY DEF Init
  <1>4. \A g \in Int : ~Held(g)
    BY <1>3 DEF Held
  <1> QED
    BY <1>1, <1>2, <1>4 DEF PoolInv, Reserved, KeptOrHalved

(* LIMA's buffers are as before when no frame is asked for or announced.     *)
LEMMA PoolKept ==
    ASSUME Reserved, KeptOrHalved, UNCHANGED <<first, frames, pool, saved>>
    PROVE  Reserved' /\ KeptOrHalved'
  BY DEF Reserved, KeptOrHalved, Held, LimaFrame, Slot

(* A new image is asked for when the buffer of its first frame is free.      *)
LEMMA AssignReserves ==
    ASSUME PoolInv, NEW b \in Ring, Assign(b), UNCHANGED lima
    PROVE  /\ Reserved' /\ KeptOrHalved'
           /\ first' = first + 1 /\ \A c \in Ring : assigned'[c] < first'
  <1>1. LimaReady(first) /\ first' = first + 1 /\ assigned' = [assigned EXCEPT ![b] = first]
    BY DEF Assign
  <1>2. UNCHANGED <<frames, pool, saved>>
    BY DEF lima
  <1>3. first \in Nat \ {0} /\ assigned \in [Ring -> Nat]
    BY DEF PoolInv, IInv, TypeOK
  <1>4. \A g \in Int : Held(g) => Slot(g) # Slot(LimaFrame(first, 0))
    BY <1>1 DEF LimaReady, InUse, Held
  <1>5. \A g \in Int : Held(g)' <=> Held(g)
    BY <1>2 DEF Held
  <1>6. Reserved'
    <2> SUFFICES ASSUME NEW p \in Nat \ {0}, p < first', Len(frames) <= LimaFrame(p, 0),
                        NEW g \in Int, Held(g)
                 PROVE  Slot(g) # Slot(LimaFrame(p, 0))
      BY <1>2, <1>5 DEF Reserved, LimaFrame, Slot
    <2>1. p = first \/ p < first
      BY <1>1, <1>3
    <2> QED
      BY <1>4, <2>1 DEF PoolInv, Reserved
  <1>7. KeptOrHalved'
    BY <1>2, <1>5 DEF PoolInv, KeptOrHalved, Slot
  <1>8. \A c \in Ring : assigned'[c] < first'
    BY <1>1, <1>3 DEF PoolInv, Window
  <1> QED
    BY <1>1, <1>6, <1>7, <1>8

(* An announced frame takes a buffer nobody waits for; a first frame takes   *)
(* one that holds nothing.                                                   *)
LEMMA AnnounceReserves ==
    ASSUME PoolInv, Wide, NEW half \in {0, 1}, Announce(half), pc \in {"img1", "img2"},
           Len(frames) = 2 * (pair - 1) + half
    PROVE  Reserved' /\ KeptOrHalved'
  <1> DEFINE nr == Len(frames)
  <1>1. /\ buf \in Ring /\ assigned[buf] = pair /\ pair \in Nat \ {0} /\ first \in Nat
        /\ pair < first /\ first <= pair + Nrevents /\ saved \in Nat
    BY DEF PoolInv, IInv, TypeOK, BufferIsFound, Window
  <1>2. /\ nr \in Nat /\ LimaFrame(assigned[buf], half) = nr
        /\ half = 0 => LimaFrame(pair, 0) = nr
    BY <1>1 DEF LimaFrame
  <1>3. pool' = [pool EXCEPT ![Slot(nr)] = nr + 1] /\ UNCHANGED <<first, saved>>
    BY <1>2 DEF Announce, locals
  <1>4. Len(frames') = nr + 1
    BY AnnounceKeeps DEF PoolInv
  <1>5. \A g \in Int : Held(g)' => Held(g) \/ g = nr
    BY <1>1, <1>2, <1>3, <1>4 DEF Held
  <1>6. pool \in [Slots -> Nat] /\ Slots = 0 .. LimaBuffers - 1 /\ LimaBuffers \in Nat \ {0}
        /\ Nrevents \in Nat \ {0}
    BY SizesAssumption DEF PoolInv, IInv, TypeOK, Slots
  <1>7. \A f \in Nat : Slot(f) \in Slots
    BY <1>6 DEF Slot
  <1>8. \A f \in Nat : pool'[Slot(f)] = IF Slot(f) = Slot(nr) THEN nr + 1 ELSE pool[Slot(f)]
    BY <1>3, <1>6, <1>7
  <1>9. Reserved'
    <2> SUFFICES ASSUME NEW p \in Nat \ {0}, p < first, nr + 1 <= LimaFrame(p, 0),
                        NEW g \in Int, Held(g)'
                 PROVE  Slot(g) # Slot(LimaFrame(p, 0))
      BY <1>3, <1>4 DEF Reserved, LimaFrame, Slot
    <2>1. LimaFrame(p, 0) = 2 * (p - 1) /\ LimaFrame(p, 0) \in Nat
      BY DEF LimaFrame
    <2>2. CASE Held(g)
      <3>1. Len(frames) <= LimaFrame(p, 0)
        BY <1>2, <2>1
      <3> QED
        BY <2>2, <3>1 DEF PoolInv, Reserved
    <2>3. CASE g = nr
      <3>1. LimaFrame(p, 0) - nr < LimaBuffers /\ nr < LimaFrame(p, 0)
        <4>1. p - pair <= Nrevents - 1
          BY <1>1, <1>6
        <4>2. LimaFrame(p, 0) - nr <= 2 * (p - pair)
          BY <1>1, <2>1
        <4>3. 2 * (p - pair) <= 2 * Nrevents - 2 /\ LimaBuffers >= 2 * Nrevents
          BY <1>1, <1>6, <4>1 DEF Wide
        <4>4. LimaFrame(p, 0) - nr < LimaBuffers
          BY <1>1, <1>2, <1>6, <2>1, <4>2, <4>3
        <4> QED
          BY <1>2, <2>1, <4>4
      <3> QED
        BY <1>2, <2>1, <2>3, <3>1, SlotsDiffer
    <2> QED
      BY <1>5, <2>2, <2>3
  <1>10. KeptOrHalved'
    <2> SUFFICES ASSUME NEW f \in Int, Held(f)', pool'[Slot(f)] # f + 1
                 PROVE  (pool'[Slot(f)] - 1) % 2 = 1
      BY DEF KeptOrHalved, Slot
    <2>1. f \in Nat /\ (Held(f) \/ f = nr)
      BY <1>1, <1>2, <1>3, <1>5 DEF Held
    <2>2. Held(f) /\ f # nr
      BY <1>8, <2>1
    <2>3. CASE Slot(f) # Slot(nr)
      BY <1>8, <2>1, <2>2, <2>3 DEF PoolInv, KeptOrHalved
    <2>4. CASE Slot(f) = Slot(nr)
      <3>1. half = 1
        BY <1>1, <1>2, <2>2, <2>4 DEF PoolInv, Reserved
      <3>2. pool'[Slot(f)] = nr + 1
        BY <1>8, <2>1, <2>4
      <3>3. nr % 2 = 1
        BY <1>1, <3>1, Halves
      <3> QED
        BY <1>2, <3>2, <3>3
    <2> QED
      BY <2>3, <2>4
  <1> QED
    BY <1>9, <1>10

LEMMA NextPool == ASSUME Wide, PoolInv, [Next]_vars PROVE PoolInv'
  <1>1. IInv'
    BY NextIInv DEF PoolInv
  <1>2. pair \in Nat \ {0} /\ first \in Nat /\ buf \in Nat /\ Nrevents \in Nat \ {0} /\ saved \in Nat
    BY SizesAssumption DEF PoolInv, IInv, TypeOK
  <1>3. CASE InitialAssign
    <2>1. buf \in Ring /\ Assign(buf) /\ pc = "assign" /\ pc' = pc /\ buf' = buf + 1
          /\ pair' = pair /\ UNCHANGED lima
      BY <1>2, <1>3 DEF InitialAssign, Ring
    <2>2. /\ Reserved' /\ KeptOrHalved'
          /\ first' = first + 1 /\ \A c \in Ring : assigned'[c] < first'
      BY <2>1, AssignReserves
    <2>3. Window'
      BY <1>2, <2>1, <2>2 DEF PoolInv, Window, Ring
    <2> QED
      BY <1>1, <2>2, <2>3 DEF PoolInv
  <1>4. CASE Reassign
    <2>1. buf \in Ring /\ Assign(buf) /\ pc' = "loop" /\ pair' = pair + 1 /\ UNCHANGED lima
      BY <1>4 DEF Reassign, NextPair, PoolInv, IInv, BufferIsInRing
    <2>2. /\ Reserved' /\ KeptOrHalved'
          /\ first' = first + 1 /\ \A c \in Ring : assigned'[c] < first'
      BY <2>1, AssignReserves
    <2>3. Window'
      BY <1>2, <2>1, <2>2 DEF PoolInv, Window
    <2> QED
      BY <1>1, <2>2, <2>3 DEF PoolInv
  <1>5. CASE Img1 \/ Img2
    <2>1. PICK half \in {0, 1} :
              /\ Announce(half) /\ pc \in {"img1", "img2"} /\ pc' # "assign"
              /\ Len(frames) = 2 * (pair - 1) + half
      BY <1>2, <1>5 DEF Img1, Img2, PoolInv, IInv, LengthFits
    <2>2. Reserved' /\ KeptOrHalved'
      BY <2>1, AnnounceReserves
    <2>3. Window'
      BY <2>1 DEF Announce, PoolInv, Window, locals, ring
    <2> QED
      BY <1>1, <2>2, <2>3 DEF PoolInv
  <1>6. CASE Release
    <2>1. saved' = saved + 1 /\ UNCHANGED <<pc, locals, ring, frames, pool>>
      BY <1>6 DEF Release
    <2>2. \A g \in Int : Held(g)' => Held(g)
      BY <1>2, <2>1 DEF Held
    <2>3. Reserved' /\ KeptOrHalved'
      BY <2>1, <2>2 DEF PoolInv, Reserved, KeptOrHalved, LimaFrame, Slot, locals
    <2>4. Window'
      BY <2>1 DEF PoolInv, Window, locals, ring
    <2> QED
      BY <1>1, <2>3, <2>4 DEF PoolInv
  <1>7. CASE NoneToAssign
    <2>1. UNCHANGED <<first, ring, lima>> /\ pair' = pair + 1 /\ pc' = "loop"
      BY <1>7 DEF NoneToAssign, NextPair
    <2>2. Window'
      BY <1>2, <2>1 DEF PoolInv, Window, ring
    <2> QED
      BY <1>1, <2>1, <2>2, PoolKept DEF PoolInv, lima
  <1>8. ASSUME UNCHANGED <<pair, first, assigned, lima>>,
               pc' = "assign" => pc = "assign" /\ buf' = buf
        PROVE  PoolInv'
    <2>1. Window'
      BY <1>8 DEF PoolInv, Window
    <2> QED
      BY <1>1, <1>8, <2>1, PoolKept DEF PoolInv, lima
  <1>9. CASE \/ InitialAssignDone \/ NoLimaBuffer \/ LoopEnd \/ StopSeen \/ FindBuffer \/ NoneFound
             \/ WaitFired \/ WaitRetry \/ WaitAbort
    BY <1>8, <1>9 DEF InitialAssignDone, NoLimaBuffer, LoopEnd, StopSeen, FindBuffer, NoneFound,
       WaitFired, WaitRetry, WaitAbort, TimedOut, Return, locals, ring
  <1>10. CASE CameraThrows \/ ReadOut \/ RequestStop \/ Stopped \/ UNCHANGED vars
    BY <1>8, <1>10 DEF CameraThrows, ReadOut, RequestStop, Stopped, vars, locals, ring
  <1> QED
    BY <1>3, <1>4, <1>5, <1>6, <1>7, <1>9, <1>10 DEF Next, Transfer

(* As long as LIMA's pool holds the frames of the ring, only the second      *)
(* frame of a pair can overwrite a frame LIMA holds: its LIMA buffer is not  *)
(* waited for (BufferCtrlObj::_assignImage2Buffer).                          *)
THEOREM OnlySecondOverwritesAlways == Spec => []OnlySecondOverwrites
  <1>1. CASE Wide
    <2>1. PoolInv => OnlySecondOverwrites
      <3> SUFFICES ASSUME PoolInv, NEW f \in saved .. Len(frames) - 1, pool[Slot(f)] # f + 1
                   PROVE  (pool[Slot(f)] - 1) % 2 = 1
        BY DEF OnlySecondOverwrites
      <3>1. f \in Int /\ Held(f)
        BY DEF Held
      <3> QED
        BY <3>1 DEF PoolInv, KeptOrHalved
    <2>2. PoolInv /\ [Next]_vars => PoolInv'
      BY <1>1, NextPool
    <2> QED
      BY <2>1, <2>2, InitPool, PTL DEF Spec
  <1>2. CASE ~Wide
    <2>1. OnlySecondOverwrites
      BY <1>2 DEF OnlySecondOverwrites, Wide
    <2> QED
      BY <2>1, PTL
  <1> QED
    BY <1>1, <1>2
----------------------------------------------------------------------------
(* The double transfer as a stream: a pair of frames is one image, delivered *)
(* with its second half.                                                     *)
Endings == {"TransferEnd", "TransferStop", "WaitTimeout", "PcoError"}
Delivered == Len(frames) \div 2

Stream == INSTANCE PcoFrameStream WITH
              Images <- 1 .. MaxImages, Endings <- Endings, NoEnding <- "none",
              frames <- [k \in 1 .. Delivered |-> frames[2 * k].image],
              limit <- Pairs, ending <- ret

(* Only images that were recorded are asked for and read.                    *)
AsksRecorded ==
    /\ valid <= MaxImages /\ (req > 0 => Pairs <= valid)
    /\ first <= Pairs + 1 /\ pair <= Pairs + 1
    /\ pc \in {"img1", "img2", "recycle"} => pair <= Pairs
    /\ \A b \in Ring : assigned[b] < first /\ content[b] <= valid
    /\ pc \notin {"done", "dead"} => ret = "none"

StreamInv == IInv /\ AsksRecorded

LEMMA Typed ==
    ASSUME IInv
    PROVE  /\ pair \in Nat \ {0} /\ first \in Nat \ {0} /\ valid \in Nat /\ req \in Nat
           /\ buf \in 0 .. Nrevents /\ Pairs \in Nat /\ Len(frames) \in Nat
           /\ \A b \in Ring : assigned[b] \in Nat /\ content[b] \in Nat
  <1>1. TypeOK
    BY DEF IInv
  <1>2. \A n \in Nat : n \div 2 \in Nat
    OBVIOUS
  <1>3. Pairs \in Nat
    BY <1>1, <1>2, SizesAssumption DEF TypeOK, Pairs
  <1> QED
    BY <1>1, <1>3 DEF TypeOK

LEMMA InitAsks == ASSUME Init PROVE StreamInv
  <1>1. IInv
    BY InitIInv
  <1>2. valid \in Nat /\ valid <= MaxImages
    BY SizesAssumption DEF Init
  <1>3. req > 0 => Pairs <= valid
    <2>1. PICK asked \in Requests : req = Recorded(asked)
      BY DEF Init
    <2>2. asked \div 2 \in Nat
      BY SizesAssumption
    <2>3. MinOf(valid, asked \div 2) \in Nat /\ MinOf(valid, asked \div 2) <= valid
      BY <1>2, <2>2 DEF MinOf
    <2>4. Recorded(asked) \div 2 = MinOf(valid, asked \div 2)
      <3> DEFINE m == MinOf(valid, asked \div 2)
      <3>1. m \in Nat
        BY <2>3
      <3> HIDE DEF m
      <3>2. (2 * m) \div 2 = m
        BY <3>1
      <3> QED
        BY <3>2 DEF Recorded, m
    <2> QED
      BY <2>1, <2>3, <2>4 DEF Pairs
  <1>4. Pairs \in Nat
    BY <1>1, Typed
  <1> QED
    BY <1>1, <1>2, <1>3, <1>4 DEF Init, StreamInv, AsksRecorded

(* A buffer is queued for a recorded image.                                  *)
LEMMA AssignAsks ==
    ASSUME StreamInv, MoreToAssign, NEW b \in Ring, Assign(b)
    PROVE  /\ first' = first + 1 /\ first' <= Pairs + 1 /\ content' = content
           /\ \A c \in Ring : assigned'[c] < first'
  <1>1. /\ first \in Nat /\ Pairs \in Nat /\ \A c \in Ring : assigned[c] \in Nat
        /\ assigned \in [Ring -> Nat]
    BY Typed DEF StreamInv, IInv, TypeOK
  <1>2. first' = first + 1 /\ content' = content /\ assigned' = [assigned EXCEPT ![b] = first]
    BY DEF Assign
  <1>3. first' <= Pairs + 1
    BY <1>1, <1>2 DEF MoreToAssign
  <1>4. \A c \in Ring : assigned'[c] < first'
    BY <1>1, <1>2 DEF StreamInv, AsksRecorded
  <1> QED
    BY <1>2, <1>3, <1>4

LEMMA NextAsks == ASSUME StreamInv, [Next]_vars PROVE StreamInv'
  <1>1. IInv' /\ IInv /\ AsksRecorded
    BY NextIInv DEF StreamInv
  <1>2. /\ pair \in Nat \ {0} /\ first \in Nat \ {0} /\ valid \in Nat /\ Pairs \in Nat
        /\ \A b \in Ring : assigned[b] \in Nat /\ content[b] \in Nat
    BY <1>1, Typed
  <1>3. UNCHANGED config
    BY DEF Next, Transfer, InitialAssign, InitialAssignDone, NoLimaBuffer, LoopEnd, StopSeen,
           FindBuffer, NoneFound, Img1, Img2, Announce, Reassign, NoneToAssign, NextPair, WaitFired,
           WaitRetry, WaitAbort, CameraThrows, ReadOut, RequestStop, Release, Stopped, Return, vars
  <1>4. Pairs' = Pairs /\ req' = req /\ valid' = valid
    BY <1>3 DEF config, Pairs
  <1>5. CASE InitialAssign
    <2>1. /\ Assign(buf) /\ MoreToAssign /\ buf \in Ring /\ pc = "assign" /\ pc' = pc
          /\ pair' = pair /\ ret' = ret
      BY <1>1, <1>5, Typed, SizesAssumption DEF InitialAssign, Ring
    <2>2. /\ first' = first + 1 /\ first' <= Pairs + 1 /\ content' = content
          /\ \A c \in Ring : assigned'[c] < first'
      BY <2>1, AssignAsks
    <2> QED
      BY <1>1, <1>4, <2>1, <2>2 DEF StreamInv, AsksRecorded
  <1>6. CASE Reassign
    <2>1. /\ Assign(buf) /\ MoreToAssign /\ buf \in Ring /\ pc = "recycle" /\ pc' = "loop"
          /\ pair' = pair + 1 /\ ret' = ret
      BY <1>1, <1>6 DEF Reassign, NextPair, IInv, BufferIsInRing
    <2>2. /\ first' = first + 1 /\ first' <= Pairs + 1 /\ content' = content
          /\ \A c \in Ring : assigned'[c] < first'
      BY <2>1, AssignAsks
    <2>3. pair' <= Pairs + 1
      BY <1>1, <1>2, <2>1 DEF AsksRecorded
    <2> QED
      BY <1>1, <1>4, <2>1, <2>2, <2>3 DEF StreamInv, AsksRecorded
  <1>7. CASE NoneToAssign
    <2>1. /\ pc = "recycle" /\ pc' = "loop" /\ pair' = pair + 1 /\ ret' = ret
          /\ UNCHANGED <<first, assigned, content>>
      BY <1>7 DEF NoneToAssign, NextPair, ring, sdk
    <2>2. pair' <= Pairs + 1
      BY <1>1, <1>2, <2>1 DEF AsksRecorded
    <2> QED
      BY <1>1, <1>4, <2>1, <2>2 DEF StreamInv, AsksRecorded
  <1>8. CASE ReadOut
    <2> DEFINE h == Head(pending)
    <2>1. /\ req > 0 /\ h \in Ring /\ content' = [content EXCEPT ![h] = assigned[h]]
          /\ content \in [Ring -> Nat] /\ UNCHANGED <<pc, pair, first, ret, assigned>>
      BY <1>1, <1>8 DEF ReadOut, IInv, TypeOK, locals, ring
    <2> HIDE DEF h
    <2>2. assigned[h] <= valid
      BY <1>1, <1>2, <2>1 DEF AsksRecorded
    <2>3. \A b \in Ring : content'[b] <= valid
      BY <1>1, <2>1, <2>2 DEF AsksRecorded
    <2> QED
      BY <1>1, <1>4, <2>1, <2>3 DEF StreamInv, AsksRecorded
  <1>9. ASSUME UNCHANGED <<pair, first, assigned, content>>,
               pc' \in {"img1", "img2", "recycle"} => pair <= Pairs,
               pc' \notin {"done", "dead"} => ret' = "none"
        PROVE  StreamInv'
    BY <1>1, <1>4, <1>9 DEF StreamInv, AsksRecorded
  <1>10. CASE InitialAssignDone \/ NoneFound \/ WaitFired \/ WaitRetry \/ Img1 \/ Img2 \/ FindBuffer
    BY <1>1, <1>9, <1>10
    DEF AsksRecorded, InitialAssignDone, NoneFound, WaitFired, WaitRetry, TimedOut, Img1, Img2,
        Announce, FindBuffer, locals, ring, sdk
  <1>11. CASE NoLimaBuffer \/ LoopEnd \/ StopSeen \/ WaitAbort \/ CameraThrows
    BY <1>9, <1>11
    DEF NoLimaBuffer, LoopEnd, StopSeen, WaitAbort, CameraThrows, Return, locals, ring, sdk
  <1>12. CASE RequestStop \/ Release \/ Stopped \/ UNCHANGED vars
    BY <1>1, <1>9, <1>12 DEF AsksRecorded, RequestStop, Release, Stopped, vars, locals, ring, sdk
  <1> QED
    BY <1>5, <1>6, <1>7, <1>8, <1>10, <1>11, <1>12 DEF Next, Transfer

(* The image delivered n-th is the n-th one recorded.                        *)
LEMMA InOrder ==
    ASSUME NEW s, Len(s) \in Nat, NEW n, n = Len(s) \div 2,
           \A m \in 1 .. Len(s) :
              s[m] = [nr |-> m - 1, image |-> (m - 1) \div 2 + 1, half |-> (m - 1) % 2]
    PROVE  [k \in 1 .. n |-> s[2 * k].image] = [k \in 1 .. n |-> k]
  <1>1. n \in Nat /\ 2 * n <= Len(s)
    OBVIOUS
  <1>2. ASSUME NEW k \in 1 .. n PROVE s[2 * k].image = k
    <2>1. 2 * k \in 1 .. Len(s)
      BY <1>1
    <2>2. (2 * k - 1) \div 2 + 1 = k
      BY <1>1
    <2>3. s[2 * k].image = (2 * k - 1) \div 2 + 1
      <3>1. s[2 * k] = [nr |-> 2 * k - 1, image |-> (2 * k - 1) \div 2 + 1, half |-> (2 * k - 1) % 2]
        BY <2>1
      <3> QED
        BY <3>1
    <2> QED
      BY <2>2, <2>3
  <1> QED
    BY <1>2

LEMMA DeliveredInOrder ==
    ASSUME IInv
    PROVE  [k \in 1 .. Delivered |-> frames[2 * k].image] = [k \in 1 .. Delivered |-> k]
  BY Typed, InOrder DEF IInv, FrameHasItsImage, Delivered

LEMMA Numbers ==
    ASSUME NEW n \in Nat PROVE [k \in 1 .. n + 1 |-> k] = Append([k \in 1 .. n |-> k], n + 1)
  <1> DEFINE f == [k \in 1 .. n |-> k]
  <1>1. f \in Seq(Nat) /\ Len(f) = n
    OBVIOUS
  <1>2. Append(f, n + 1) = [k \in 1 .. n + 1 |-> IF k = n + 1 THEN n + 1 ELSE f[k]]
    BY <1>1
  <1>3. \A k \in 1 .. n : f[k] = k
    OBVIOUS
  <1> QED
    BY <1>2, <1>3

LEMMA PairDelivered ==
    ASSUME StreamInv, StreamInv', Img2 PROVE Stream!Deliver
  <1> DEFINE n == Delivered
             f == [k \in 1 .. Delivered |-> frames[2 * k].image]
  <1>1. /\ IInv /\ IInv' /\ AsksRecorded /\ pc = "img2" /\ pc' = "recycle"
        /\ UNCHANGED <<config, locals>>
    BY DEF StreamInv, Img2, Announce
  <1>2. pair \in Nat \ {0} /\ valid \in Nat /\ Pairs \in Nat /\ Pairs' = Pairs
    BY <1>1, Typed DEF config, Pairs
  <1>3. Len(frames) = 2 * (pair - 1) + 1 /\ Len(frames') = 2 * pair
    BY <1>1 DEF IInv, LengthFits, locals
  <1>4. n = pair - 1 /\ Delivered' = n + 1 /\ n \in Nat
    BY <1>2, <1>3 DEF Delivered
  <1>5. f = [k \in 1 .. n |-> k]
    BY <1>1, DeliveredInOrder
  <1>6. [k \in 1 .. Delivered' |-> frames'[2 * k].image] = [k \in 1 .. n + 1 |-> k]
    <2>1. \A m \in 1 .. Len(frames') :
             frames'[m] = [nr |-> m - 1, image |-> (m - 1) \div 2 + 1, half |-> (m - 1) % 2]
      BY <1>1 DEF IInv, FrameHasItsImage
    <2>2. Len(frames') \in Nat /\ Delivered' = Len(frames') \div 2
      BY <1>2, <1>3 DEF Delivered
    <2>3. [k \in 1 .. Delivered' |-> frames'[2 * k].image] = [k \in 1 .. Delivered' |-> k]
      BY <2>1, <2>2, InOrder
    <2> QED
      BY <1>4, <2>3
  <1>7. [k \in 1 .. Delivered' |-> frames'[2 * k].image] = Append(f, n + 1)
    BY <1>4, <1>5, <1>6, Numbers
  <1>8. pair \in 1 .. MaxImages
    <2>1. buf \in Ring /\ content[buf] = pair
      BY <1>1 DEF IInv, BufferIsFound
    <2>2. pair <= valid /\ valid <= MaxImages
      BY <1>1, <2>1 DEF AsksRecorded
    <2> QED
      BY <1>2, <2>2, SizesAssumption
  <1>9. ret = "none" /\ ret' = ret /\ n < Pairs
    BY <1>1, <1>2, <1>4 DEF AsksRecorded, locals
  <1>10. Len(f) = n /\ \A k \in 1 .. Len(f) : f[k] < n + 1
    BY <1>4, <1>5
  <1> HIDE DEF f, n
  <1>11. n + 1 \in 1 .. MaxImages
    BY <1>4, <1>8
  <1> QED
    BY <1>2, <1>7, <1>9, <1>10, <1>11 DEF Stream!Deliver, f

(* Where nothing is announced the stream stands still.                       *)
LEMMA StreamStands ==
    ASSUME UNCHANGED <<config, frames, ret>> PROVE UNCHANGED Stream!vars
  BY DEF Stream!vars, Delivered, Pairs, config

LEMMA StreamEnds ==
    ASSUME StreamInv, pc \notin {"done", "dead"}, UNCHANGED <<config, frames>>, ret' \in Endings,
           ret' = "TransferEnd" => pc = "loop" /\ pair > Pairs
    PROVE  Stream!End
  <1> DEFINE f == [k \in 1 .. Delivered |-> frames[2 * k].image]
  <1>1. IInv /\ AsksRecorded /\ pair \in Nat \ {0} /\ Pairs \in Nat /\ Len(frames) \in Nat
    BY Typed DEF StreamInv
  <1>2. Len(f) = Delivered
    BY <1>1 DEF Delivered
  <1>3. ret' = "TransferEnd" => Delivered = Pairs
    <2> SUFFICES ASSUME pc = "loop", pair > Pairs PROVE Delivered = Pairs
      OBVIOUS
    <2>1. Len(frames) = 2 * (pair - 1) /\ pair = Pairs + 1
      BY <1>1 DEF IInv, LengthFits, AsksRecorded
    <2> QED
      BY <1>1, <2>1 DEF Delivered
  <1>4. ret = "none"
    BY <1>1 DEF AsksRecorded
  <1>5. UNCHANGED <<f, Pairs>>
    BY DEF Delivered, Pairs, config
  <1> QED
    BY <1>2, <1>3, <1>4, <1>5 DEF Stream!End

LEMMA StreamStep ==
    ASSUME StreamInv, StreamInv', [Next]_vars PROVE [Stream!Next]_(Stream!vars)
  <1>1. CASE Img2
    BY <1>1, PairDelivered DEF Stream!Next
  <1>2. CASE Img1
    <2>1. /\ IInv /\ IInv' /\ pc = "img1" /\ pc' = "img2" /\ UNCHANGED <<config, locals>>
      BY <1>2 DEF StreamInv, Img1, Announce
    <2>2. pair \in Nat \ {0}
      BY <2>1, Typed
    <2>3. Len(frames) = 2 * (pair - 1) /\ Len(frames') = 2 * (pair - 1) + 1
      BY <2>1 DEF IInv, LengthFits, locals
    <2>4. Delivered' = Delivered /\ Delivered \in Nat /\ 2 * Delivered <= Len(frames)
      BY <2>2, <2>3 DEF Delivered
    <2>5. \A m \in 1 .. Len(frames) : frames'[m].image = frames[m].image
      BY <2>1, <2>2, <2>3 DEF IInv, FrameHasItsImage
    <2>6. \A k \in 1 .. Delivered : frames'[2 * k].image = frames[2 * k].image
      <3> TAKE k \in 1 .. Delivered
      <3>1. 2 * k \in 1 .. Len(frames)
        BY <2>2, <2>3, <2>4
      <3> QED
        BY <2>5, <3>1
    <2>7. [k \in 1 .. Delivered' |-> frames'[2 * k].image]
          = [k \in 1 .. Delivered |-> frames[2 * k].image]
      BY <2>4, <2>6
    <2>8. Pairs' = Pairs /\ ret' = ret
      BY <2>1 DEF Pairs, config, locals
    <2> QED
      BY <2>7, <2>8 DEF Stream!vars
  <1>3. CASE NoLimaBuffer \/ LoopEnd \/ StopSeen \/ WaitAbort
    <2>1. /\ pc \notin {"done", "dead"} /\ ret' \in Endings /\ UNCHANGED <<config, frames>>
          /\ ret' = "TransferEnd" => pc = "loop" /\ pair > Pairs
      BY <1>3 DEF NoLimaBuffer, LoopEnd, StopSeen, WaitAbort, TimedOut, Return, Endings, lima
    <2> QED
      BY <2>1, StreamEnds DEF Stream!Next
  <1>4. CASE InitialAssign \/ InitialAssignDone \/ FindBuffer \/ NoneFound \/ Reassign \/ NoneToAssign
    BY <1>4, StreamStands
    DEF InitialAssign, InitialAssignDone, FindBuffer, NoneFound, Reassign, NoneToAssign, NextPair,
        locals, lima
  <1>5. CASE \/ WaitFired \/ WaitRetry \/ CameraThrows \/ ReadOut \/ RequestStop \/ Release
             \/ Stopped \/ UNCHANGED vars
    BY <1>5, StreamStands
    DEF WaitFired, WaitRetry, CameraThrows, ReadOut, RequestStop, Release, Stopped, vars, locals, lima
  <1> QED
    BY <1>1, <1>2, <1>3, <1>4, <1>5 DEF Next, Transfer

(* The double transfer asks only for images that were recorded, and delivers *)
(* each pair once, in order, as many as asked for when it ends normally      *)
(* (BufferCtrlObj::_xferImagDoubleImage).                                    *)
THEOREM Implements == Spec => Stream!Spec
  <1>1. Init => Stream!Init
    <2> SUFFICES ASSUME Init PROVE Stream!Init
      OBVIOUS
    <2>1. Pairs \in Nat
      BY InitIInv, Typed
    <2>2. Len(frames) = 0 /\ ret = "none"
      BY DEF Init
    <2>3. Delivered = 0
      BY <2>2 DEF Delivered
    <2>4. [k \in 1 .. Delivered |-> frames[2 * k].image] = <<>>
      BY <2>3
    <2> QED
      BY <2>1, <2>2, <2>4 DEF Stream!Init
  <1>2. Init => StreamInv
    BY InitAsks
  <1>3. StreamInv /\ [Next]_vars => StreamInv'
    BY NextAsks
  <1>4. StreamInv /\ StreamInv' /\ [Next]_vars => [Stream!Next]_(Stream!vars)
    BY StreamStep
  <1> QED
    BY <1>1, <1>2, <1>3, <1>4, PTL DEF Spec, Stream!Spec
=============================================================================
