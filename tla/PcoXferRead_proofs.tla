------------------------- MODULE PcoXferRead_proofs -------------------------
(* The transfer functions that read image after image keep their promises   *)
(* for every count, pool and recording: each frame has its image, a frame   *)
(* LIMA holds is not overwritten, a stop is obeyed after one more image and *)
(* the status says what was delivered.  The invariant behind it: the place  *)
(* in the loop and the number of images transferred say how many frames     *)
(* have been announced, and which image was read last.                      *)
EXTENDS PcoXferRead, TLAPS

----------------------------------------------------------------------------
(* Arithmetic                                                               *)

LEMMA Division ==
    ASSUME NEW n \in Nat, NEW s \in Nat \ {0}
    PROVE  n = s * (n \div s) + (n % s) /\ n % s \in 0 .. s - 1 /\ n \div s \in Nat
  BY SMT

(* Numbers less than s apart have different remainders.                     *)
LEMMA Apart ==
    ASSUME NEW s \in Nat \ {0}, NEW m \in Nat, NEW n \in Nat, m < n, n - m < s
    PROVE  m % s # n % s
  <1> DEFINE p == m \div s
             q == n \div s
  <1>1. m = s * p + (m % s) /\ n = s * q + (n % s) /\ p \in Nat /\ q \in Nat
        /\ m % s \in Nat /\ n % s \in Nat
    BY Division
  <1> HIDE DEF p, q
  <1> SUFFICES ASSUME m % s = n % s PROVE FALSE
    OBVIOUS
  <1>2. n - m = s * q - s * p
    BY <1>1
  <1>3. CASE q <= p
    <2>1. PICK e \in Nat : p = q + e
      BY <1>1, <1>3
    <2>2. s * p = s * q + s * e /\ s * e \in Nat
      BY <1>1, <2>1
    <2>3. s * p \in Nat /\ s * q \in Nat
      BY <1>1
    <2> QED
      BY <1>2, <2>2, <2>3
  <1>4. CASE p < q
    <2>1. PICK e \in Nat : q = p + 1 + e
      BY <1>1, <1>4
    <2>2. s * q = s * p + s + s * e /\ s * e \in Nat
      BY <1>1, <2>1
    <2>3. s * p \in Nat /\ s * q \in Nat
      BY <1>1
    <2> QED
      BY <1>2, <2>2, <2>3
  <1> QED
    BY <1>1, <1>3, <1>4

(* Appending a record extends a sequence of records by one.                 *)
LEMMA Appended ==
    ASSUME NEW S, NEW s \in Seq(S), NEW x \in S
    PROVE  /\ Append(s, x) \in Seq(S)
           /\ Len(Append(s, x)) = Len(s) + 1
           /\ \A n \in 1 .. Len(s) : Append(s, x)[n] = s[n]
           /\ Append(s, x)[Len(s) + 1] = x
  OBVIOUS

(* Writing a number into the pool keeps it a pool.                          *)
LEMMA Written ==
    ASSUME NEW m \in [Slots -> Nat], NEW s, NEW n \in Nat
    PROVE  [m EXCEPT ![s] = n] \in [Slots -> Nat]
  OBVIOUS

LEMMA HalfOfPair ==
    ASSUME NEW n \in Nat, NEW p \in {1, 2}, NEW h \in {0, 1}, h < p
    PROVE  (p * n + h) \div p = n /\ (p * n + h) % p = h
  <1>1. CASE p = 1
    BY <1>1
  <1>2. CASE p = 2
    BY <1>2
  <1> QED
    BY <1>1, <1>2

LEMMA Smaller == ASSUME NEW m \in Nat, NEW n \in Nat PROVE MinOf(m, n) \in 0 .. m /\ MinOf(m, n) <= n
  BY DEF MinOf

LEMMA PerIsSmall == Per \in {1, 2} /\ (mode = "double" => Per = 2) /\ (mode # "double" => Per = 1)
  BY DEF Per

----------------------------------------------------------------------------
(* The invariant                                                            *)

(* a recording is over when it is read, and has the images asked for *)
RecordingIsKept == (mode = "last" => req <= valid) /\ (~IsLive => ~recording)

(* how far the loop is: the frames announced follow from the place *)
InLoop == pc \in {"loop", "wait", "read", "first", "second", "check"}
WithinUnits ==
    /\ Units \in Nat
    /\ InLoop => k <= Units
    /\ InLoop /\ pc # "loop" => k < Units
LengthFits ==
    /\ pc \in {"loop", "wait", "read", "first"} => Len(frames) = Per * k
    /\ pc = "second" => Len(frames) = Per * k + 1 /\ Per = 2
    /\ pc = "check" => Len(frames) = Per * k + Per

(* the image read is the one of this turn *)
ImageIsRead ==
    pc \in {"first", "second", "check"} =>
        IF IsLive THEN /\ image \in 1 .. valid
                       /\ \A n \in 1 .. Len(frames) : frames[n].image <= image
        ELSE image = FirstImage + k

CountFollows ==
    /\ InLoop => seen # "stop"
    /\ InLoop /\ k = 0 => seen = "unset"
    /\ InLoop /\ k > 0 => seen = "no" /\ acqFrames = Per * k - (Per - 1)
    /\ ret # "none" => pc = "done"

(* nothing of the next image is announced once a stop was requested *)
StopIsSeen ==
    stop => /\ pc \in {"loop", "wait", "read", "first"} => Len(frames) <= stopAt
            /\ pc = "second" => Len(frames) <= stopAt + 1

SavedAreAnnounced == saved <= Len(frames)

IInv ==
    /\ TypeOK /\ RecordingIsKept
    /\ WithinUnits /\ LengthFits /\ ImageIsRead /\ CountFollows /\ StopIsSeen
    /\ SavedAreAnnounced
    /\ FrameHasItsImage /\ HeldFramesKept /\ ResultIsTrue /\ StopIsPrompt

LEMMA InitIInv == ASSUME Init PROVE IInv
  <1>1. mode \in {"last", "edge", "first", "live", "double"} /\ valid \in Nat
    <2>1. mode \in Modes
      BY DEF Init
    <2>2. valid \in Nat
      BY SizesAssumption DEF Init
    <2> QED
      BY <2>1, <2>2, ModesAssumption
  <1>2. req \in Nat /\ RecordingIsKept
    <2>1. CASE IsLive
      <3>1. req \in Nat /\ mode # "last"
        BY <2>1, SizesAssumption DEF Init, IsLive
      <3> QED
        BY <2>1, <3>1 DEF RecordingIsKept
    <2>2. CASE ~IsLive
      <3>1. PICK asked \in Requests : req = Recorded(asked)
        BY <2>2 DEF Init
      <3>2. asked \in Nat
        BY SizesAssumption
      <3>3. asked \div Per \in Nat
        BY <3>2, PerIsSmall, Division
      <3>4. MinOf(valid, asked \div Per) \in 0 .. valid
        BY <1>1, <3>3, Smaller
      <3>5. req \in Nat /\ (mode = "last" => req <= valid)
        BY <1>1, <3>1, <3>4 DEF Recorded, Per
      <3>6. recording = FALSE
        BY <2>2 DEF Init
      <3> QED
        BY <3>5, <3>6 DEF RecordingIsKept
    <2> QED
      BY <2>1, <2>2
  <1>3. Units \in Nat
    BY <1>2, SizesAssumption, PerIsSmall, Division DEF Units
  <1>4. TypeOK
    <2>1. frames \in Seq(Frames) /\ Len(frames) = 0
      BY DEF Init
    <2>2. pool \in [Slots -> Nat] /\ recording \in BOOLEAN
      BY DEF Init
    <2> QED
      BY <1>1, <1>2, <2>1, <2>2 DEF Init, TypeOK
  <1> QED
    BY <1>2, <1>3, <1>4, PerIsSmall
    DEF Init, IInv, WithinUnits, InLoop, LengthFits, ImageIsRead, CountFollows, StopIsSeen,
        SavedAreAnnounced, FrameHasItsImage, HeldFramesKept, ResultIsTrue, StopIsPrompt

(* The image a turn asks for is the one its frames should carry.            *)
LEMMA ImageIsTheTurns ==
    ASSUME IInv, Read
    PROVE  /\ image' \in Nat
           /\ IF IsLive THEN image' = valid /\ valid > 0 ELSE image' = FirstImage + k
  <1>1. k \in Nat /\ valid \in Nat /\ req \in Nat
    BY DEF IInv, TypeOK
  <1>2. image' = IF ImageIdx = 0 THEN valid ELSE ImageIdx
    BY DEF Read
  <1>3. CASE IsLive
    BY <1>1, <1>2, <1>3 DEF ImageIdx, Read
  <1>4. CASE ~IsLive /\ mode = "last"
    <2>1. Units = req
      <3>1. req \div 1 = req
        BY <1>1
      <3> QED
        BY <1>4, <3>1 DEF Units, Per, NeverEndless
    <2>2. k < req /\ req <= valid
      BY <1>4, <2>1 DEF IInv, WithinUnits, InLoop, Read, RecordingIsKept
    <2>3. valid - req + 1 + k \in Nat \ {0} /\ valid - req + 1 + k <= valid
      BY <1>1, <2>2
    <2>4. ImageIdx = valid - req + 1 + k
      BY <1>1, <1>4, <2>3 DEF ImageIdx, MinOf
    <2> QED
      BY <1>1, <1>2, <1>4, <2>3, <2>4 DEF FirstImage
  <1>5. CASE ~IsLive /\ mode # "last"
    BY <1>1, <1>2, <1>5 DEF ImageIdx, FirstImage
  <1> QED
    BY <1>3, <1>4, <1>5

(* One more frame is announced, with the image just read, in a buffer no    *)
(* frame LIMA holds is in.                                                  *)
LEMMA AnnounceKeeps ==
    ASSUME IInv, NEW half \in {0, 1}, half < Per, Announce(half),
           pc \in {"first", "second"}, Len(frames) = Per * k + half
    PROVE  /\ frames' \in Seq(Frames) /\ pool' \in [Slots -> Nat]
           /\ Len(frames') = Len(frames) + 1
           /\ \A n \in 1 .. Len(frames') : frames'[n].image <= image \/ ~IsLive
           /\ FrameHasItsImage'
           /\ HeldFramesKept'
           /\ SavedAreAnnounced'
  <1> DEFINE nr == LimaFrame(half)
             x == [nr |-> nr, image |-> image, half |-> half]
  <1>1. k \in Nat /\ image \in Nat /\ valid \in Nat /\ req \in Nat /\ saved \in Nat
        /\ frames \in Seq(Frames) /\ pool \in [Slots -> Nat] /\ saved <= Len(frames)
        /\ Len(frames) \in Nat
    BY DEF IInv, TypeOK, SavedAreAnnounced
  <1>2. nr = Len(frames) /\ nr \in Nat
    BY <1>1, PerIsSmall DEF LimaFrame
  <1>3. x \in Frames
    BY <1>1, <1>2 DEF Frames
  <1>4. /\ UNCHANGED <<config, k, image, seen, ret, acqFrames, request, camera, saved>>
        /\ frames' = Append(frames, x)
        /\ pool' = [pool EXCEPT ![nr % LimaBuffers] = nr + 1]
        /\ nr < saved + LimaBuffers
    BY DEF Announce, Awaited
  <1>5. /\ frames' \in Seq(Frames)
        /\ Len(frames') = Len(frames) + 1
        /\ \A n \in 1 .. Len(frames) : frames'[n] = frames[n]
        /\ frames'[Len(frames) + 1] = x
    BY <1>1, <1>3, <1>4, Appended
  <1>6. LimaBuffers \in Nat \ {0} /\ nr % LimaBuffers \in Slots
    BY <1>2, SizesAssumption, Division DEF Slots
  <1>7. pool' \in [Slots -> Nat]
    <2>1. nr + 1 \in Nat
      BY <1>2
    <2> QED
      BY <1>1, <1>4, <2>1, Written
  <1>8. \A n \in 1 .. Len(frames') : n \in 1 .. Len(frames) \/ n = Len(frames) + 1
    BY <1>1, <1>5
  <1>9. mode' = mode /\ req' = req /\ valid' = valid /\ IsLive' = IsLive /\ Per' = Per
        /\ FirstImage' = FirstImage
    BY <1>4 DEF config, camera, IsLive, Per, FirstImage
  <1>10. IF IsLive THEN /\ image \in 1 .. valid
                        /\ \A n \in 1 .. Len(frames) : frames[n].image <= image
         ELSE image = FirstImage + k
    BY DEF IInv, ImageIsRead
  <1>11. \A n \in 1 .. Len(frames') : frames'[n].image <= image \/ ~IsLive
    BY <1>1, <1>5, <1>8, <1>10
  <1>12. FrameHasItsImage'
    <2> DEFINE Right(n) ==
          /\ frames'[n].nr = n - 1
          /\ IF IsLive
             THEN /\ frames'[n].image \in 1 .. valid
                  /\ n > 1 => frames'[n - 1].image <= frames'[n].image
             ELSE /\ frames'[n].image = FirstImage + (n - 1) \div Per
                  /\ frames'[n].half = (n - 1) % Per
    <2>1. ASSUME NEW n \in 1 .. Len(frames) PROVE Right(n)
      <3>1. frames'[n] = frames[n]
        BY <1>5
      <3>2. n > 1 => n - 1 \in 1 .. Len(frames) /\ frames'[n - 1] = frames[n - 1]
        BY <1>5
      <3> QED
        BY <3>1, <3>2 DEF IInv, FrameHasItsImage
    <2>2. Right(Len(frames) + 1)
      <3>1. frames'[Len(frames) + 1].nr = Len(frames) + 1 - 1
        BY <1>1, <1>2, <1>5
      <3>2. CASE IsLive
        <4>1. Len(frames) + 1 > 1 => Len(frames) \in 1 .. Len(frames)
          BY <1>1
        <4>2. Len(frames) + 1 - 1 = Len(frames)
          BY <1>1
        <4>3. frames'[Len(frames) + 1].image = image
          BY <1>5
        <4> QED
          BY <1>5, <1>10, <3>1, <3>2, <4>1, <4>2, <4>3
      <3>3. CASE ~IsLive
        <4>1. Len(frames) + 1 - 1 = Per * k + half
          BY <1>1
        <4>2. (Per * k + half) \div Per = k /\ (Per * k + half) % Per = half
          BY <1>1, PerIsSmall, HalfOfPair
        <4>3. frames'[Len(frames) + 1].image = image /\ frames'[Len(frames) + 1].half = half
          BY <1>5
        <4> QED
          BY <1>10, <3>1, <3>3, <4>1, <4>2, <4>3
      <3> QED
        BY <3>2, <3>3
    <2>3. \A n \in 1 .. Len(frames') : Right(n)
      BY <1>8, <2>1, <2>2
    <2> QED
      BY <1>9, <2>3 DEF FrameHasItsImage
  <1>13. HeldFramesKept'
    <2> SUFFICES ASSUME NEW f \in saved .. Len(frames)
                 PROVE  pool'[f % LimaBuffers] = f + 1
      BY <1>1, <1>4, <1>5 DEF HeldFramesKept
    <2>1. f \in Nat
      BY <1>1
    <2>2. CASE f = Len(frames)
      BY <1>1, <1>2, <1>4, <1>6, <2>2
    <2>3. CASE f < Len(frames)
      <3>1. f \in saved .. Len(frames) - 1
        BY <1>1, <2>1, <2>3
      <3>2. pool[f % LimaBuffers] = f + 1
        BY <3>1 DEF IInv, HeldFramesKept
      <3>3. nr - f < LimaBuffers /\ f < nr
        BY <1>1, <1>2, <1>4, <1>6, <2>1, <2>3
      <3>4. f % LimaBuffers # nr % LimaBuffers
        BY <1>2, <1>6, <2>1, <3>3, Apart
      <3> QED
        BY <1>1, <1>4, <3>2, <3>4
    <2> QED
      BY <1>1, <2>1, <2>2, <2>3
  <1>14. SavedAreAnnounced'
    BY <1>1, <1>4, <1>5 DEF SavedAreAnnounced
  <1> QED
    BY <1>5, <1>7, <1>11, <1>12, <1>13, <1>14

(* What a step of the environment keeps, and a step that announces nothing. *)
LEMMA FramesKept ==
    ASSUME IInv, UNCHANGED <<config, frames, camera, pool, saved>>
    PROVE  /\ RecordingIsKept' /\ SavedAreAnnounced' /\ FrameHasItsImage' /\ HeldFramesKept'
           /\ Units' = Units /\ Per' = Per /\ IsLive' = IsLive /\ FirstImage' = FirstImage
  BY DEF IInv, RecordingIsKept, SavedAreAnnounced, FrameHasItsImage, HeldFramesKept,
         Units, Per, IsLive, NeverEndless, FirstImage, config, camera

LEMMA NextIInv == ASSUME IInv, [Next]_vars PROVE IInv'
  <1>1. CASE UNCHANGED vars
    <2>1. UNCHANGED <<config, pc, thread, request, camera, pool, saved>>
      BY <1>1 DEF vars
    <2>2. UNCHANGED <<config, frames, camera, pool, saved>>
      BY <2>1 DEF thread
    <2>3. /\ RecordingIsKept' /\ SavedAreAnnounced' /\ FrameHasItsImage' /\ HeldFramesKept'
          /\ Units' = Units /\ Per' = Per /\ IsLive' = IsLive /\ FirstImage' = FirstImage
      BY <2>2, FramesKept
    <2>4. TypeOK'
      BY <2>1 DEF IInv, TypeOK, config, thread, request, camera
    <2> QED
      BY <2>1, <2>3, <2>4
      DEF IInv, WithinUnits, InLoop, LengthFits, ImageIsRead, CountFollows, StopIsSeen,
          ResultIsTrue, StopIsPrompt, config, thread, request, camera
  <1>2. ASSUME Loop PROVE IInv'
    <2>1. UNCHANGED <<config, frames, camera, pool, saved>>
      BY <1>2 DEF Loop, thread
    <2>2. /\ RecordingIsKept' /\ SavedAreAnnounced' /\ FrameHasItsImage' /\ HeldFramesKept'
          /\ Units' = Units /\ Per' = Per /\ IsLive' = IsLive /\ FirstImage' = FirstImage
      BY <2>1, FramesKept
    <2> QED
      BY <1>2, <2>2
      DEF Loop, IInv, TypeOK, WithinUnits, InLoop, LengthFits, ImageIsRead, CountFollows,
          StopIsSeen, ResultIsTrue, StopIsPrompt, config, thread, request, camera
  <1>3. ASSUME Waited PROVE IInv'
    <2>1. UNCHANGED <<config, frames, camera, pool, saved>>
      BY <1>3 DEF Waited, thread
    <2>2. /\ RecordingIsKept' /\ SavedAreAnnounced' /\ FrameHasItsImage' /\ HeldFramesKept'
          /\ Units' = Units /\ Per' = Per /\ IsLive' = IsLive /\ FirstImage' = FirstImage
      BY <2>1, FramesKept
    <2> QED
      BY <1>3, <2>2
      DEF Waited, IInv, TypeOK, WithinUnits, InLoop, LengthFits, ImageIsRead, CountFollows,
          StopIsSeen, ResultIsTrue, StopIsPrompt, config, thread, request, camera
  <1>4. ASSUME Read PROVE IInv'
    <2>1. UNCHANGED <<config, k, seen, ret, acqFrames, request, frames, camera, pool, saved>>
          /\ pc = "read" /\ pc' = "first"
      BY <1>4 DEF Read
    <2>2. /\ RecordingIsKept' /\ SavedAreAnnounced' /\ FrameHasItsImage' /\ HeldFramesKept'
          /\ Units' = Units /\ Per' = Per /\ IsLive' = IsLive /\ FirstImage' = FirstImage
      BY <2>1, FramesKept
    <2>3. image' \in Nat /\ IF IsLive THEN image' = valid /\ valid > 0 ELSE image' = FirstImage + k
      BY <1>4, ImageIsTheTurns
    <2>4. IsLive => \A n \in 1 .. Len(frames) : frames[n].image <= valid
      BY DEF IInv, FrameHasItsImage, TypeOK
    <2>5. ImageIsRead'
      BY <2>1, <2>2, <2>3, <2>4 DEF ImageIsRead, IInv, TypeOK, camera
    <2>6. TypeOK'
      BY <2>1, <2>3 DEF IInv, TypeOK, config, request, camera
    <2> QED
      BY <2>1, <2>2, <2>5, <2>6
      DEF IInv, WithinUnits, InLoop, LengthFits, CountFollows, StopIsSeen, ResultIsTrue,
          StopIsPrompt, config, request
  <1>5. ASSUME Die, pc \notin {"done", "dead"} PROVE IInv'
    <2>1. UNCHANGED <<config, frames, camera, pool, saved>>
      BY <1>5 DEF Die, thread
    <2>2. /\ RecordingIsKept' /\ SavedAreAnnounced' /\ FrameHasItsImage' /\ HeldFramesKept'
          /\ Units' = Units /\ Per' = Per /\ IsLive' = IsLive /\ FirstImage' = FirstImage
      BY <2>1, FramesKept
    <2> QED
      BY <1>5, <2>2
      DEF Die, IInv, TypeOK, WithinUnits, InLoop, LengthFits, ImageIsRead, CountFollows,
          StopIsSeen, ResultIsTrue, StopIsPrompt, config, thread, request, camera
  <1>6. ASSUME First PROVE IInv'
    <2>1. pc = "first" /\ Announce(0) /\ pc' = IF mode = "double" THEN "second" ELSE "check"
      BY <1>6 DEF First
    <2>2. k \in Nat /\ Len(frames) = Per * k + 0
      BY <2>1, PerIsSmall DEF IInv, LengthFits, TypeOK
    <2>3. /\ frames' \in Seq(Frames) /\ pool' \in [Slots -> Nat]
          /\ Len(frames') = Len(frames) + 1
          /\ \A n \in 1 .. Len(frames') : frames'[n].image <= image \/ ~IsLive
          /\ FrameHasItsImage' /\ HeldFramesKept' /\ SavedAreAnnounced'
      BY <2>1, <2>2, PerIsSmall, AnnounceKeeps
    <2>4. UNCHANGED <<config, k, image, seen, ret, acqFrames, request, camera, saved>>
      BY <2>1 DEF Announce
    <2>5. Units' = Units /\ Per' = Per /\ IsLive' = IsLive /\ FirstImage' = FirstImage
      BY <2>4 DEF Units, Per, IsLive, NeverEndless, FirstImage, config, camera
    <2>6. TypeOK'
      BY <2>1, <2>3, <2>4 DEF IInv, TypeOK, config, request, camera
    <2>7. RecordingIsKept' /\ WithinUnits' /\ CountFollows' /\ ResultIsTrue'
      BY <2>1, <2>4, <2>5
      DEF IInv, RecordingIsKept, WithinUnits, InLoop, CountFollows, ResultIsTrue, config, camera
    <2>8. LengthFits'
      BY <2>1, <2>2, <2>3, <2>4, <2>5, PerIsSmall DEF LengthFits
    <2>9. ImageIsRead'
      BY <2>1, <2>3, <2>4, <2>5 DEF IInv, ImageIsRead, camera
    <2>10. StopIsSeen' /\ StopIsPrompt'
      BY <2>1, <2>2, <2>3, <2>4, <2>5, PerIsSmall DEF IInv, TypeOK, StopIsSeen, StopIsPrompt, request
    <2> QED
      BY <2>3, <2>6, <2>7, <2>8, <2>9, <2>10 DEF IInv
  <1>7. ASSUME Second PROVE IInv'
    <2>1. pc = "second" /\ Announce(1) /\ pc' = "check"
      BY <1>7 DEF Second
    <2>2. k \in Nat /\ Len(frames) = Per * k + 1 /\ Per = 2
      BY <2>1 DEF IInv, LengthFits, TypeOK
    <2>3. /\ frames' \in Seq(Frames) /\ pool' \in [Slots -> Nat]
          /\ Len(frames') = Len(frames) + 1
          /\ \A n \in 1 .. Len(frames') : frames'[n].image <= image \/ ~IsLive
          /\ FrameHasItsImage' /\ HeldFramesKept' /\ SavedAreAnnounced'
      BY <2>1, <2>2, AnnounceKeeps
    <2>4. UNCHANGED <<config, k, image, seen, ret, acqFrames, request, camera, saved>>
      BY <2>1 DEF Announce
    <2>5. Units' = Units /\ Per' = Per /\ IsLive' = IsLive /\ FirstImage' = FirstImage
      BY <2>4 DEF Units, Per, IsLive, NeverEndless, FirstImage, config, camera
    <2>6. TypeOK'
      BY <2>1, <2>3, <2>4 DEF IInv, TypeOK, config, request, camera
    <2>7. RecordingIsKept' /\ WithinUnits' /\ CountFollows' /\ ResultIsTrue'
      BY <2>1, <2>4, <2>5
      DEF IInv, RecordingIsKept, WithinUnits, InLoop, CountFollows, ResultIsTrue, config, camera
    <2>8. LengthFits'
      BY <2>1, <2>2, <2>3, <2>4, <2>5 DEF LengthFits
    <2>9. ImageIsRead'
      BY <2>1, <2>3, <2>4, <2>5 DEF IInv, ImageIsRead, camera
    <2>10. StopIsSeen' /\ StopIsPrompt'
      BY <2>1, <2>2, <2>3, <2>4, <2>5 DEF IInv, TypeOK, StopIsSeen, StopIsPrompt, request
    <2> QED
      BY <2>3, <2>6, <2>7, <2>8, <2>9, <2>10 DEF IInv
  <1>8. ASSUME CheckStop PROVE IInv'
    <2>1. UNCHANGED <<config, frames, camera, pool, saved>>
      BY <1>8 DEF CheckStop
    <2>2. /\ RecordingIsKept' /\ SavedAreAnnounced' /\ FrameHasItsImage' /\ HeldFramesKept'
          /\ Units' = Units /\ Per' = Per /\ IsLive' = IsLive /\ FirstImage' = FirstImage
      BY <2>1, FramesKept
    <2> QED
      BY <1>8, <2>2
      DEF CheckStop, StopSeen, IInv, TypeOK, WithinUnits, InLoop, LengthFits, ImageIsRead,
          CountFollows, StopIsSeen, ResultIsTrue, StopIsPrompt, config, request, camera
  <1>9. ASSUME Count PROVE IInv'
    <2>1. /\ UNCHANGED <<config, image, ret, frames, request, camera, pool, saved>>
          /\ pc = "check" /\ pc' = "loop" /\ ~stop /\ k' = k + 1 /\ seen' = "no"
          /\ acqFrames' = Counted
      BY <1>9 DEF Count, StopSeen
    <2>2. /\ RecordingIsKept' /\ SavedAreAnnounced' /\ FrameHasItsImage' /\ HeldFramesKept'
          /\ Units' = Units /\ Per' = Per /\ IsLive' = IsLive /\ FirstImage' = FirstImage
      BY <2>1, FramesKept
    <2>3. k \in Nat /\ Len(frames) = Per * k + Per /\ k < Units /\ Units \in Nat
      BY <2>1 DEF IInv, TypeOK, LengthFits, WithinUnits, InLoop
    <2>4. Counted = Per * k + 1 /\ Counted \in Nat
      BY <2>3, PerIsSmall DEF Counted, LimaFrame
    <2>5. Len(frames) = Per * (k + 1) /\ Counted = Per * (k + 1) - (Per - 1)
      BY <2>3, <2>4, PerIsSmall
    <2>6. TypeOK'
      BY <2>1, <2>3, <2>4 DEF IInv, TypeOK, config, request, camera
    <2>7. WithinUnits' /\ LengthFits' /\ CountFollows'
      BY <2>1, <2>2, <2>3, <2>5 DEF IInv, WithinUnits, InLoop, LengthFits, CountFollows
    <2>8. ImageIsRead' /\ StopIsSeen' /\ ResultIsTrue' /\ StopIsPrompt'
      BY <2>1, <2>2
      DEF IInv, ImageIsRead, StopIsSeen, ResultIsTrue, StopIsPrompt, CountFollows, request
    <2> QED
      BY <2>2, <2>6, <2>7, <2>8 DEF IInv
  <1>10. ASSUME Finish PROVE IInv'
    <2>1. /\ UNCHANGED <<config, k, image, seen, frames, acqFrames, request, camera, pool, saved>>
          /\ pc = "loop" /\ pc' = "done" /\ k >= Units
          /\ ret' \in {"TransferEnd", "TransferStop"} /\ (ret' = "TransferStop" => seen = "unset")
      BY <1>10 DEF Finish
    <2>2. /\ RecordingIsKept' /\ SavedAreAnnounced' /\ FrameHasItsImage' /\ HeldFramesKept'
          /\ Units' = Units /\ Per' = Per /\ IsLive' = IsLive /\ FirstImage' = FirstImage
      BY <2>1, FramesKept
    <2>3. k \in Nat /\ k = Units /\ Len(frames) = Per * k /\ frames \in Seq(Frames)
      BY <2>1 DEF IInv, TypeOK, LengthFits, WithinUnits, InLoop
    <2>4. k > 0 => seen = "no" /\ acqFrames = Len(frames) - (Per - 1)
      BY <2>1, <2>3 DEF IInv, CountFollows, InLoop
    <2>5. k = 0 => frames = <<>>
      <3>1. k = 0 => Len(frames) = 0
        BY <2>3, PerIsSmall
      <3> QED
        BY <2>3, <3>1
    <2>6. ResultIsTrue'
      <3>1. frames # <<>> => acqFrames = Len(frames) - (Per - 1)
        BY <2>3, <2>4, <2>5
      <3>2. ret' = "TransferStop" => frames = <<>>
        BY <2>1, <2>3, <2>4, <2>5
      <3> QED
        BY <2>1, <2>2, <2>3, <3>1, <3>2 DEF ResultIsTrue
    <2>7. TypeOK'
      BY <2>1 DEF IInv, TypeOK, config, request, camera
    <2>8. WithinUnits' /\ LengthFits' /\ CountFollows' /\ ImageIsRead' /\ StopIsSeen' /\ StopIsPrompt'
      BY <2>1, <2>2, <2>3, PerIsSmall
      DEF IInv, TypeOK, WithinUnits, InLoop, LengthFits, CountFollows, ImageIsRead, StopIsSeen,
          StopIsPrompt, request
    <2> QED
      BY <2>2, <2>6, <2>7, <2>8 DEF IInv
  <1>11. ASSUME RequestStop PROVE IInv'
    <2>1. /\ UNCHANGED <<config, pc, thread, camera, pool, saved>>
          /\ stop' = TRUE /\ stopAt' = Len(frames)
      BY <1>11 DEF RequestStop
    <2>2. UNCHANGED <<config, frames, camera, pool, saved>>
      BY <2>1 DEF thread
    <2>3. /\ RecordingIsKept' /\ SavedAreAnnounced' /\ FrameHasItsImage' /\ HeldFramesKept'
          /\ Units' = Units /\ Per' = Per /\ IsLive' = IsLive /\ FirstImage' = FirstImage
      BY <2>2, FramesKept
    <2>4. TypeOK'
      BY <2>1 DEF IInv, TypeOK, config, thread, camera
    <2>5. Len(frames) \in Nat
      BY DEF IInv, TypeOK
    <2>6. StopIsSeen' /\ StopIsPrompt' /\ ResultIsTrue'
      BY <2>1, <2>3, <2>5, PerIsSmall DEF IInv, StopIsSeen, StopIsPrompt, ResultIsTrue, thread
    <2>7. WithinUnits' /\ LengthFits' /\ ImageIsRead' /\ CountFollows'
      BY <2>1, <2>3
      DEF IInv, WithinUnits, InLoop, LengthFits, ImageIsRead, CountFollows, thread, camera
    <2> QED
      BY <2>3, <2>4, <2>6, <2>7 DEF IInv
  <1>12. ASSUME Expose PROVE IInv'
    <2>1. /\ UNCHANGED <<config, pc, thread, request, recording, pool, saved>>
          /\ recording /\ valid' = valid + 1
      BY <1>12 DEF Expose
    <2>2. IsLive /\ valid \in Nat /\ Len(frames) \in Nat
      BY <2>1 DEF IInv, RecordingIsKept, TypeOK
    <2>3. Units' = Units /\ Per' = Per /\ IsLive' = IsLive
      BY <2>1 DEF Units, Per, IsLive, NeverEndless, config
    <2>4. TypeOK'
      BY <2>1, <2>2 DEF IInv, TypeOK, config, thread, request
    <2>5. mode # "last"
      BY <2>2 DEF IsLive
    <2>6. RecordingIsKept' /\ SavedAreAnnounced' /\ HeldFramesKept'
      BY <2>1, <2>2, <2>3, <2>5
      DEF IInv, RecordingIsKept, SavedAreAnnounced, HeldFramesKept, config, thread
    <2>7. FrameHasItsImage'
      BY <2>1, <2>2, <2>3 DEF IInv, FrameHasItsImage, thread
    <2>8. ImageIsRead'
      BY <2>1, <2>2, <2>3 DEF IInv, ImageIsRead, thread
    <2>9. WithinUnits' /\ LengthFits' /\ CountFollows' /\ StopIsSeen' /\ ResultIsTrue' /\ StopIsPrompt'
      BY <2>1, <2>3
      DEF IInv, WithinUnits, InLoop, LengthFits, CountFollows, StopIsSeen, ResultIsTrue,
          StopIsPrompt, thread, request
    <2> QED
      BY <2>4, <2>6, <2>7, <2>8, <2>9 DEF IInv
  <1>13. ASSUME Release PROVE IInv'
    <2>1. /\ UNCHANGED <<config, pc, thread, request, camera, pool>>
          /\ saved < Len(frames) /\ saved' = saved + 1
      BY <1>13 DEF Release
    <2>2. saved \in Nat /\ Len(frames) \in Nat
      BY DEF IInv, TypeOK
    <2>3. Units' = Units /\ Per' = Per /\ IsLive' = IsLive /\ FirstImage' = FirstImage
      BY <2>1 DEF Units, Per, IsLive, NeverEndless, FirstImage, config, camera
    <2>4. TypeOK'
      BY <2>1, <2>2 DEF IInv, TypeOK, config, thread, request, camera
    <2>5. SavedAreAnnounced' /\ HeldFramesKept'
      BY <2>1, <2>2 DEF IInv, SavedAreAnnounced, HeldFramesKept, thread
    <2>6. RecordingIsKept' /\ FrameHasItsImage' /\ ImageIsRead'
      BY <2>1, <2>3
      DEF IInv, RecordingIsKept, FrameHasItsImage, ImageIsRead, config, thread, camera
    <2>7. WithinUnits' /\ LengthFits' /\ CountFollows' /\ StopIsSeen' /\ ResultIsTrue' /\ StopIsPrompt'
      BY <2>1, <2>3
      DEF IInv, WithinUnits, InLoop, LengthFits, CountFollows, StopIsSeen, ResultIsTrue,
          StopIsPrompt, thread, request
    <2> QED
      BY <2>4, <2>5, <2>6, <2>7 DEF IInv
  <1>14. ReadTimeout \/ CameraThrows \/ NoLimaBuffer => Die /\ pc \notin {"done", "dead"}
    BY DEF ReadTimeout, CameraThrows, NoLimaBuffer, NoBuffer
  <1>15. Poll \/ Ended => UNCHANGED vars
    BY DEF Poll, Ended
  <1> QED
    BY <1>1, <1>2, <1>3, <1>4, <1>5, <1>6, <1>7, <1>8, <1>9, <1>10, <1>11, <1>12, <1>13,
       <1>14, <1>15
    DEF Next, Transfer

LEMMA AlwaysIInv == Spec => []IInv
  BY InitIInv, NextIInv, PTL DEF Spec

----------------------------------------------------------------------------
(* Every variable of the transfer stays in its domain.                      *)
THEOREM TypeCorrect == Spec => []TypeOK
  BY AlwaysIInv, PTL DEF IInv

(* Each frame carries its image: the last ones of a ring recording, the     *)
(* first ones of a sequence, both halves of a double image, never an older  *)
(* one in a live transfer (_xferImag_getImage, _xferImag_getImage_edge,     *)
(* _xferImagMult, _xferImagMultDoubleImage).                                *)
THEOREM FrameHasItsImageAlways == Spec => []FrameHasItsImage
  BY AlwaysIInv, PTL DEF IInv

(* A frame is never written over one LIMA still holds (_getLimaBuffer).     *)
THEOREM HeldFramesKeptAlways == Spec => []HeldFramesKept
  BY AlwaysIInv, PTL DEF IInv

(* The status returned says what was announced and counted.                 *)
THEOREM ResultIsTrueAlways == Spec => []ResultIsTrue
  BY AlwaysIInv, PTL DEF IInv

(* At most one more image is announced after a stop request.                *)
THEOREM StopIsPromptAlways == Spec => []StopIsPrompt
  BY AlwaysIInv, PTL DEF IInv
----------------------------------------------------------------------------
(* The reading of a finished recording as a stream: one image for a frame,   *)
(* or for the two frames of a double image.  A live transfer asks for the    *)
(* newest image and may be given the same one again.                         *)
Delivered == Len(frames) \div Per

Stream == INSTANCE PcoFrameStream WITH
              Images <- 1 .. MaxImages, Endings <- {"TransferEnd", "TransferStop"},
              NoEnding <- "none",
              frames <- [n \in 1 .. Delivered |-> frames[Per * n].image],
              limit <- Units, ending <- ret

(* Only images that were recorded are read.                                  *)
ReadsRecorded ==
    /\ ~IsLive /\ valid <= MaxImages
    /\ pc = "read" => ImageIdx \in 1 .. valid
    /\ pc \in {"first", "second"} => image \in 1 .. valid

StreamInv == IInv /\ ReadsRecorded

LEMMA Typed ==
    ASSUME IInv
    PROVE  /\ k \in Nat /\ valid \in Nat /\ req \in Nat /\ image \in Nat
           /\ Units \in Nat /\ Per \in {1, 2} /\ Len(frames) \in Nat /\ FirstImage \in Int
  <1>1. TypeOK /\ Units \in Nat
    BY DEF IInv, WithinUnits
  <1> QED
    BY <1>1, PerIsSmall DEF TypeOK, FirstImage

LEMMA InitReads == ASSUME ~IsLive, Init PROVE StreamInv
  <1>1. IInv
    BY InitIInv
  <1>2. valid <= MaxImages
    BY SizesAssumption DEF Init
  <1> QED
    BY <1>1, <1>2 DEF Init, StreamInv, ReadsRecorded

(* The image a turn asks for was recorded, or the turn waits for it.         *)
LEMMA TurnAsks ==
    ASSUME IInv, ~IsLive, pc \in {"loop", "wait"}, k < Units
    PROVE  ImageIdx \in Nat \ {0} /\ (mode = "last" => ImageIdx <= valid)
  <1>1. k \in Nat /\ valid \in Nat /\ req \in Nat
    BY Typed
  <1>2. CASE mode = "last"
    <2>1. Units = req
      <3>1. req \div 1 = req
        BY <1>1
      <3> QED
        BY <1>2, <3>1 DEF Units, Per, NeverEndless
    <2>2. req <= valid
      BY <1>2 DEF IInv, RecordingIsKept
    <2>3. valid - req + 1 + k \in 1 .. valid
      BY <1>1, <2>1, <2>2
    <2>4. ImageIdx = valid - req + 1 + k
      BY <1>1, <1>2, <2>3 DEF ImageIdx, MinOf
    <2> QED
      BY <1>1, <2>3, <2>4
  <1>3. CASE mode # "last"
    BY <1>1, <1>3 DEF ImageIdx
  <1> QED
    BY <1>2, <1>3

LEMMA NextReads == ASSUME StreamInv, [Next]_vars PROVE StreamInv'
  <1>1. IInv' /\ IInv /\ ~IsLive /\ ~recording /\ ReadsRecorded
    BY NextIInv DEF StreamInv, ReadsRecorded, IInv, RecordingIsKept
  <1>2. k \in Nat /\ valid \in Nat /\ req \in Nat
    BY <1>1, Typed
  <1>3. ~Expose
    BY <1>1 DEF Expose
  <1>4. UNCHANGED <<config, valid>>
    BY <1>3
    DEF Next, Transfer, Loop, Waited, Poll, Read, Die, ReadTimeout, CameraThrows, First, Second,
        Announce, NoLimaBuffer, CheckStop, Count, Finish, RequestStop, Release, Ended, vars, camera
  <1>5. IsLive' = IsLive /\ NeverEndless' = NeverEndless
    BY <1>4 DEF IsLive, NeverEndless, config
  <1>6. CASE Loop \/ Waited
    <2>1. /\ pc \in {"loop", "wait"} /\ k < Units /\ pc' \in {"read", "wait"} /\ UNCHANGED thread
          /\ pc' = "read" => NeverEndless \/ ImageThere
      BY <1>1, <1>6 DEF Loop, Waited, IInv, WithinUnits, InLoop
    <2>2. ImageIdx \in Nat \ {0} /\ (mode = "last" => ImageIdx <= valid)
      BY <1>1, <2>1, TurnAsks
    <2>3. pc' = "read" => ImageIdx \in 1 .. valid
      BY <1>1, <1>2, <2>1, <2>2 DEF ImageThere, NeverEndless, IsLive
    <2>4. ImageIdx' = ImageIdx
      BY <1>4, <1>5, <2>1 DEF ImageIdx, config, thread
    <2> QED
      BY <1>1, <1>4, <1>5, <2>1, <2>3, <2>4 DEF StreamInv, ReadsRecorded
  <1>7. CASE Read
    <2>1. pc = "read" /\ pc' = "first" /\ image' = IF ImageIdx = 0 THEN valid ELSE ImageIdx
      BY <1>7 DEF Read
    <2>2. image' \in 1 .. valid
      BY <1>1, <1>2, <2>1 DEF ReadsRecorded
    <2> QED
      BY <1>1, <1>4, <1>5, <2>1, <2>2 DEF StreamInv, ReadsRecorded
  <1>8. CASE First
    BY <1>1, <1>4, <1>5, <1>8 DEF First, Announce, StreamInv, ReadsRecorded
  <1>9. CASE Second \/ ReadTimeout \/ CameraThrows \/ NoLimaBuffer \/ CheckStop \/ Count \/ Finish
    <2>1. pc' \notin {"read", "first", "second"}
      BY <1>9 DEF Second, ReadTimeout, CameraThrows, NoLimaBuffer, Die, CheckStop, Count, Finish
    <2> QED
      BY <1>1, <1>4, <1>5, <2>1 DEF StreamInv, ReadsRecorded
  <1>10. CASE Poll \/ RequestStop \/ Release \/ Ended \/ UNCHANGED vars
    <2>1. UNCHANGED <<pc, thread>>
      BY <1>10 DEF Poll, RequestStop, Release, Ended, vars
    <2>2. ImageIdx' = ImageIdx /\ image' = image
      BY <1>4, <1>5, <2>1 DEF ImageIdx, config, thread
    <2> QED
      BY <1>1, <1>4, <1>5, <2>1, <2>2 DEF StreamInv, ReadsRecorded
  <1> QED
    BY <1>3, <1>6, <1>7, <1>8, <1>9, <1>10 DEF Next, Transfer

(* The image of the last frame of each image read.                           *)
LEMMA InOrder ==
    ASSUME NEW p \in {1, 2}, NEW a \in Int, NEW s, Len(s) \in Nat,
           \A m \in 1 .. Len(s) : s[m].image = a + (m - 1) \div p,
           NEW n \in 1 .. Len(s) \div p
    PROVE  s[p * n].image = a + n - 1
  <1>1. p * n \in 1 .. Len(s) /\ (p * n - 1) \div p = n - 1
    <2>1. CASE p = 1
      BY <2>1
    <2>2. CASE p = 2
      BY <2>2
    <2> QED
      BY <2>1, <2>2
  <1>2. s[p * n].image = a + (p * n - 1) \div p
    BY <1>1
  <1> QED
    BY <1>1, <1>2

LEMMA OneMore ==
    ASSUME NEW d \in Nat, NEW a \in Int
    PROVE  [n \in 1 .. d + 1 |-> a + n - 1] = Append([n \in 1 .. d |-> a + n - 1], a + d)
  <1> DEFINE f == [n \in 1 .. d |-> a + n - 1]
  <1>1. f \in Seq(Int) /\ Len(f) = d
    OBVIOUS
  <1>2. Append(f, a + d) = [n \in 1 .. d + 1 |-> IF n = d + 1 THEN a + d ELSE f[n]]
    BY <1>1
  <1>3. a + (d + 1) - 1 = a + d
    OBVIOUS
  <1> QED
    BY <1>2, <1>3

LEMMA DeliveredInOrder ==
    ASSUME IInv, ~IsLive
    PROVE  [n \in 1 .. Delivered |-> frames[Per * n].image]
           = [n \in 1 .. Delivered |-> FirstImage + n - 1]
  <1>1. \A m \in 1 .. Len(frames) : frames[m].image = FirstImage + (m - 1) \div Per
    BY DEF IInv, FrameHasItsImage
  <1>2. Per \in {1, 2} /\ FirstImage \in Int /\ Len(frames) \in Nat
    BY Typed
  <1>3. \A n \in 1 .. Delivered : frames[Per * n].image = FirstImage + n - 1
    <2> TAKE n \in 1 .. Delivered
    <2>1. n \in 1 .. Len(frames) \div Per
      BY DEF Delivered
    <2> QED
      BY <1>1, <1>2, <2>1, InOrder
  <1> QED
    BY <1>3

(* The last frame of an image delivers it.                                   *)
LEMMA ImageDelivered ==
    ASSUME StreamInv, StreamInv', NEW half \in {0, 1}, half = Per - 1, Announce(half),
           pc \in {"first", "second"}, Len(frames) = Per * k + half
    PROVE  Stream!Deliver
  <1> DEFINE f == [n \in 1 .. Delivered |-> frames[Per * n].image]
             g == [n \in 1 .. Delivered' |-> frames'[Per * n].image]
             d == Delivered
             a == FirstImage
  <1>1. IInv /\ IInv' /\ ReadsRecorded /\ ~IsLive /\ ~IsLive' /\ UNCHANGED <<config, k, image, ret, camera>>
    BY DEF StreamInv, ReadsRecorded, Announce
  <1>2. /\ k \in Nat /\ valid \in Nat /\ Units \in Nat /\ Per \in {1, 2} /\ a \in Int
        /\ Per' = Per /\ Units' = Units /\ FirstImage' = a
    BY <1>1, Typed DEF Per, Units, NeverEndless, FirstImage, config, camera
  <1>3. Len(frames') = Per * k + Per
    <2>1. Len(frames') = Len(frames) + 1
      BY <1>1, AnnounceKeeps, PerIsSmall
    <2> QED
      BY <1>2, <2>1
  <1>4. d = k /\ Delivered' = k + 1
    <2>1. (Per * k + half) \div Per = k /\ (Per * (k + 1) + 0) \div Per = k + 1
      BY <1>2, HalfOfPair
    <2>2. Per * (k + 1) + 0 = Per * k + Per
      BY <1>2
    <2> QED
      BY <1>2, <1>3, <2>1, <2>2 DEF Delivered
  <1>5. f = [n \in 1 .. k |-> a + n - 1]
    BY <1>1, <1>4, DeliveredInOrder
  <1>6. g = [n \in 1 .. k + 1 |-> a + n - 1]
    <2>1. \A m \in 1 .. Len(frames') : frames'[m].image = a + (m - 1) \div Per
      BY <1>1, <1>2 DEF IInv, FrameHasItsImage
    <2>2. Len(frames') \in Nat /\ Delivered' = Len(frames') \div Per
      BY <1>2, <1>3 DEF Delivered
    <2>3. \A n \in 1 .. Delivered' : frames'[Per * n].image = a + n - 1
      <3> TAKE n \in 1 .. Delivered'
      <3>1. Per \in {1, 2} /\ a \in Int /\ n \in 1 .. Len(frames') \div Per
        BY <1>2, <2>2
      <3> QED
        BY <2>1, <2>2, <3>1, InOrder
    <2> QED
      BY <1>4, <2>3
  <1>7. g = Append(f, a + k)
    BY <1>2, <1>5, <1>6, OneMore
  <1>8. a + k \in 1 .. MaxImages
    <2>1. image = a + k /\ image \in 1 .. valid /\ valid <= MaxImages
      BY <1>1 DEF IInv, ImageIsRead, ReadsRecorded
    <2> QED
      BY <1>2, <2>1, SizesAssumption
  <1>9. ret = "none" /\ ret' = ret /\ k < Units
    BY <1>1 DEF IInv, TypeOK, CountFollows, WithinUnits, InLoop
  <1>10. Len(f) = k /\ \A n \in 1 .. Len(f) : f[n] < a + k
    <2>1. Len(f) = k
      BY <1>2, <1>4
    <2>2. \A n \in 1 .. k : f[n] = a + n - 1
      BY <1>5
    <2> HIDE DEF f, a
    <2> QED
      BY <1>2, <2>1, <2>2
  <1>11. [n \in 1 .. Delivered' |-> frames'[Per' * n].image] = g
    BY <1>2
  <1> HIDE DEF f, g, d, a
  <1> QED
    BY <1>2, <1>7, <1>8, <1>9, <1>10, <1>11 DEF Stream!Deliver, f

(* Where nothing is announced the stream stands still.                       *)
LEMMA StreamStands ==
    ASSUME UNCHANGED <<config, frames, ret>> PROVE UNCHANGED Stream!vars
  BY DEF Stream!vars, Delivered, Units, Per, NeverEndless, config

LEMMA FirstHalf ==
    ASSUME StreamInv, StreamInv', First, Per = 2 PROVE UNCHANGED Stream!vars
  <1>1. /\ IInv /\ IInv' /\ ~IsLive /\ pc = "first" /\ UNCHANGED <<config, k, ret, camera>>
        /\ Announce(0)
    BY DEF StreamInv, ReadsRecorded, First, Announce
  <1>2. k \in Nat /\ Len(frames) = 2 * k /\ Len(frames) = Per * k + 0
    BY <1>1, Typed DEF IInv, LengthFits
  <1>3. Len(frames') = 2 * k + 1 /\ Per' = Per /\ Units' = Units
    <2>1. Len(frames') = Len(frames) + 1
      BY <1>1, <1>2, AnnounceKeeps
    <2> QED
      BY <1>1, <1>2, <2>1 DEF Per, Units, NeverEndless, config
  <1>4. Delivered = k /\ Delivered' = k
    BY <1>2, <1>3 DEF Delivered
  <1>5. \A n \in 1 .. k : frames'[2 * n] = frames[2 * n]
    <2>1. \A m \in 1 .. Len(frames) : frames'[m] = frames[m]
      <3>1. /\ frames \in Seq(Frames) /\ [nr |-> LimaFrame(0), image |-> image, half |-> 0] \in Frames
            /\ frames' = Append(frames, [nr |-> LimaFrame(0), image |-> image, half |-> 0])
        BY <1>1, <1>2 DEF IInv, TypeOK, Announce, Frames, LimaFrame
      <3> QED
        BY <3>1, Appended
    <2> QED
      BY <1>2, <2>1
  <1>6. [n \in 1 .. Delivered' |-> frames'[Per' * n].image]
        = [n \in 1 .. Delivered |-> frames[Per * n].image]
    BY <1>3, <1>4, <1>5
  <1> QED
    BY <1>1, <1>3, <1>6 DEF Stream!vars

LEMMA StreamEnds ==
    ASSUME StreamInv, StreamInv', CheckStop \/ Finish PROVE Stream!End
  <1> DEFINE f == [n \in 1 .. Delivered |-> frames[Per * n].image]
  <1>1. /\ IInv /\ IInv' /\ pc \in {"check", "loop"} /\ UNCHANGED <<config, frames>>
        /\ ret' \in {"TransferEnd", "TransferStop"}
    BY DEF StreamInv, CheckStop, Finish
  <1>2. Units \in Nat /\ Per \in {1, 2} /\ Len(frames) \in Nat
    BY <1>1, Typed
  <1>3. ret = "none"
    BY <1>1 DEF IInv, TypeOK, CountFollows
  <1>4. Per' = Per /\ Units' = Units /\ Delivered' = Delivered /\ f' = f
    BY <1>1 DEF Per, Units, NeverEndless, config, Delivered
  <1>5. Delivered \in Nat /\ Len(f) = Delivered
    BY <1>2 DEF Delivered
  <1>6. ret' = "TransferEnd" => Delivered = Units
    <2>1. ret' = "TransferEnd" => Len(frames) = Per * Units + 0
      BY <1>1, <1>2, <1>4 DEF IInv, ResultIsTrue
    <2>2. (Per * Units + 0) \div Per = Units
      BY <1>2, HalfOfPair
    <2> QED
      BY <2>1, <2>2 DEF Delivered
  <1> QED
    BY <1>1, <1>3, <1>4, <1>5, <1>6 DEF Stream!End

LEMMA StreamStep ==
    ASSUME StreamInv, StreamInv', [Next]_vars PROVE [Stream!Next]_(Stream!vars)
  <1>1. CASE First
    <2>1. CASE Per = 2
      BY <1>1, <2>1, FirstHalf
    <2>2. CASE Per = 1
      <3>1. Len(frames) = Per * k + 0 /\ Announce(0) /\ pc = "first"
        BY <1>1, <2>2, Typed DEF First, StreamInv, IInv, LengthFits
      <3> QED
        BY <2>2, <3>1, ImageDelivered DEF Stream!Next
    <2> QED
      BY <2>1, <2>2, PerIsSmall
  <1>2. CASE Second
    <2>1. Len(frames) = Per * k + 1 /\ Per = 2 /\ Announce(1) /\ pc = "second"
      BY <1>2 DEF Second, StreamInv, IInv, LengthFits
    <2> QED
      BY <2>1, ImageDelivered DEF Stream!Next
  <1>3. CASE CheckStop \/ Finish
    BY <1>3, StreamEnds DEF Stream!Next
  <1>4. CASE Loop \/ Waited \/ Read \/ ReadTimeout \/ NoLimaBuffer \/ Count \/ CameraThrows \/ Poll
    <2>1. UNCHANGED <<config, frames, ret>>
      BY <1>4 DEF Loop, Waited, Read, ReadTimeout, NoLimaBuffer, Count, CameraThrows, Poll, Die,
                  thread, vars
    <2> QED
      BY <2>1, StreamStands
  <1>5. CASE RequestStop \/ Expose \/ Release \/ Ended \/ UNCHANGED vars
    <2>1. UNCHANGED <<config, frames, ret>>
      BY <1>5 DEF RequestStop, Expose, Release, Ended, thread, vars
    <2> QED
      BY <2>1, StreamStands
  <1> QED
    BY <1>1, <1>2, <1>3, <1>4, <1>5 DEF Next, Transfer

(* A finished recording is read as it was taken: only recorded images are    *)
(* asked for, each is delivered once and in order, and all of them when the  *)
(* transfer ends normally (_xferImag_getImage, _xferImagMult and             *)
(* _xferImagMultDoubleImage).                                                *)
THEOREM Implements == ~IsLive /\ Spec => Stream!Spec
  <1>1. ~IsLive /\ Init => StreamInv
    BY InitReads
  <1>2. StreamInv /\ [Next]_vars => StreamInv'
    BY NextReads
  <1>3. ~IsLive /\ Init => Stream!Init
    <2> SUFFICES ASSUME ~IsLive, Init PROVE Stream!Init
      OBVIOUS
    <2>1. Units \in Nat /\ Per \in {1, 2}
      BY InitIInv, Typed
    <2>2. Len(frames) = 0 /\ ret = "none"
      BY DEF Init
    <2>3. Delivered = 0
      BY <2>1, <2>2 DEF Delivered
    <2>4. [n \in 1 .. Delivered |-> frames[Per * n].image] = <<>>
      BY <2>3
    <2> QED
      BY <2>1, <2>2, <2>4 DEF Stream!Init
  <1>4. StreamInv /\ StreamInv' /\ [Next]_vars => [Stream!Next]_(Stream!vars)
    BY StreamStep
  <1> QED
    BY <1>1, <1>2, <1>3, <1>4, PTL DEF Spec, Stream!Spec
=============================================================================
