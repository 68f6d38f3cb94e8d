-------------------------- MODULE PcoFrameStream --------------------------
(* What a transfer of images to LIMA promises, whatever the camera and the  *)
(* way the images are read: the frames of one acquisition are delivered one *)
(* after the other, each with an image newer than the one before it; the    *)
(* transfer ends normally only when the requested number was delivered, and *)
(* nothing is delivered once it has ended.                                  *)
EXTENDS Integers, Sequences

CONSTANTS Images,     \* the numbers the camera gives to its images, a subset of Nat
          Endings,    \* the statuses a transfer can return
          NoEnding    \* "still running", not one of Endings

VARIABLES frames,     \* the image of every frame delivered so far
          limit,      \* the number of frames requested
          ending      \* the status returned, NoEnding while the transfer runs

vars == <<frames, limit, ending>>

Init == frames = <<>> /\ limit \in Nat /\ ending = NoEnding

Deliver ==
    /\ ending = NoEnding /\ Len(frames) < limit
    /\ \E image \in Images :
          /\ \A k \in 1 .. Len(frames) : frames[k] < image
          /\ frames' = Append(frames, image)
    /\ UNCHANGED <<limit, ending>>

End ==
    /\ ending = NoEnding
    /\ ending' \in Endings
    /\ ending' = "TransferEnd" => Len(frames) = limit
    /\ UNCHANGED <<frames, limit>>

Next == Deliver \/ End

Spec == Init /\ [][Next]_vars
==========================================================================
