------------------------------ MODULE PcoRoi ------------------------------
(* Region of interest and binning: RoiCtrlObj, BinCtrlObj, _checkValidRoi   *)
(* and _fixValidRoi.  Both axes go through the same function, each with its *)
(* own numbers from the camera's description; the module follows one axis.  *)
(* Positions are PCO's, from 1.  LIMA sets a binning, asks with checkRoi    *)
(* what a ROI becomes and sets the answer; the number of ADCs is a Tango    *)
(* attribute that may change at any time.                                   *)
EXTENDS Integers, FiniteSetsExt

CONSTANTS
    Descs,        \* descriptions: pixels, ROI step, minimum size, ADCs, largest binning, linear
    Kinds,        \* a subset of {"Edge", "Dimax", "Pco4k"}
    BinRequests,  \* the binnings LIMA asks for
    DWordMod      \* modulus of an unsigned int

ASSUME DescsAssumption ==
    \A d \in Descs : /\ d.max \in Nat \ {0} /\ d.steps \in Nat /\ d.min \in Nat
                     /\ d.adcs \in {1, 2} /\ d.binMax \in 1 .. d.max /\ d.binLin \in BOOLEAN
ASSUME BinAssumption == BinRequests \subseteq Int
ASSUME WordAssumption == DWordMod \in Nat /\ \A d \in Descs : 2 * d.max < DWordMod

VARIABLES
    kind, axis, desc,     \* the camera
    bin, adc, roi,        \* its settings
    checked               \* LIMA's last answer from checkRoi, or NotChecked

camera == <<kind, axis, desc>>
vars == <<camera, bin, adc, roi, checked>>

Less(a, b) == IF a < b THEN a ELSE b
Minus(a, b) == (a - b) % DWordMod
Size(r) == r.hi - r.lo + 1

(* the binnings the loop of _binning_fit visits *)
Binnings(d) == {b \in 1 .. d.binMax : b = 1 \/ d.binLin \/ \E i \in 1 .. b : b = 2 ^ i}

BinningFit(d, b) ==
    IF b < 1 THEN 1 ELSE IF b >= d.binMax THEN d.binMax
    ELSE Max({c \in Binnings(d) : c <= b})

HwBins(d) == Binnings(d) \cup {d.binMax}

(* the description in binned pixels; a step of zero allows the full size only *)
AtLeast1(n) == IF n < 1 THEN 1 ELSE n
Binned(d, b) ==
    [max |-> d.max \div b, steps |-> AtLeast1(d.steps \div b),
     min |-> IF d.steps = 0 THEN d.max \div b ELSE AtLeast1(d.min \div b)]

Symmetric == kind = "Dimax" \/ (kind = "Edge" /\ axis = "y") \/ (axis = "x" /\ adc # 1)

----------------------------------------------------------------------------
(* _fixValidRoi, in its order; iInvalid, which is only logged, is left out   *)

InRange(r, l) == [lo |-> AtLeast1(r.lo), hi |-> Less(r.hi, l.max)]
Ordered(r) == IF r.lo > r.hi THEN [lo |-> r.hi, hi |-> r.lo] ELSE r

AlignedToSteps_Truncates(r, l) ==       \* mutated form: the upper end is cut
    [lo |-> r.lo - ((r.lo - 1) % l.steps), hi |-> r.hi - (r.hi % l.steps)]

AlignedToSteps(r, l) ==
    [lo |-> r.lo - ((r.lo - 1) % l.steps),
     hi |-> IF r.hi % l.steps = 0 THEN r.hi ELSE r.hi + l.steps - (r.hi % l.steps)]

Grown_Upwards(r, l) ==                  \* mutated form: always at the upper end
    IF Size(r) < l.min THEN [r EXCEPT !.hi = r.lo + l.min - 1] ELSE r

Grown_OffByOne(r, l) ==                 \* mutated form: the size is taken as hi - lo
    LET diff == l.min - Size(r) + 1 IN
    IF Size(r) - 1 >= l.min THEN r
    ELSE IF r.lo >= 1 + diff THEN [r EXCEPT !.lo = r.lo - diff]
    ELSE [r EXCEPT !.hi = r.hi + diff]

Grown(r, l) ==                          \* to the minimum size, downwards if possible
    LET diff == l.min - Size(r) IN
    IF Size(r) >= l.min THEN r
    ELSE IF r.lo >= 1 + diff THEN [r EXCEPT !.lo = r.lo - diff]
    ELSE [r EXCEPT !.hi = r.hi + diff]

Mirrored(r, l, sym) ==                  \* around the centre, by unsigned differences
    LET diff0 == r.lo - 1
        diff1 == Minus(l.max, r.hi)
    IN  IF ~sym \/ diff0 = diff1 THEN r
        ELSE IF diff0 > diff1 THEN [r EXCEPT !.lo = Minus(r.lo, diff0 - diff1)]
        ELSE [r EXCEPT !.hi = Minus(r.hi + diff1, diff0)]

FixValidRoi(r, l, sym) ==
    LET ranged == Ordered(InRange(r, l))
        aligned == AlignedToSteps(ranged, l)
        grown == Grown(aligned, l)
    IN  Mirrored(grown, l, sym)

CheckValidRoi(r) == FixValidRoi(r, Binned(desc, bin), Symmetric)

(* PCO_SetROI takes a ROI that lies on the sensor, is aligned to the step,  *)
(* not too small, and symmetrical where the camera needs it (external)      *)
Valid(r, l, sym) ==
    /\ 1 <= r.lo /\ r.lo <= r.hi /\ r.hi <= l.max
    /\ (r.lo - 1) % l.steps = 0 /\ r.hi % l.steps = 0
    /\ Size(r) >= l.min
    /\ sym => r.lo - 1 = l.max - r.hi

----------------------------------------------------------------------------
Requests(d, b) ==                       \* LIMA keeps to the binned detector
    {r \in [lo : 1 .. d.max \div b, hi : 1 .. d.max \div b] : r.lo <= r.hi}
NotChecked == [req |-> [lo |-> 0, hi |-> 0], fixed |-> [lo |-> 0, hi |-> 0], sym |-> FALSE]

Init ==
    /\ kind \in Kinds /\ axis \in {"x", "y"} /\ desc \in Descs
    /\ bin = 1 /\ adc = 1 /\ roi = [lo |-> 1, hi |-> desc.max]
    /\ checked = NotChecked

(* checkBin and setBin; PCO_SetBinning may fail.  LIMA then asks again for  *)
(* its ROI.                                                                 *)
SetBin ==
    /\ \E b \in BinRequests : bin' \in {bin, BinningFit(desc, b)}
    /\ checked' = IF bin' = bin THEN checked ELSE NotChecked
    /\ UNCHANGED <<camera, adc, roi>>

SetAdc ==
    /\ adc' \in 1 .. desc.adcs
    /\ UNCHANGED <<camera, bin, roi, checked>>

CheckRoi ==
    /\ \E r \in Requests(desc, bin) :
          checked' = [req |-> r, fixed |-> CheckValidRoi(r), sym |-> Symmetric]
    /\ UNCHANGED <<camera, bin, adc, roi>>

(* setRoi with checkRoi's answer fixes it again; an error of PCO_SetROI is  *)
(* only traced                                                              *)
SetRoi ==
    /\ checked # NotChecked
    /\ LET again == CheckValidRoi(checked.fixed)
       IN  roi' = IF Valid(again, Binned(desc, bin), Symmetric) THEN again ELSE roi
    /\ checked' = NotChecked
    /\ UNCHANGED <<camera, bin, adc>>

SetMaxRoi ==                            \* setRoi with an empty ROI
    /\ roi' = [lo |-> 1, hi |-> desc.max \div bin]
    /\ checked' = NotChecked
    /\ UNCHANGED <<camera, bin, adc>>

Next == SetBin \/ SetAdc \/ CheckRoi \/ SetRoi \/ SetMaxRoi

Spec == Init /\ [][Next]_vars

----------------------------------------------------------------------------
(* A description is regular when, in every binning, step and minimum size   *)
(* divide as the fixing presumes.                                           *)
Regular(l) == /\ l.max % l.steps = 0 /\ l.min % l.steps = 0
              /\ 2 * l.min <= l.max
RegularCamera == desc.steps > 0 /\ \A b \in HwBins(desc) : Regular(Binned(desc, b))

Answered == RegularCamera /\ checked # NotChecked
Limits == Binned(desc, bin)

(* Every setting stays in its domain, and a binning is one the camera has.  *)
TypeOK ==
    /\ kind \in Kinds /\ axis \in {"x", "y"} /\ desc \in Descs
    /\ bin \in HwBins(desc) /\ adc \in 1 .. desc.adcs
    /\ DOMAIN roi = {"lo", "hi"} /\ roi.lo \in Nat /\ roi.hi \in Nat
    /\ checked.sym \in BOOLEAN

(* checkRoi answers with a ROI that the camera takes: on the sensor,        *)
(* aligned, large enough and symmetrical, all at once although the four     *)
(* rules are applied one after the other.                                   *)
FixedIsValid == Answered => Valid(checked.fixed, Limits, checked.sym)

(* The answer holds every pixel asked for; LIMA refuses one that does not.  *)
FixedCovers ==
    Answered => checked.fixed.lo <= checked.req.lo /\ checked.req.hi <= checked.fixed.hi

(* The answer is the smallest valid ROI around the request, unless a        *)
(* symmetrical one had to grow to the minimum size first.                   *)
FixedIsSmallest ==
    Answered /\ (checked.sym => Size(AlignedToSteps(checked.req, Limits)) >= Limits.min)
        => \A r \in Requests(desc, bin) :
              /\ Valid(r, Limits, checked.sym)
              /\ r.lo <= checked.req.lo /\ checked.req.hi <= r.hi
              => Size(checked.fixed) <= Size(r)

=============================================================================
