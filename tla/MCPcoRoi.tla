------------------------------ MODULE MCPcoRoi ------------------------------
(* Camera descriptions for TLC: single pixels, a step that binning divides  *)
(* down to one, a step equal to the minimum size, and a linear binning      *)
(* whose largest value is no power of two.                                  *)
EXTENDS PcoRoi

Desc(max, steps, min, adcs, binMax, binLin) ==
    [max |-> max, steps |-> steps, min |-> min, adcs |-> adcs, binMax |-> binMax, binLin |-> binLin]

MCDescs == {Desc(8, 1, 4, 2, 4, FALSE), Desc(8, 2, 2, 2, 4, FALSE),
            Desc(12, 4, 4, 1, 2, FALSE), Desc(6, 1, 3, 1, 3, TRUE)}
=============================================================================
