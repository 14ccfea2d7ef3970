---------------------------- MODULE MCAdmission ----------------------------
(* Instances of Admission for TLC.                                         *)
EXTENDS Admission, TLC

(* Two usable places at and beyond the minimum distance, the bounds, and   *)
(* every way a number can be unusable.                                     *)
MCPositions ==
  { [lat |-> 0, lon |-> 0, acc |-> 0], [lat |-> 1, lon |-> 0, acc |-> 5],
    [lat |-> 90, lon |-> 180, acc |-> MaxFloat],
    [lat |-> NaN, lon |-> 0, acc |-> 5], [lat |-> 0, lon |-> NaN, acc |-> 5],
    [lat |-> 0, lon |-> 0, acc |-> NaN], [lat |-> 91, lon |-> 0, acc |-> 5],
    [lat |-> 0, lon |-> -181, acc |-> 5], [lat |-> 0, lon |-> 0, acc |-> -1],
    [lat |-> 0, lon |-> 0, acc |-> MaxFloat + 1] }

MCAges  == {-1, 3}
MCSteps == {-2, 1}

MCSymmetry == Permutations(Publishers)
=============================================================================
