---------------------------- MODULE MCRelocation ----------------------------
(* Relocation for TLC: functions at an even and at an odd word, trampolines  *)
(* within the reach of a branch only, within the reach of everything, and    *)
(* out of reach.                                                             *)
EXTENDS Relocation

Placed(base, tramp, near) == [base |-> base, tramp |-> tramp, rw |-> 5000 + tramp, near |-> near]

Places ==
  { Placed(36, 52, TRUE), Placed(37, 54, TRUE), Placed(36, 54, FALSE), Placed(37, 52, FALSE),
    Placed(76, 10, FALSE), Placed(37, 402, FALSE) }

Referred == {-2, 0, 3, 4, 11}
=============================================================================
