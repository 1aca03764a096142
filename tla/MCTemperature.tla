---------------------------- MODULE MCTemperature ----------------------------
(***************************************************************************)
(* A few sums: a broken sensor at either end of the scale, two of -0.5 and *)
(* 0 degrees, and one of 25 degrees.                                       *)
(***************************************************************************)
EXTENDS Temperature

MCSums == {0, 1627, 1642, 2458, 16368}
=============================================================================
