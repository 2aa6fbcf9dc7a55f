------------------------------- MODULE MCBench ------------------------------
(* Values for the constants of Bench.  Gains are 1; the pick-up window is    *)
(* [2, 4], the hold window [1, 5].  A DC level of 3 is in the pick-up window,*)
(* 6 above both.  A sine of 6 peak to peak has an RMS of 2.12 (pick-up), of  *)
(* 3 one of 1.06 (dead band), and a third harmonic of 12 puts the RMS in the *)
(* upper dead band.  A sine of amplitude 0 leaves its offset as the DC of   *)
(* the line.                                                                 *)
EXTENDS Bench

MCLevels         == {0, 3, 6}
MCOffsets        == {0, 3}
MCHarmonicLevels == {0, 12}
MCDurations      == {-1, 2, 3}   \* the ride-through is 2
=============================================================================
