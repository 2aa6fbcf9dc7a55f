----------------------------- MODULE MCLanRack ------------------------------
(* Values for the constants of LanRack, chosen like those of MCBench: levels *)
(* in and out of the pick-up window on DC and on AC, and a sine of 3 peak to *)
(* peak in the lower dead band.                                              *)
EXTENDS LanRack

MCLevels         == {0, 3, 6}
MCOffsets        == {0, 3}
MCHarmonicLevels == {0, 12}
MCDurations      == {-1, 2, 3}
MCDetectors      == {"line", "overcurrent", "fast_overcurrent", "harmonic"}
MCQuantities     == {"line", "harmonic"}
=============================================================================
