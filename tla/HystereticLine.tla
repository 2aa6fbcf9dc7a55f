--------------------------- MODULE HystereticLine ---------------------------
(* What the device under test promises about its line detection, without     *)
(* generators, channels or volts: the voltage is in one of three zones, a    *)
(* long supply hole drops the detection out, and each look at the device     *)
(* reports "line present" with hysteresis.  The bench implements this        *)
(* (Bench.tla), whatever waveform energises the line.                        *)
CONSTANTS PickUp, DeadBand, Outside

VARIABLES
  zone,      \* where the line voltage is
  dropped,   \* a hole has dropped the device out
  declared   \* what the device said when last looked at

vars == <<zone, dropped, declared>>

Zones == {PickUp, DeadBand, Outside}

TypeOK == zone \in Zones /\ dropped \in BOOLEAN /\ declared \in BOOLEAN

Init == zone \in Zones /\ dropped = FALSE /\ declared = FALSE

\* The supply changes; applying a stimulus afresh also ends a drop-out.
Drive == UNCHANGED declared /\ dropped' \in {dropped, FALSE} /\ zone' \in Zones

\* The supply is interrupted for longer than the device rides through.
LongHole == dropped' = TRUE /\ UNCHANGED <<declared, zone>>

\* Picked up in the inner zone, held through the dead band, never held
\* outside it nor after a hole.
Look ==
  /\ declared' = (/\ ~dropped
                  /\ \/ zone = PickUp
                     \/ zone = DeadBand /\ declared)
  /\ UNCHANGED <<zone, dropped>>

PowerCycle == dropped' = FALSE /\ declared' = FALSE /\ zone' \in Zones

Next == Drive \/ LongHole \/ Look \/ PowerCycle

Spec == Init /\ [][Next]_vars
=============================================================================
