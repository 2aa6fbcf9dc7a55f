------------------------------- MODULE Bench --------------------------------
(* The in-process bench: the four simulated drivers of sim_drivers.py over   *)
(* one SimulatedBench.  One action per operation of the HAL contract that    *)
(* reaches the bench; a call on a channel the bench does not have raises     *)
(* KeyError, a negative interruption ValueError, and neither touches it.     *)
EXTENDS BenchState

CONSTANTS NoChannel   \* a channel number the bench does not have

ASSUME NoChannelAssumption == NoChannel \notin Channels

VARIABLES
  bench,     \* the SimulatedBench
  result,    \* what the last call returned or raised
  history    \* what a reader of the log knows; no operation depends on it

vars == <<bench, result, history>>

Callable == Channels \cup {NoChannel}

Readings == [line: BOOLEAN, overcurrent: BOOLEAN,
             fast_overcurrent: BOOLEAN, harmonic: BOOLEAN]
Results  == [raises: {"None", "KeyError", "ValueError"}]
            \cup [raises: {"None"}, relays: Readings]

Raises(what)   == [raises |-> what]
Returns(relays) == [raises |-> "None", relays |-> relays]

(* history.line        the line reading of the last look, FALSE at power-up  *)
(* history.excursion   since that look the voltage left the hold window, or  *)
(*                     a hole outlasted the ride-through                     *)
(* history.outage      a hole in the line's supply outlasted the             *)
(*                     ride-through, and nothing has been applied to the     *)
(*                     voltage channel since                                 *)
Histories == [line: BOOLEAN, excursion: BOOLEAN, outage: BOOLEAN]

TypeOK ==
  /\ bench \in SimulatedBench
  /\ result \in Results
  /\ history \in Histories

Init ==
  /\ bench = InitBench
  /\ result = Raises("None")
  /\ history = [line |-> FALSE, excursion |-> FALSE, outage |-> FALSE]

-----------------------------------------------------------------------------
\* A generator call on channel c, whose effect is the bench `after`.
Programmed(c, after) ==
  IF c \in Channels
  THEN /\ bench' = after
       /\ result' = Raises("None")
       /\ history' = [history EXCEPT
            !.excursion = @ \/ ~InHold(after),
            !.outage = @ /\ c # VoltageChannel]
  ELSE result' = Raises("KeyError") /\ UNCHANGED <<bench, history>>

ConfigureSineCall(c, amplitude, offset) ==
  Programmed(c, ConfigureSine(bench, c, amplitude, offset))

ConfigureDcCall(c, level) == Programmed(c, ConfigureDc(bench, c, level))

AddHarmonicCall(c, order, level) == Programmed(c, AddHarmonic(bench, c, order, level))

OutputCall(c, on) == Programmed(c, SetOutput(bench, c, on))

InterruptCall(c, ms) ==
  IF ms < 0 THEN result' = Raises("ValueError") /\ UNCHANGED <<bench, history>>
  ELSE IF c \notin Channels THEN result' = Raises("KeyError") /\ UNCHANGED <<bench, history>>
  ELSE /\ bench' = InterruptOutput(bench, c, ms)
       /\ result' = Raises("None")
       /\ history' = IF RideThrough(ms) THEN history
                     ELSE [history EXCEPT !.excursion = TRUE,
                                          !.outage = @ \/ c = VoltageChannel]

\* get_relay_states, and every capture of a detector's trace: the read settles
\* the line, and the trace is flat exactly when the detector reads FALSE.
GetRelayStates ==
  /\ bench' = SettleLine(bench)
  /\ result' = Returns(RelayStates(bench'))
  /\ history' = [history EXCEPT !.line = result'.relays.line, !.excursion = FALSE]

ApplyAnalogCorrection(factor) ==
  /\ bench' = SetCorrection(bench, factor)
  /\ result' = Raises("None")
  /\ UNCHANGED history

ResetBench ==
  /\ bench' = Reset(bench)
  /\ result' = Raises("None")
  /\ history' = [line |-> FALSE, excursion |-> FALSE, outage |-> FALSE]

GeneratorCall ==
  \E c \in Callable :
    \/ \E amplitude \in Levels, offset \in Offsets :
         ConfigureSineCall(c, amplitude, offset)
    \/ \E level \in Levels : ConfigureDcCall(c, level)
    \/ \E order \in Orders, level \in HarmonicLevels : AddHarmonicCall(c, order, level)
    \/ \E on \in BOOLEAN : OutputCall(c, on)
    \/ \E ms \in Durations : InterruptCall(c, ms)

Next ==
  \/ GeneratorCall
  \/ GetRelayStates
  \/ \E factor \in Corrections : ApplyAnalogCorrection(factor)
  \/ ResetBench

Spec == Init /\ [][Next]_vars

-----------------------------------------------------------------------------
(* Properties.                                                               *)

\* Looking at the device twice tells what looking once told: the latch is
\* driven from reads, and the number of reads must not matter.  It rests on
\* the hold window containing the pick-up window.
ReadIdempotent == SettleLine(SettleLine(bench)) = SettleLine(bench)

\* Once the device has declared the line, it goes on declaring it until the
\* voltage leaves the hold window or a long hole drops it out: retuning the
\* generator inside the dead band, exchanging DC for AC, a short hole or work
\* on the current channel never make the next look lose the line.
LineIsHeld ==
  history.line /\ ~history.excursion => SettleLine(bench).line_latched

\* Why: the latch is what the last look said, and a latch with no excursion
\* since stands on a voltage inside the hold window.  This is the inductive
\* form of LineIsHeld.
LatchStandsOnVoltage ==
  /\ history.line = bench.line_latched
  /\ history.line /\ ~history.excursion => InHold(bench) /\ ~bench.hole_dropped

\* After a long hole in its supply the device "stays out until the stimulus
\* is applied afresh": no look declares the line before the voltage channel
\* has been programmed or switched again, whatever else is called.
PicksUpFromScratch == [][GetRelayStates /\ history.outage => ~result'.relays.line]_vars

-----------------------------------------------------------------------------
\* The detection as the device's data sheet has it.
LineZone ==
  IF InPickUp(bench) THEN "pick-up" ELSE IF InHold(bench) THEN "dead band"
  ELSE "outside"

Line == INSTANCE HystereticLine WITH
          PickUp <- "pick-up", DeadBand <- "dead band", Outside <- "outside",
          zone <- LineZone, dropped <- bench.hole_dropped,
          declared <- bench.line_latched

\* Through every mix of waveforms, offsets and harmonics the bench behaves as
\* a hysteretic line detector: no call but a look moves the latch.
ImplementsHystereticLine == Line!Spec
=============================================================================
