----------------------------- MODULE BenchState -----------------------------
(* The simulated bench of layer3_hal/simulation.py as operators on a value:  *)
(* what one call does to the bench (ConfigureSine, SetOutput, ...), and what *)
(* the device then says (RelayStates).  No state machine here: the in-process*)
(* drivers (Bench), the networked rack (LanRack) and the test cases all call *)
(* the same SimulatedBench, and these operators are that shared code.        *)
(*                                                                           *)
(* Levels are integers in one unit of generator volts.  RMS is irrational    *)
(* but only ever compared with a threshold, so the comparison is made on     *)
(* squares:  8 * rms^2 = amplitude^2 + the sum of harmonic^2.  The generator *)
(* frequency is left out: no state here depends on it.                       *)
EXTENDS Integers, FiniteSets, FiniteSetsExt

CONSTANTS
  Channels,          \* the generator channels, 1..n_channels
  VoltageChannel,    \* the channel that energises the line
  CurrentChannel,    \* the channel that injects the current
  Levels,            \* amplitudes and DC levels a caller programs
  Offsets,           \* DC offsets of a sine
  Orders,            \* harmonic orders
  HarmonicLevels,    \* peak-to-peak levels of one harmonic; 0 is "absent"
  Durations,         \* lengths of an interruption, in ms
  Corrections,       \* calibration corrections of the analog outputs
  Unity,             \* the correction 1.0
  VoltsToAmps, VoltsToKilovolts,
  LineInLow, LineInHigh, LineOutLow, LineOutHigh,
  LineHoleRide,
  OvercurrentTrigger, FastOvercurrentTrigger, HarmonicTrigger

\* The drop-out window contains the pick-up window, as the comment on
\* SimConfig says; SimConfig.from_mapping does not verify it.
ASSUME WindowAssumption ==
  /\ {LineInLow, LineInHigh, LineOutLow, LineOutHigh} \subseteq Nat
  /\ LineOutLow =< LineInLow
  /\ LineInHigh =< LineOutHigh

ASSUME BenchAssumption ==
  /\ {VoltageChannel, CurrentChannel} \subseteq Channels
  /\ Levels \subseteq Int /\ Offsets \subseteq Int /\ HarmonicLevels \subseteq Int
  /\ 0 \in Levels \cap Offsets \cap HarmonicLevels
  /\ IsFiniteSet(Orders)
  /\ Durations \subseteq Int /\ LineHoleRide \in Nat
  /\ Unity \in Corrections
  /\ {VoltsToAmps, VoltsToKilovolts} \subseteq Nat \ {0}
  /\ {OvercurrentTrigger, FastOvercurrentTrigger, HarmonicTrigger} \subseteq Nat \ {0}

-----------------------------------------------------------------------------
Silence == [o \in Orders |-> 0]

\* One generator channel, and a bench.
ChannelState ==
  [enabled: BOOLEAN, waveform: {"DC", "SIN"}, amplitude: Levels,
   offset: Offsets, harmonics: [Orders -> HarmonicLevels]]

SimulatedBench ==
  [channels: [Channels -> ChannelState], line_latched: BOOLEAN,
   hole_dropped: BOOLEAN, correction: Corrections]

IdleChannel ==
  [enabled |-> FALSE, waveform |-> "DC", amplitude |-> 0, offset |-> 0,
   harmonics |-> Silence]

InitBench ==
  [channels |-> [c \in Channels |-> IdleChannel], line_latched |-> FALSE,
   hole_dropped |-> FALSE, correction |-> Unity]

-----------------------------------------------------------------------------
(* Generator control.  A call on an unknown channel raises KeyError before   *)
(* anything is touched; callers test c \in Channels.                         *)

ConfigureSine(b, c, amplitude, offset) ==
  [b EXCEPT !.channels[c] =
              [enabled |-> @.enabled, waveform |-> "SIN", amplitude |-> amplitude,
               offset |-> offset, harmonics |-> Silence],
            !.hole_dropped = FALSE]

\* A mutant: the write settles the latch on the way in.
ConfigureDc_SettlesOnWrite(b, c, level) ==
  LET programmed == [b EXCEPT !.channels[c].waveform = "DC",
                              !.channels[c].amplitude = level,
                              !.channels[c].harmonics = Silence,
                              !.hole_dropped = FALSE]
  IN [programmed EXCEPT !.line_latched = level # 0]

\* The offset keeps its last value: it means nothing until the next sine.
ConfigureDc(b, c, level) ==
  [b EXCEPT !.channels[c] =
              [enabled |-> @.enabled, waveform |-> "DC", amplitude |-> level,
               offset |-> @.offset, harmonics |-> Silence],
            !.hole_dropped = FALSE]

AddHarmonic(b, c, order, level) == [b EXCEPT !.channels[c].harmonics[order] = level]

ClearHarmonics(b, c) == [b EXCEPT !.channels[c].harmonics = Silence]

SetOutput(b, c, on) ==
  [b EXCEPT !.channels[c].enabled = on, !.hole_dropped = FALSE]

\* A mutant: a hole of exactly the ride-through drops the device out.
InterruptOutput_OffByOne(b, c, ms) ==
  IF ms >= LineHoleRide THEN [b EXCEPT !.hole_dropped = TRUE] ELSE b

\* The output is never touched: the supply is back when the call returns.
InterruptOutput(b, c, ms) ==
  IF ms > LineHoleRide THEN [b EXCEPT !.hole_dropped = TRUE] ELSE b

\* A mutant: the correction is cleared to zero, not to one.
Reset_ZeroCorrection(b) == [InitBench EXCEPT !.correction = 0]

\* reset() rebuilds every field __init__ set.
Reset(b) == InitBench

SetCorrection(b, factor) == [b EXCEPT !.correction = factor]

\* VOLT and VOLT:OFFS of the SCPI emulator write the field directly, so
\* neither clears a drop-out.
SetAmplitude(b, c, level) == [b EXCEPT !.channels[c].amplitude = level]
SetOffset(b, c, offset)   == [b EXCEPT !.channels[c].offset = offset]

-----------------------------------------------------------------------------
(* What the device makes of it.                                              *)

SumSquares(h) == MapThenSumSet(LAMBDA o : h[o] * h[o], Orders)
SumLevels(h)  == MapThenSumSet(LAMBDA o : h[o], Orders)

\* Sums of integers are integers.  TLC evaluates this for the orders and the
\* levels of a run; by induction it holds for all, which the provers lack.
ASSUME SumAssumption ==
  \A h \in [Orders -> HarmonicLevels] :
    SumSquares(h) \in Nat /\ SumLevels(h) \in Int

IsSine(ch) == ch.enabled /\ ch.waveform = "SIN"

\* 8 * rms_v()^2
Rms8(ch) == IF IsSine(ch) THEN ch.amplitude * ch.amplitude + SumSquares(ch.harmonics)
                          ELSE 0

\* 2 * peak_v()
Peak2(ch) == IF IsSine(ch) THEN ch.amplitude + SumLevels(ch.harmonics) ELSE 0

DcV(ch) == IF ~ch.enabled THEN 0
           ELSE IF ch.waveform = "SIN" THEN ch.offset ELSE ch.amplitude

IsAc(ch) == Rms8(ch) > 0

RmsAtLeast(ch, gain, level) == Rms8(ch) * gain * gain >= 8 * level * level

LineIsAc(b) == IsAc(b.channels[VoltageChannel])

\* A reading of the multimeter: a DC level, or 8 times the square of an RMS.
Measured(b, quantity) ==
  LET line    == b.channels[VoltageChannel]
      current == b.channels[CurrentChannel]
  IN CASE quantity = "dc_voltage" -> DcV(line)
       [] quantity = "line" -> IF IsAc(line) THEN Rms8(line) ELSE DcV(line)
       [] quantity = "current" -> Rms8(current)
       [] quantity = "harmonic" -> IF IsAc(line) THEN 0 ELSE Rms8(current)

\* low =< line_kv() =< high, for 0 =< low
LineWithin(b, low, high) ==
  LET ch == b.channels[VoltageChannel]
      gain == VoltsToKilovolts
  IN IF IsAc(ch)
     THEN Rms8(ch) * gain * gain \in (8 * low * low) .. (8 * high * high)
     ELSE DcV(ch) * gain \in low .. high

InPickUp(b) == LineWithin(b, LineInLow, LineInHigh)
InHold(b)   == LineWithin(b, LineOutLow, LineOutHigh)

\* A mutant: the two windows swapped.
SettleLine_SwappedWindows(b) ==
  [b EXCEPT !.line_latched =
     /\ ~b.hole_dropped
     /\ IF b.line_latched THEN InPickUp(b) ELSE InHold(b)]

\* A mutant: a declared line is never let go.
SettleLine_Sticky(b) ==
  [b EXCEPT !.line_latched = ~b.hole_dropped /\ (b.line_latched \/ InPickUp(b))]

\* _settle_line: every read of the line drives the latch, writes never do.
SettleLine(b) ==
  [b EXCEPT !.line_latched =
     /\ ~b.hole_dropped
     /\ IF b.line_latched THEN InHold(b) ELSE InPickUp(b)]

RideThrough(ms) == ms =< LineHoleRide

OvercurrentTripped(b) ==
  RmsAtLeast(b.channels[CurrentChannel], VoltsToAmps, OvercurrentTrigger)

FastOvercurrentTripped(b) ==
  Peak2(b.channels[CurrentChannel]) * VoltsToAmps >= 2 * FastOvercurrentTrigger

\* On an AC line the fundamental is no distortion: the quantity is 0 there.
HarmonicTripped(b) ==
  /\ ~LineIsAc(b)
  /\ RmsAtLeast(b.channels[CurrentChannel], VoltsToAmps, HarmonicTrigger)

\* relay_states(), of a bench the read has already settled.
RelayStates(b) ==
  [line |-> b.line_latched, overcurrent |-> OvercurrentTripped(b),
   fast_overcurrent |-> FastOvercurrentTripped(b), harmonic |-> HarmonicTripped(b)]
=============================================================================
