------------------------------- MODULE Cases --------------------------------
(* The four test cases of layer2_engine/keywords.py against a device that    *)
(* may keep its limits or not: the trip point is bracketed, the line         *)
(* thresholds are swept, a hole is ridden through or not, the analog output  *)
(* is compared at several points, and Timing.tla times the detection.  What  *)
(* a passed case says about the device is what this module is about.         *)
(*                                                                           *)
(* Levels are integers: a current in 1/4000 of the trigger of its plan row   *)
(* (1/10000 for a peak), a line voltage in 1/20000 kV, in an analog case in  *)
(* 1/16000 kV: a reading of 0.001 kV is 20 units there and 16 here.  Levels  *)
(* are those the generator is told (quantize_level).  Every current here is  *)
(* a sine, held as 2 * rms^2 = peak^2.                                       *)
EXTENDS Timing, FiniteSets

CONSTANTS
  Trials,        \* [spec, dut, latched]: a row of a plan, a device, its latch
  TimedTrials,   \* those that are run with every device and plan of Timing
  NominalTimes, NominalLimits,   \* a device and a plan of Timing for the others
  SweepSteps     \* _THRESHOLD_SWEEP_STEPS

NaN == -1

Quantities == {"rms", "peak"}

\* The rows of a plan: trip cases, line cases and analog cases.  A line row has
\* two sweeps that go somewhere: at any other, _sweep_threshold raises.  `digit`
\* is what a thousandth of a milliampere means on the scale of an analog row.
TripRows ==
  [kind: {"overcurrent", "harmonic"}, quantity: Quantities, trigger: Nat, tol: Nat,
   drive: Nat \cup {NaN}, line_kv: Int]
LineRows ==
  {row \in [kind: {"line"}, nominal: Nat, in_low: Nat, out_low: Nat, tol: Nat, hole: Nat] :
     row.in_low > 0 /\ 5 * row.in_low # 2 * row.out_low}
AnalogRows == [kind: {"analog"}, tol: Nat, digit: Nat \ {0}, points: Seq(Nat)]
Rows       == TripRows \cup LineRows \cup AnalogRows

DutsUnderTest ==
  [trip: Nat, compares: Quantities, paths: SUBSET {"voltage", "current"},
   edge: SUBSET {"device", "plan", "reading", "output"},
   in_low: Int, in_high: Int, out_low: Int, out_high: Int,
   ride: Int, gain: Int, shift: Int]

ASSUME CasesAssumption ==
  /\ TimedTrials \subseteq Trials
  /\ Trials \subseteq [spec: Rows, dut: DutsUnderTest, latched: BOOLEAN]
  /\ SweepSteps \in Nat \ {0}
  /\ NominalTimes \in Devices /\ NominalLimits \in Plans

VARIABLES
  spec,     \* the row of the plan
  dut,      \* thresholds and gains of the device, and the bench's wiring
  bench,    \* the two generator channels and the latch of the line detector
  stage,    \* the step of the procedure that is next
  pickup,   \* the local variable of the line case
  said      \* the outcomes published, other than those of Timing

case == <<spec, dut>>
vars == <<timing, case, bench, stage, pickup, said>>

Stages == {"calibrate", "energise", "below", "above", "drive", "time", "off",
           "dead", "pick-up", "hysteresis", "drop-out", "line-in", "hole",
           "remove", "release", "points", "done", "raised"}

Outcomes == [check: {"dc line", "below", "above", "dead line", "pick-up", "hysteresis",
                     "drop-out", "ride-through", "point"},
             at: Nat,     \* which point, for a point
             ok: BOOLEAN]

TypeOK ==
  /\ TimingTypeOK
  /\ spec \in Rows /\ dut \in DutsUnderTest
  /\ bench \in [kv: Int, supplied: BOOLEAN, square: Nat, injected: BOOLEAN,
                latched: BOOLEAN, dropped: BOOLEAN]
  /\ stage \in Stages
  /\ pickup \in Nat \cup {NaN}
  /\ said \subseteq Outcomes

\* A line is not latched: its detector follows the supply.
DetectorOf(row) == IF row.kind = "line" THEN "line" ELSE "latched"

\* What a device may take, in the times that its kind of detector has.
TimesOf(row) ==
  IF row.kind = "line"
  THEN [detector: {"line"}, detect: Detects, set: Sets, hold: {NominalTimes.hold},
        out: LineOuts]
  ELSE [detector: {"latched"}, detect: Detects, set: Sets, hold: Holds,
        out: {NominalTimes.out}]

Init ==
  /\ TimingInit
  /\ \E t \in Trials :
       /\ spec = t.spec /\ dut = t.dut
       /\ bench = [kv |-> 0, supplied |-> FALSE, square |-> 0, injected |-> FALSE,
                   latched |-> t.latched, dropped |-> FALSE]
       /\ \/ /\ device = [NominalTimes EXCEPT !.detector = DetectorOf(t.spec)]
             /\ plan = NominalLimits
          \/ /\ t \in TimedTrials
             /\ device \in TimesOf(t.spec) /\ plan \in Plans
  /\ stage = IF spec.kind = "analog" /\ spec.points = <<>> THEN "raised" ELSE "calibrate"
  /\ pickup = NaN
  /\ said = {}

-----------------------------------------------------------------------------
(* What the device does.  Levels pass through decimal text and floats, so    *)
(* one that is meant to equal a threshold may land on either side of it:     *)
(* dut.edge says which, for the device's comparisons, the plan's, and the    *)
(* rounding of a reading and of the analog output.                           *)

AtLeast(x, limit, whose) == x > limit \/ (x = limit /\ whose \in dut.edge)

Within(x, low, high, whose) == AtLeast(x, low, whose) /\ AtLeast(-x, -high, whose)

\* vpp_for_current and vpp_for_peak_current: a sine of RMS a peaks at sqrt 2 a.
Square(quantity, amps) == IF quantity = "rms" THEN 2 * amps * amps ELSE amps * amps

LineKv(b) == IF b.supplied THEN b.kv ELSE 0

\* overcurrent_tripped, fast_overcurrent_tripped, harmonic_tripped: the line is
\* DC in every case, so its AC content is the current that is injected.
TripSquare == IF dut.compares = "rms" THEN 2 * dut.trip * dut.trip ELSE dut.trip * dut.trip
Trips(b) == b.injected /\ AtLeast(b.square, TripSquare, "device")

Settled(b) ==
  /\ ~b.dropped
  /\ IF b.latched THEN Within(LineKv(b), dut.out_low, dut.out_high, "device")
     ELSE Within(LineKv(b), dut.in_low, dut.in_high, "device")

\* A look at the relays settles the latch.
Looked(b) == [b EXCEPT !.latched = Settled(b)]

\* A mutant: a peak is driven as if it were an RMS.
Inject_RmsAlways(b, amps, quantity) ==
  [b EXCEPT !.square = Square("rms", amps), !.injected = TRUE, !.dropped = FALSE]

\* configure_dc, configure_sine, output_on and output_off each end a drop-out.
Supply(b, kv)   == [b EXCEPT !.kv = kv, !.supplied = TRUE, !.dropped = FALSE]
Inject(b, amps, quantity) ==
  [b EXCEPT !.square = Square(quantity, amps), !.injected = TRUE, !.dropped = FALSE]
Removed(b)      == [b EXCEPT !.supplied = FALSE, !.dropped = FALSE]
AllRemoved(b)   == [Removed(b) EXCEPT !.injected = FALSE]

\* round(x, _READING_DECIMALS), to a multiple of the last digit that is kept.
Rounded(x, digit, whose) ==
  LET below == (x \div digit) * digit
  IN IF AtLeast(2 * (x - below), digit, whose) THEN below + digit ELSE below

\* measure_line_kv in a line case.
Reading(kv) == Rounded(kv, 20, "reading")

Says(check, at, ok) == said' = said \cup {[check |-> check, at |-> at, ok |-> ok]}

\* within_tolerance
WithinTolerance(measured, nominal) ==
  Within(100 * measured, (100 - spec.tol) * nominal, (100 + spec.tol) * nominal, "plan")

-----------------------------------------------------------------------------
Needed == IF spec.kind \in {"line", "analog"} THEN {"voltage"} ELSE {"voltage", "current"}

AfterCalibration ==
  CASE spec.kind \in {"overcurrent", "harmonic"} -> "energise"
    [] spec.kind = "line" -> "dead"
    [] spec.kind = "analog" -> "points"

\* A mutant: the ratio is not looked at.
Calibrate_AnyRatio ==
  /\ stage = "calibrate"
  /\ stage' = AfterCalibration
  /\ UNCHANGED <<timing, case, bench, pickup, said>>

\* calibrate_volts_to_kilovolts, calibrate_volts_to_amps: the probe is off
\* again in either case, and a path that carries nothing raises.
Calibrate ==
  /\ stage = "calibrate"
  /\ stage' = IF Needed \subseteq dut.paths THEN AfterCalibration ELSE "raised"
  /\ bench' = AllRemoved(bench)
  /\ UNCHANGED <<timing, case, pickup, said>>

\* _energise_line at the start of the trip cases; a harmonic case publishes it.
EnergiseLine ==
  /\ stage = "energise" /\ stage' = "below"
  /\ bench' = Supply(bench, spec.line_kv)
  /\ IF spec.kind = "harmonic" THEN Says("dc line", 0, spec.line_kv > 0) ELSE UNCHANGED said
  /\ UNCHANGED <<timing, case, pickup>>

\* 5 % outside either end of the tolerance window, on a trigger of thousands.
BelowWindow == (spec.trigger * (100 - spec.tol) * 95) \div 10000
AboveWindow == (spec.trigger * (100 + spec.tol) * 105) \div 10000

Below ==
  /\ stage = "below" /\ stage' = "above"
  /\ bench' = Looked(Inject(bench, BelowWindow, spec.quantity))
  /\ Says("below", 0, ~Trips(bench'))
  /\ UNCHANGED <<timing, case, pickup>>

Above ==
  /\ stage = "above" /\ stage' = "drive"
  /\ bench' = Looked(Inject(bench, AboveWindow, spec.quantity))
  /\ Says("above", 0, Trips(bench'))
  /\ UNCHANGED <<timing, case, pickup>>

\* The stimulus that is timed; a row without drive_a is timed at the last one.
Drive ==
  /\ stage = "drive" /\ stage' = "time"
  /\ bench' = Looked(Inject(bench, IF spec.drive = NaN THEN AboveWindow ELSE spec.drive,
                            spec.quantity))
  /\ tripped' = Trips(bench')
  /\ UNCHANGED <<device, plan, pin, contact, release, steps, case, pickup, said>>

Capture ==
  /\ stage = "time" /\ (CapturePin \/ CaptureContact)
  /\ UNCHANGED <<case, bench, stage, pickup, said>>

Judge ==
  /\ stage = "time" /\ PublishTiming
  /\ stage' = IF spec.kind = "line" THEN "hole" ELSE "off"
  /\ UNCHANGED <<case, bench, pickup, said>>

OutputsOff ==
  /\ stage = "off" /\ stage' = "done"
  /\ bench' = AllRemoved(bench)
  /\ UNCHANGED <<timing, case, pickup, said>>

-----------------------------------------------------------------------------
(* The line case.                                                            *)

Between == (spec.in_low + spec.out_low) \div 2

\* 1. Half the pick-up voltage: whatever an earlier case left, it lets go.
DeadLine ==
  /\ stage = "dead" /\ stage' = "pick-up"
  /\ bench' = Looked(Supply(bench, spec.in_low \div 2))
  /\ Says("dead line", 0, ~bench'.latched)
  /\ UNCHANGED <<timing, case, pickup>>

Span(start, stop) == Max({start - stop, stop - start})

\* A mutant: a tenth of the steps.
Levels_Coarse(start, stop, direction) ==
  [k \in 0 .. SweepSteps |->
     start + direction * (((k \div 10) * 10 * Span(start, stop)) \div SweepSteps)]

\* From start on, up or down: towards stop, if that is where it lies.
Levels(start, stop, direction) ==
  [k \in 0 .. SweepSteps |-> start + direction * ((k * Span(start, stop)) \div SweepSteps)]

\* _sweep_threshold: the first level at which the device says `want`.  Until
\* then it said the opposite, so only the first look depends on its past.
Sweep(start, stop, direction, want) ==
  LET levels == Levels(start, stop, direction)
      looked(k) == Looked([Supply(bench, levels[k]) EXCEPT
                             !.latched = IF k = 0 THEN @ ELSE ~want])
      hits == {k \in DOMAIN levels : looked(k).latched = want}
  IN IF hits = {}
     THEN [found |-> NaN, bench |-> looked(SweepSteps)]
     ELSE [found |-> Reading(levels[Min(hits)]), bench |-> looked(Min(hits))]

\* 2. Creep up to 1.3 times the pick-up voltage.
PickUp ==
  /\ stage = "pick-up" /\ stage' = "hysteresis"
  /\ LET sweep == Sweep(spec.in_low \div 2, (spec.in_low * 13) \div 10, 1, TRUE)
     IN /\ bench' = sweep.bench
        /\ pickup' = sweep.found
        /\ Says("pick-up", 0, sweep.found # NaN /\ WithinTolerance(sweep.found, spec.in_low))
  /\ UNCHANGED <<timing, case>>

\* 3. Sit between the two thresholds.
Hysteresis ==
  /\ stage = "hysteresis" /\ stage' = "drop-out"
  /\ bench' = Looked(Supply(bench, Between))
  /\ Says("hysteresis", 0, bench'.latched)
  /\ UNCHANGED <<timing, case, pickup>>

\* 4. Creep down.  A NaN is below nothing and nothing is below it.
DropOut ==
  /\ stage = "drop-out" /\ stage' = "line-in"
  /\ LET sweep == Sweep(Between, (spec.out_low * 7) \div 10, -1, FALSE)
     IN /\ bench' = sweep.bench
        /\ Says("drop-out", 0,
                /\ NaN \notin {sweep.found, pickup}
                /\ WithinTolerance(sweep.found, spec.out_low) /\ sweep.found < pickup)
  /\ UNCHANGED <<timing, case, pickup>>

\* 5. A clean application of the nominal voltage; the captures that follow are
\* the next looks at the device.
LineIn ==
  /\ stage = "line-in" /\ stage' = "time"
  /\ bench' = Looked(Supply(Removed(bench), spec.nominal))
  /\ tripped' = bench'.latched
  /\ UNCHANGED <<device, plan, pin, contact, release, steps, case, pickup, said>>

\* A mutant: the hole is made with output_off and output_on.
Hole_OffAndOn ==
  /\ stage = "hole" /\ stage' = "remove"
  /\ bench' = Looked(Supply(Removed(bench), spec.nominal))
  /\ Says("ride-through", 0, bench'.latched)
  /\ UNCHANGED <<timing, case, pickup>>

\* 6. interrupt_output: one longer than the device rides through drops it out.
Hole ==
  /\ stage = "hole" /\ stage' = "remove"
  /\ bench' = Looked([bench EXCEPT !.dropped = @ \/ spec.hole > dut.ride])
  /\ Says("ride-through", 0, bench'.latched)
  /\ UNCHANGED <<timing, case, pickup>>

\* 7. The supply goes, and the release is timed.
Remove ==
  /\ stage = "remove" /\ stage' = "release"
  /\ bench' = Removed(bench)
  /\ UNCHANGED <<timing, case, pickup, said>>

TimeRelease ==
  /\ stage = "release" /\ CaptureRelease
  /\ UNCHANGED <<case, bench, stage, pickup, said>>

JudgeRelease ==
  /\ stage = "release" /\ PublishRelease /\ stage' = "done"
  /\ UNCHANGED <<case, bench, pickup, said>>

-----------------------------------------------------------------------------
(* The analog case.                                                          *)

\* A mutant: the error is taken of the full scale.
PointOk_OfFullScale(applied, error) ==
  applied # 0 /\ Within(100 * error, -spec.tol * 48000, spec.tol * 48000, "plan")

\* error_pct =< tolerance_pct, of the voltage that is applied; of none the error
\* is infinite.
PointOk(applied, error) ==
  applied # 0 /\ Within(100 * error, -spec.tol * applied, spec.tol * applied, "plan")

\* What the meter shows of the line voltage, and the output inverted with the
\* data sheet's scaling.  A device that has another gain, another live zero or a
\* correction applied is off by a part of the signal (dut.gain, in 1/10000) and
\* by a constant (dut.shift); both figures are rounded before they are compared.
Applied(kv)    == Rounded(kv, 16, "reading")
Equivalent(kv) ==
  Rounded(kv + (kv * dut.gain) \div 10000 + dut.shift, spec.digit, "output")

AnalogPoint ==
  /\ stage = "points" /\ Cardinality(said) < Len(spec.points)
  /\ LET nth == Cardinality(said) + 1
         kv  == spec.points[nth]
     IN /\ bench' = Supply(bench, kv)
        /\ Says("point", nth, PointOk(Applied(kv), Equivalent(kv) - Applied(kv)))
  /\ UNCHANGED <<timing, case, stage, pickup>>

LastPoint ==
  /\ stage = "points" /\ Cardinality(said) = Len(spec.points)
  /\ stage' = "done"
  /\ bench' = Removed(bench)
  /\ UNCHANGED <<timing, case, pickup, said>>

Next ==
  \/ Calibrate
  \/ EnergiseLine \/ Below \/ Above \/ Drive \/ Capture \/ Judge \/ OutputsOff
  \/ DeadLine \/ PickUp \/ Hysteresis \/ DropOut \/ LineIn \/ Hole
  \/ Remove \/ TimeRelease \/ JudgeRelease
  \/ AnalogPoint \/ LastPoint

Spec == Init /\ [][Next]_vars

-----------------------------------------------------------------------------
(* Properties.                                                               *)

Claimed(check) == \E outcome \in said : outcome.check = check /\ outcome.ok
Denied(check)  == \E outcome \in said : outcome.check = check /\ ~outcome.ok

\* Two passes of a trip case pin the trip point, in the quantity the device
\* really compares: it lies between 5 % under the tolerance window and 5 % over
\* it.  Not inside the window, which is what the comment beside step 2 says.
BracketPinsTripPoint ==
  Claimed("below") /\ Claimed("above") =>
    /\ Square(spec.quantity, (spec.trigger * (100 - spec.tol) * 95) \div 10000) =< TripSquare
    /\ TripSquare =< Square(spec.quantity, (spec.trigger * (100 + spec.tol) * 105) \div 10000)

\* What a line case that passed says of the device, to the resolution of its
\* sweeps: both thresholds are where the row has them, a declared line is held
\* between them, the nominal voltage is a line, and a hole of the stated length
\* is ridden through.  Not that the thresholds differ: a device with a single
\* one, in both tolerance windows, passes every step.
Resolution(start, stop) == (Span(start, stop) + SweepSteps - 1) \div SweepSteps + 10

UpResolution   == Resolution(spec.in_low \div 2, (spec.in_low * 13) \div 10)
DownResolution == Resolution(Between, (spec.out_low * 7) \div 10)

\* The sweeps go no further than 30 % beyond the levels of the row, and where
\* the first one starts must not read as a pick-up voltage.
SweepsReach == spec.tol =< 30 /\ spec.in_low > 50

Near(level, nominal, resolution) ==
  /\ 100 * (level + resolution) >= (100 - spec.tol) * nominal
  /\ 100 * (level - resolution) =< (100 + spec.tol) * nominal

LinePassMeans ==
  /\ spec.kind = "line" /\ SweepsReach /\ stage = "done"
  /\ \A outcome \in said : outcome.ok
  => /\ Near(dut.in_low, spec.in_low, UpResolution)
     /\ Near(dut.out_low, spec.out_low, DownResolution)
     /\ dut.out_low =< Between
     /\ dut.ride >= spec.hole
     /\ Passed("line-in") =>
          spec.nominal >= dut.in_low /\ spec.nominal =< dut.in_high

\* A trip point inside the bracket, or line thresholds that keep their windows
\* by more than the sweep and its reading can resolve, half the pick-up voltage
\* to let go at, a hysteresis and a reserve for the hole: such a device is never
\* failed, whatever an earlier case left of the latch.
TripPointInside ==
  /\ Square(spec.quantity, BelowWindow) < TripSquare
  /\ TripSquare < Square(spec.quantity, AboveWindow)

LineInside ==
  /\ 100 * (dut.in_low - 10) > (100 - spec.tol) * spec.in_low
  /\ 100 * (dut.in_low + UpResolution) < (100 + spec.tol) * spec.in_low
  /\ 100 * (dut.out_low - DownResolution) > (100 - spec.tol) * spec.out_low
  /\ 100 * (dut.out_low + 10) < (100 + spec.tol) * spec.out_low
  /\ spec.in_low \div 2 < dut.out_low /\ dut.out_low + 20 < dut.in_low
  /\ dut.out_low < Between /\ Between < dut.in_high
  /\ dut.in_low + UpResolution < dut.in_high /\ dut.in_high =< dut.out_high
  /\ dut.in_low < spec.nominal /\ spec.nominal < dut.in_high
  /\ spec.hole =< dut.ride

GoodDutPasses ==
  /\ spec.kind \in {"overcurrent", "harmonic"} /\ TripPointInside
     => ~Denied("below") /\ ~Denied("above")
  /\ spec.kind = "line" /\ SweepsReach /\ LineInside => \A outcome \in said : outcome.ok

\* "A single point cannot separate a gain error from an offset error": with the
\* points of the plan judged one by one, each of the two is bounded, but for
\* half a digit of either figure at each point (in hundredths of a unit).
Abs(x) == Max({x, -x})

RoundingSlack == 8 * spec.tol + 800 + 50 * spec.digit

AnalogPointsSeparate ==
  spec.kind = "analog" /\ stage = "done" /\ (\A outcome \in said : outcome.ok) =>
    LET points == {spec.points[i] : i \in DOMAIN spec.points}
        low    == Min(points)
        high   == Max(points)
    IN /\ Abs(dut.gain) * (high - low)
            =< 100 * (spec.tol * (high + low) + 2 * RoundingSlack) + 10000
       /\ 100 * Abs(dut.shift) * (high - low)
            =< 2 * spec.tol * low * high + RoundingSlack * (high + low) + 100 * high

\* A case whose current or voltage path is dead raises before it judges
\* anything, with both outputs off.
DeadPathNeverGreen ==
  /\ stage = "done" => Needed \subseteq dut.paths
  /\ stage = "raised" => said = {} /\ ~bench.supplied /\ ~bench.injected
=============================================================================
