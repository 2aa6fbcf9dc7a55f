------------------------------ MODULE MCCases -------------------------------
(* The rows of config/*_plan.csv against devices on both sides of every      *)
(* limit.  A good device of each case is timed: two ticks to a sample, so    *)
(* that every time may fall on a sample or between two.                      *)
EXTENDS Cases

MCDetectMaxs == {4, Inf}
MCSetMaxs == {2, Inf}

MCNominalLimits ==
  [detect_min |-> 0, detect_max |-> 4, set_max |-> 2, hold_min |-> 2, release_max |-> 5]
MCNominalTimes ==
  [detector |-> "latched", detect |-> 2, set |-> 1, hold |-> 5, out |-> 3]

Both  == {"voltage", "current"}
Edges == SUBSET {"device", "plan", "reading"}

\* A device that keeps every limit.
GoodDut ==
  [trip |-> 4000, compares |-> "rms", paths |-> Both, edge |-> {},
   in_low |-> 20000, in_high |-> 38000, out_low |-> 19000, out_high |-> 39000,
   ride |-> 400, gain |-> 9, shift |-> 0]
FastDut == [GoodDut EXCEPT !.trip = 10000, !.compares = "peak"]

Trip(kind, quantity, trigger, drive) ==
  [kind |-> kind, quantity |-> quantity, trigger |-> trigger, tol |-> 3,
   drive |-> drive, line_kv |-> 30000]

Slow     == Trip("overcurrent", "rms", 4000, 6000)
Fast     == Trip("overcurrent", "peak", 10000, 15600)
Harmonic == Trip("harmonic", "rms", 4000, NaN)

Line(hole) ==
  [kind |-> "line", nominal |-> 30000, in_low |-> 20000, out_low |-> 19000,
   tol |-> 3, hole |-> hole]

\* A row whose spans are no multiples of the steps.
OddLine == [Line(300) EXCEPT !.in_low = 20007, !.out_low = 18995]

\* 4 to 20 mA for 3 kV: a thousandth of a milliampere is 3 units; for 2 to 10 mA
\* it is 6.
Analog(points, digit) == [kind |-> "analog", tol |-> 1, digit |-> digit, points |-> points]
PlanPoints == <<12800, 16000, 19200, 24000, 28800>>

\* The ends of the plan, levels between two digits of the meter, one that the
\* meter may show as none, and none.
AnalogCases == {Analog(points, 3) :
                  points \in {PlanPoints, <<12808, 28792>>, <<8, 12800>>, <<0, 12800>>}}
               \cup {Analog(<<12800, 28800>>, 6)}

Try(specs, duts, latched) == [spec: specs, dut: duts, latched: latched]

\* On, beside and between the ends of the window and of the bracket; 9215/sqrt 2
\* and 10000 * sqrt 2 are where a device that compares the other quantity trips.
Trips4000  == {3600, 3685, 3686, 3700, 3880, 4000, 4120, 4300, 4326, 4327, 4400, 5657, 5800}
Trips10000 == {6500, 7071, 7600, 7700, 9214, 9215, 9700, 10000, 10300, 10815, 10816, 14142}

TripDuts(trips) ==
  {[GoodDut EXCEPT !.trip = t, !.compares = c, !.edge = e] :
     t \in trips, c \in {"rms", "peak"}, e \in {{}, {"device"}}}

LineDuts ==
  {[GoodDut EXCEPT !.in_low = i, !.out_low = o, !.edge = e] :
     i \in {9000, 19000, 19380, 19400, 19480, 19500, 20000, 20500, 20519, 20600, 26000, 27000},
     o \in {9000, 13000, 18000, 18430, 18480, 19000, 19380, 19400, 19480, 19500, 19540, 20000},
     e \in Edges}
  \cup {[GoodDut EXCEPT !.in_high = h, !.out_high = h + 1000, !.ride = r] :
          h \in {20100, 25000, 30000, 38000}, r \in {299, 300, 400}}

\* Gains and shifts inside and beyond the bounds, alone and against each other,
\* by less and by more than the rounding hides.
AnalogDuts ==
  {[GoodDut EXCEPT !.gain = g, !.shift = s, !.edge = e] :
     g \in {-300, -101, -100, -60, 0, 9, 100, 101, 260, 261, 262, 300},
     s \in {-465, -463, -461, -128, -32, -2, 0, 3, 80, 128, 129, 131, 300, 400},
     e \in SUBSET {"plan", "reading", "output"}}

Wirings == {[GoodDut EXCEPT !.paths = p] : p \in SUBSET Both}

MCTimedTrials ==
  Try({Slow}, {GoodDut}, {FALSE}) \cup Try({Line(300)}, {GoodDut}, {TRUE})

MCTrials ==
  Try({Slow, Harmonic}, TripDuts(Trips4000), {FALSE})
  \cup Try({Fast}, TripDuts(Trips10000), {FALSE})
  \cup Try({Line(300), Line(600)}, LineDuts, BOOLEAN)
  \cup Try({OddLine}, LineDuts, {FALSE})
  \cup Try(AnalogCases, AnalogDuts, {FALSE})
  \cup Try({Slow, Harmonic, Line(300), Analog(PlanPoints, 3), Analog(<<>>, 3)}, Wirings, {FALSE})
  \cup MCTimedTrials
=============================================================================
