------------------------------- MODULE Timing -------------------------------
(* How the three times of a detection and the hold are measured: the device  *)
(* asserts a pin and then a contact, the scope renders each as samples of a  *)
(* gate, edges_ms and pulse_width_ms find the edges, and _publish_timing     *)
(* judges them against the plan.  The last step of a line case, the release, *)
(* is measured on a trace of its own.  Cases.tla is the machine that drives  *)
(* the device and calls these actions.                                       *)
(*                                                                           *)
(* Time is in ticks; a sample is taken every Sample ticks.  The threshold of *)
(* a two-level trace lies between its levels, so a sample is high or low.    *)
EXTENDS Integers, Sequences, FiniteSetsExt

CONSTANTS
  Inf,            \* an infinite time: no edge, or no limit
  Sample,         \* ticks from one sample to the next
  GateMargin,     \* _GATE_MARGIN_MS
  Detects, Sets, Holds, LineOuts,    \* what a device may take
  DetectMins, DetectMaxs, SetMaxs, HoldMins, ReleaseMaxs   \* what a plan may ask

\* The margin is thousands of samples, and no gate is as long as Inf.
ASSUME TimingAssumption ==
  /\ {Sample, GateMargin, Inf} \subseteq Nat \ {0}
  /\ Sample =< GateMargin
  /\ Detects \cup Sets \cup Holds \cup LineOuts \subseteq Nat
  /\ DetectMins \cup HoldMins \cup ReleaseMaxs \subseteq Nat
  /\ DetectMaxs \cup SetMaxs \subseteq Nat
  /\ \A time \in DetectMins \cup (DetectMaxs \ {Inf}) \cup HoldMins
                 \cup ReleaseMaxs \cup {GateMargin} : 4 * time < Inf
  /\ \A time \in DetectMaxs \cup SetMaxs : time =< Inf

VARIABLES
  device,     \* the times the device takes for this detector
  plan,       \* the limits of the scenario
  tripped,    \* relay_states()[detector] under the stimulus that is timed
  pin, contact, release,   \* the traces captured
  steps       \* the outcomes published, by check

timing == <<device, plan, tripped, pin, contact, release, steps>>

Devices ==
  [detector: {"line", "latched"}, detect: Detects,
   set: Sets, hold: Holds, out: LineOuts]

Plans ==
  [detect_min: DetectMins, detect_max: DetectMaxs, set_max: SetMaxs,
   hold_min: HoldMins, release_max: ReleaseMaxs]

Checks == {"detection", "line-in", "relay set", "total", "hold", "release"}

TimingTypeOK ==
  /\ device \in Devices /\ plan \in Plans /\ tripped \in BOOLEAN
  /\ \A trace \in {pin, contact, release} : trace \in Seq(BOOLEAN)
  /\ DOMAIN steps \subseteq Checks
  /\ \A check \in DOMAIN steps :
       steps[check].ok \in BOOLEAN /\ steps[check].measured \in Nat

NoTrace == <<>>

TimingInit ==
  /\ tripped = FALSE
  /\ pin = NoTrace /\ contact = NoTrace /\ release = NoTrace
  /\ steps = <<>>

-----------------------------------------------------------------------------
(* What the scope renders.  Sample i is taken at tick i * Sample, from 0.    *)

Samples(ticks) == ticks \div Sample

Render(gate, high) == [i \in 1 .. Max({1, Samples(gate)}) |-> i - 1 \in high]

\* _digital_samples: flat unless tripped; a line stays asserted to the end.
DigitalSamples(gate, delay) ==
  LET rise == Samples(device.detect + delay)
      end  == IF device.detector = "line" THEN Samples(gate)
              ELSE rise + Samples(device.hold) - 1
  IN Render(gate, IF tripped THEN rise .. end ELSE {})

\* _release_samples: asserted from the start, the supply has just gone.
ReleaseSamples(gate, delay) == Render(gate, 0 .. Samples(device.out + delay) - 1)

\* A mutant: a gate of exactly the limits that are checked.
CaptureGate_NoMargin ==
  (IF plan.detect_max < Inf THEN plan.detect_max ELSE plan.detect_min)
  + plan.hold_min

\* capture_gate_ms: detection and the whole hold; a plan without a ceiling
\* gets twice its floor.
Latest ==
  IF plan.detect_max < Inf THEN plan.detect_max
  ELSE Max({plan.detect_min * 2, GateMargin})

CaptureGate == Latest + plan.hold_min + GateMargin

-----------------------------------------------------------------------------
(* What is read off a trace.                                                 *)

IsFlat(trace) == \A i \in DOMAIN trace : trace[i] = trace[1]

First(trace, level, from) ==
  Min({i \in DOMAIN trace : i >= from /\ trace[i] = level} \cup {Inf})

Time(i) == IF i = Inf THEN Inf ELSE (i - 1) * Sample

\* edges_ms: the falling edge is looked for after the rising one.
RisingIndex(trace) == IF IsFlat(trace) THEN Inf ELSE First(trace, TRUE, 1)
RisingEdge(trace)  == Time(RisingIndex(trace))

\* falling_edge_ms: only on a trace that starts asserted.
FallingEdge(trace) ==
  IF IsFlat(trace) \/ ~trace[1] THEN Inf ELSE Time(First(trace, FALSE, 1))

\* pulse_width_ms: a pulse still asserted at the end counts as far as seen.
PulseWidth(trace) ==
  LET rise == RisingIndex(trace) IN
  IF rise = Inf THEN 0
  ELSE Min({Time(First(trace, FALSE, rise)), Len(trace) * Sample}) - Time(rise)

\* A mutant: the two probes swapped.
SetTime_SwappedProbes ==
  IF Inf \in {RisingEdge(pin), RisingEdge(contact)} THEN Inf
  ELSE RisingEdge(pin) - RisingEdge(contact)

\* measure_detector: contact transit is the gap between the two edges.
SetTime ==
  IF Inf \in {RisingEdge(pin), RisingEdge(contact)} THEN Inf
  ELSE RisingEdge(contact) - RisingEdge(pin)

\* A mutant: an infinite time passes where the plan sets no limit.
TimingOk_InfinitePasses(measured, min, max) == min =< measured /\ measured =< max

\* timing_ok: no edge is a failure however wide the window, and so is 0.
TimingOk(measured, min, max) ==
  measured < Inf /\ measured > 0 /\ min =< measured /\ measured =< max

-----------------------------------------------------------------------------
CapturePin ==
  /\ pin = NoTrace
  /\ pin' = DigitalSamples(CaptureGate, 0)
  /\ UNCHANGED <<device, plan, tripped, contact, release, steps>>

CaptureContact ==
  /\ pin # NoTrace /\ contact = NoTrace
  /\ contact' = DigitalSamples(CaptureGate, device.set)
  /\ UNCHANGED <<device, plan, tripped, pin, release, steps>>

Step(measured, ok) == [measured |-> measured, ok |-> ok]

\* _publish_timing for a latched detector.  A line case publishes two checks of
\* its own: what it calls the line-in time, "stimulus -> contact", shows the edge
\* of the contact and has the outcome of the edge of the pin.
ChecksTimed ==
  IF device.detector = "latched" THEN {"detection", "relay set", "total", "hold"}
  ELSE {"line-in", "relay set"}

PublishTiming ==
  /\ contact # NoTrace /\ steps = <<>>
  /\ LET inWindow == TimingOk(RisingEdge(pin), plan.detect_min, plan.detect_max)
         outcome(check) ==
           CASE check = "detection" -> Step(RisingEdge(pin), inWindow)
             [] check = "line-in"   -> Step(RisingEdge(contact), inWindow)
             [] check = "relay set" -> Step(SetTime, TimingOk(SetTime, 0, plan.set_max))
             [] check = "total"     -> Step(RisingEdge(contact), RisingEdge(contact) < Inf)
             [] check = "hold"      -> Step(PulseWidth(contact),
                                            PulseWidth(contact) >= plan.hold_min)
     IN steps' = [check \in ChecksTimed |-> outcome(check)]
  /\ UNCHANGED <<device, plan, tripped, pin, contact, release>>

\* Step 7 of a line case: the contact, on a gate of twice the limit.
CaptureRelease ==
  /\ device.detector = "line" /\ steps # <<>> /\ release = NoTrace
  /\ release' = ReleaseSamples(plan.release_max * 2, device.set)
  /\ UNCHANGED <<device, plan, tripped, pin, contact, steps>>

PublishRelease ==
  /\ release # NoTrace /\ "release" \notin DOMAIN steps
  /\ LET released == FallingEdge(release)
     IN steps' = [check \in DOMAIN steps \cup {"release"} |->
                    IF check = "release"
                    THEN Step(released, TimingOk(released, 0, plan.release_max))
                    ELSE steps[check]]
  /\ UNCHANGED <<device, plan, tripped, pin, contact, release>>

-----------------------------------------------------------------------------
(* Properties.                                                               *)

Passed(check) == check \in DOMAIN steps /\ steps[check].ok
Failed(check) == check \in DOMAIN steps /\ ~steps[check].ok

\* A check that passes is a true statement about the device, to the sample:
\* no gate, no flat trace, no pulse cut off at the end of the gate makes a
\* device look better than it is.  A line-in time that passes is true of the
\* pin alone: a slow relay may put the contact, which the check names and shows,
\* outside the window the pin was judged against.
PassIsTrue ==
  /\ Passed("detection") \/ Passed("line-in") =>
       /\ tripped
       /\ plan.detect_min =< device.detect /\ device.detect < plan.detect_max + Sample
  /\ Passed("relay set") => tripped /\ device.set < plan.set_max + Sample
  /\ Passed("total") => tripped
  /\ Passed("hold") /\ plan.hold_min > 0 => tripped /\ device.hold >= plan.hold_min
  /\ Passed("release") => device.out + device.set < plan.release_max + Sample

\* A device that keeps its limits with a sample to spare passes every check,
\* provided it trips before the gate gives up on it: that is what the margin
\* of the gate is for.  Whatever is judged of the contact needs the relay to
\* follow within that margin too, however late the plan lets it be.
GoodDevicePasses ==
  tripped /\ (\A time \in {device.detect, device.set, device.hold} : Sample =< time) =>
    /\ plan.detect_min + Sample =< device.detect /\ device.detect =< plan.detect_max
       /\ device.detect =< Latest
       => ~Failed("detection") /\ ~Failed("line-in")
    /\ device.set =< GateMargin - Sample /\ device.detect =< Latest => ~Failed("total")
    /\ device.set + Sample =< plan.set_max /\ device.set =< GateMargin - Sample
       /\ device.detect =< Latest
       => ~Failed("relay set")
    /\ device.hold >= plan.hold_min + Sample /\ device.set =< GateMargin - Sample
       /\ device.detect =< Latest
       => ~Failed("hold")
    /\ device.out + device.set =< plan.release_max /\ plan.release_max >= Sample
       => ~Failed("release")

\* "A window sized to the spec cannot tell 'trips late' apart from 'never
\* trips'": a device late by less than the margin shows its edge.  For the
\* line-in time that is the edge of the contact, and the relay counts too.
Shows(check) == check \in DOMAIN steps => steps[check].measured < Inf

LateIsMeasured ==
  tripped /\ device.detect >= Sample
  /\ (device.detector = "latched" => device.hold >= Sample) =>
    /\ device.detect + Sample =< Latest + GateMargin => Shows("detection")
    /\ device.detect + device.set + Sample =< Latest + GateMargin => Shows("line-in")
=============================================================================
