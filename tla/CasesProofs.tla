----------------------------- MODULE CasesProofs -----------------------------
(* Proofs about Timing.tla and Cases.tla: what a passed outcome says of the  *)
(* device, for every device, plan, sampling and gate.                        *)
(*                                                                           *)
(* The measurements are pure: a trace is a pulse of so many samples, so its  *)
(* edges are where the device put them or off the trace.  The invariant says *)
(* that each trace captured is the one the device makes and each outcome     *)
(* published the one the code computes from it; the properties then compare  *)
(* whole numbers of samples with the times they stand for.                   *)
EXTENDS Cases, FiniteSetTheorems, WellFoundedInduction, TLAPS

-----------------------------------------------------------------------------
(* Least and greatest members.                                               *)

\* A set of naturals has a least member: an edge is the first one.
LEMMA LeastNatural ==
  ASSUME NEW T \in SUBSET Nat, T # {}
  PROVE  Min(T) \in T /\ \A n \in T : Min(T) =< n
  <1>1. PICK least \in T : \A n \in T : ~(<<n, least>> \in OpToRel(<, Nat))
    BY NatLessThanWellFounded, WFMin
  <1>2. \A n \in T : least =< n
    <2> SUFFICES ASSUME NEW n \in T, ~(least =< n) PROVE FALSE
      OBVIOUS
    <2>1. <<n, least>> \in Nat \X Nat /\ n < least
      OBVIOUS
    <2>2. <<n, least>> \in OpToRel(<, Nat)
      BY <2>1 DEF OpToRel
    <2> QED BY <1>1, <2>2
  <1> QED BY <1>2 DEF Min

LEMMA GreatestOfTwo ==
  ASSUME NEW a \in Int, NEW b \in Int
  PROVE  Max({a, b}) = IF a >= b THEN a ELSE b
  BY DEF Max

LEMMA LeastOfTwo ==
  ASSUME NEW a \in Int, NEW b \in Int
  PROVE  Min({a, b}) = IF a =< b THEN a ELSE b
  BY DEF Min

-----------------------------------------------------------------------------
(* Samples and ticks.                                                        *)

\* The tick at which a sample is taken.
Ticks(n) == n * Sample

LEMMA Constants ==
  /\ Sample \in Nat /\ Sample >= 1 /\ GateMargin \in Nat /\ Sample =< GateMargin
  /\ Inf \in Nat /\ 4 * GateMargin < Inf
  BY TimingAssumption

LEMMA TicksAdd ==
  ASSUME NEW a \in Int, NEW b \in Int
  PROVE  /\ Ticks(a) \in Int /\ Ticks(0) = 0 /\ Ticks(1) = Sample
         /\ Ticks(a + 1) = Ticks(a) + Sample
         /\ Ticks(a - 1) = Ticks(a) - Sample
         /\ Ticks(a - b) = Ticks(a) - Ticks(b)
  BY Constants DEF Ticks

LEMMA TicksZero == Ticks(0) = 0 /\ Ticks(1) = Sample
  BY Constants DEF Ticks

LEMMA TicksOrder ==
  ASSUME NEW a \in Int, NEW b \in Int
  PROVE  /\ a =< b <=> Ticks(a) =< Ticks(b)
         /\ a < b <=> Ticks(a) < Ticks(b)
  <1>1. Sample \in Int /\ Sample >= 1
    BY Constants
  <1>2. ASSUME NEW x \in Int, NEW y \in Int, x < y PROVE x * Sample < y * Sample
    <2>1. (y - x) * Sample >= Sample
      BY <1>1, <1>2
    <2>2. (y - x) * Sample = y * Sample - x * Sample
      BY <1>1
    <2> QED BY <1>1, <2>1, <2>2
  <1> QED BY <1>1, <1>2 DEF Ticks

\* The samples of a stretch of time are those that fit into it.
LEMMA SamplesBound ==
  ASSUME NEW time \in Nat
  PROVE  /\ Samples(time) \in Nat
         /\ Ticks(Samples(time)) =< time /\ time < Ticks(Samples(time)) + Sample
         /\ Samples(time) =< time
  <1>1. Sample \in Nat /\ Sample >= 1
    BY Constants
  <1>2. /\ Samples(time) \in Nat /\ time = Sample * Samples(time) + (time % Sample)
        /\ (time % Sample) \in 0 .. (Sample - 1)
    BY <1>1 DEF Samples
  <1>3. Ticks(Samples(time)) = Sample * Samples(time)
    BY <1>1, <1>2 DEF Ticks
  <1>4. Samples(time) =< Sample * Samples(time)
    <2>1. (Sample - 1) * Samples(time) >= 0
      BY <1>1, <1>2
    <2>2. (Sample - 1) * Samples(time) = Sample * Samples(time) - Samples(time)
      BY <1>1, <1>2
    <2>3. Sample * Samples(time) \in Int
      BY <1>1, <1>2
    <2> QED BY <1>2, <2>1, <2>2, <2>3
  <1>5. (Sample * Samples(time)) \in Int
    BY <1>1, <1>2
  <1> QED BY <1>1, <1>2, <1>3, <1>4, <1>5

-----------------------------------------------------------------------------
(* Edges.                                                                    *)

\* A gate that fits a number of ticks below Inf.
ShortGates == {gate \in Nat : gate < Inf}

\* What is rendered has a sample at least, and ends with the gate.
LEMMA RenderedLength ==
  ASSUME NEW gate \in ShortGates, NEW high
  PROVE  /\ Render(gate, high) \in Seq(BOOLEAN)
         /\ Len(Render(gate, high)) = (IF Samples(gate) >= 1 THEN Samples(gate) ELSE 1)
         /\ Len(Render(gate, high)) \in Nat /\ Len(Render(gate, high)) < Inf
         /\ Ticks(Len(Render(gate, high))) < Inf
         /\ DOMAIN Render(gate, high) = 1 .. Len(Render(gate, high))
         /\ \A i \in 1 .. Len(Render(gate, high)) :
              /\ i - 1 \in high => Render(gate, high)[i] = TRUE
              /\ i - 1 \notin high => Render(gate, high)[i] = FALSE
  <1> DEFINE n == IF Samples(gate) >= 1 THEN Samples(gate) ELSE 1
  <1>1. Samples(gate) \in Nat /\ Samples(gate) =< gate /\ Ticks(Samples(gate)) =< gate
    BY SamplesBound DEF ShortGates
  <1>2. Max({1, Samples(gate)}) = n /\ n \in Nat
    BY <1>1, GreatestOfTwo
  <1>3. Render(gate, high) = [i \in 1 .. n |-> i - 1 \in high]
    BY <1>2 DEF Render
  <1>4. n < Inf /\ Ticks(n) < Inf
    <2>1. Inf \in Nat /\ 4 * GateMargin < Inf /\ Sample =< GateMargin /\ 1 =< Sample
          /\ Sample \in Nat /\ GateMargin \in Nat
      BY Constants
    <2>2. Ticks(1) = Sample /\ Ticks(Samples(gate)) \in Int
      BY <1>1, TicksAdd
    <2>3. gate \in Nat /\ gate < Inf
      BY DEF ShortGates
    <2>4. CASE Samples(gate) >= 1
      BY <1>1, <2>2, <2>3, <2>1, <2>4
    <2>5. CASE ~(Samples(gate) >= 1)
      BY <2>1, <2>2, <2>5
    <2> QED BY <2>4, <2>5
  <1> HIDE DEF n
  <1>5. Render(gate, high) \in Seq(BOOLEAN) /\ Len(Render(gate, high)) = n
    BY <1>2, <1>3
  <1>6. DOMAIN Render(gate, high) = 1 .. n
    BY <1>3
  <1>7. n = IF Samples(gate) >= 1 THEN Samples(gate) ELSE 1
    BY DEF n
  <1>8. /\ Len(Render(gate, high)) = (IF Samples(gate) >= 1 THEN Samples(gate) ELSE 1)
        /\ Len(Render(gate, high)) \in Nat /\ Len(Render(gate, high)) < Inf
        /\ Ticks(Len(Render(gate, high))) < Inf
    BY <1>2, <1>4, <1>5, <1>7
  <1>9. 1 .. Len(Render(gate, high)) = 1 .. n
    BY <1>5
  <1>10. DOMAIN Render(gate, high) = 1 .. Len(Render(gate, high))
    BY <1>6, <1>9, Zenon
  <1>11. ASSUME NEW i \in 1 .. Len(Render(gate, high))
         PROVE  /\ i - 1 \in high => Render(gate, high)[i] = TRUE
                /\ i - 1 \notin high => Render(gate, high)[i] = FALSE
    <2>1. i \in 1 .. n
      BY <1>9
    <2>2. Render(gate, high)[i] = (i - 1 \in high)
      BY <1>3, <2>1
    <2>3. CASE i - 1 \in high
      BY <2>2, <2>3, Zenon
    <2>4. CASE i - 1 \notin high
      <3>1. (i - 1 \in high) = FALSE
        BY <2>4
      <3> QED BY <2>2, <2>4, <3>1, Zenon
    <2> QED BY <2>3, <2>4, Zenon
  <1> QED BY <1>5, <1>8, <1>10, <1>11, Zenon

Traces == {trace \in Seq(BOOLEAN) : Len(trace) >= 1 /\ Len(trace) < Inf}

\* First is the first sample of its level, or Inf when there is none.
LEMMA FirstSample ==
  ASSUME NEW trace \in Traces, NEW level \in BOOLEAN, NEW from \in Nat
  PROVE  /\ First(trace, level, from) = Inf
            \/ /\ First(trace, level, from) \in 1 .. Len(trace)
               /\ First(trace, level, from) >= from
               /\ trace[First(trace, level, from)] = level
         /\ \A i \in 1 .. Len(trace) :
              i >= from /\ trace[i] = level => First(trace, level, from) =< i
  <1> DEFINE hits == {i \in DOMAIN trace : i >= from /\ trace[i] = level}
  <1>1. DOMAIN trace = 1 .. Len(trace) /\ Len(trace) \in Nat /\ Len(trace) < Inf /\ Inf \in Nat
    BY Constants DEF Traces
  <1>2. hits \cup {Inf} \in SUBSET Nat /\ hits \cup {Inf} # {}
    BY <1>1
  <1>3. First(trace, level, from) = Min(hits \cup {Inf})
    BY DEF First
  <1>4. /\ Min(hits \cup {Inf}) \in hits \cup {Inf}
        /\ \A n \in hits \cup {Inf} : Min(hits \cup {Inf}) =< n
    <2> HIDE DEF hits
    <2> QED BY <1>2, LeastNatural
  <1>5. First(trace, level, from) \in hits \cup {Inf}
        /\ \A n \in hits : First(trace, level, from) =< n
    <2> HIDE DEF hits
    <2> QED BY <1>3, <1>4
  <1> QED BY <1>1, <1>5

\* A pulse: high from one sample to another, both counted from 0, low elsewhere.
IsPulse(trace, rise, end) ==
  \A i \in 1 .. Len(trace) :
    /\ i - 1 \in rise .. end => trace[i] = TRUE
    /\ i - 1 \notin rise .. end => trace[i] = FALSE

\* The rising edge of a pulse is its start, or off the trace.
LEMMA PulseRises ==
  ASSUME NEW trace \in Traces, NEW rise \in Nat, NEW end \in Int,
         IsPulse(trace, rise, end)
  PROVE  /\ RisingIndex(trace) = Inf
            \/ (RisingIndex(trace) = rise + 1 /\ rise < Len(trace) /\ rise =< end)
         /\ 1 =< rise /\ rise < Len(trace) /\ rise =< end => RisingIndex(trace) = rise + 1
  <1> DEFINE found == First(trace, TRUE, 1)
  <1>1. DOMAIN trace = 1 .. Len(trace) /\ Len(trace) \in Nat /\ 1 =< Len(trace)
        /\ Len(trace) < Inf /\ Inf \in Nat
    BY Constants DEF Traces
  <1>2. /\ found = Inf \/ (found \in 1 .. Len(trace) /\ trace[found] = TRUE)
        /\ \A i \in 1 .. Len(trace) : i >= 1 /\ trace[i] = TRUE => found =< i
    BY FirstSample
  <1> HIDE DEF found
  <1>3. RisingIndex(trace) = IF IsFlat(trace) THEN Inf ELSE found
    BY DEF RisingIndex, found
  <1>4. ASSUME found \in 1 .. Len(trace), trace[found] = TRUE
        PROVE  found = rise + 1 /\ rise < Len(trace) /\ rise =< end
    <2>1. found - 1 \in rise .. end
      BY <1>4 DEF IsPulse
    <2>a. rise =< found - 1 /\ found - 1 =< end /\ found \in Nat
      BY <1>1, <1>4, <2>1
    <2>2. rise + 1 \in 1 .. Len(trace) /\ rise + 1 - 1 = rise /\ rise =< end
      BY <1>1, <1>4, <2>a
    <2>b. rise + 1 - 1 \in rise .. end
      BY <2>2, <2>a
    <2>3. trace[rise + 1] = TRUE
      BY <2>2, <2>b DEF IsPulse
    <2>4. found =< rise + 1
      BY <1>2, <2>2, <2>3
    <2> QED BY <2>a, <2>2, <2>4
  <1>5. ASSUME 1 =< rise, rise < Len(trace), rise =< end
        PROVE  found = rise + 1 /\ ~IsFlat(trace)
    <2>1. rise + 1 \in 1 .. Len(trace) /\ rise + 1 - 1 = rise /\ 1 \in 1 .. Len(trace)
          /\ 1 - 1 \notin rise .. end /\ rise + 1 - 1 \in rise .. end
      BY <1>1, <1>5
    <2>2. trace[rise + 1] = TRUE /\ trace[1] = FALSE
      BY <1>5, <2>1 DEF IsPulse
    <2>3. found =< rise + 1 /\ rise + 1 < Inf + 1
      BY <1>1, <1>5, <2>1, <2>2, <1>2
    <2>4. found # Inf
      BY <1>1, <1>5, <2>3
    <2>5. ~IsFlat(trace)
      BY <1>1, <2>1, <2>2 DEF IsFlat
    <2> QED BY <1>2, <1>4, <2>4, <2>5
  <1> QED BY <1>2, <1>3, <1>4, <1>5

\* A pulse falls after its last sample, or not on this trace.
LEMMA PulseFalls ==
  ASSUME NEW trace \in Traces, NEW rise \in Nat, NEW end \in Int,
         IsPulse(trace, rise, end), rise =< end
  PROVE  First(trace, FALSE, rise + 1) = IF end + 2 =< Len(trace) THEN end + 2 ELSE Inf
  <1> DEFINE found == First(trace, FALSE, rise + 1)
  <1>1. Len(trace) \in Nat /\ Len(trace) < Inf /\ Inf \in Nat /\ rise + 1 \in Nat
    BY Constants DEF Traces
  <1>2. /\ \/ found = Inf
           \/ found \in 1 .. Len(trace) /\ found >= rise + 1 /\ trace[found] = FALSE
        /\ \A i \in 1 .. Len(trace) : i >= rise + 1 /\ trace[i] = FALSE => found =< i
    BY <1>1, FirstSample
  <1> HIDE DEF found
  <1>3. ASSUME found \in 1 .. Len(trace), found >= rise + 1, trace[found] = FALSE
        PROVE  end + 2 =< found
    <2>1. found - 1 \notin rise .. end
      BY <1>3 DEF IsPulse
    <2> QED BY <1>1, <1>3, <2>1
  <1>4. ASSUME end + 2 =< Len(trace)
        PROVE  found =< end + 2
    <2>1. end + 2 \in 1 .. Len(trace) /\ end + 2 >= rise + 1 /\ end + 2 - 1 \notin rise .. end
      BY <1>1, <1>4
    <2>2. trace[end + 2] = FALSE
      BY <2>1 DEF IsPulse
    <2> QED BY <1>2, <2>1, <2>2
  <1>5. found = Inf \/ (found \in 1 .. Len(trace) /\ end + 2 =< found)
    BY <1>2, <1>3, Zenon
  <1>6. found = IF end + 2 =< Len(trace) THEN end + 2 ELSE Inf
    BY <1>1, <1>4, <1>5
  <1> QED BY <1>6 DEF found

-----------------------------------------------------------------------------
(* The traces of a device.                                                   *)

TimesTyped == device \in Devices /\ plan \in Plans /\ tripped \in BOOLEAN

LEMMA Times ==
  ASSUME TimesTyped
  PROVE  /\ device.detect \in Nat /\ device.set \in Nat /\ device.hold \in Nat
         /\ device.out \in Nat /\ device.detector \in {"line", "latched"}
         /\ plan.detect_min \in Nat /\ plan.detect_max \in Nat /\ plan.set_max \in Nat
         /\ plan.hold_min \in Nat /\ plan.release_max \in Nat
         /\ plan.detect_max =< Inf /\ plan.set_max =< Inf
         /\ 4 * plan.detect_min < Inf /\ 4 * plan.hold_min < Inf
         /\ 4 * plan.release_max < Inf
         /\ plan.detect_max # Inf => 4 * plan.detect_max < Inf
  <1>1. /\ plan.detect_min \in DetectMins /\ plan.detect_max \in DetectMaxs
        /\ plan.set_max \in SetMaxs /\ plan.hold_min \in HoldMins
        /\ plan.release_max \in ReleaseMaxs
    BY DEF TimesTyped, Plans
  <1>2. /\ device.detect \in Detects /\ device.set \in Sets /\ device.hold \in Holds
        /\ device.out \in LineOuts /\ device.detector \in {"line", "latched"}
    BY DEF TimesTyped, Devices
  <1> QED BY <1>1, <1>2, TimingAssumption

\* A gate is longer than the latest time it waits for, the hold and the margin.
LEMMA GateFits ==
  ASSUME TimesTyped
  PROVE  /\ Latest \in Nat /\ CaptureGate \in ShortGates
         /\ CaptureGate = Latest + plan.hold_min + GateMargin
         /\ Samples(CaptureGate) \in Nat /\ Samples(CaptureGate) >= 1
         /\ CaptureGate < Ticks(Samples(CaptureGate)) + Sample
         /\ plan.release_max * 2 \in ShortGates
  <1>1. Latest = IF plan.detect_max < Inf THEN plan.detect_max
                 ELSE IF plan.detect_min * 2 >= GateMargin THEN plan.detect_min * 2
                 ELSE GateMargin
    BY Times, Constants, GreatestOfTwo DEF Latest
  <1>2. Latest \in Nat /\ 2 * Latest < Inf
    <2>1. /\ plan.detect_max \in Nat /\ plan.detect_min \in Nat /\ GateMargin \in Nat
          /\ plan.detect_max =< Inf /\ Inf \in Nat
          /\ 4 * plan.detect_min < Inf /\ 4 * GateMargin < Inf
          /\ plan.detect_max # Inf => 4 * plan.detect_max < Inf
      BY Times, Constants
    <2> QED BY <1>1, <2>1
  <1>3. CaptureGate = Latest + plan.hold_min + GateMargin
    BY DEF CaptureGate
  <1>4. CaptureGate \in Nat /\ CaptureGate < Inf /\ CaptureGate >= Sample
        /\ plan.release_max * 2 \in Nat /\ plan.release_max * 2 < Inf
    <2>1. /\ plan.hold_min \in Nat /\ 4 * plan.hold_min < Inf /\ GateMargin \in Nat
          /\ 4 * GateMargin < Inf /\ Inf \in Nat /\ Sample =< GateMargin /\ Sample \in Nat
          /\ plan.release_max \in Nat /\ 4 * plan.release_max < Inf
      BY Times, Constants
    <2> QED BY <1>2, <1>3, <2>1
  <1>5. /\ Samples(CaptureGate) \in Nat
        /\ CaptureGate < Ticks(Samples(CaptureGate)) + Sample
    BY <1>4, SamplesBound
  <1>6. Samples(CaptureGate) >= 1
    <2>1. Samples(CaptureGate) # 0
      BY <1>4, <1>5, TicksAdd, Constants
    <2> QED BY <1>5, <2>1
  <1> QED BY <1>2, <1>3, <1>4, <1>5, <1>6 DEF ShortGates

\* The samples between which the device asserts a probe.
Rise(delay) == Samples(device.detect + delay)
End(delay)  == IF device.detector = "line" THEN Samples(CaptureGate)
               ELSE Rise(delay) + Samples(device.hold) - 1

\* What is captured of a pin or a contact is that pulse, or nothing.
LEMMA DigitalPulse ==
  ASSUME TimesTyped, NEW delay \in Nat
  PROVE  /\ DigitalSamples(CaptureGate, delay) \in Traces
         /\ Len(DigitalSamples(CaptureGate, delay)) = Samples(CaptureGate)
         /\ Ticks(Samples(CaptureGate)) < Inf
         /\ Rise(delay) \in Nat /\ End(delay) \in Int
         /\ ~tripped => IsFlat(DigitalSamples(CaptureGate, delay))
         /\ tripped => IsPulse(DigitalSamples(CaptureGate, delay), Rise(delay), End(delay))
  <1>1. /\ CaptureGate \in ShortGates /\ Samples(CaptureGate) \in Nat
        /\ Samples(CaptureGate) >= 1
    BY GateFits
  <1>2. device.detect + delay \in Nat /\ device.hold \in Nat
    BY Times
  <1>3. Rise(delay) \in Nat /\ Samples(device.hold) \in Nat
    BY <1>2, SamplesBound DEF Rise
  <1>4. End(delay) \in Int
    BY <1>1, <1>3 DEF End
  <1> DEFINE high  == IF tripped THEN Rise(delay) .. End(delay) ELSE {}
             trace == Render(CaptureGate, high)
  <1>5. DigitalSamples(CaptureGate, delay) = trace
    BY DEF DigitalSamples, Rise, End
  <1> HIDE DEF high
  <1>6. /\ trace \in Seq(BOOLEAN)
        /\ Len(trace) = (IF Samples(CaptureGate) >= 1 THEN Samples(CaptureGate) ELSE 1)
        /\ Len(trace) \in Nat /\ Len(trace) < Inf /\ Ticks(Len(trace)) < Inf
        /\ DOMAIN trace = 1 .. Len(trace)
        /\ \A i \in 1 .. Len(trace) :
              /\ i - 1 \in high => trace[i] = TRUE
              /\ i - 1 \notin high => trace[i] = FALSE
    BY <1>1, RenderedLength
  <1> HIDE DEF trace
  <1>7. Len(trace) = Samples(CaptureGate) /\ Len(trace) >= 1
    BY <1>1, <1>6
  <1>8. trace \in Traces
    BY <1>6, <1>7 DEF Traces
  <1>9. ASSUME ~tripped PROVE IsFlat(trace)
    <2>1. high = {}
      BY <1>9 DEF high
    <2>2. \A i \in 1 .. Len(trace) : trace[i] = FALSE
      BY <1>6, <2>1
    <2>3. 1 \in 1 .. Len(trace)
      BY <1>6, <1>7
    <2> QED BY <1>6, <2>2, <2>3 DEF IsFlat
  <1>10. ASSUME tripped PROVE IsPulse(trace, Rise(delay), End(delay))
    <2>1. high = Rise(delay) .. End(delay)
      BY <1>10 DEF high
    <2> QED BY <1>6, <2>1 DEF IsPulse
  <1>11. Ticks(Samples(CaptureGate)) < Inf
    BY <1>6, <1>7
  <1> QED BY <1>3, <1>4, <1>5, <1>7, <1>8, <1>9, <1>10, <1>11

\* The time of a sample is the tick it is taken at; that of no sample is Inf.
LEMMA TimeOfSample ==
  ASSUME NEW n \in Nat, n + 1 < Inf
  PROVE  Time(n + 1) = Ticks(n)
  BY Constants DEF Time, Ticks

Digital(delay) == DigitalSamples(CaptureGate, delay)

\* A rising edge that is found is where the device put it, to the sample.
LEMMA DigitalEdge ==
  ASSUME TimesTyped, NEW delay \in Nat
  PROVE  /\ Rise(delay) \in Nat
         /\ Ticks(Rise(delay)) \in Nat
         /\ Ticks(Rise(delay)) =< device.detect + delay
         /\ device.detect + delay < Ticks(Rise(delay)) + Sample
         /\ \/ RisingIndex(Digital(delay)) = Inf /\ RisingEdge(Digital(delay)) = Inf
            \/ /\ tripped /\ Rise(delay) =< End(delay)
               /\ Rise(delay) < Samples(CaptureGate)
               /\ RisingIndex(Digital(delay)) = Rise(delay) + 1
               /\ RisingIndex(Digital(delay)) < Inf
               /\ RisingEdge(Digital(delay)) = Ticks(Rise(delay))
               /\ RisingEdge(Digital(delay)) < Inf
         /\ RisingEdge(Digital(delay)) \in Nat
  <1> DEFINE trace == Digital(delay)
             rise == Rise(delay)
             end == End(delay)
             n == Samples(CaptureGate)
  <1>1. /\ trace \in Traces /\ Len(trace) = n /\ Ticks(n) < Inf
        /\ rise \in Nat /\ end \in Int
        /\ ~tripped => IsFlat(trace)
        /\ tripped => IsPulse(trace, rise, end)
    BY DigitalPulse DEF Digital
  <1>2. n \in Nat /\ n < Inf /\ Inf \in Nat
    BY GateFits, Constants, <1>1 DEF Traces
  <1>3. /\ Ticks(rise) \in Int /\ Ticks(rise) =< device.detect + delay
        /\ device.detect + delay < Ticks(rise) + Sample
    <2>1. device.detect + delay \in Nat
      BY Times
    <2>2. /\ Ticks(rise) =< device.detect + delay
          /\ device.detect + delay < Ticks(rise) + Sample
      BY <2>1, SamplesBound DEF Rise
    <2>3. Ticks(rise) \in Int
      BY <1>1, TicksAdd
    <2> QED BY <2>2, <2>3
  <1>4. Ticks(rise) \in Nat
    <2>1. Ticks(0) =< Ticks(rise) /\ Ticks(0) = 0
      BY TicksOrder, TicksAdd, <1>1
    <2> QED BY <1>3, <2>1
  <1> HIDE DEF trace, rise, end, n
  <1>5. \/ RisingIndex(trace) = Inf
        \/ /\ tripped /\ rise =< end /\ rise < n
           /\ RisingIndex(trace) = rise + 1
    <2>1. CASE tripped
      BY <1>1, <2>1, PulseRises
    <2>2. CASE ~tripped
      BY <1>1, <2>2 DEF RisingIndex
    <2> QED BY <2>1, <2>2
  <1>6. CASE RisingIndex(trace) = Inf
    <2>1. RisingEdge(trace) = Inf
      BY <1>6 DEF RisingEdge, Time
    <2> QED BY <1>1, <1>2, <1>3, <1>4, <1>6, <2>1 DEF trace, rise, end, n
  <1>7. CASE tripped /\ rise =< end /\ rise < n /\ RisingIndex(trace) = rise + 1
    <2>1. rise + 1 < Inf
      BY <1>1, <1>2, <1>7
    <2>2. RisingEdge(trace) = Ticks(rise)
      BY <1>1, <1>7, <2>1, TimeOfSample DEF RisingEdge
    <2>3. Ticks(rise) < Ticks(n) /\ Ticks(n) \in Int
      BY <1>1, <1>2, <1>7, TicksOrder, TicksAdd
    <2>4. Ticks(rise) < Inf
      BY <1>1, <1>2, <1>3, <2>3
    <2> QED BY <1>1, <1>3, <1>4, <1>7, <2>1, <2>2, <2>4 DEF trace, rise, end, n
  <1> QED BY <1>5, <1>6, <1>7

\* A device that trips within the gate and holds for a sample shows its edge.
LEMMA DigitalEdgeFound ==
  ASSUME TimesTyped, NEW delay \in Nat, tripped,
         Sample =< device.detect, device.detector = "latched" => Sample =< device.hold,
         device.detect + delay + Sample =< CaptureGate
  PROVE  /\ RisingEdge(Digital(delay)) = Ticks(Rise(delay))
         /\ RisingEdge(Digital(delay)) < Inf
         /\ RisingIndex(Digital(delay)) < Inf
         /\ Rise(delay) >= 1
  <1> DEFINE trace == Digital(delay)
             rise == Rise(delay)
             end == End(delay)
             n == Samples(CaptureGate)
  <1>1. /\ trace \in Traces /\ Len(trace) = n /\ rise \in Nat /\ end \in Int
        /\ IsPulse(trace, rise, end)
    BY DigitalPulse DEF Digital
  <1>2. /\ n \in Nat /\ CaptureGate \in Nat /\ CaptureGate < Ticks(n) + Sample
        /\ device.detect \in Nat /\ device.hold \in Nat /\ Sample \in Nat /\ Sample >= 1
        /\ device.detector \in {"line", "latched"}
    BY GateFits, Times, Constants DEF ShortGates
  <1>3. /\ Ticks(rise) \in Nat /\ Ticks(rise) =< device.detect + delay
        /\ device.detect + delay < Ticks(rise) + Sample
    BY DigitalEdge
  <1>4. Ticks(rise) > 0
    BY <1>2, <1>3
  <1>5. rise >= 1
    BY <1>1, <1>4, TicksZero
  <1>6. rise < n
    <2>1. Ticks(rise) < Ticks(n) /\ Ticks(n) \in Int
      <3>1. Ticks(n) \in Int
        BY <1>2, TicksAdd
      <3> QED BY <1>2, <1>3, <3>1
    <2> QED BY <1>1, <1>2, <2>1, TicksOrder
  <1>7. rise =< end
    <2>1. CASE device.detector = "line"
      BY <1>1, <1>2, <1>6, <2>1 DEF End
    <2>2. CASE device.detector # "line"
      <3>1. Samples(device.hold) \in Nat /\ device.hold < Ticks(Samples(device.hold)) + Sample
        BY <1>2, SamplesBound
      <3>2. Samples(device.hold) # 0
        BY <1>2, <2>2, <3>1, TicksZero
      <3>3. end = rise + Samples(device.hold) - 1
        BY <2>2 DEF End
      <3> QED BY <1>1, <3>1, <3>2, <3>3
    <2> QED BY <2>1, <2>2
  <1>8. RisingIndex(trace) = rise + 1
    <2> HIDE DEF trace, rise, end
    <2> QED BY <1>1, <1>5, <1>6, <1>7, PulseRises
  <1>9. RisingIndex(trace) # Inf
    <2>1. n < Inf /\ Inf \in Nat
      BY <1>1, Constants DEF Traces
    <2> QED BY <1>1, <1>2, <1>6, <1>8, <2>1
  <1> QED BY <1>5, <1>9, DigitalEdge

\* A latched pulse is as wide as it was held, or as the gate has seen of it.
LEMMA DigitalWidth ==
  ASSUME TimesTyped, NEW delay \in Nat, device.detector = "latched"
  PROVE  /\ Samples(device.hold) \in Nat
         /\ Ticks(Samples(device.hold)) =< device.hold
         /\ device.hold < Ticks(Samples(device.hold)) + Sample
         /\ PulseWidth(Digital(delay)) \in Nat
         /\ RisingIndex(Digital(delay)) = Inf => PulseWidth(Digital(delay)) = 0
         /\ PulseWidth(Digital(delay)) =< Ticks(Samples(device.hold))
         /\ RisingIndex(Digital(delay)) # Inf =>
              \/ PulseWidth(Digital(delay)) = Ticks(Samples(device.hold))
              \/ PulseWidth(Digital(delay)) =
                   Ticks(Samples(CaptureGate)) - Ticks(Rise(delay))
  <1> DEFINE trace == Digital(delay)
             rise == Rise(delay)
             end == End(delay)
             n == Samples(CaptureGate)
             held == Samples(device.hold)
  <1>1. /\ trace \in Traces /\ Len(trace) = n /\ Ticks(n) < Inf
        /\ rise \in Nat /\ end \in Int
        /\ tripped => IsPulse(trace, rise, end)
    BY DigitalPulse DEF Digital
  <1>2. /\ n \in Nat /\ n < Inf /\ Inf \in Nat
    BY GateFits, Constants, <1>1 DEF Traces
  <1>3. /\ held \in Nat /\ Ticks(held) =< device.hold /\ device.hold < Ticks(held) + Sample
    BY Times, SamplesBound
  <1>4. Ticks(held) \in Nat
    <2>1. Ticks(0) =< Ticks(held) /\ Ticks(held) \in Int
      BY TicksOrder, TicksAdd, <1>3
    <2> QED BY <2>1, TicksZero
  <1>5. end = rise + held - 1
    BY DEF End
  <1>6. \/ RisingIndex(trace) = Inf
        \/ /\ tripped /\ rise =< end /\ rise < n
           /\ RisingIndex(trace) = rise + 1 /\ rise + 1 < Inf
    BY DigitalEdge
  <1> HIDE DEF trace, rise, end, n, held
  <1>7. CASE RisingIndex(trace) = Inf
    <2>1. PulseWidth(trace) = 0
      BY <1>7 DEF PulseWidth
    <2>2. PulseWidth(trace) \in Nat /\ PulseWidth(trace) =< Ticks(held)
      BY <1>4, <2>1
    <2> QED BY <1>3, <1>7, <2>1, <2>2 DEF trace, held
  <1>8. CASE /\ tripped /\ rise =< end /\ rise < n
             /\ RisingIndex(trace) = rise + 1 /\ rise + 1 < Inf
    <2>1. First(trace, FALSE, rise + 1) = IF end + 2 =< n THEN end + 2 ELSE Inf
      BY <1>1, <1>8, PulseFalls
    <2>2. Len(trace) * Sample = Ticks(n)
      BY <1>1 DEF Ticks
    <2>3. PulseWidth(trace) =
            Min({Time(First(trace, FALSE, rise + 1)), Ticks(n)}) - Ticks(rise)
      <3>1. rise + 1 # Inf /\ Time(rise + 1) = Ticks(rise)
        BY <1>1, <1>2, <1>8, TimeOfSample
      <3> QED BY <1>8, <2>2, <3>1 DEF PulseWidth
    <2>4. /\ Ticks(n) \in Int /\ Ticks(rise) \in Int /\ Ticks(rise + held) \in Int
          /\ Ticks(rise) < Ticks(n)
          /\ rise + held =< n <=> Ticks(rise + held) =< Ticks(n)
      <3>1. rise + held \in Int
        BY <1>1, <1>3
      <3>2. /\ Ticks(n) \in Int /\ Ticks(rise) \in Int /\ Ticks(rise + held) \in Int
        BY <1>1, <1>2, <3>1, TicksAdd
      <3>3. Ticks(rise) < Ticks(n)
        BY <1>1, <1>2, <1>8, TicksOrder
      <3>4. rise + held =< n <=> Ticks(rise + held) =< Ticks(n)
        BY <1>2, <3>1, TicksOrder
      <3> QED BY <3>2, <3>3, <3>4
    <2>5. Ticks(held) = Ticks(rise + held) - Ticks(rise)
      <3>1. rise + held \in Int /\ (rise + held) - rise = held
        BY <1>1, <1>3
      <3> QED BY <1>1, <3>1, TicksAdd
    <2>6. CASE end + 2 =< n
      <3>1. end + 2 = (rise + held) + 1 /\ rise + held \in Nat /\ rise + held + 1 < Inf
            /\ rise + held =< n
        BY <1>1, <1>2, <1>3, <1>5, <2>6
      <3>2. Time(First(trace, FALSE, rise + 1)) = Ticks(rise + held)
        BY <2>1, <2>6, <3>1, TimeOfSample
      <3>3. Min({Ticks(rise + held), Ticks(n)}) = Ticks(rise + held)
        BY <2>4, <3>1, LeastOfTwo
      <3>4. PulseWidth(trace) = Ticks(held)
        BY <2>3, <2>5, <3>2, <3>3
      <3>5. RisingIndex(trace) # Inf
        BY <1>1, <1>2, <1>8
      <3>6. PulseWidth(trace) \in Nat /\ PulseWidth(trace) =< Ticks(held)
        BY <1>4, <3>4
      <3> QED BY <1>3, <3>4, <3>5, <3>6, Zenon DEF trace, held, rise, n
    <2>7. CASE ~(end + 2 =< n)
      <3>1. rise + held >= n
        BY <1>1, <1>2, <1>3, <1>5, <2>7
      <3>2. Ticks(n) =< Ticks(rise + held)
        <4>1. rise + held \in Int /\ n =< rise + held
          BY <1>1, <1>2, <1>3, <3>1
        <4> QED BY <1>2, <4>1, TicksOrder
      <3>3. Time(First(trace, FALSE, rise + 1)) = Inf
        BY <2>1, <2>7 DEF Time
      <3>4. Min({Inf, Ticks(n)}) = Ticks(n)
        BY <1>1, <1>2, <2>4, LeastOfTwo
      <3>5. PulseWidth(trace) = Ticks(n) - Ticks(rise)
        BY <2>3, <3>3, <3>4
      <3>6. PulseWidth(trace) \in Nat /\ PulseWidth(trace) =< Ticks(held)
        BY <2>4, <2>5, <3>2, <3>5
      <3>7. RisingIndex(trace) # Inf
        BY <1>1, <1>2, <1>8
      <3> QED BY <1>3, <3>5, <3>6, <3>7, Zenon DEF trace, held, rise, n
    <2> QED BY <2>6, <2>7
  <1> QED BY <1>6, <1>7, <1>8

\* The contact as it is captured when the supply is taken away.
Released     == ReleaseSamples(plan.release_max * 2, device.set)
ReleaseAfter == Samples(device.out + device.set)

\* A falling edge that is found is where the device put it, to the sample.
LEMMA ReleaseEdge ==
  ASSUME TimesTyped
  PROVE  /\ Released \in Traces
         /\ ReleaseAfter \in Nat /\ Ticks(ReleaseAfter) \in Int
         /\ Ticks(ReleaseAfter) =< device.out + device.set
         /\ device.out + device.set < Ticks(ReleaseAfter) + Sample
         /\ FallingEdge(Released) = Inf \/ FallingEdge(Released) = Ticks(ReleaseAfter)
         /\ FallingEdge(Released) \in Nat
         /\ /\ ReleaseAfter >= 1
            /\ ReleaseAfter < Samples(plan.release_max * 2)
            => /\ FallingEdge(Released) = Ticks(ReleaseAfter)
               /\ FallingEdge(Released) < Inf
  <1> DEFINE after == ReleaseAfter
             gate  == plan.release_max * 2
             trace == Released
             end   == after - 1
  <1>1. gate \in ShortGates /\ gate \in Nat /\ device.out + device.set \in Nat /\ Inf \in Nat
    BY GateFits, Times, Constants
  <1>2. /\ after \in Nat /\ Ticks(after) =< device.out + device.set
        /\ device.out + device.set < Ticks(after) + Sample
    BY <1>1, SamplesBound DEF ReleaseAfter
  <1>3. Ticks(after) \in Nat
    <2>1. Ticks(0) =< Ticks(after) /\ Ticks(after) \in Int
      BY TicksOrder, TicksAdd, <1>2
    <2> QED BY <2>1, TicksZero
  <1>4. trace = Render(gate, 0 .. end)
    BY DEF Released, ReleaseSamples, ReleaseAfter
  <1>5. Samples(gate) \in Nat
    BY <1>1, SamplesBound
  <1> HIDE DEF gate
  <1>6. /\ trace \in Seq(BOOLEAN)
        /\ Len(trace) = (IF Samples(gate) >= 1 THEN Samples(gate) ELSE 1)
        /\ Len(trace) \in Nat /\ Len(trace) < Inf /\ Ticks(Len(trace)) < Inf
        /\ DOMAIN trace = 1 .. Len(trace)
        /\ \A i \in 1 .. Len(trace) :
              /\ i - 1 \in 0 .. end => trace[i] = TRUE
              /\ i - 1 \notin 0 .. end => trace[i] = FALSE
    BY <1>1, <1>4, RenderedLength
  <1> HIDE DEF trace, after, end
  <1>7. trace \in Traces
    BY <1>5, <1>6 DEF Traces
  <1>8. IsPulse(trace, 0, end) /\ end \in Int /\ end = after - 1
    BY <1>2, <1>6 DEF IsPulse, end
  <1>9. ASSUME 1 =< after
        PROVE  First(trace, FALSE, 1) = IF after + 1 =< Len(trace) THEN after + 1 ELSE Inf
    <2>1. First(trace, FALSE, 0 + 1) = IF end + 2 =< Len(trace) THEN end + 2 ELSE Inf
      <3>1. 0 =< end /\ 0 \in Nat
        BY <1>2, <1>8, <1>9
      <3> QED BY <1>7, <1>8, <3>1, PulseFalls
    <2>2. 0 + 1 = 1 /\ end + 2 = after + 1
      BY <1>2, <1>8
    <2> QED BY <2>1, <2>2
  <1>10. 1 \in 1 .. Len(trace) /\ Len(trace) \in Nat
    BY <1>5, <1>6
  <1>11. ASSUME ~IsFlat(trace), trace[1] PROVE 1 =< after
    <2>1. ASSUME after = 0 PROVE FALSE
      <3>1. 1 - 1 \notin 0 .. end
        BY <1>8, <2>1
      <3>2. trace[1] = FALSE
        BY <1>6, <1>10, <3>1
      <3> QED BY <1>11, <3>2
    <2> QED BY <1>2, <2>1
  <1>12. FallingEdge(trace) = Inf \/ FallingEdge(trace) = Ticks(after)
    <2>1. CASE IsFlat(trace) \/ ~trace[1]
      BY <2>1 DEF FallingEdge
    <2>2. CASE ~IsFlat(trace) /\ trace[1]
      <3>1. 1 =< after /\ FallingEdge(trace) = Time(First(trace, FALSE, 1))
        BY <1>11, <2>2 DEF FallingEdge
      <3>2. CASE after + 1 =< Len(trace)
        <4>1. First(trace, FALSE, 1) = after + 1
          BY <1>9, <3>1, <3>2
        <4>2. after + 1 < Inf
          BY <1>2, <1>6, <3>2, Constants
        <4>3. Time(after + 1) = Ticks(after)
          BY <1>2, <4>2, TimeOfSample
        <4> QED BY <3>1, <4>1, <4>3
      <3>3. CASE ~(after + 1 =< Len(trace))
        BY <1>9, <3>1, <3>3 DEF Time
      <3> QED BY <3>2, <3>3
    <2>3. (IsFlat(trace) \/ ~trace[1]) \/ (~IsFlat(trace) /\ trace[1])
      BY Zenon
    <2> QED BY <2>1, <2>2, <2>3, Zenon
  <1>13. ASSUME after >= 1, after < Samples(gate)
         PROVE  FallingEdge(trace) = Ticks(after) /\ Ticks(after) < Inf
    <2>1. /\ 1 \in 1 .. Len(trace) /\ after + 1 \in 1 .. Len(trace) /\ after < Len(trace)
          /\ 1 - 1 \in 0 .. end /\ after + 1 - 1 \notin 0 .. end
          /\ after + 1 =< Len(trace) /\ 1 =< after
      BY <1>2, <1>5, <1>6, <1>8, <1>10, <1>13
    <2>a. trace[1] = TRUE
      BY <1>6, <2>1, Zenon
    <2>b. trace[after + 1] = FALSE
      <3>1. after + 1 \in 1 .. Len(trace) /\ after + 1 - 1 \notin 0 .. end
        BY <2>1
      <3>2. trace \in Seq(BOOLEAN) /\ after \in Nat /\ end \in Int
        BY <1>2, <1>6, <1>8
      <3> QED BY <1>8, <3>1, <3>2 DEF IsPulse
    <2>2. trace[1] = TRUE /\ trace[after + 1] = FALSE
      BY <2>a, <2>b
    <2>3. ~IsFlat(trace) /\ trace[1]
      BY <1>6, <2>1, <2>2 DEF IsFlat
    <2>4. First(trace, FALSE, 1) = after + 1
      BY <1>9, <2>1
    <2>5. FallingEdge(trace) = Time(after + 1)
      BY <2>3, <2>4 DEF FallingEdge
    <2>6. Time(after + 1) = Ticks(after)
      <3>1. after + 1 < Inf
        BY <1>1, <1>2, <1>6, <2>1
      <3> QED BY <1>2, <3>1, TimeOfSample
    <2>7. Ticks(after) < Ticks(Len(trace)) /\ Ticks(Len(trace)) \in Int
      BY <1>2, <1>10, <2>1, TicksOrder, TicksAdd
    <2> QED BY <1>1, <1>3, <1>6, <2>5, <2>6, <2>7
  <1> QED BY <1>1, <1>2, <1>3, <1>7, <1>12, <1>13 DEF trace, after, gate

-----------------------------------------------------------------------------
(* What is published, as a function of the device and the plan.              *)

PinEdge     == RisingEdge(Digital(0))
ContactEdge == RisingEdge(Digital(device.set))
Gap         == IF Inf \in {PinEdge, ContactEdge} THEN Inf ELSE ContactEdge - PinEdge
Width       == PulseWidth(Digital(device.set))
Fall        == FallingEdge(Released)

InWindow      == TimingOk(PinEdge, plan.detect_min, plan.detect_max)
DetectionStep == Step(PinEdge, InWindow)
LineInStep    == Step(ContactEdge, InWindow)
SetStep       == Step(Gap, TimingOk(Gap, 0, plan.set_max))
TotalStep     == Step(ContactEdge, ContactEdge < Inf)
HoldStep      == Step(Width, Width >= plan.hold_min)
ReleaseStep   == Step(Fall, TimingOk(Fall, 0, plan.release_max))

LEMMA StepFields ==
  ASSUME NEW measured, NEW ok
  PROVE  Step(measured, ok).measured = measured /\ Step(measured, ok).ok = ok
  BY DEF Step

\* The fields of each outcome.
LEMMA Published ==
  /\ DetectionStep.measured = PinEdge /\ SetStep.measured = Gap
  /\ LineInStep.measured = ContactEdge /\ LineInStep.ok = DetectionStep.ok
  /\ TotalStep.measured = ContactEdge /\ HoldStep.measured = Width
  /\ ReleaseStep.measured = Fall
  /\ DetectionStep.ok = InWindow
  /\ SetStep.ok = TimingOk(Gap, 0, plan.set_max)
  /\ TotalStep.ok = (ContactEdge < Inf)
  /\ HoldStep.ok = (Width >= plan.hold_min)
  /\ ReleaseStep.ok = TimingOk(Fall, 0, plan.release_max)
  BY StepFields, Zenon DEF DetectionStep, LineInStep, SetStep, TotalStep, HoldStep, ReleaseStep

\* The contact follows the pin.
LEMMA ContactFollows ==
  ASSUME TimesTyped
  PROVE  /\ Ticks(Rise(0)) =< Ticks(Rise(device.set))
         /\ Gap \in Nat
         /\ Gap = Inf \/ (/\ tripped /\ Gap < Inf
                          /\ Gap = Ticks(Rise(device.set)) - Ticks(Rise(0)))
  <1>1. /\ Rise(0) \in Nat /\ Ticks(Rise(0)) \in Nat
        /\ Ticks(Rise(0)) =< device.detect + 0
        /\ PinEdge \in Nat
        /\ PinEdge = Inf \/ (tripped /\ PinEdge = Ticks(Rise(0)) /\ PinEdge < Inf)
    BY DigitalEdge DEF PinEdge
  <1>2. device.set \in Nat /\ device.detect \in Nat /\ Inf \in Nat /\ Sample \in Nat
    BY Times, Constants
  <1>3. /\ Rise(device.set) \in Nat /\ Ticks(Rise(device.set)) \in Nat
        /\ device.detect + device.set < Ticks(Rise(device.set)) + Sample
        /\ ContactEdge \in Nat
        /\ ContactEdge = Inf
             \/ (tripped /\ ContactEdge = Ticks(Rise(device.set)) /\ ContactEdge < Inf)
    BY <1>2, DigitalEdge DEF ContactEdge
  <1>4. Ticks(Rise(0)) =< Ticks(Rise(device.set))
    <2>1. Ticks(Rise(0)) < Ticks(Rise(device.set)) + Sample
      BY <1>1, <1>2, <1>3
    <2>2. Rise(device.set) + 1 \in Int
          /\ Ticks(Rise(device.set) + 1) = Ticks(Rise(device.set)) + Sample
      <3>1. Rise(device.set) \in Int /\ Rise(device.set) + 1 \in Int
        BY <1>3
      <3> QED BY <3>1, TicksAdd
    <2>3. Rise(0) < Rise(device.set) + 1
      BY <1>1, <2>1, <2>2, TicksOrder
    <2>4. Rise(0) =< Rise(device.set)
      BY <1>1, <1>3, <2>3
    <2> QED BY <1>1, <1>3, <2>4, TicksOrder
  <1>5. CASE Inf \in {PinEdge, ContactEdge}
    BY <1>2, <1>4, <1>5 DEF Gap
  <1>6. CASE Inf \notin {PinEdge, ContactEdge}
    <2>1. /\ tripped /\ PinEdge = Ticks(Rise(0)) /\ ContactEdge = Ticks(Rise(device.set))
          /\ ContactEdge < Inf
      BY <1>1, <1>3, <1>6
    <2>2. Gap = Ticks(Rise(device.set)) - Ticks(Rise(0))
      BY <1>6, <2>1 DEF Gap
    <2> QED BY <1>1, <1>2, <1>3, <1>4, <2>1, <2>2
  <1> QED BY <1>5, <1>6

\* What is published has the types of a measurement.
LEMMA OutcomesTyped ==
  ASSUME TimesTyped
  PROVE  /\ DetectionStep.measured \in Nat /\ DetectionStep.ok \in BOOLEAN
         /\ LineInStep.measured \in Nat /\ LineInStep.ok \in BOOLEAN
         /\ SetStep.measured \in Nat /\ SetStep.ok \in BOOLEAN
         /\ TotalStep.measured \in Nat /\ TotalStep.ok \in BOOLEAN
         /\ device.detector = "latched" => HoldStep.measured \in Nat
         /\ HoldStep.ok \in BOOLEAN
         /\ ReleaseStep.measured \in Nat /\ ReleaseStep.ok \in BOOLEAN
  <1>1. device.set \in Nat
    BY Times
  <1>2. PinEdge \in Nat /\ ContactEdge \in Nat
    BY <1>1, DigitalEdge DEF PinEdge, ContactEdge
  <1>3. Gap \in Nat
    BY ContactFollows
  <1>4. device.detector = "latched" => Width \in Nat
    BY <1>1, DigitalWidth DEF Width
  <1>5. Fall \in Nat
    BY ReleaseEdge DEF Fall
  <1>6. /\ InWindow \in BOOLEAN
        /\ TimingOk(Gap, 0, plan.set_max) \in BOOLEAN
        /\ TimingOk(Fall, 0, plan.release_max) \in BOOLEAN
    BY DEF TimingOk, InWindow
  <1>7. (ContactEdge < Inf) \in BOOLEAN /\ (Width >= plan.hold_min) \in BOOLEAN
    OBVIOUS
  <1>8. /\ DetectionStep.measured \in Nat /\ SetStep.measured \in Nat
        /\ TotalStep.measured \in Nat /\ ReleaseStep.measured \in Nat
        /\ LineInStep.measured \in Nat
        /\ device.detector = "latched" => HoldStep.measured \in Nat
    BY <1>2, <1>3, <1>4, <1>5, Published
  <1>9. DetectionStep.ok \in BOOLEAN /\ LineInStep.ok \in BOOLEAN
    BY <1>6, Published, Zenon
  <1>10. SetStep.ok \in BOOLEAN
    BY <1>6, Published, Zenon
  <1>11. ReleaseStep.ok \in BOOLEAN
    BY <1>6, Published, Zenon
  <1>12. TotalStep.ok \in BOOLEAN /\ HoldStep.ok \in BOOLEAN
    BY <1>7, Published, Zenon
  <1> QED BY <1>8, <1>9, <1>10, <1>11, <1>12

\* An outcome that is ok tells the truth about the device.
LEMMA TrueOutcomes ==
  ASSUME TimesTyped
  PROVE  /\ DetectionStep.ok => /\ tripped /\ plan.detect_min =< device.detect
                                /\ device.detect < plan.detect_max + Sample
         /\ SetStep.ok => tripped /\ device.set < plan.set_max + Sample
         /\ TotalStep.ok => tripped
         /\ device.detector = "latched" /\ HoldStep.ok /\ plan.hold_min > 0
              => tripped /\ device.hold >= plan.hold_min
         /\ ReleaseStep.ok => device.out + device.set < plan.release_max + Sample
  <1>1. /\ device.set \in Nat /\ device.detect \in Nat /\ device.hold \in Nat
        /\ device.out \in Nat /\ Inf \in Nat /\ Sample \in Nat
        /\ plan.detect_min \in Nat /\ plan.detect_max \in Nat /\ plan.set_max \in Nat
        /\ plan.hold_min \in Nat /\ plan.release_max \in Nat
    BY Times, Constants
  <1>2. /\ Ticks(Rise(0)) \in Nat
        /\ Ticks(Rise(0)) =< device.detect /\ device.detect < Ticks(Rise(0)) + Sample
        /\ PinEdge = Inf \/ (tripped /\ PinEdge = Ticks(Rise(0)) /\ PinEdge < Inf)
    <2>1. device.detect + 0 = device.detect
      BY <1>1
    <2> QED BY <2>1, DigitalEdge DEF PinEdge
  <1>3. /\ Ticks(Rise(device.set)) \in Nat
        /\ Ticks(Rise(device.set)) =< device.detect + device.set
        /\ device.detect + device.set < Ticks(Rise(device.set)) + Sample
        /\ ContactEdge = Inf
             \/ (tripped /\ ContactEdge = Ticks(Rise(device.set)) /\ ContactEdge < Inf)
        /\ RisingIndex(Digital(device.set)) = Inf \/ tripped
    BY <1>1, DigitalEdge DEF ContactEdge
  <1>4. ASSUME DetectionStep.ok
        PROVE  /\ tripped /\ plan.detect_min =< device.detect
               /\ device.detect < plan.detect_max + Sample
    <2>1. PinEdge < Inf /\ plan.detect_min =< PinEdge /\ PinEdge =< plan.detect_max
      BY <1>4, Published DEF TimingOk, InWindow
    <2>2. tripped /\ PinEdge = Ticks(Rise(0))
      BY <1>1, <1>2, <2>1
    <2> QED BY <1>1, <1>2, <2>1, <2>2
  <1>5. ASSUME SetStep.ok
        PROVE  tripped /\ device.set < plan.set_max + Sample
    <2>1. Gap < Inf /\ Gap =< plan.set_max
      BY <1>5, Published DEF TimingOk
    <2>2. tripped /\ Gap = Ticks(Rise(device.set)) - Ticks(Rise(0))
      BY <1>1, <2>1, ContactFollows
    <2> QED BY <1>1, <1>2, <1>3, <2>1, <2>2
  <1>6. ASSUME TotalStep.ok PROVE tripped
    <2>1. ContactEdge < Inf
      BY <1>6, Published
    <2> QED BY <1>1, <1>3, <2>1
  <1>7. ASSUME device.detector = "latched", HoldStep.ok, plan.hold_min > 0
        PROVE  tripped /\ device.hold >= plan.hold_min
    <2>1. Width >= plan.hold_min
      BY <1>7, Published
    <2>2. /\ Width \in Nat /\ Width =< Ticks(Samples(device.hold))
          /\ Ticks(Samples(device.hold)) =< device.hold
          /\ RisingIndex(Digital(device.set)) = Inf => Width = 0
          /\ Samples(device.hold) \in Nat
      BY <1>1, <1>7, DigitalWidth DEF Width
    <2>3. Ticks(Samples(device.hold)) \in Int
      BY <2>2, TicksAdd
    <2>4. device.hold >= plan.hold_min
      BY <1>1, <2>1, <2>2, <2>3
    <2>5. Width # 0
      BY <1>1, <1>7, <2>1
    <2>6. tripped
      BY <1>3, <2>2, <2>5
    <2> QED BY <2>4, <2>6
  <1>8. ASSUME ReleaseStep.ok
        PROVE  device.out + device.set < plan.release_max + Sample
    <2>1. Fall < Inf /\ Fall =< plan.release_max
      BY <1>8, Published DEF TimingOk
    <2>2. /\ Ticks(ReleaseAfter) \in Int /\ Fall \in Nat
          /\ device.out + device.set < Ticks(ReleaseAfter) + Sample
          /\ Fall = Inf \/ Fall = Ticks(ReleaseAfter)
      BY ReleaseEdge DEF Fall
    <2> QED BY <1>1, <2>1, <2>2
  <1> QED BY <1>4, <1>5, <1>6, <1>7, <1>8

\* A device that is late by less than the margin still shows its edge.
LEMMA LateOutcome ==
  ASSUME TimesTyped, tripped, device.detect + Sample =< Latest + GateMargin,
         device.detector = "latched" => Sample =< device.hold, Sample =< device.detect
  PROVE  /\ DetectionStep.measured < Inf /\ PinEdge = Ticks(Rise(0)) /\ Rise(0) >= 1
         /\ RisingIndex(Digital(0)) < Inf
  <1>1. device.detect + 0 + Sample =< CaptureGate
    <2>1. /\ CaptureGate = Latest + plan.hold_min + GateMargin /\ Latest \in Nat
          /\ plan.hold_min \in Nat /\ GateMargin \in Nat /\ device.detect \in Nat
          /\ Sample \in Nat
      BY GateFits, Times, Constants
    <2> QED BY <2>1
  <1>2. 0 \in Nat
    OBVIOUS
  <1> QED BY <1>1, <1>2, DigitalEdgeFound, Published DEF PinEdge

\* One whose relay is done within the margin still shows that of its contact.
LEMMA LateContact ==
  ASSUME TimesTyped, tripped, device.detect + device.set + Sample =< Latest + GateMargin,
         device.detector = "latched" => Sample =< device.hold, Sample =< device.detect
  PROVE  LineInStep.measured < Inf
  <1>1. device.set \in Nat /\ device.detect + device.set + Sample =< CaptureGate
    <2>1. /\ CaptureGate = Latest + plan.hold_min + GateMargin /\ Latest \in Nat
          /\ plan.hold_min \in Nat /\ GateMargin \in Nat /\ device.detect \in Nat
          /\ device.set \in Nat /\ Sample \in Nat
      BY GateFits, Times, Constants
    <2> QED BY <2>1
  <1> QED BY <1>1, DigitalEdgeFound, Published DEF ContactEdge

\* What a device that trips in time, with a relay that follows within the
\* margin, shows of its contact.
LEMMA ContactShown ==
  ASSUME TimesTyped, tripped, Sample =< device.detect, Sample =< device.hold,
         device.set =< GateMargin - Sample, device.detect =< Latest
  PROVE  /\ ContactEdge = Ticks(Rise(device.set)) /\ ContactEdge < Inf
         /\ RisingIndex(Digital(device.set)) < Inf
         /\ PinEdge = Ticks(Rise(0)) /\ PinEdge < Inf
  <1>1. /\ CaptureGate = Latest + plan.hold_min + GateMargin /\ Latest \in Nat
        /\ plan.hold_min \in Nat /\ GateMargin \in Nat /\ device.detect \in Nat
        /\ Sample \in Nat /\ device.set \in Nat /\ Sample =< GateMargin
    BY GateFits, Times, Constants
  <1>2. device.detect + device.set + Sample =< CaptureGate
    BY <1>1
  <1>3. device.detect + Sample =< Latest + GateMargin
    BY <1>1
  <1>4. PinEdge = Ticks(Rise(0)) /\ PinEdge < Inf
    BY <1>3, LateOutcome, Published
  <1>5. /\ ContactEdge = Ticks(Rise(device.set)) /\ ContactEdge < Inf
        /\ RisingIndex(Digital(device.set)) < Inf
    BY <1>1, <1>2, DigitalEdgeFound DEF ContactEdge
  <1> QED BY <1>4, <1>5

\* A device that keeps its limits with a sample to spare is passed.
LEMMA GoodOutcomes ==
  ASSUME TimesTyped, tripped,
         Sample =< device.detect, Sample =< device.set, Sample =< device.hold
  PROVE  /\ /\ plan.detect_min + Sample =< device.detect
            /\ device.detect =< plan.detect_max /\ device.detect =< Latest
            => DetectionStep.ok
         /\ device.set =< GateMargin - Sample /\ device.detect =< Latest => TotalStep.ok
         /\ /\ device.set + Sample =< plan.set_max
            /\ device.set =< GateMargin - Sample /\ device.detect =< Latest
            => SetStep.ok
         /\ /\ device.detector = "latched" /\ device.hold >= plan.hold_min + Sample
            /\ device.set =< GateMargin - Sample /\ device.detect =< Latest
            => HoldStep.ok
         /\ /\ device.out + device.set =< plan.release_max /\ plan.release_max >= Sample
            => ReleaseStep.ok
  <1>1. /\ device.set \in Nat /\ device.detect \in Nat /\ device.hold \in Nat
        /\ device.out \in Nat /\ Inf \in Nat /\ Sample \in Nat /\ Sample >= 1
        /\ GateMargin \in Nat /\ Sample =< GateMargin
        /\ plan.detect_min \in Nat /\ plan.detect_max \in Nat /\ plan.set_max \in Nat
        /\ plan.hold_min \in Nat /\ plan.release_max \in Nat
    BY Times, Constants
  <1>2. /\ Rise(0) \in Nat /\ Ticks(Rise(0)) \in Nat
        /\ Ticks(Rise(0)) =< device.detect /\ device.detect < Ticks(Rise(0)) + Sample
    <2>1. device.detect + 0 = device.detect
      BY <1>1
    <2> QED BY <2>1, DigitalEdge
  <1>3. /\ Rise(device.set) \in Nat /\ Ticks(Rise(device.set)) \in Nat
        /\ Ticks(Rise(device.set)) =< device.detect + device.set
        /\ device.detect + device.set < Ticks(Rise(device.set)) + Sample
    BY <1>1, DigitalEdge
  <1>4. ASSUME plan.detect_min + Sample =< device.detect, device.detect =< plan.detect_max,
               device.detect =< Latest
        PROVE  DetectionStep.ok
    <2>1. device.detect + Sample =< Latest + GateMargin
      <3>1. Latest \in Nat
        BY GateFits
      <3> QED BY <1>1, <1>4, <3>1
    <2>2. PinEdge = Ticks(Rise(0)) /\ PinEdge < Inf
      BY <2>1, LateOutcome, Published
    <2>3. PinEdge > 0 /\ plan.detect_min =< PinEdge /\ PinEdge =< plan.detect_max
      BY <1>1, <1>2, <1>4, <2>2
    <2> QED BY <2>2, <2>3, Published DEF TimingOk, InWindow
  <1>5. ASSUME device.set =< GateMargin - Sample, device.detect =< Latest
        PROVE  TotalStep.ok
    BY <1>5, ContactShown, Published
  <1>6. ASSUME device.set + Sample =< plan.set_max,
               device.set =< GateMargin - Sample, device.detect =< Latest
        PROVE  SetStep.ok
    <2>1. /\ PinEdge = Ticks(Rise(0)) /\ PinEdge < Inf
          /\ ContactEdge = Ticks(Rise(device.set)) /\ ContactEdge < Inf
      BY <1>6, ContactShown
    <2>2. Gap = Ticks(Rise(device.set)) - Ticks(Rise(0))
      <3>1. Inf \notin {PinEdge, ContactEdge}
        BY <1>1, <1>2, <1>3, <2>1
      <3> QED BY <2>1, <3>1 DEF Gap
    <2>3. Gap > 0
      <3>2. Rise(0) < Rise(device.set)
        <4>1. Rise(0) + 1 \in Int /\ Ticks(Rise(0) + 1) = Ticks(Rise(0)) + Sample
          <5>1. Rise(0) \in Int /\ Rise(0) + 1 \in Int
            BY <1>2
          <5> QED BY <5>1, TicksAdd
        <4>2. Rise(device.set) + 1 \in Int
              /\ Ticks(Rise(device.set) + 1) = Ticks(Rise(device.set)) + Sample
          <5>1. Rise(device.set) \in Int /\ Rise(device.set) + 1 \in Int
            BY <1>3
          <5> QED BY <5>1, TicksAdd
        <4>3. Ticks(Rise(0) + 1) < Ticks(Rise(device.set) + 1)
          BY <1>1, <1>2, <1>3, <4>1, <4>2
        <4>4. Rise(0) + 1 < Rise(device.set) + 1
          BY <4>1, <4>2, <4>3, TicksOrder
        <4> QED BY <1>2, <1>3, <4>4
      <3>3. Ticks(Rise(0)) < Ticks(Rise(device.set))
        BY <1>2, <1>3, <3>2, TicksOrder
      <3> QED BY <1>2, <1>3, <2>2, <3>3
    <2>4. 0 =< Gap /\ Gap =< plan.set_max /\ Gap < Inf
      BY <1>1, <1>2, <1>3, <1>6, <2>1, <2>2, <2>3
    <2> QED BY <2>3, <2>4, Published DEF TimingOk
  <1>7. ASSUME device.detector = "latched", device.hold >= plan.hold_min + Sample,
               device.set =< GateMargin - Sample, device.detect =< Latest
        PROVE  HoldStep.ok
    <2>1. RisingIndex(Digital(device.set)) # Inf
      BY <1>1, <1>7, ContactShown
    <2>2. /\ Samples(device.hold) \in Nat
          /\ device.hold < Ticks(Samples(device.hold)) + Sample
          /\ \/ Width = Ticks(Samples(device.hold))
             \/ Width = Ticks(Samples(CaptureGate)) - Ticks(Rise(device.set))
      BY <1>1, <1>7, <2>1, DigitalWidth DEF Width
    <2>3. /\ CaptureGate = Latest + plan.hold_min + GateMargin /\ Latest \in Nat
          /\ CaptureGate < Ticks(Samples(CaptureGate)) + Sample
          /\ Samples(CaptureGate) \in Nat
      BY GateFits
    <2>4. Ticks(Samples(device.hold)) \in Int /\ Ticks(Samples(CaptureGate)) \in Int
      BY <2>2, <2>3, TicksAdd
    <2>5. Width >= plan.hold_min
      BY <1>1, <1>3, <1>7, <2>2, <2>3, <2>4
    <2> QED BY <2>5, Published
  <1>8. ASSUME device.out + device.set =< plan.release_max, plan.release_max >= Sample
        PROVE  ReleaseStep.ok
    <2>1. /\ ReleaseAfter \in Nat /\ Ticks(ReleaseAfter) \in Int
          /\ Ticks(ReleaseAfter) =< device.out + device.set
          /\ device.out + device.set < Ticks(ReleaseAfter) + Sample
      BY ReleaseEdge
    <2>2. Ticks(ReleaseAfter) > 0
      BY <1>1, <2>1
    <2>3. ReleaseAfter >= 1
      BY <2>1, <2>2, TicksZero
    <2>4. ReleaseAfter < Samples(plan.release_max * 2)
      <3>1. plan.release_max * 2 \in Nat
        BY <1>1
      <3>2. /\ Samples(plan.release_max * 2) \in Nat
            /\ plan.release_max * 2 < Ticks(Samples(plan.release_max * 2)) + Sample
        BY <3>1, SamplesBound
      <3>3. Ticks(Samples(plan.release_max * 2)) \in Int
        BY <3>2, TicksAdd
      <3>4. Ticks(ReleaseAfter) < Ticks(Samples(plan.release_max * 2))
        BY <1>1, <1>8, <2>1, <3>2, <3>3
      <3> QED BY <2>1, <3>2, <3>4, TicksOrder
    <2>5. Fall = Ticks(ReleaseAfter) /\ Fall < Inf
      BY <2>3, <2>4, ReleaseEdge DEF Fall
    <2>6. Fall > 0 /\ 0 =< Fall /\ Fall =< plan.release_max
      BY <1>1, <1>8, <2>1, <2>2, <2>5
    <2> QED BY <2>5, <2>6, Published DEF TimingOk
  <1> QED BY <1>4, <1>5, <1>6, <1>7, <1>8

-----------------------------------------------------------------------------
(* The inductive invariant.                                                  *)

\* A trace that has been captured is the one the device makes, and the contact
\* is captured after the pin.
TracesOK ==
  /\ pin = NoTrace \/ pin = Digital(0)
  /\ contact = NoTrace \/ (pin # NoTrace /\ contact = Digital(device.set))
  /\ release = NoTrace \/ release = Released

\* An outcome that has been published is the one the code computes from them.
StepsOK ==
  /\ DOMAIN steps \subseteq Checks
  /\ "detection" \in DOMAIN steps => steps["detection"] = DetectionStep
  /\ "line-in" \in DOMAIN steps => steps["line-in"] = LineInStep
  /\ "relay set" \in DOMAIN steps => steps["relay set"] = SetStep
  /\ "total" \in DOMAIN steps => steps["total"] = TotalStep
  /\ "hold" \in DOMAIN steps => steps["hold"] = HoldStep /\ device.detector = "latched"
  /\ "release" \in DOMAIN steps => steps["release"] = ReleaseStep

\* Nothing is timed before the stimulus that is timed.
Untimed ==
  /\ pin = NoTrace /\ contact = NoTrace /\ release = NoTrace
  /\ steps = <<>>

TripStages == {"energise", "below", "above", "drive", "off"}
LineStages == {"dead", "pick-up", "hysteresis", "drop-out", "line-in", "hole",
               "remove", "release"}
EarlyStages == {"calibrate", "energise", "below", "above", "drive", "dead", "pick-up",
                "hysteresis", "drop-out", "line-in"}

StageOK ==
  /\ stage \in TripStages => spec \in TripRows
  /\ stage \in LineStages => spec \in LineRows
  /\ stage = "time" => spec \in TripRows \cup LineRows
  /\ stage = "points" => spec \in AnalogRows
  /\ stage \in EarlyStages => Untimed

BenchOK ==
  bench \in [kv: Int, supplied: BOOLEAN, square: Nat, injected: BOOLEAN,
             latched: BOOLEAN, dropped: BOOLEAN]

\* No case leaves its calibration without the paths it needs, and none has
\* switched anything on before.
PathsOK ==
  IF stage \in {"calibrate", "raised"}
  THEN said = {} /\ ~bench.supplied /\ ~bench.injected
  ELSE Needed \subseteq dut.paths

\* The two looks at the bracket compare what was driven with the trip point.
TripsAt(amps) == AtLeast(Square(spec.quantity, amps), TripSquare, "device")

BracketOK ==
  \A outcome \in said :
    /\ outcome.check = "below" => spec \in TripRows /\ (outcome.ok <=> ~TripsAt(BelowWindow))
    /\ outcome.check = "above" => spec \in TripRows /\ (outcome.ok <=> TripsAt(AboveWindow))

\* The points of an analog case are judged once each and in their order.
OffBy(kv)    == Equivalent(kv) - Applied(kv)
Point(nth)   == [check |-> "point", at |-> nth,
                 ok |-> PointOk(Applied(spec.points[nth]), OffBy(spec.points[nth]))]
PointsTo(n)  == {Point(nth) : nth \in 1 .. n}

PointsOK ==
  spec \in AnalogRows =>
    /\ stage \in {"calibrate", "raised", "points", "done"}
    /\ IsFiniteSet(said) /\ Cardinality(said) =< Len(spec.points)
    /\ said = PointsTo(Cardinality(said))
    /\ stage = "done" => Cardinality(said) = Len(spec.points)
    /\ stage # "raised" => spec.points # <<>>

Inv ==
  /\ TimesTyped /\ spec \in Rows /\ dut \in DutsUnderTest
  /\ stage \in Stages /\ pickup \in Nat \cup {NaN} /\ said \subseteq Outcomes
  /\ TracesOK /\ StepsOK /\ StageOK /\ BenchOK /\ PathsOK /\ BracketOK /\ PointsOK

-----------------------------------------------------------------------------
(* What the invariant says.                                                  *)

LEMMA TimedTypes ==
  ASSUME TimesTyped, TracesOK, StepsOK
  PROVE  TimingTypeOK
  <1>1. <<>> \in Seq(BOOLEAN)
    OBVIOUS
  <1>2. Digital(0) \in Seq(BOOLEAN) /\ Digital(device.set) \in Seq(BOOLEAN)
        /\ Released \in Seq(BOOLEAN)
    <2>1. 0 \in Nat /\ device.set \in Nat
      BY Times
    <2> QED BY <2>1, DigitalPulse, ReleaseEdge DEF Digital, Traces
  <1>3. pin \in Seq(BOOLEAN) /\ contact \in Seq(BOOLEAN) /\ release \in Seq(BOOLEAN)
    BY <1>1, <1>2 DEF TracesOK, NoTrace
  <1>4. ASSUME NEW check \in DOMAIN steps
        PROVE  steps[check].ok \in BOOLEAN /\ steps[check].measured \in Nat
    <2>1. check \in Checks
      BY <1>4 DEF StepsOK
    <2>2. CASE check = "detection"
      BY <1>4, <2>2, OutcomesTyped DEF StepsOK
    <2>7. CASE check = "line-in"
      BY <1>4, <2>7, OutcomesTyped DEF StepsOK
    <2>3. CASE check = "relay set"
      BY <1>4, <2>3, OutcomesTyped DEF StepsOK
    <2>4. CASE check = "total"
      BY <1>4, <2>4, OutcomesTyped DEF StepsOK
    <2>5. CASE check = "hold"
      BY <1>4, <2>5, OutcomesTyped DEF StepsOK
    <2>6. CASE check = "release"
      BY <1>4, <2>6, OutcomesTyped DEF StepsOK
    <2> QED BY <2>1, <2>2, <2>3, <2>4, <2>5, <2>6, <2>7 DEF Checks
  <1> QED BY <1>3, <1>4 DEF TimingTypeOK, TimesTyped, StepsOK

LEMMA InvTypes == Inv => TypeOK
  <1> SUFFICES ASSUME Inv PROVE TypeOK
    OBVIOUS
  <1>1. TimingTypeOK
    BY TimedTypes DEF Inv
  <1> QED BY <1>1 DEF Inv, TypeOK, BenchOK

LEMMA InvPassIsTrue == Inv => PassIsTrue
  <1> SUFFICES ASSUME Inv PROVE PassIsTrue
    OBVIOUS
  <1>1. TimesTyped /\ StepsOK
    BY DEF Inv
  <1>2. Passed("detection") \/ Passed("line-in") => DetectionStep.ok
    BY <1>1, Published DEF Passed, StepsOK
  <1>3. Passed("relay set") => SetStep.ok
    BY <1>1 DEF Passed, StepsOK
  <1>4. Passed("total") => TotalStep.ok
    BY <1>1 DEF Passed, StepsOK
  <1>5. Passed("hold") => HoldStep.ok /\ device.detector = "latched"
    BY <1>1 DEF Passed, StepsOK
  <1>6. Passed("release") => ReleaseStep.ok
    BY <1>1 DEF Passed, StepsOK
  <1> HIDE DEF Inv
  <1> QED BY <1>1, <1>2, <1>3, <1>4, <1>5, <1>6, TrueOutcomes DEF PassIsTrue

LEMMA InvGoodDevicePasses == Inv => GoodDevicePasses
  <1> SUFFICES ASSUME Inv, tripped,
                      \A time \in {device.detect, device.set, device.hold} : Sample =< time
               PROVE  /\ /\ plan.detect_min + Sample =< device.detect
                         /\ device.detect =< plan.detect_max /\ device.detect =< Latest
                         => ~Failed("detection") /\ ~Failed("line-in")
                      /\ device.set =< GateMargin - Sample /\ device.detect =< Latest
                         => ~Failed("total")
                      /\ /\ device.set + Sample =< plan.set_max
                         /\ device.set =< GateMargin - Sample /\ device.detect =< Latest
                         => ~Failed("relay set")
                      /\ /\ device.hold >= plan.hold_min + Sample
                         /\ device.set =< GateMargin - Sample /\ device.detect =< Latest
                         => ~Failed("hold")
                      /\ /\ device.out + device.set =< plan.release_max
                         /\ plan.release_max >= Sample
                         => ~Failed("release")
    BY DEF GoodDevicePasses
  <1>1. TimesTyped /\ StepsOK
    BY DEF Inv
  <1>2. Sample =< device.detect /\ Sample =< device.set /\ Sample =< device.hold
    OBVIOUS
  <1>3. Failed("detection") \/ Failed("line-in") => ~DetectionStep.ok
    BY <1>1, Published DEF Failed, StepsOK
  <1>4. Failed("relay set") => ~SetStep.ok
    BY <1>1 DEF Failed, StepsOK
  <1>5. Failed("total") => ~TotalStep.ok
    BY <1>1 DEF Failed, StepsOK
  <1>6. Failed("hold") => ~HoldStep.ok /\ device.detector = "latched"
    BY <1>1 DEF Failed, StepsOK
  <1>7. Failed("release") => ~ReleaseStep.ok
    BY <1>1 DEF Failed, StepsOK
  <1> QED BY <1>1, <1>2, <1>3, <1>4, <1>5, <1>6, <1>7, GoodOutcomes

LEMMA InvLateIsMeasured == Inv => LateIsMeasured
  <1> SUFFICES ASSUME Inv, tripped, device.detect >= Sample,
                      device.detector = "latched" => device.hold >= Sample
               PROVE  /\ device.detect + Sample =< Latest + GateMargin => Shows("detection")
                      /\ device.detect + device.set + Sample =< Latest + GateMargin
                         => Shows("line-in")
    BY DEF LateIsMeasured
  <1>1. TimesTyped /\ StepsOK
    BY DEF Inv
  <1>2. Sample =< device.detect /\ (device.detector = "latched" => Sample =< device.hold)
    BY <1>1, Times, Constants
  <1>3. device.detect + Sample =< Latest + GateMargin => Shows("detection")
    BY <1>1, <1>2, LateOutcome DEF StepsOK, Shows
  <1>4. device.detect + device.set + Sample =< Latest + GateMargin => Shows("line-in")
    BY <1>1, <1>2, LateContact DEF StepsOK, Shows
  <1> QED BY <1>3, <1>4

LEMMA InvDeadPathNeverGreen == Inv => DeadPathNeverGreen
  BY DEF Inv, PathsOK, DeadPathNeverGreen

\* What the record sets of rows and devices say of their fields.
LEMMA TripRowTyped ==
  ASSUME spec \in TripRows
  PROVE  /\ spec.kind \in {"overcurrent", "harmonic"} /\ spec.quantity \in {"rms", "peak"}
         /\ spec.trigger \in Nat /\ spec.tol \in Nat /\ spec.line_kv \in Int
         /\ spec.drive \in Nat \/ spec.drive = NaN
         /\ BelowWindow \in Int /\ AboveWindow \in Int
  BY DEF TripRows, Quantities, BelowWindow, AboveWindow

LEMMA SquareTyped ==
  ASSUME NEW quantity, NEW amps \in Int
  PROVE  Square(quantity, amps) \in Nat
  <1>1. amps * amps \in Nat
    <2>1. CASE amps >= 0
      BY <2>1
    <2>2. CASE amps < 0
      <3>1. (-amps) * (-amps) >= 0 /\ (-amps) * (-amps) = amps * amps
        BY <2>2
      <3> QED BY <3>1
    <2> QED BY <2>1, <2>2
  <1>2. 2 * amps * amps = amps * amps + amps * amps
    OBVIOUS
  <1> QED BY <1>1, <1>2 DEF Square

LEMMA TripSquareTyped ==
  ASSUME dut \in DutsUnderTest
  PROVE  TripSquare \in Nat
  <1>1. dut.trip \in Int
    BY DEF DutsUnderTest
  <1>2. TripSquare = Square(IF dut.compares = "rms" THEN "rms" ELSE "peak", dut.trip)
    BY DEF TripSquare, Square
  <1> QED BY <1>1, <1>2, SquareTyped

LEMMA InvBracket == Inv => BracketPinsTripPoint
  <1> SUFFICES ASSUME Inv, Claimed("below"), Claimed("above")
               PROVE  /\ Square(spec.quantity, BelowWindow) =< TripSquare
                      /\ TripSquare =< Square(spec.quantity, AboveWindow)
    BY DEF BracketPinsTripPoint, BelowWindow, AboveWindow
  <1>1. PICK low \in said : low.check = "below" /\ low.ok
    BY DEF Claimed
  <1>2. PICK high \in said : high.check = "above" /\ high.ok
    BY DEF Claimed
  <1>3. spec \in TripRows /\ ~TripsAt(BelowWindow) /\ TripsAt(AboveWindow)
    BY <1>1, <1>2 DEF Inv, BracketOK
  <1>4. /\ Square(spec.quantity, BelowWindow) \in Nat
        /\ Square(spec.quantity, AboveWindow) \in Nat /\ TripSquare \in Nat
    BY <1>3, TripRowTyped, SquareTyped, TripSquareTyped DEF Inv
  <1> QED BY <1>3, <1>4 DEF TripsAt, AtLeast

-----------------------------------------------------------------------------
(* Gain and offset.                                                          *)

LEMMA Scale ==
  ASSUME NEW x \in Int, NEW y \in Int, NEW k \in Nat, x =< y
  PROVE  x * k =< y * k
  <1>1. (y - x) * k >= 0
    OBVIOUS
  <1>2. (y - x) * k = y * k - x * k
    OBVIOUS
  <1>3. x * k \in Int /\ y * k \in Int
    OBVIOUS
  <1> QED BY <1>1, <1>2, <1>3

LEMMA AbsIs ==
  ASSUME NEW x \in Int
  PROVE  /\ Abs(x) \in Nat
         /\ Abs(x) = x \/ Abs(x) = -x
  <1>1. Abs(x) = IF x >= -x THEN x ELSE -x
    BY GreatestOfTwo DEF Abs
  <1> QED BY <1>1

\* The whole part of a signal that is off by a ten-thousandth part.
LEMMA Parts ==
  ASSUME NEW signal \in Int
  PROVE  /\ signal \div 10000 \in Int
         /\ 10000 * (signal \div 10000) =< signal
         /\ signal =< 10000 * (signal \div 10000) + 9999
  OBVIOUS

\* A point that is ok is off by a part of itself at most.
Signal(kv, gain) == (kv * gain) \div 10000
Judged(tol, slack, kv, gain, shift) ==
  /\ 100 * (Signal(kv, gain) + shift) =< tol * kv + slack
  /\ -(tol * kv + slack) =< 100 * (Signal(kv, gain) + shift)

LEMMA SignalTyped ==
  ASSUME NEW kv \in Int, NEW gain \in Int
  PROVE  /\ Signal(kv, gain) \in Int
         /\ 10000 * Signal(kv, gain) =< kv * gain
         /\ kv * gain =< 10000 * Signal(kv, gain) + 9999
  <1>1. kv * gain \in Int
    OBVIOUS
  <1> QED BY <1>1, Parts DEF Signal

GainWithin(gain, tol, slack, low, high) ==
  Abs(gain) * (high - low) =< 100 * (tol * (high + low) + 2 * slack) + 10000

\* Two points within a part of themselves bound the gain between them ...
LEMMA GainBound ==
  ASSUME NEW low \in Nat, NEW high \in Nat, low =< high,
         NEW gain \in Int, NEW shift \in Int, NEW tol \in Nat, NEW slack \in Nat,
         Judged(tol, slack, low, gain, shift), Judged(tol, slack, high, gain, shift)
  PROVE  GainWithin(gain, tol, slack, low, high)
  <1> DEFINE u == low * gain
             v == high * gain
             p == tol * low + slack
             q == tol * high + slack
             atLow  == Signal(low, gain)
             atHigh == Signal(high, gain)
  <1>1. u \in Int /\ v \in Int /\ p \in Nat /\ q \in Nat
    OBVIOUS
  <1>2. 100 * (tol * (high + low) + 2 * slack) = 100 * (p + q)
    OBVIOUS
  <1>3. gain * (high - low) = v - u /\ (-gain) * (high - low) = u - v
    OBVIOUS
  <1>4. /\ 10000 * atLow =< u /\ u =< 10000 * atLow + 9999 /\ atLow \in Int
        /\ 10000 * atHigh =< v /\ v =< 10000 * atHigh + 9999 /\ atHigh \in Int
    BY SignalTyped
  <1>5. /\ 100 * (atLow + shift) =< p /\ -p =< 100 * (atLow + shift)
        /\ 100 * (atHigh + shift) =< q /\ -q =< 100 * (atHigh + shift)
    BY DEF Judged
  <1> HIDE DEF u, v, p, q, atLow, atHigh
  <1>6. v - u =< 100 * (p + q) + 10000 /\ u - v =< 100 * (p + q) + 10000
    BY <1>1, <1>4, <1>5
  <1>7. Abs(gain) = gain \/ Abs(gain) = -gain
    BY AbsIs
  <1> QED BY <1>2, <1>3, <1>6, <1>7 DEF GainWithin

\* ... and the offset too: the gain cannot hide it at both.
LEMMA ShiftBound ==
  ASSUME NEW low \in Nat, NEW high \in Nat, low =< high,
         NEW gain \in Int, NEW shift \in Int, NEW tol \in Nat, NEW slack \in Nat,
         Judged(tol, slack, low, gain, shift), Judged(tol, slack, high, gain, shift)
  PROVE  100 * Abs(shift) * (high - low)
           =< 2 * tol * low * high + slack * (high + low) + 100 * high
  <1> DEFINE atLow  == Signal(low, gain)
             atHigh == Signal(high, gain)
             w  == low * gain * high
             q  == tol * low * high
             eh == slack * high
             el == slack * low
             ah == atLow * high
             bl == atHigh * low
             sh == shift * high
             sl == shift * low
  <1>2. /\ 10000 * atLow =< low * gain /\ low * gain =< 10000 * atLow + 9999
        /\ 10000 * atHigh =< high * gain /\ high * gain =< 10000 * atHigh + 9999
        /\ low * gain \in Int /\ high * gain \in Int
        /\ atLow \in Int /\ atHigh \in Int
    BY SignalTyped
  <1>0. /\ 100 * (atLow + shift) =< tol * low + slack
        /\ -(tol * low + slack) =< 100 * (atLow + shift)
        /\ 100 * (atHigh + shift) =< tol * high + slack
        /\ -(tol * high + slack) =< 100 * (atHigh + shift)
    BY DEF Judged
  <1> HIDE DEF atLow, atHigh
  <1>1. w \in Int /\ q \in Int /\ eh \in Int /\ el \in Int /\ ah \in Int /\ bl \in Int /\ sh \in Int /\ sl \in Int
    BY <1>2
  <1>3. 10000 * ah =< w /\ w =< 10000 * ah + 9999 * high
    <2>1. (10000 * atLow) * high =< (low * gain) * high
      BY <1>2, Scale
    <2>2. (low * gain) * high =< (10000 * atLow + 9999) * high
      BY <1>2, Scale
    <2>3. (10000 * atLow) * high = 10000 * ah
          /\ (10000 * atLow + 9999) * high = 10000 * ah + 9999 * high
      BY <1>2
    <2> QED BY <2>1, <2>2, <2>3
  <1>4. 10000 * bl =< w /\ w =< 10000 * bl + 9999 * low
    <2>1. (10000 * atHigh) * low =< (high * gain) * low
      BY <1>2, Scale
    <2>2. (high * gain) * low =< (10000 * atHigh + 9999) * low
      BY <1>2, Scale
    <2>3. (10000 * atHigh) * low = 10000 * bl
          /\ (10000 * atHigh + 9999) * low = 10000 * bl + 9999 * low
          /\ (high * gain) * low = w
      BY <1>2
    <2> QED BY <2>1, <2>2, <2>3
  <1>5. 100 * (ah + sh) =< q + eh /\ -(q + eh) =< 100 * (ah + sh)
    <2> DEFINE within == tol * low + slack
               off    == 100 * (atLow + shift)
    <2>1. within \in Int /\ off \in Int /\ off =< within /\ -within =< off
      BY <1>0, <1>2
    <2>2. off * high = 100 * (ah + sh) /\ within * high = q + eh
          /\ (-within) * high = -(q + eh)
      BY <1>2
    <2> HIDE DEF within, off
    <2>3. off * high =< within * high
      BY <2>1, Scale
    <2>4. (-within) * high =< off * high
      <3>1. -within \in Int
        BY <2>1
      <3> QED BY <2>1, <3>1, Scale
    <2> QED BY <2>2, <2>3, <2>4
  <1>6. 100 * (bl + sl) =< q + el /\ -(q + el) =< 100 * (bl + sl)
    <2> DEFINE within == tol * high + slack
               off    == 100 * (atHigh + shift)
    <2>1. within \in Int /\ off \in Int /\ off =< within /\ -within =< off
      BY <1>0, <1>2
    <2>2. off * low = 100 * (bl + sl) /\ within * low = q + el
          /\ (-within) * low = -(q + el)
      BY <1>2
    <2> HIDE DEF within, off
    <2>3. off * low =< within * low
      BY <2>1, Scale
    <2>4. (-within) * low =< off * low
      <3>1. -within \in Int
        BY <2>1
      <3> QED BY <2>1, <3>1, Scale
    <2> QED BY <2>2, <2>3, <2>4
  <1>7. /\ 100 * shift * (high - low) = 100 * (sh - sl)
        /\ 100 * (-shift) * (high - low) = 100 * (sl - sh)
        /\ 2 * tol * low * high = 2 * q /\ slack * (high + low) = eh + el
    OBVIOUS
  <1> HIDE DEF w, q, eh, el, ah, bl, sh, sl
  <1>8. 100 * (sh - sl) =< 2 * q + (eh + el) + 100 * high
    BY <1>1, <1>3, <1>4, <1>5, <1>6
  <1>9. 100 * (sl - sh) =< 2 * q + (eh + el) + 100 * high
    BY <1>1, <1>3, <1>4, <1>5, <1>6
  <1>10. Abs(shift) = shift \/ Abs(shift) = -shift
    BY AbsIs
  <1> QED BY <1>7, <1>8, <1>9, <1>10

\* A sequence of naturals has a greatest entry, which is a prefix at a time.
LEMMA GreatestEntry ==
  ASSUME NEW row \in Seq(Nat), row # <<>>
  PROVE  LET entries == {row[i] : i \in DOMAIN row}
         IN Max(entries) \in entries /\ \A n \in entries : n =< Max(entries)
  <1> DEFINE entries == {row[i] : i \in DOMAIN row}
             Topped(n) == \E k \in 1 .. n : \A i \in 1 .. n : row[i] =< row[k]
             untopped == {n \in 1 .. Len(row) : ~Topped(n)}
  <1>1. /\ DOMAIN row = 1 .. Len(row) /\ Len(row) \in Nat /\ Len(row) >= 1
        /\ \A i \in 1 .. Len(row) : row[i] \in Nat
    OBVIOUS
  <1>2. ASSUME untopped # {} PROVE FALSE
    <2> DEFINE least == Min(untopped)
    <2>1. least \in untopped /\ \A n \in untopped : least =< n
      <3>1. untopped \in SUBSET Nat
        OBVIOUS
      <3> HIDE DEF untopped
      <3> QED BY <1>2, <3>1, LeastNatural
    <2>2. least \in 1 .. Len(row) /\ ~Topped(least)
      BY <2>1
    <2> HIDE DEF least
    <2>3. least # 1
      <3>1. Topped(1)
        BY <1>1
      <3> HIDE DEF Topped
      <3> QED BY <2>2, <3>1
    <2>4. least - 1 \in 1 .. Len(row) /\ ~(least =< least - 1)
      BY <1>1, <2>2, <2>3
    <2>5. Topped(least - 1)
      <3> HIDE DEF Topped
      <3> QED BY <2>1, <2>4
    <2>6. PICK k \in 1 .. least - 1 : \A i \in 1 .. least - 1 : row[i] =< row[k]
      BY <2>5
    <2>7. least \in Nat /\ least >= 1 /\ least =< Len(row) /\ k \in Nat /\ k >= 1
          /\ k =< least - 1
      BY <1>1, <2>2, <2>4
    <2>8. k \in 1 .. Len(row) /\ k \in 1 .. least /\ least \in 1 .. least
      BY <1>1, <2>7
    <2>9. row[k] \in Nat /\ row[least] \in Nat
      BY <1>1, <2>2, <2>8
    <2>10. ASSUME NEW i \in 1 .. least, i # least
           PROVE  row[i] =< row[k] /\ row[i] \in Nat
      <3>1. i \in 1 .. least - 1 /\ i \in 1 .. Len(row)
        BY <1>1, <2>7, <2>10
      <3> QED BY <1>1, <2>6, <3>1
    <2>11. CASE row[least] =< row[k]
      <3>1. \A i \in 1 .. least : row[i] =< row[k]
        BY <2>10, <2>11
      <3> QED BY <2>2, <2>8, <3>1
    <2>12. CASE ~(row[least] =< row[k])
      <3>1. ASSUME NEW i \in 1 .. least PROVE row[i] =< row[least]
        <4>1. CASE i = least
          BY <2>9, <4>1
        <4>2. CASE i # least
          BY <2>9, <2>10, <2>12, <4>2
        <4> QED BY <4>1, <4>2
      <3> QED BY <2>2, <2>8, <3>1
    <2> QED BY <2>11, <2>12
  <1>3. PICK k \in 1 .. Len(row) : \A i \in 1 .. Len(row) : row[i] =< row[k]
    <2>1. Len(row) \in 1 .. Len(row)
      BY <1>1
    <2>2. Topped(Len(row))
      BY <1>2, <2>1
    <2> QED BY <2>2
  <1>4. \E greatest \in entries : \A n \in entries : greatest >= n
    BY <1>1, <1>3
  <1>5. Max(entries) \in entries /\ \A n \in entries : Max(entries) >= n
    BY <1>4 DEF Max
  <1>6. \A n \in entries : n \in Nat
    BY <1>1
  <1>7. \A n \in entries : n =< Max(entries)
    <2> HIDE DEF entries
    <2> QED BY <1>5, <1>6
  <1> QED BY <1>5, <1>7

LEMMA AnalogRowTyped ==
  ASSUME spec \in AnalogRows, dut \in DutsUnderTest
  PROVE  /\ spec.kind = "analog" /\ spec.tol \in Nat /\ spec.points \in Seq(Nat)
         /\ spec.digit \in Nat \ {0} /\ RoundingSlack \in Nat
         /\ Len(spec.points) \in Nat
         /\ \A nth \in 1 .. Len(spec.points) : spec.points[nth] \in Nat
         /\ dut.gain \in Int /\ dut.shift \in Int
  <1>1. /\ spec.kind = "analog" /\ spec.tol \in Nat /\ spec.points \in Seq(Nat)
        /\ spec.digit \in Nat \ {0}
    BY DEF AnalogRows
  <1>2. RoundingSlack \in Nat
    BY <1>1 DEF RoundingSlack
  <1>3. dut.gain \in Int /\ dut.shift \in Int
    BY DEF DutsUnderTest
  <1> QED BY <1>1, <1>2, <1>3

\* A rounded figure is within half a digit of what was rounded.
LEMMA RoundedNear ==
  ASSUME NEW x \in Int, NEW digit \in Nat \ {0}, NEW whose
  PROVE  /\ Rounded(x, digit, whose) \in Int
         /\ 2 * (Rounded(x, digit, whose) - x) =< digit
         /\ 2 * (x - Rounded(x, digit, whose)) =< digit
  <1> DEFINE below == (x \div digit) * digit
             up    == AtLeast(2 * (x - below), digit, whose)
  <1>1. /\ x \div digit \in Int /\ x = digit * (x \div digit) + (x % digit)
        /\ x % digit \in 0 .. (digit - 1)
    OBVIOUS
  <1>2. below = digit * (x \div digit) /\ below \in Int
    BY <1>1
  <1>3. below =< x /\ x =< below + digit
    BY <1>1, <1>2
  <1>4. Rounded(x, digit, whose) = IF up THEN below + digit ELSE below
    BY DEF Rounded
  <1> HIDE DEF below
  <1>5. (up => 2 * (x - below) >= digit) /\ (~up => 2 * (x - below) =< digit)
    BY <1>2 DEF AtLeast
  <1> HIDE DEF up
  <1>6. CASE up
    BY <1>2, <1>3, <1>4, <1>5, <1>6
  <1>7. CASE ~up
    BY <1>2, <1>3, <1>4, <1>5, <1>7
  <1> QED BY <1>6, <1>7

LEMMA PointBound ==
  ASSUME spec \in AnalogRows, dut \in DutsUnderTest, NEW kv \in Int, NEW error \in Int,
         PointOk(kv, error)
  PROVE  100 * error =< spec.tol * kv /\ -(spec.tol * kv) =< 100 * error
  <1> DEFINE bound == spec.tol * kv
  <1>1. spec.tol \in Nat /\ bound \in Int
    BY AnalogRowTyped
  <1>2. -spec.tol * kv = -bound
    BY <1>1
  <1>3. Within(100 * error, -bound, bound, "plan")
    BY <1>2 DEF PointOk
  <1> HIDE DEF bound
  <1>4. /\ 100 * error > -bound \/ 100 * error = -bound
        /\ -(100 * error) > -bound \/ -(100 * error) = -bound
    BY <1>3 DEF Within, AtLeast
  <1>5. 100 * error =< bound /\ -bound =< 100 * error
    BY <1>1, <1>4
  <1> QED BY <1>5 DEF bound

\* A point that passes bounds the error of the device at it: half a digit of the
\* meter and half a digit of the output are all that the rounding hides.
LEMMA PointJudged ==
  ASSUME spec \in AnalogRows, dut \in DutsUnderTest, NEW kv \in Nat,
         PointOk(Applied(kv), OffBy(kv))
  PROVE  Judged(spec.tol, RoundingSlack, kv, dut.gain, dut.shift)
  <1> DEFINE applied == Applied(kv)
             shown   == Equivalent(kv)
             signal  == Signal(kv, dut.gain)
             output  == kv + signal + dut.shift
             p == spec.tol * kv
             q == spec.tol * applied
  <1>1. spec.tol \in Nat /\ spec.digit \in Nat \ {0} /\ dut.gain \in Int /\ dut.shift \in Int
    BY AnalogRowTyped
  <1>2. signal \in Int
    <2>1. kv \in Int /\ dut.gain \in Int
      BY <1>1
    <2>2. ASSUME NEW gain \in Int PROVE Signal(kv, gain) \in Int
      BY <2>1, SignalTyped
    <2> QED BY <2>1, <2>2
  <1>3. applied \in Int /\ 2 * (applied - kv) =< 16 /\ 2 * (kv - applied) =< 16
    BY RoundedNear DEF Applied
  <1>4. output \in Int
    <2> HIDE DEF signal
    <2> QED BY <1>1, <1>2
  <1>5. shown = Rounded(output, spec.digit, "output")
    BY DEF Equivalent, Signal
  <1> HIDE DEF output
  <1>6. shown \in Int /\ 2 * (shown - output) =< spec.digit /\ 2 * (output - shown) =< spec.digit
    BY <1>1, <1>4, <1>5, RoundedNear
  <1> HIDE DEF applied, shown
  <1>7. 100 * (shown - applied) =< q /\ -q =< 100 * (shown - applied)
    <2>1. PointOk(applied, shown - applied) /\ shown - applied \in Int
      BY <1>3, <1>6 DEF OffBy, applied, shown
    <2> QED BY <1>3, <2>1, PointBound
  <1>8. p \in Int /\ q \in Int /\ q =< p + 8 * spec.tol
    <2>1. applied =< kv + 8 /\ kv + 8 \in Int
      BY <1>3
    <2>2. applied * spec.tol =< (kv + 8) * spec.tol
      BY <1>1, <1>3, <2>1, Scale
    <2>3. applied * spec.tol = q /\ (kv + 8) * spec.tol = p + 8 * spec.tol
      BY <1>1, <1>3
    <2> QED BY <1>1, <1>3, <2>2, <2>3
  <1> HIDE DEF p, q
  <1>9. output = kv + signal + dut.shift
    BY DEF output
  <1> HIDE DEF signal
  <1>10. RoundingSlack = 8 * spec.tol + 800 + 50 * spec.digit
    BY DEF RoundingSlack
  <1>11. 100 * (signal + dut.shift) =< p + RoundingSlack
    BY <1>1, <1>2, <1>3, <1>6, <1>7, <1>8, <1>9, <1>10
  <1>12. -(p + RoundingSlack) =< 100 * (signal + dut.shift)
    BY <1>1, <1>2, <1>3, <1>6, <1>7, <1>8, <1>9, <1>10
  <1> QED BY <1>11, <1>12 DEF Judged, p, signal

LEMMA InvAnalog == Inv => AnalogPointsSeparate
  <1> DEFINE points == {spec.points[i] : i \in DOMAIN spec.points}
             low    == Min(points)
             high   == Max(points)
             slack  == RoundingSlack
  <1> SUFFICES ASSUME Inv, spec.kind = "analog", stage = "done",
                      \A outcome \in said : outcome.ok
               PROVE  /\ Abs(dut.gain) * (high - low)
                           =< 100 * (spec.tol * (high + low) + 2 * slack) + 10000
                      /\ 100 * Abs(dut.shift) * (high - low)
                           =< 2 * spec.tol * low * high + slack * (high + low) + 100 * high
    BY DEF AnalogPointsSeparate
  <1>1. spec \in AnalogRows /\ dut \in DutsUnderTest
    BY DEF Inv, Rows, TripRows, LineRows
  <1>2. /\ said = PointsTo(Len(spec.points)) /\ spec.points # <<>>
    BY <1>1 DEF Inv, PointsOK
  <1>3. /\ DOMAIN spec.points = 1 .. Len(spec.points) /\ Len(spec.points) \in Nat
        /\ Len(spec.points) >= 1 /\ spec.tol \in Nat /\ spec.points \in Seq(Nat)
        /\ dut.gain \in Int /\ dut.shift \in Int /\ slack \in Nat
        /\ \A nth \in 1 .. Len(spec.points) : spec.points[nth] \in Nat
    BY <1>1, <1>2, AnalogRowTyped
  <1> HIDE DEF slack
  <1>4. ASSUME NEW kv \in points
        PROVE  kv \in Nat /\ Judged(spec.tol, slack, kv, dut.gain, dut.shift)
    <2>1. PICK nth \in 1 .. Len(spec.points) : kv = spec.points[nth]
      BY <1>3
    <2>2. Point(nth) \in said
      BY <1>2 DEF PointsTo
    <2>3. Point(nth).ok = PointOk(Applied(kv), OffBy(kv))
      BY <2>1, Zenon DEF Point
    <2>4. Point(nth).ok
      BY <2>2
    <2>5. PointOk(Applied(kv), OffBy(kv))
      BY <2>3, <2>4, Zenon
    <2>6. kv \in Nat
      BY <1>3, <2>1
    <2> QED BY <1>1, <2>5, <2>6, PointJudged DEF slack
  <1>5. high \in points /\ \A n \in points : n =< high
    BY <1>2, <1>3, GreatestEntry
  <1>6. low \in points /\ \A n \in points : low =< n
    <2>1. points \in SUBSET Nat
      BY <1>4
    <2>2. points # {}
      BY <1>5
    <2> HIDE DEF points
    <2> QED BY <2>1, <2>2, LeastNatural
  <1> HIDE DEF points, low, high
  <1>7. low =< high
    BY <1>5, <1>6
  <1>8. /\ low \in Nat /\ high \in Nat
        /\ Judged(spec.tol, slack, low, dut.gain, dut.shift)
        /\ Judged(spec.tol, slack, high, dut.gain, dut.shift)
    BY <1>4, <1>5, <1>6
  <1>9. Abs(dut.gain) * (high - low) =< 100 * (spec.tol * (high + low) + 2 * slack) + 10000
    <2>1. GainWithin(dut.gain, spec.tol, slack, low, high)
      BY <1>3, <1>7, <1>8, GainBound
    <2> QED BY <2>1 DEF GainWithin
  <1>10. 100 * Abs(dut.shift) * (high - low)
           =< 2 * spec.tol * low * high + slack * (high + low) + 100 * high
    BY <1>3, <1>7, <1>8, ShiftBound
  <1> QED BY <1>9, <1>10

-----------------------------------------------------------------------------
(* The invariant holds to begin with.                                        *)

LEMMA InitInv == Init => Inv
  <1> SUFFICES ASSUME Init PROVE Inv
    OBVIOUS
  <1>1. PICK t \in Trials :
          /\ spec = t.spec /\ dut = t.dut
          /\ bench = [kv |-> 0, supplied |-> FALSE, square |-> 0, injected |-> FALSE,
                      latched |-> t.latched, dropped |-> FALSE]
          /\ \/ /\ device = [NominalTimes EXCEPT !.detector = DetectorOf(t.spec)]
                /\ plan = NominalLimits
             \/ /\ t \in TimedTrials
                /\ device \in TimesOf(t.spec) /\ plan \in Plans
    BY DEF Init
  <1>2. t.spec \in Rows /\ t.dut \in DutsUnderTest /\ t.latched \in BOOLEAN
    BY CasesAssumption
  <1>3. NominalTimes \in Devices /\ NominalLimits \in Plans
    BY CasesAssumption
  <1>4. /\ tripped = FALSE /\ pin = NoTrace /\ contact = NoTrace /\ release = NoTrace
        /\ steps = <<>> /\ pickup = NaN /\ said = {}
    BY DEF Init, TimingInit
  <1>5. device \in Devices /\ plan \in Plans
    <2>1. CASE /\ device = [NominalTimes EXCEPT !.detector = DetectorOf(t.spec)]
               /\ plan = NominalLimits
      <3>1. DetectorOf(t.spec) \in {"line", "latched"}
        BY DEF DetectorOf
      <3> QED BY <1>3, <2>1, <3>1 DEF Devices
    <2>2. CASE device \in TimesOf(t.spec) /\ plan \in Plans
      <3>1. NominalTimes.hold \in Holds /\ NominalTimes.out \in LineOuts
        BY <1>3 DEF Devices
      <3> QED BY <2>2, <3>1 DEF TimesOf, Devices
    <2> QED BY <1>1, <2>1, <2>2
  <1>6. TimesTyped /\ spec \in Rows /\ dut \in DutsUnderTest
    BY <1>1, <1>2, <1>4, <1>5 DEF TimesTyped
  <1>7. stage = IF spec.kind = "analog" /\ spec.points = <<>> THEN "raised" ELSE "calibrate"
    BY DEF Init
  <1>8. stage \in {"raised", "calibrate"} /\ stage \in Stages
    BY <1>7 DEF Stages
  <1>9. DOMAIN steps = {}
    BY <1>4
  <1>10. TracesOK /\ StepsOK /\ Untimed
    BY <1>4, <1>9 DEF TracesOK, StepsOK, Untimed
  <1>11. StageOK
    BY <1>8, <1>10 DEF StageOK, TripStages, LineStages
  <1>12. BenchOK
    BY <1>1, <1>2 DEF BenchOK
  <1>13. PathsOK /\ BracketOK
    BY <1>1, <1>4, <1>8 DEF PathsOK, BracketOK
  <1>14. PointsOK
    <2> SUFFICES ASSUME spec \in AnalogRows PROVE PointsOK
      BY DEF PointsOK
    <2>1. spec.kind = "analog" /\ Len(spec.points) \in Nat
      BY DEF AnalogRows
    <2>2. IsFiniteSet(said) /\ Cardinality(said) = 0
      BY <1>4, FS_EmptySet
    <2>3. PointsTo(0) = {}
      BY DEF PointsTo
    <2>4. Cardinality(said) =< Len(spec.points) /\ said = PointsTo(Cardinality(said))
      BY <1>4, <2>1, <2>2, <2>3
    <2>5. stage # "done" /\ (stage # "raised" => spec.points # <<>>)
      BY <1>7, <2>1
    <2> QED BY <1>8, <2>2, <2>4, <2>5 DEF PointsOK
  <1>15. pickup \in Nat \cup {NaN} /\ said \subseteq Outcomes
    BY <1>4
  <1> QED BY <1>6, <1>8, <1>10, <1>11, <1>12, <1>13, <1>14, <1>15 DEF Inv

-----------------------------------------------------------------------------
(* What a step leaves alone.                                                 *)

LEMMA SameDevice ==
  ASSUME device' = device, plan' = plan, tripped' = tripped
  PROVE  /\ TimesTyped' = TimesTyped
         /\ Digital(0)' = Digital(0) /\ Digital(device.set)' = Digital(device.set)
         /\ Released' = Released
         /\ DetectionStep' = DetectionStep /\ SetStep' = SetStep /\ TotalStep' = TotalStep
         /\ LineInStep' = LineInStep
         /\ HoldStep' = HoldStep /\ ReleaseStep' = ReleaseStep
  <1>1. /\ Digital(0)' = Digital(0) /\ Digital(device.set)' = Digital(device.set)
        /\ Released' = Released
    BY DEF Digital, DigitalSamples, CaptureGate, Latest, Released, ReleaseSamples
  <1>2. /\ PinEdge' = PinEdge /\ ContactEdge' = ContactEdge /\ Gap' = Gap
        /\ Width' = Width /\ Fall' = Fall
    BY <1>1 DEF PinEdge, ContactEdge, Gap, Width, Fall
  <1>3. /\ DetectionStep' = DetectionStep /\ SetStep' = SetStep /\ TotalStep' = TotalStep
        /\ LineInStep' = LineInStep
        /\ HoldStep' = HoldStep /\ ReleaseStep' = ReleaseStep
    BY <1>2 DEF DetectionStep, LineInStep, InWindow, SetStep, TotalStep, HoldStep, ReleaseStep
  <1>4. TimesTyped' = TimesTyped
    BY DEF TimesTyped
  <1> QED BY <1>1, <1>3, <1>4

LEMMA TimingKept ==
  ASSUME Inv, UNCHANGED timing
  PROVE  /\ TimesTyped' /\ TracesOK' /\ StepsOK'
         /\ Untimed => Untimed'
  <1>1. /\ device' = device /\ plan' = plan /\ tripped' = tripped /\ pin' = pin
        /\ contact' = contact /\ release' = release /\ steps' = steps
    BY DEF timing
  <1>2. TimesTyped /\ TracesOK /\ StepsOK
    BY DEF Inv
  <1>3. /\ TimesTyped' = TimesTyped
        /\ Digital(0)' = Digital(0) /\ Digital(device.set)' = Digital(device.set)
        /\ Released' = Released
        /\ DetectionStep' = DetectionStep /\ SetStep' = SetStep /\ TotalStep' = TotalStep
        /\ LineInStep' = LineInStep
        /\ HoldStep' = HoldStep /\ ReleaseStep' = ReleaseStep
    BY <1>1, SameDevice
  <1>4. TimesTyped'
    BY <1>2, <1>3
  <1>5. TracesOK'
    BY <1>1, <1>2, <1>3 DEF TracesOK
  <1>6. StepsOK'
    BY <1>1, <1>2, <1>3 DEF StepsOK
  <1> QED BY <1>1, <1>4, <1>5, <1>6 DEF Untimed

LEMMA SameCase ==
  ASSUME spec' = spec, dut' = dut
  PROVE  /\ Needed' = Needed /\ BelowWindow' = BelowWindow /\ AboveWindow' = AboveWindow
         /\ TripsAt(BelowWindow)' = TripsAt(BelowWindow)
         /\ TripsAt(AboveWindow)' = TripsAt(AboveWindow)
         /\ \A nth : Point(nth)' = Point(nth)
  BY DEF Needed, BelowWindow, AboveWindow, TripsAt, AtLeast, TripSquare,
         Point, PointOk, OffBy, Applied, Equivalent, Rounded, Within

Outcome(check, at, ok) == [check |-> check, at |-> at, ok |-> ok]

\* Saying anything but the two looks at the bracket leaves those alone.
LEMMA BracketKept ==
  ASSUME BracketOK, spec' = spec, dut' = dut,
         \/ said' = said
         \/ \E check, at, ok : /\ said' = said \cup {Outcome(check, at, ok)}
                               /\ check \notin {"below", "above"}
  PROVE  BracketOK'
  <1>1. /\ TripsAt(BelowWindow)' = TripsAt(BelowWindow)
        /\ TripsAt(AboveWindow)' = TripsAt(AboveWindow)
    BY SameCase
  <1>2. ASSUME NEW outcome \in said', outcome.check \in {"below", "above"}
        PROVE  outcome \in said
    BY <1>2 DEF Outcome
  <1>3. ASSUME NEW outcome \in said'
        PROVE  /\ outcome.check = "below" =>
                    spec \in TripRows /\ (outcome.ok <=> ~TripsAt(BelowWindow))
               /\ outcome.check = "above" =>
                    spec \in TripRows /\ (outcome.ok <=> TripsAt(AboveWindow))
    BY <1>2, <1>3 DEF BracketOK
  <1> QED BY <1>1, <1>3 DEF BracketOK

-----------------------------------------------------------------------------
(* The bench.                                                                *)

Benches == [kv: Int, supplied: BOOLEAN, square: Nat, injected: BOOLEAN,
            latched: BOOLEAN, dropped: BOOLEAN]

LEMMA BenchOps ==
  ASSUME NEW b \in Benches
  PROVE  /\ Looked(b) \in Benches /\ Removed(b) \in Benches /\ AllRemoved(b) \in Benches
         /\ \A kv \in Int : Supply(b, kv) \in Benches
         /\ \A quantity : \A amps \in Int : Inject(b, amps, quantity) \in Benches
         /\ \A dropped \in BOOLEAN : [b EXCEPT !.dropped = dropped] \in Benches
         /\ ~AllRemoved(b).supplied /\ ~AllRemoved(b).injected
  <1>1. Settled(b) \in BOOLEAN
    BY DEF Settled
  <1>2. Looked(b) \in Benches
    BY <1>1 DEF Looked, Benches
  <1>3. Removed(b) \in Benches /\ AllRemoved(b) \in Benches
        /\ ~AllRemoved(b).supplied /\ ~AllRemoved(b).injected
    BY DEF Removed, AllRemoved, Benches
  <1>4. \A kv \in Int : Supply(b, kv) \in Benches
    BY DEF Supply, Benches
  <1>5. ASSUME NEW quantity, NEW amps \in Int PROVE Inject(b, amps, quantity) \in Benches
    <2>1. Square(quantity, amps) \in Nat
      BY SquareTyped
    <2> QED BY <2>1 DEF Inject, Benches
  <1>6. \A dropped \in BOOLEAN : [b EXCEPT !.dropped = dropped] \in Benches
    BY DEF Benches
  <1> QED BY <1>2, <1>3, <1>4, <1>5, <1>6

\* After an injection, the device trips if what was driven reaches it.
LEMMA InjectedTrips ==
  ASSUME NEW b \in Benches, NEW amps \in Int
  PROVE  Trips(Looked(Inject(b, amps, spec.quantity))) <=> TripsAt(amps)
  <1>1. Square(spec.quantity, amps) \in Nat
    BY SquareTyped
  <1>2. /\ Inject(b, amps, spec.quantity).injected = TRUE
        /\ Inject(b, amps, spec.quantity).square = Square(spec.quantity, amps)
        /\ Inject(b, amps, spec.quantity) \in Benches
    BY <1>1, BenchOps DEF Inject, Benches
  <1>3. /\ Looked(Inject(b, amps, spec.quantity)).injected = TRUE
        /\ Looked(Inject(b, amps, spec.quantity)).square = Square(spec.quantity, amps)
    BY <1>2 DEF Looked, Benches
  <1> QED BY <1>3 DEF Trips, TripsAt

LEMMA Kinds ==
  ASSUME spec \in Rows
  PROVE  /\ spec \in TripRows <=> spec.kind \in {"overcurrent", "harmonic"}
         /\ spec \in LineRows <=> spec.kind = "line"
         /\ spec \in AnalogRows <=> spec.kind = "analog"
         /\ spec \in TripRows \/ spec \in LineRows \/ spec \in AnalogRows
  BY DEF Rows, TripRows, LineRows, AnalogRows

-----------------------------------------------------------------------------
(* The steps of a trip case or a line case, after its calibration.           *)

InCase == stage \notin {"calibrate", "raised", "points"} /\ spec \notin AnalogRows

\* What is left to show of a step within a trip case or a line case.
LEMMA CaseStep ==
  ASSUME Inv, InCase, UNCHANGED case, TimesTyped', TracesOK', StepsOK',
         stage' \in Stages \ {"calibrate", "raised", "points"}, StageOK',
         bench' \in Benches, pickup' \in Nat \cup {NaN}, said' \subseteq Outcomes, BracketOK'
  PROVE  Inv'
  <1>1. spec' = spec /\ dut' = dut
    BY DEF case
  <1>2. PathsOK'
    <2>1. Needed \subseteq dut.paths
      BY DEF Inv, PathsOK, InCase
    <2>2. Needed' \subseteq dut'.paths
      BY <1>1, <2>1, SameCase
    <2> QED BY <2>2 DEF PathsOK
  <1>3. PointsOK'
    BY <1>1 DEF PointsOK, InCase
  <1>4. BenchOK'
    BY DEF BenchOK, Benches
  <1>5. spec' \in Rows /\ dut' \in DutsUnderTest
    BY <1>1 DEF Inv
  <1> QED BY <1>2, <1>3, <1>4, <1>5 DEF Inv

LEMMA InvFacts ==
  ASSUME Inv
  PROVE  /\ TimesTyped /\ spec \in Rows /\ dut \in DutsUnderTest /\ bench \in Benches
         /\ stage \in Stages /\ pickup \in Nat \cup {NaN} /\ said \subseteq Outcomes
         /\ TracesOK /\ StepsOK /\ StageOK /\ BracketOK /\ BenchOK
  BY DEF Inv, BenchOK, Benches

\* The steps of a trip or line case find themselves in one.
LEMMA StagesInCase ==
  ASSUME Inv, stage \in TripStages \cup LineStages \cup {"time"}
  PROVE  InCase
  <1>1. spec \in TripRows \cup LineRows
    BY DEF Inv, StageOK
  <1>2. spec \notin AnalogRows
    BY <1>1 DEF TripRows, LineRows, AnalogRows
  <1> QED BY <1>2 DEF InCase, TripStages, LineStages

LEMMA SaysTyped ==
  ASSUME said \subseteq Outcomes, NEW ok \in BOOLEAN,
         NEW check \in {"dc line", "below", "above", "dead line", "pick-up", "hysteresis",
                        "drop-out", "ride-through", "point"},
         Says(check, 0, ok)
  PROVE  said' \subseteq Outcomes /\ said' = said \cup {Outcome(check, 0, ok)}
  <1>1. Outcome(check, 0, ok) \in Outcomes
    BY DEF Outcome, Outcomes
  <1>2. said' = said \cup {Outcome(check, 0, ok)}
    BY Zenon DEF Says, Outcome
  <1> QED BY <1>1, <1>2

\* Outcomes other than those of the bracket do not disturb it.
LEMMA SaysOther ==
  ASSUME Inv, UNCHANGED case, NEW ok \in BOOLEAN,
         NEW check \in {"dc line", "dead line", "pick-up", "hysteresis",
                        "drop-out", "ride-through"},
         Says(check, 0, ok)
  PROVE  said' \subseteq Outcomes /\ BracketOK'
  <1>1. said' \subseteq Outcomes /\ said' = said \cup {Outcome(check, 0, ok)}
    BY SaysTyped, InvFacts
  <1>2. check \notin {"below", "above"}
    OBVIOUS
  <1>3. spec' = spec /\ dut' = dut
    BY DEF case
  <1>4. BracketOK'
    BY <1>1, <1>2, <1>3, BracketKept, InvFacts
  <1> QED BY <1>1, <1>4

LEMMA SaysNothing ==
  ASSUME Inv, UNCHANGED case, UNCHANGED said
  PROVE  said' \subseteq Outcomes /\ BracketOK'
  <1>1. spec' = spec /\ dut' = dut /\ said' = said
    BY DEF case
  <1> QED BY <1>1, BracketKept, InvFacts

LEMMA EnergiseLineInv == Inv /\ EnergiseLine => Inv'
  <1> SUFFICES ASSUME Inv, EnergiseLine PROVE Inv'
    OBVIOUS
  <1>1. /\ stage = "energise" /\ stage' = "below" /\ bench' = Supply(bench, spec.line_kv)
        /\ UNCHANGED timing /\ UNCHANGED case /\ pickup' = pickup
        /\ IF spec.kind = "harmonic" THEN Says("dc line", 0, spec.line_kv > 0)
           ELSE UNCHANGED said
    BY DEF EnergiseLine
  <1>2. spec' = spec /\ spec \in TripRows /\ Untimed /\ InCase
    BY <1>1, StagesInCase, InvFacts DEF StageOK, TripStages, EarlyStages, case
  <1>3. TimesTyped' /\ TracesOK' /\ StepsOK' /\ Untimed'
    BY <1>1, <1>2, TimingKept
  <1>4. StageOK' /\ stage' \in Stages \ {"calibrate", "raised", "points"}
    BY <1>1, <1>2, <1>3 DEF StageOK, TripStages, LineStages, EarlyStages, Stages
  <1>5. bench' \in Benches /\ pickup' \in Nat \cup {NaN}
    BY <1>1, <1>2, TripRowTyped, BenchOps, InvFacts
  <1>6. said' \subseteq Outcomes /\ BracketOK'
    <2>1. (spec.line_kv > 0) \in BOOLEAN
      OBVIOUS
    <2>2. CASE spec.kind = "harmonic"
      BY <1>1, <2>1, <2>2, SaysOther
    <2>3. CASE spec.kind # "harmonic"
      BY <1>1, <2>3, SaysNothing
    <2> QED BY <2>2, <2>3
  <1> QED BY <1>1, <1>2, <1>3, <1>4, <1>5, <1>6, CaseStep

\* The two looks at the bracket say what the device does at that current.
LEMMA BelowInv == Inv /\ Below => Inv'
  <1> SUFFICES ASSUME Inv, Below PROVE Inv'
    OBVIOUS
  <1>1. /\ stage = "below" /\ stage' = "above"
        /\ bench' = Looked(Inject(bench, BelowWindow, spec.quantity))
        /\ Says("below", 0, ~Trips(bench'))
        /\ UNCHANGED timing /\ UNCHANGED case /\ pickup' = pickup
    BY DEF Below
  <1>2. spec' = spec /\ dut' = dut /\ spec \in TripRows /\ Untimed /\ InCase
    BY <1>1, StagesInCase, InvFacts DEF StageOK, TripStages, EarlyStages, case
  <1>3. TimesTyped' /\ TracesOK' /\ StepsOK' /\ Untimed'
    BY <1>1, <1>2, TimingKept
  <1>4. StageOK' /\ stage' \in Stages \ {"calibrate", "raised", "points"}
    BY <1>1, <1>2, <1>3 DEF StageOK, TripStages, LineStages, EarlyStages, Stages
  <1>5. BelowWindow \in Int /\ bench \in Benches
    BY <1>2, TripRowTyped, InvFacts
  <1>6. bench' \in Benches /\ pickup' \in Nat \cup {NaN}
    <2>1. Inject(bench, BelowWindow, spec.quantity) \in Benches
      BY <1>5, BenchOps
    <2> QED BY <1>1, <2>1, BenchOps, InvFacts
  <1>7. Trips(bench') <=> TripsAt(BelowWindow)
    BY <1>1, <1>5, InjectedTrips
  <1>8. said' \subseteq Outcomes /\ said' = said \cup {Outcome("below", 0, ~Trips(bench'))}
    <2>1. (~Trips(bench')) \in BOOLEAN
      BY Zenon
    <2> QED BY <1>1, <2>1, SaysTyped, InvFacts
  <1>9. BracketOK'
    <2>1. ASSUME NEW outcome \in said'
          PROVE  /\ outcome.check = "below" =>
                      spec \in TripRows /\ (outcome.ok <=> ~TripsAt(BelowWindow))
                 /\ outcome.check = "above" =>
                      spec \in TripRows /\ (outcome.ok <=> TripsAt(AboveWindow))
      <3>1. CASE outcome \in said
        BY <3>1, InvFacts DEF BracketOK
      <3>2. CASE outcome = Outcome("below", 0, ~Trips(bench'))
        <4>1. outcome.check = "below" /\ outcome.ok = ~Trips(bench')
          BY <3>2, Zenon DEF Outcome
        <4> QED BY <1>2, <1>7, <4>1
      <3> QED BY <1>8, <3>1, <3>2
    <2> QED BY <1>2, <2>1, SameCase DEF BracketOK
  <1> QED BY <1>1, <1>2, <1>3, <1>4, <1>6, <1>8, <1>9, CaseStep

LEMMA AboveInv == Inv /\ Above => Inv'
  <1> SUFFICES ASSUME Inv, Above PROVE Inv'
    OBVIOUS
  <1>1. /\ stage = "above" /\ stage' = "drive"
        /\ bench' = Looked(Inject(bench, AboveWindow, spec.quantity))
        /\ Says("above", 0, Trips(bench'))
        /\ UNCHANGED timing /\ UNCHANGED case /\ pickup' = pickup
    BY DEF Above
  <1>2. spec' = spec /\ dut' = dut /\ spec \in TripRows /\ Untimed /\ InCase
    BY <1>1, StagesInCase, InvFacts DEF StageOK, TripStages, EarlyStages, case
  <1>3. TimesTyped' /\ TracesOK' /\ StepsOK' /\ Untimed'
    BY <1>1, <1>2, TimingKept
  <1>4. StageOK' /\ stage' \in Stages \ {"calibrate", "raised", "points"}
    BY <1>1, <1>2, <1>3 DEF StageOK, TripStages, LineStages, EarlyStages, Stages
  <1>5. AboveWindow \in Int /\ bench \in Benches
    BY <1>2, TripRowTyped, InvFacts
  <1>6. bench' \in Benches /\ pickup' \in Nat \cup {NaN}
    <2>1. Inject(bench, AboveWindow, spec.quantity) \in Benches
      BY <1>5, BenchOps
    <2> QED BY <1>1, <2>1, BenchOps, InvFacts
  <1>7. Trips(bench') <=> TripsAt(AboveWindow)
    BY <1>1, <1>5, InjectedTrips
  <1>8. said' \subseteq Outcomes /\ said' = said \cup {Outcome("above", 0, Trips(bench'))}
    <2>1. Trips(bench') \in BOOLEAN
      BY DEF Trips
    <2> QED BY <1>1, <2>1, SaysTyped, InvFacts
  <1>9. BracketOK'
    <2>1. ASSUME NEW outcome \in said'
          PROVE  /\ outcome.check = "below" =>
                      spec \in TripRows /\ (outcome.ok <=> ~TripsAt(BelowWindow))
                 /\ outcome.check = "above" =>
                      spec \in TripRows /\ (outcome.ok <=> TripsAt(AboveWindow))
      <3>1. CASE outcome \in said
        BY <3>1, InvFacts DEF BracketOK
      <3>2. CASE outcome = Outcome("above", 0, Trips(bench'))
        <4>1. outcome.check = "above" /\ outcome.ok = Trips(bench')
          BY <3>2, Zenon DEF Outcome
        <4> QED BY <1>2, <1>7, <4>1
      <3> QED BY <1>8, <3>1, <3>2
    <2> QED BY <1>2, <2>1, SameCase DEF BracketOK
  <1> QED BY <1>1, <1>2, <1>3, <1>4, <1>6, <1>8, <1>9, CaseStep

LEMMA OutputsOffInv == Inv /\ OutputsOff => Inv'
  <1> SUFFICES ASSUME Inv, OutputsOff PROVE Inv'
    OBVIOUS
  <1>1. /\ stage = "off" /\ stage' = "done" /\ bench' = AllRemoved(bench)
        /\ UNCHANGED timing /\ UNCHANGED case /\ pickup' = pickup /\ said' = said
    BY DEF OutputsOff
  <1>2. InCase
    BY <1>1, StagesInCase DEF TripStages
  <1>3. TimesTyped' /\ TracesOK' /\ StepsOK'
    BY <1>1, TimingKept
  <1>4. StageOK' /\ stage' \in Stages \ {"calibrate", "raised", "points"}
    BY <1>1 DEF StageOK, TripStages, LineStages, EarlyStages, Stages
  <1>5. bench' \in Benches /\ pickup' \in Nat \cup {NaN}
    BY <1>1, BenchOps, InvFacts
  <1>6. said' \subseteq Outcomes /\ BracketOK'
    BY <1>1, SaysNothing
  <1> QED BY <1>1, <1>2, <1>3, <1>4, <1>5, <1>6, CaseStep

\* A new stimulus for the timing: nothing has been captured of an older one.
LEMMA NewStimulus ==
  ASSUME Inv, Untimed, tripped' \in BOOLEAN,
         UNCHANGED <<device, plan, pin, contact, release, steps>>
  PROVE  TimesTyped' /\ TracesOK' /\ StepsOK' /\ Untimed'
  <1>1. DOMAIN steps' = {}
    BY DEF Untimed
  <1>2. TimesTyped'
    BY InvFacts DEF TimesTyped
  <1> QED BY <1>1, <1>2 DEF Untimed, TracesOK, StepsOK

LEMMA DriveInv == Inv /\ Drive => Inv'
  <1> SUFFICES ASSUME Inv, Drive PROVE Inv'
    OBVIOUS
  <1> DEFINE amps == IF spec.drive = NaN THEN AboveWindow ELSE spec.drive
  <1>1. /\ stage = "drive" /\ stage' = "time"
        /\ bench' = Looked(Inject(bench, amps, spec.quantity))
        /\ tripped' = Trips(bench')
        /\ UNCHANGED <<device, plan, pin, contact, release, steps>>
        /\ UNCHANGED case /\ pickup' = pickup /\ said' = said
    BY DEF Drive
  <1>2. spec' = spec /\ spec \in TripRows /\ Untimed /\ InCase
    BY <1>1, StagesInCase, InvFacts DEF StageOK, TripStages, EarlyStages, case
  <1>3. TimesTyped' /\ TracesOK' /\ StepsOK' /\ Untimed'
    <2>1. Trips(bench') \in BOOLEAN
      BY DEF Trips
    <2> QED BY <1>1, <1>2, <2>1, NewStimulus
  <1>4. StageOK' /\ stage' \in Stages \ {"calibrate", "raised", "points"}
    BY <1>1, <1>2 DEF StageOK, TripStages, LineStages, EarlyStages, Stages
  <1>5. amps \in Int /\ bench \in Benches
    BY <1>2, TripRowTyped, InvFacts
  <1>6. bench' \in Benches /\ pickup' \in Nat \cup {NaN}
    <2> HIDE DEF amps
    <2>1. Inject(bench, amps, spec.quantity) \in Benches
      BY <1>5, BenchOps
    <2> QED BY <1>1, <2>1, BenchOps, InvFacts
  <1>7. said' \subseteq Outcomes /\ BracketOK'
    BY <1>1, SaysNothing
  <1> QED BY <1>1, <1>2, <1>3, <1>4, <1>6, <1>7, CaseStep

-----------------------------------------------------------------------------
(* The captures and what is published of them.                               *)

LEMMA CaptureInv == Inv /\ Capture => Inv'
  <1> SUFFICES ASSUME Inv, Capture PROVE Inv'
    OBVIOUS
  <1>1. /\ stage = "time" /\ stage' = "time" /\ UNCHANGED case /\ bench' = bench
        /\ pickup' = pickup /\ said' = said
        /\ device' = device /\ plan' = plan /\ tripped' = tripped
        /\ release' = release /\ steps' = steps
        /\ \/ pin = NoTrace /\ pin' = Digital(0) /\ contact' = contact
           \/ pin # NoTrace /\ contact' = Digital(device.set) /\ pin' = pin
    BY DEF Capture, CapturePin, CaptureContact, Digital
  <1>2. InCase /\ spec' = spec /\ spec \in TripRows \cup LineRows
    BY <1>1, StagesInCase, InvFacts DEF case, StageOK
  <1>3. TimesTyped /\ TracesOK /\ StepsOK
    BY InvFacts
  <1>4. TimesTyped' /\ StepsOK' /\ TracesOK'
    <2>1. /\ TimesTyped' = TimesTyped
          /\ Digital(0)' = Digital(0) /\ Digital(device.set)' = Digital(device.set)
          /\ Released' = Released
          /\ DetectionStep' = DetectionStep /\ SetStep' = SetStep /\ TotalStep' = TotalStep
          /\ LineInStep' = LineInStep
          /\ HoldStep' = HoldStep /\ ReleaseStep' = ReleaseStep
      BY <1>1, SameDevice
    <2>2. TimesTyped'
      BY <1>3, <2>1
    <2>3. StepsOK'
      BY <1>1, <1>3, <2>1 DEF StepsOK
    <2>4. TracesOK'
      BY <1>1, <1>3, <2>1 DEF TracesOK
    <2> QED BY <2>2, <2>3, <2>4
  <1>5. StageOK' /\ stage' \in Stages \ {"calibrate", "raised", "points"}
    BY <1>1, <1>2 DEF StageOK, TripStages, LineStages, EarlyStages, Stages
  <1>6. bench' \in Benches /\ pickup' \in Nat \cup {NaN}
    BY <1>1, InvFacts
  <1>7. said' \subseteq Outcomes /\ BracketOK'
    BY <1>1, SaysNothing
  <1> QED BY <1>1, <1>2, <1>4, <1>5, <1>6, <1>7, CaseStep

LEMMA JudgeInv == Inv /\ Judge => Inv'
  <1> SUFFICES ASSUME Inv, Judge PROVE Inv'
    OBVIOUS
  <1>1. /\ stage = "time" /\ stage' = (IF spec.kind = "line" THEN "hole" ELSE "off")
        /\ UNCHANGED case /\ bench' = bench /\ pickup' = pickup /\ said' = said
        /\ device' = device /\ plan' = plan /\ tripped' = tripped
        /\ pin' = pin /\ contact' = contact /\ release' = release
        /\ contact # NoTrace /\ PublishTiming
    BY DEF Judge, PublishTiming
  <1>2. InCase /\ spec' = spec /\ spec \in TripRows \cup LineRows
    BY <1>1, StagesInCase, InvFacts DEF case, StageOK
  <1>3. TimesTyped /\ TracesOK /\ StepsOK /\ spec \in Rows
    BY InvFacts
  <1>4. pin = Digital(0) /\ contact = Digital(device.set)
    BY <1>1, <1>3 DEF TracesOK
  <1>5. /\ RisingEdge(pin) = PinEdge /\ SetTime = Gap /\ RisingEdge(contact) = ContactEdge
        /\ PulseWidth(contact) = Width
    BY <1>4 DEF PinEdge, ContactEdge, Gap, Width, SetTime
  <1> DEFINE inWindow == TimingOk(RisingEdge(pin), plan.detect_min, plan.detect_max)
             outcome(check) ==
               CASE check = "detection" -> Step(RisingEdge(pin), inWindow)
                 [] check = "line-in"   -> Step(RisingEdge(contact), inWindow)
                 [] check = "relay set" -> Step(SetTime, TimingOk(SetTime, 0, plan.set_max))
                 [] check = "total"     -> Step(RisingEdge(contact), RisingEdge(contact) < Inf)
                 [] check = "hold"      -> Step(PulseWidth(contact),
                                                PulseWidth(contact) >= plan.hold_min)
  <1>6. steps' = [check \in ChecksTimed |-> outcome(check)]
    BY <1>1, Zenon DEF PublishTiming
  <1>7. /\ outcome("detection") = DetectionStep /\ outcome("line-in") = LineInStep
        /\ outcome("relay set") = SetStep /\ outcome("total") = TotalStep
        /\ outcome("hold") = HoldStep
    BY <1>5 DEF DetectionStep, LineInStep, InWindow, SetStep, TotalStep, HoldStep
  <1> HIDE DEF outcome
  <1>8. /\ TimesTyped' = TimesTyped
        /\ Digital(0)' = Digital(0) /\ Digital(device.set)' = Digital(device.set)
        /\ Released' = Released
        /\ DetectionStep' = DetectionStep /\ SetStep' = SetStep /\ TotalStep' = TotalStep
        /\ LineInStep' = LineInStep
        /\ HoldStep' = HoldStep /\ ReleaseStep' = ReleaseStep
    BY <1>1, SameDevice
  <1>9. StepsOK'
    <2>1. CASE device.detector = "latched"
      <3>1. steps' = [check \in {"detection", "relay set", "total", "hold"} |-> outcome(check)]
        BY <1>6, <2>1 DEF ChecksTimed
      <3>2. /\ DOMAIN steps' = {"detection", "relay set", "total", "hold"}
            /\ steps'["detection"] = DetectionStep /\ steps'["relay set"] = SetStep
            /\ steps'["total"] = TotalStep /\ steps'["hold"] = HoldStep
        BY <1>7, <3>1
      <3> QED BY <1>1, <1>8, <2>1, <3>2 DEF StepsOK, Checks
    <2>2. CASE device.detector # "latched"
      <3>1. steps' = [check \in {"line-in", "relay set"} |-> outcome(check)]
        BY <1>6, <2>2 DEF ChecksTimed
      <3>2. /\ DOMAIN steps' = {"line-in", "relay set"}
            /\ steps'["line-in"] = LineInStep /\ steps'["relay set"] = SetStep
        BY <1>7, <3>1
      <3> QED BY <1>8, <3>2 DEF StepsOK, Checks
    <2> QED BY <2>1, <2>2
  <1>10. TimesTyped' /\ TracesOK'
    BY <1>1, <1>3, <1>8 DEF TracesOK
  <1>11. StageOK' /\ stage' \in Stages \ {"calibrate", "raised", "points"}
    <2>1. CASE spec.kind = "line"
      <3>1. spec \in LineRows /\ stage' = "hole"
        BY <1>1, <1>3, <2>1, Kinds
      <3> QED BY <1>2, <3>1 DEF StageOK, TripStages, LineStages, EarlyStages, Stages
    <2>2. CASE spec.kind # "line"
      <3>1. spec \in TripRows /\ stage' = "off"
        BY <1>1, <1>2, <1>3, <2>2, Kinds
      <3> QED BY <1>2, <3>1 DEF StageOK, TripStages, LineStages, EarlyStages, Stages
    <2> QED BY <2>1, <2>2
  <1>12. bench' \in Benches /\ pickup' \in Nat \cup {NaN}
    BY <1>1, InvFacts
  <1>13. said' \subseteq Outcomes /\ BracketOK'
    BY <1>1, SaysNothing
  <1> QED BY <1>1, <1>2, <1>9, <1>10, <1>11, <1>12, <1>13, CaseStep

LEMMA TimeReleaseInv == Inv /\ TimeRelease => Inv'
  <1> SUFFICES ASSUME Inv, TimeRelease PROVE Inv'
    OBVIOUS
  <1>1. /\ stage = "release" /\ stage' = "release" /\ UNCHANGED case /\ bench' = bench
        /\ pickup' = pickup /\ said' = said
        /\ device' = device /\ plan' = plan /\ tripped' = tripped
        /\ pin' = pin /\ contact' = contact /\ steps' = steps
        /\ release' = Released
    BY DEF TimeRelease, CaptureRelease, Released
  <1>2. InCase /\ spec' = spec /\ spec \in LineRows
    BY <1>1, StagesInCase, InvFacts DEF case, StageOK, LineStages
  <1>3. TimesTyped /\ TracesOK /\ StepsOK
    BY InvFacts
  <1>4. /\ TimesTyped' = TimesTyped
        /\ Digital(0)' = Digital(0) /\ Digital(device.set)' = Digital(device.set)
        /\ Released' = Released
        /\ DetectionStep' = DetectionStep /\ SetStep' = SetStep /\ TotalStep' = TotalStep
        /\ LineInStep' = LineInStep
        /\ HoldStep' = HoldStep /\ ReleaseStep' = ReleaseStep
    BY <1>1, SameDevice
  <1>5. TimesTyped' /\ TracesOK'
    BY <1>1, <1>3, <1>4 DEF TracesOK
  <1>6. StepsOK'
    BY <1>1, <1>3, <1>4 DEF StepsOK
  <1>7. StageOK' /\ stage' \in Stages \ {"calibrate", "raised", "points"}
    BY <1>1, <1>2 DEF StageOK, TripStages, LineStages, EarlyStages, Stages
  <1>8. bench' \in Benches /\ pickup' \in Nat \cup {NaN}
    BY <1>1, InvFacts
  <1>9. said' \subseteq Outcomes /\ BracketOK'
    BY <1>1, SaysNothing
  <1> QED BY <1>1, <1>2, <1>5, <1>6, <1>7, <1>8, <1>9, CaseStep

LEMMA JudgeReleaseInv == Inv /\ JudgeRelease => Inv'
  <1> SUFFICES ASSUME Inv, JudgeRelease PROVE Inv'
    OBVIOUS
  <1>1. /\ stage = "release" /\ stage' = "done" /\ UNCHANGED case /\ bench' = bench
        /\ pickup' = pickup /\ said' = said
        /\ device' = device /\ plan' = plan /\ tripped' = tripped
        /\ pin' = pin /\ contact' = contact /\ release' = release
        /\ release # NoTrace /\ PublishRelease
    BY DEF JudgeRelease, PublishRelease
  <1>2. InCase /\ spec' = spec
    BY <1>1, StagesInCase DEF case, LineStages
  <1>3. TimesTyped /\ TracesOK /\ StepsOK /\ release = Released
    BY <1>1, InvFacts DEF TracesOK
  <1>4. steps' = [check \in DOMAIN steps \cup {"release"} |->
                    IF check = "release" THEN ReleaseStep ELSE steps[check]]
    BY <1>1, <1>3, Zenon DEF PublishRelease, ReleaseStep, Fall
  <1>5. /\ TimesTyped' = TimesTyped
        /\ Digital(0)' = Digital(0) /\ Digital(device.set)' = Digital(device.set)
        /\ Released' = Released
        /\ DetectionStep' = DetectionStep /\ SetStep' = SetStep /\ TotalStep' = TotalStep
        /\ LineInStep' = LineInStep
        /\ HoldStep' = HoldStep /\ ReleaseStep' = ReleaseStep
    BY <1>1, SameDevice
  <1>6. TimesTyped' /\ TracesOK'
    BY <1>1, <1>3, <1>5 DEF TracesOK
  <1>7. StepsOK'
    <2>1. /\ DOMAIN steps' = DOMAIN steps \cup {"release"}
          /\ \A check \in DOMAIN steps : check # "release" => steps'[check] = steps[check]
          /\ steps'["release"] = ReleaseStep
      BY <1>4
    <2>2. device'.detector = device.detector
      BY <1>1
    <2> QED BY <1>3, <1>5, <2>1, <2>2 DEF StepsOK, Checks
  <1>8. StageOK' /\ stage' \in Stages \ {"calibrate", "raised", "points"}
    BY <1>1 DEF StageOK, TripStages, LineStages, EarlyStages, Stages
  <1>9. bench' \in Benches /\ pickup' \in Nat \cup {NaN}
    BY <1>1, InvFacts
  <1>10. said' \subseteq Outcomes /\ BracketOK'
    BY <1>1, SaysNothing
  <1> QED BY <1>1, <1>2, <1>6, <1>7, <1>8, <1>9, <1>10, CaseStep

-----------------------------------------------------------------------------
(* The steps of a line case.                                                 *)

LEMMA LineRowTyped ==
  ASSUME spec \in LineRows
  PROVE  /\ spec.nominal \in Nat /\ spec.in_low \in Nat /\ spec.out_low \in Nat
         /\ spec.in_low \div 2 \in Nat /\ (spec.in_low * 13) \div 10 \in Nat
         /\ spec.in_low \div 2 =< (spec.in_low * 13) \div 10
         /\ (spec.out_low * 7) \div 10 \in Nat /\ Between \in Nat
  <1>1. spec.nominal \in Nat /\ spec.in_low \in Nat /\ spec.out_low \in Nat
    BY DEF LineRows
  <1>2. /\ spec.in_low \div 2 \in Nat /\ (spec.in_low * 13) \div 10 \in Nat
        /\ spec.in_low \div 2 =< (spec.in_low * 13) \div 10
        /\ (spec.out_low * 7) \div 10 \in Nat
    BY <1>1
  <1>3. Between \in Nat
    BY <1>1 DEF Between
  <1> QED BY <1>1, <1>2, <1>3

LEMMA ReadingTyped ==
  ASSUME NEW kv \in Int
  PROVE  Reading(kv) \in Int /\ (kv \in Nat => Reading(kv) \in Nat)
  <1>1. (kv \div 20) * 20 \in Int /\ (kv \in Nat => (kv \div 20) * 20 \in Nat)
    OBVIOUS
  <1> QED BY <1>1 DEF Reading, Rounded

\* What a whole number of sweep steps is, and how often they fit.
Whole(n) == n * SweepSteps
Share(x) == x \div SweepSteps

LEMMA StepCount == SweepSteps \in Nat /\ SweepSteps >= 1
  BY CasesAssumption

LEMMA WholeOrder ==
  ASSUME NEW a \in Int, NEW b \in Int
  PROVE  /\ Whole(a) \in Int
         /\ Whole(a + b) = Whole(a) + Whole(b)
         /\ Whole(a) < Whole(b) => a < b
  <1>1. Whole(a) \in Int /\ Whole(b) \in Int /\ Whole(a + b) = Whole(a) + Whole(b)
    BY StepCount DEF Whole
  <1>2. b =< a => Whole(b) =< Whole(a)
    BY StepCount, Scale DEF Whole
  <1> QED BY <1>1, <1>2

LEMMA ShareBounds ==
  ASSUME NEW x \in Nat
  PROVE  /\ Share(x) \in Nat
         /\ Whole(Share(x)) =< x /\ x < Whole(Share(x)) + SweepSteps
  <1>1. /\ Share(x) \in Nat /\ x = SweepSteps * Share(x) + (x % SweepSteps)
        /\ (x % SweepSteps) \in 0 .. (SweepSteps - 1)
    BY StepCount DEF Share
  <1>2. Whole(Share(x)) = SweepSteps * Share(x)
    BY <1>1, StepCount DEF Whole
  <1>3. Whole(Share(x)) \in Int
    BY <1>1, WholeOrder
  <1> QED BY <1>1, <1>2, <1>3, StepCount

\* What is added to x adds at most its share, rounded up.
LEMMA ShareOfSum ==
  ASSUME NEW x \in Nat, NEW d \in Nat
  PROVE  /\ Share(d + SweepSteps - 1) \in Nat
         /\ Share(x) =< Share(x + d)
         /\ Share(x + d) =< Share(x) + Share(d + SweepSteps - 1)
  <1> DEFINE more == d + SweepSteps - 1
             a == Share(x)
             b == Share(x + d)
             c == Share(more)
  <1>1. more \in Nat /\ x + d \in Nat
    BY StepCount
  <1>2. /\ a \in Nat /\ Whole(a) =< x /\ x < Whole(a) + SweepSteps
        /\ b \in Nat /\ Whole(b) =< x + d /\ x + d < Whole(b) + SweepSteps
        /\ c \in Nat /\ Whole(c) =< more /\ more < Whole(c) + SweepSteps
    <2> HIDE DEF more
    <2> QED BY <1>1, ShareBounds
  <1> HIDE DEF a, b, c
  <1>3. /\ Whole(a) \in Int /\ Whole(b) \in Int /\ Whole(c) \in Int
        /\ Whole(1) = SweepSteps
    BY <1>2, WholeOrder, StepCount DEF Whole
  <1>4. Whole(b + 1) = Whole(b) + SweepSteps
    BY <1>2, <1>3, WholeOrder
  <1>5. Whole(a + c) = Whole(a) + Whole(c)
    BY <1>2, WholeOrder
  <1>6. Whole(a + c + 1) = Whole(a) + Whole(c) + SweepSteps
    <2>1. a + c \in Int
      BY <1>2
    <2> QED BY <1>3, <1>5, <2>1, WholeOrder
  <1>7. Whole(a) < Whole(b + 1)
    BY <1>2, <1>3, <1>4, StepCount
  <1>8. Whole(b) < Whole(a + c + 1)
    BY <1>2, <1>3, <1>6, StepCount
  <1>9. a < b + 1
    BY <1>2, <1>7, WholeOrder
  <1>10. b < a + c + 1
    <2>1. a + c + 1 \in Int
      BY <1>2
    <2> QED BY <1>2, <1>8, <2>1, WholeOrder
  <1>11. a =< b /\ b =< a + c
    BY <1>2, <1>9, <1>10
  <1> QED BY <1>2, <1>11 DEF a, b, c

\* How far from its start a sweep is after k steps, and how far it gets in one.
Ascent(start, stop, k) == Share(k * Span(start, stop))
Stride(start, stop)  == Share(Span(start, stop) + SweepSteps - 1)

LEMMA SpanIs ==
  ASSUME NEW start \in Int, NEW stop \in Int
  PROVE  /\ Span(start, stop) \in Nat
         /\ start =< stop => Span(start, stop) = stop - start
         /\ stop =< start => Span(start, stop) = start - stop
  <1>1. Span(start, stop) = IF start - stop >= stop - start THEN start - stop ELSE stop - start
    BY GreatestOfTwo DEF Span
  <1> QED BY <1>1

LEMMA AscentIs ==
  ASSUME NEW start \in Int, NEW stop \in Int, NEW k \in Nat
  PROVE  /\ Ascent(start, stop, k) \in Nat /\ Stride(start, stop) \in Nat
         /\ Ascent(start, stop, 0) = 0
         /\ Ascent(start, stop, SweepSteps) = Span(start, stop)
         /\ k >= 1 =>
              /\ Ascent(start, stop, k - 1) \in Nat
              /\ Ascent(start, stop, k - 1) =< Ascent(start, stop, k)
              /\ Ascent(start, stop, k) =< Ascent(start, stop, k - 1) + Stride(start, stop)
  <1> DEFINE d == Span(start, stop)
  <1>1. d \in Nat
    BY SpanIs
  <1> HIDE DEF d
  <1>2. /\ k * d \in Nat
        /\ k >= 1 => (k - 1) * d \in Nat /\ k * d = (k - 1) * d + d
    BY <1>1
  <1>3. Share(k * d) \in Nat /\ Share(d + SweepSteps - 1) \in Nat
    BY <1>1, <1>2, ShareBounds, ShareOfSum
  <1>4. Share(0 * d) = 0
    BY <1>1, StepCount DEF Share
  <1>5. Share(SweepSteps * d) = d
    <2>1. SweepSteps * d \in Nat /\ SweepSteps * d = Whole(d)
      BY <1>1, StepCount DEF Whole
    <2> DEFINE s == Share(SweepSteps * d)
    <2>2. s \in Nat /\ Whole(s) =< Whole(d) /\ Whole(d) < Whole(s) + SweepSteps
      BY <2>1, ShareBounds
    <2> HIDE DEF s
    <2>3. /\ Whole(s) \in Int /\ Whole(d) \in Int
          /\ Whole(s + 1) = Whole(s) + SweepSteps /\ Whole(d + 1) = Whole(d) + SweepSteps
      <3>1. Whole(1) = SweepSteps
        BY StepCount DEF Whole
      <3> QED BY <1>1, <2>2, <3>1, WholeOrder
    <2>4. Whole(d) < Whole(s + 1) /\ Whole(s) < Whole(d + 1)
      BY <2>2, <2>3, StepCount
    <2>5. d < s + 1 /\ s < d + 1
      BY <1>1, <2>2, <2>4, WholeOrder
    <2> QED BY <1>1, <2>2, <2>5 DEF s
  <1>6. ASSUME k >= 1
        PROVE  /\ Share((k - 1) * d) \in Nat
               /\ Share((k - 1) * d) =< Share(k * d)
               /\ Share(k * d) =< Share((k - 1) * d) + Share(d + SweepSteps - 1)
    <2> DEFINE x == (k - 1) * d
    <2>1. x \in Nat /\ k * d = x + d
      BY <1>2, <1>6
    <2> HIDE DEF x
    <2>2. Share(x) \in Nat /\ Share(x) =< Share(x + d)
          /\ Share(x + d) =< Share(x) + Share(d + SweepSteps - 1)
      BY <1>1, <2>1, ShareBounds, ShareOfSum
    <2>3. Share(x) \in Nat /\ Share(x) =< Share(k * d)
          /\ Share(k * d) =< Share(x) + Share(d + SweepSteps - 1)
      BY <2>1, <2>2
    <2> QED BY <2>3 DEF x
  <1> QED BY <1>3, <1>4, <1>5, <1>6 DEF Ascent, Stride, d

\* The levels of a sweep.
Level(start, stop, direction, k) == start + direction * Ascent(start, stop, k)

LEMMA LevelIs ==
  ASSUME NEW start \in Int, NEW stop \in Int, NEW direction \in {1, -1}, NEW k \in Nat
  PROVE  /\ Level(start, stop, direction, k) \in Int
         /\ Level(start, stop, direction, 0) = start
         /\ direction = 1 => start =< Level(start, stop, direction, k)
         /\ Level(start, stop, direction, k) =
              IF direction = 1 THEN start + Ascent(start, stop, k)
              ELSE start - Ascent(start, stop, k)
         /\ Level(start, stop, direction, SweepSteps) =
              IF direction = 1 THEN start + Span(start, stop) ELSE start - Span(start, stop)
  <1>1. Ascent(start, stop, k) \in Nat /\ Ascent(start, stop, 0) = 0
        /\ Ascent(start, stop, SweepSteps) = Span(start, stop) /\ Span(start, stop) \in Nat
    BY AscentIs, SpanIs
  <1>2. CASE direction = 1
    BY <1>1, <1>2 DEF Level
  <1>3. CASE direction = -1
    BY <1>1, <1>3 DEF Level
  <1> QED BY <1>2, <1>3

\* From one level to the next, a sweep goes a stride at most.
LEMMA NextLevel ==
  ASSUME NEW start \in Int, NEW stop \in Int, NEW k \in Nat, k >= 1
  PROVE  /\ Stride(start, stop) \in Nat
         /\ Level(start, stop, 1, k - 1) =< Level(start, stop, 1, k)
         /\ Level(start, stop, 1, k) =< Level(start, stop, 1, k - 1) + Stride(start, stop)
         /\ Level(start, stop, -1, k) =< Level(start, stop, -1, k - 1)
         /\ Level(start, stop, -1, k - 1) =< Level(start, stop, -1, k) + Stride(start, stop)
  <1>1. k - 1 \in Nat /\ 1 \in {1, -1} /\ -1 \in {1, -1} /\ -1 # 1
    OBVIOUS
  <1>2. /\ Ascent(start, stop, k) \in Nat /\ Ascent(start, stop, k - 1) \in Nat
        /\ Stride(start, stop) \in Nat
        /\ Ascent(start, stop, k - 1) =< Ascent(start, stop, k)
        /\ Ascent(start, stop, k) =< Ascent(start, stop, k - 1) + Stride(start, stop)
    BY AscentIs
  <1>3. /\ Level(start, stop, 1, k) = start + Ascent(start, stop, k)
        /\ Level(start, stop, -1, k) = start - Ascent(start, stop, k)
        /\ Level(start, stop, 1, k - 1) = start + Ascent(start, stop, k - 1)
        /\ Level(start, stop, -1, k - 1) = start - Ascent(start, stop, k - 1)
    BY <1>1, LevelIs, Zenon
  <1> QED BY <1>2, <1>3

-----------------------------------------------------------------------------
(* What a sweep finds.                                                       *)

\* A line that is not declared is at such a level; one that is declared stays.
InLevel(kv)   == Within(kv, dut.in_low, dut.in_high, "device")
HeldLevel(kv) == Within(kv, dut.out_low, dut.out_high, "device")

\* The device changes its mind at this level.
Hit(want, kv) == IF want THEN InLevel(kv) ELSE ~HeldLevel(kv)

Before(b, kv, latched) == [Supply(b, kv) EXCEPT !.latched = latched]

LEMMA LookAt ==
  ASSUME NEW b \in Benches, NEW kv \in Int, NEW latched \in BOOLEAN
  PROVE  /\ Before(b, kv, latched) \in Benches /\ Looked(Before(b, kv, latched)) \in Benches
         /\ Before(b, kv, b.latched) = Supply(b, kv)
         /\ latched = TRUE => Looked(Before(b, kv, latched)).latched = HeldLevel(kv)
         /\ latched = FALSE => Looked(Before(b, kv, latched)).latched = InLevel(kv)
         /\ Looked(Before(b, kv, latched)).kv = kv
         /\ Looked(Before(b, kv, latched)).supplied = TRUE
         /\ Looked(Before(b, kv, latched)).dropped = FALSE
  <1> DEFINE before == Before(b, kv, latched)
  <1>1. /\ before \in Benches /\ before.kv = kv /\ before.supplied = TRUE
        /\ before.dropped = FALSE /\ before.latched = latched
    BY DEF Before, Supply, Benches
  <1>2. Before(b, kv, b.latched) = Supply(b, kv)
    BY DEF Before, Supply, Benches
  <1> HIDE DEF before
  <1>3. Looked(before) \in Benches
    BY <1>1, BenchOps
  <1>4. /\ Looked(before).kv = kv /\ Looked(before).supplied = TRUE
        /\ Looked(before).dropped = FALSE
    BY <1>1 DEF Looked, Benches
  <1>5. Looked(before).latched = Settled(before)
    BY <1>1 DEF Looked, Benches
  <1>6. LineKv(before) = kv
    BY <1>1 DEF LineKv
  <1>7. latched = TRUE => Settled(before) = HeldLevel(kv)
    BY <1>1, <1>6 DEF Settled, HeldLevel, Within
  <1>8. latched = FALSE => Settled(before) = InLevel(kv)
    BY <1>1, <1>6 DEF Settled, InLevel, Within
  <1> QED BY <1>1, <1>2, <1>3, <1>4, <1>5, <1>7, <1>8 DEF before

\* The first look at a level that has just been applied.
LEMMA LookNow ==
  ASSUME NEW b \in Benches, NEW kv \in Int
  PROVE  /\ Looked(Supply(b, kv)) \in Benches
         /\ b.latched = TRUE => Looked(Supply(b, kv)).latched = HeldLevel(kv)
         /\ b.latched = FALSE => Looked(Supply(b, kv)).latched = InLevel(kv)
         /\ Looked(Supply(b, kv)).kv = kv
         /\ Looked(Supply(b, kv)).supplied = TRUE
         /\ Looked(Supply(b, kv)).dropped = FALSE
  <1>1. b.latched \in BOOLEAN
    BY DEF Benches
  <1>2. Supply(b, kv) = Before(b, kv, b.latched)
    BY <1>1, LookAt
  <1> DEFINE latched == b.latched
             now     == Before(b, kv, latched)
  <1> HIDE DEF latched
  <1>3. latched \in BOOLEAN /\ latched = b.latched
    BY <1>1 DEF latched
  <1>4. /\ Looked(now) \in Benches
        /\ latched = TRUE => Looked(now).latched = HeldLevel(kv)
        /\ latched = FALSE => Looked(now).latched = InLevel(kv)
        /\ Looked(now).kv = kv /\ Looked(now).supplied = TRUE /\ Looked(now).dropped = FALSE
    BY <1>3, LookAt, Zenon
  <1> QED BY <1>2, <1>3, <1>4

\* A sweep leaves the generator at one of its levels, and finds one or none.
LEMMA SweepTyped ==
  ASSUME bench \in Benches, NEW start \in Int, NEW stop \in Int,
         NEW direction \in {1, -1}, NEW want \in BOOLEAN
  PROVE  /\ Sweep(start, stop, direction, want).bench \in Benches
         /\ Sweep(start, stop, direction, want).found \in Int
         /\ start \in Nat /\ direction = 1 =>
              Sweep(start, stop, direction, want).found \in Nat \cup {NaN}
  <1> DEFINE levels == Levels(start, stop, direction)
             before(k) == [Supply(bench, levels[k]) EXCEPT
                             !.latched = IF k = 0 THEN @ ELSE ~want]
             looked(k) == Looked(before(k))
             hits == {k \in DOMAIN levels : looked(k).latched = want}
  <1>1. /\ DOMAIN levels = 0 .. SweepSteps
        /\ \A k \in 0 .. SweepSteps : levels[k] = Level(start, stop, direction, k)
    BY DEF Levels, Level, Ascent, Share
  <1>2. SweepSteps \in Nat
    BY StepCount
  <1>3. ASSUME NEW k \in 0 .. SweepSteps
        PROVE  levels[k] \in Int /\ (start \in Nat /\ direction = 1 => levels[k] \in Nat)
    <2>1. k \in Nat
      BY <1>2
    <2>2. Level(start, stop, direction, k) \in Int
      BY <2>1, LevelIs
    <2>a. direction = 1 => start =< Level(start, stop, direction, k)
      BY <2>1, LevelIs
    <2>3. levels[k] = Level(start, stop, direction, k)
      BY <1>1
    <2> HIDE DEF levels
    <2> QED BY <2>2, <2>a, <2>3
  <1>4. ASSUME NEW k \in 0 .. SweepSteps
        PROVE  looked(k) \in Benches
    <2> HIDE DEF levels
    <2>1. Supply(bench, levels[k]) \in Benches
      BY <1>3, BenchOps
    <2>2. before(k) \in Benches
      BY <2>1 DEF Benches
    <2> HIDE DEF before
    <2> QED BY <2>2, BenchOps
  <1>5. Sweep(start, stop, direction, want) =
          IF hits = {} THEN [found |-> NaN, bench |-> looked(SweepSteps)]
          ELSE [found |-> Reading(levels[Min(hits)]), bench |-> looked(Min(hits))]
    BY DEF Sweep
  <1>6. hits \in SUBSET Nat /\ hits \subseteq 0 .. SweepSteps
    <2>1. hits \subseteq 0 .. SweepSteps
      BY <1>1
    <2> QED BY <1>2, <2>1
  <1> HIDE DEF levels, looked, hits
  <1>7. CASE hits = {}
    <2>1. SweepSteps \in 0 .. SweepSteps
      BY <1>2
    <2> QED BY <1>4, <1>5, <1>7, <2>1 DEF NaN
  <1>8. CASE hits # {}
    <2>1. Min(hits) \in 0 .. SweepSteps
      BY <1>6, <1>8, LeastNatural
    <2>2. looked(Min(hits)) \in Benches
      BY <1>4, <2>1
    <2>3. /\ Reading(levels[Min(hits)]) \in Int
          /\ start \in Nat /\ direction = 1 => Reading(levels[Min(hits)]) \in Nat
      BY <1>3, <2>1, ReadingTyped
    <2> QED BY <1>5, <1>8, <2>2, <2>3
  <1> QED BY <1>7, <1>8

\* Either no level changes the mind of the device, or the reading is of the
\* first that does.
Missed(start, stop, direction, want) ==
  \A k \in 0 .. SweepSteps : ~Hit(want, Level(start, stop, direction, k))

FirstHit(start, stop, direction, want, k) ==
  /\ Hit(want, Level(start, stop, direction, k))
  /\ \A j \in 0 .. SweepSteps : j < k => ~Hit(want, Level(start, stop, direction, j))

LEMMA SweepFinds ==
  ASSUME bench \in Benches, NEW start \in Int, NEW stop \in Int,
         NEW direction \in {1, -1}, NEW want \in BOOLEAN, bench.latched = ~want
  PROVE  \/ /\ Sweep(start, stop, direction, want).found = NaN
            /\ Missed(start, stop, direction, want)
         \/ \E k \in 0 .. SweepSteps :
              /\ FirstHit(start, stop, direction, want, k)
              /\ Sweep(start, stop, direction, want).found =
                   Reading(Level(start, stop, direction, k))
              /\ Sweep(start, stop, direction, want).bench.latched = want
  <1> DEFINE levels == Levels(start, stop, direction)
             looked(k) == Looked([Supply(bench, levels[k]) EXCEPT
                                    !.latched = IF k = 0 THEN @ ELSE ~want])
             hits == {k \in DOMAIN levels : looked(k).latched = want}
  <1>1. /\ DOMAIN levels = 0 .. SweepSteps
        /\ \A k \in 0 .. SweepSteps : levels[k] = Level(start, stop, direction, k)
    BY DEF Levels, Level, Ascent, Share
  <1>2. SweepSteps \in Nat
    BY StepCount
  <1>3. ASSUME NEW k \in 0 .. SweepSteps
        PROVE  looked(k).latched = want <=> Hit(want, Level(start, stop, direction, k))
    <2> DEFINE level == Level(start, stop, direction, k)
    <2>1. level \in Int /\ levels[k] = level
      <3>1. k \in Nat /\ levels[k] = level
        BY <1>1, <1>2
      <3>2. level \in Int
        BY <3>1, LevelIs
      <3> QED BY <3>1, <3>2
    <2> HIDE DEF levels, level
    <2>2. Supply(bench, level).latched = bench.latched /\ (~want) \in BOOLEAN
      BY <2>1 DEF Supply, Benches
    <2>3. looked(k) = Looked(Before(bench, level, ~want))
      BY <2>1, <2>2 DEF Before
    <2>4. CASE want = TRUE
      <3>1. Looked(Before(bench, level, FALSE)).latched = InLevel(level)
        BY <2>1, LookAt
      <3>2. looked(k).latched = InLevel(level)
        BY <2>3, <2>4, <3>1, Zenon
      <3>3. InLevel(level) \in BOOLEAN
        BY DEF InLevel, Within
      <3> HIDE DEF looked
      <3> QED BY <2>4, <3>2, <3>3 DEF Hit, level
    <2>5. CASE want = FALSE
      <3>1. Looked(Before(bench, level, TRUE)).latched = HeldLevel(level)
        BY <2>1, LookAt
      <3>2. looked(k).latched = HeldLevel(level)
        BY <2>3, <2>5, <3>1, Zenon
      <3>3. HeldLevel(level) \in BOOLEAN
        BY DEF HeldLevel, Within
      <3> HIDE DEF looked
      <3> QED BY <2>5, <3>2, <3>3 DEF Hit, level
    <2> QED BY <2>4, <2>5
  <1>4. Sweep(start, stop, direction, want) =
          IF hits = {} THEN [found |-> NaN, bench |-> looked(SweepSteps)]
          ELSE [found |-> Reading(levels[Min(hits)]), bench |-> looked(Min(hits))]
    BY DEF Sweep
  <1>5. \A k : k \in hits <=>
                 k \in 0 .. SweepSteps /\ Hit(want, Level(start, stop, direction, k))
    BY <1>1, <1>3
  <1>6. \A k \in hits : looked(k).latched = want
    OBVIOUS
  <1> HIDE DEF levels, looked, hits
  <1>7. CASE hits = {}
    BY <1>4, <1>5, <1>7 DEF Missed
  <1>8. CASE hits # {}
    <2> DEFINE k == Min(hits)
    <2>1. hits \in SUBSET Nat
      BY <1>2, <1>5
    <2>2. k \in hits /\ \A j \in hits : k =< j
      BY <1>8, <2>1, LeastNatural
    <2> HIDE DEF k
    <2>3. k \in 0 .. SweepSteps /\ Hit(want, Level(start, stop, direction, k))
      BY <1>5, <2>2
    <2>4. ASSUME NEW j \in 0 .. SweepSteps, j < k
          PROVE  ~Hit(want, Level(start, stop, direction, j))
      <3>1. j \notin hits
        BY <1>2, <2>2, <2>3, <2>4
      <3> QED BY <1>5, <3>1
    <2>5. /\ Sweep(start, stop, direction, want).found = Reading(levels[k])
          /\ Sweep(start, stop, direction, want).bench = looked(k)
      BY <1>4, <1>8 DEF k
    <2>6. levels[k] = Level(start, stop, direction, k) /\ looked(k).latched = want
      BY <1>1, <1>6, <2>2, <2>3
    <2> QED BY <2>3, <2>4, <2>5, <2>6 DEF FirstHit
  <1> QED BY <1>7, <1>8

-----------------------------------------------------------------------------
(* What the two sweeps of a line case say of the thresholds.                 *)

LEMMA ReadingNear ==
  ASSUME NEW kv \in Int
  PROVE  Reading(kv) \in Int /\ kv - 10 =< Reading(kv) /\ Reading(kv) =< kv + 10
  <1>1. /\ Reading(kv) \in Int
        /\ 2 * (Reading(kv) - kv) =< 20 /\ 2 * (kv - Reading(kv)) =< 20
    BY RoundedNear DEF Reading
  <1> QED BY <1>1

LEMMA DutTyped ==
  ASSUME dut \in DutsUnderTest
  PROVE  /\ dut.in_low \in Int /\ dut.in_high \in Int /\ dut.out_low \in Int
         /\ dut.out_high \in Int /\ dut.ride \in Int
  BY DEF DutsUnderTest

\* A level is within a window, but for its ends: there the device may say either.
LEMMA Windows ==
  ASSUME dut \in DutsUnderTest, NEW kv \in Int
  PROVE  /\ InLevel(kv) \in BOOLEAN /\ HeldLevel(kv) \in BOOLEAN
         /\ InLevel(kv) => dut.in_low =< kv /\ kv =< dut.in_high
         /\ dut.in_low < kv /\ kv < dut.in_high => InLevel(kv)
         /\ HeldLevel(kv) => dut.out_low =< kv /\ kv =< dut.out_high
         /\ dut.out_low < kv /\ kv < dut.out_high => HeldLevel(kv)
  BY DutTyped DEF InLevel, HeldLevel, Within, AtLeast

\* Two levels of a sweep on either side of a threshold.
LEMMA Crossing ==
  ASSUME dut \in DutsUnderTest, NEW low \in Int, NEW high \in Int, low =< high
  PROVE  /\ InLevel(high) /\ ~InLevel(low) => low =< dut.in_low
         /\ HeldLevel(high) /\ ~HeldLevel(low) => low =< dut.out_low
  <1>1. low = high => (InLevel(low) <=> InLevel(high)) /\ (HeldLevel(low) <=> HeldLevel(high))
    OBVIOUS
  <1> QED BY <1>1, Windows, DutTyped

LEMMA Tolerance ==
  ASSUME spec.tol \in Nat, NEW found \in Int, NEW nominal \in Nat
  PROVE  /\ (100 - spec.tol) * nominal \in Int /\ (100 + spec.tol) * nominal \in Int
         /\ WithinTolerance(found, nominal) =>
              /\ (100 - spec.tol) * nominal =< 100 * found
              /\ 100 * found =< (100 + spec.tol) * nominal
         /\ /\ (100 - spec.tol) * nominal < 100 * found
            /\ 100 * found < (100 + spec.tol) * nominal
            => WithinTolerance(found, nominal)
  <1> DEFINE low  == (100 - spec.tol) * nominal
             high == (100 + spec.tol) * nominal
  <1>1. low \in Int /\ high \in Int
    OBVIOUS
  <1>2. WithinTolerance(found, nominal) <=>
          AtLeast(100 * found, low, "plan") /\ AtLeast(-(100 * found), -high, "plan")
    BY DEF WithinTolerance, Within
  <1> HIDE DEF low, high
  <1>3. /\ AtLeast(100 * found, low, "plan") => low =< 100 * found
        /\ low < 100 * found => AtLeast(100 * found, low, "plan")
        /\ AtLeast(-(100 * found), -high, "plan") => 100 * found =< high
        /\ 100 * found < high => AtLeast(-(100 * found), -high, "plan")
    BY <1>1 DEF AtLeast
  <1>4. /\ WithinTolerance(found, nominal) => low =< 100 * found /\ 100 * found =< high
        /\ low < 100 * found /\ 100 * found < high => WithinTolerance(found, nominal)
    BY <1>2, <1>3
  <1> QED BY <1>1, <1>4 DEF low, high

\* A reading within tolerance is of a threshold near the nominal one.
LEMMA NearFound ==
  ASSUME spec.tol \in Nat, NEW found \in Int, NEW nominal \in Nat,
         NEW threshold \in Int, NEW resolution \in Nat,
         WithinTolerance(found, nominal),
         threshold - resolution =< found, found =< threshold + resolution
  PROVE  Near(threshold, nominal, resolution)
  <1> DEFINE low  == (100 - spec.tol) * nominal
             high == (100 + spec.tol) * nominal
  <1>1. low \in Int /\ high \in Int /\ low =< 100 * found /\ 100 * found =< high
    BY Tolerance
  <1> HIDE DEF low, high
  <1>2. 100 * (threshold + resolution) >= low /\ 100 * (threshold - resolution) =< high
    BY <1>1
  <1> QED BY <1>2 DEF Near, low, high

\* ... and a reading between two levels that keep the tolerance keeps it.
LEMMA WithinFound ==
  ASSUME spec.tol \in Nat, NEW found \in Int, NEW nominal \in Nat,
         NEW a \in Int, NEW b \in Int, a =< found, found =< b,
         100 * a > (100 - spec.tol) * nominal, 100 * b < (100 + spec.tol) * nominal
  PROVE  WithinTolerance(found, nominal)
  <1> DEFINE low  == (100 - spec.tol) * nominal
             high == (100 + spec.tol) * nominal
  <1>1. low \in Int /\ high \in Int /\ low < 100 * a /\ 100 * b < high
    BY Tolerance
  <1> HIDE DEF low, high
  <1>2. low < 100 * found /\ 100 * found < high
    BY <1>1
  <1> QED BY <1>2, Tolerance DEF low, high

\* A row that the sweeps reach, in figures.
LEMMA Reach ==
  ASSUME spec \in LineRows, SweepsReach
  PROVE  /\ spec.tol \in Nat /\ spec.in_low \in Nat /\ spec.in_low > 50 /\ spec.out_low \in Nat
         /\ 70 * spec.in_low =< (100 - spec.tol) * spec.in_low
         /\ (100 + spec.tol) * spec.in_low =< 130 * spec.in_low
         /\ 70 * spec.out_low =< (100 - spec.tol) * spec.out_low
  <1>1. /\ spec.tol \in Nat /\ spec.tol =< 30 /\ spec.in_low \in Nat /\ spec.in_low > 50
        /\ spec.out_low \in Nat
    BY DEF LineRows, SweepsReach
  <1>2. 70 =< 100 - spec.tol /\ 100 + spec.tol =< 130
    BY <1>1
  <1>3. 100 - spec.tol \in Int /\ 100 + spec.tol \in Int
    BY <1>1
  <1> QED BY <1>1, <1>2, <1>3, Scale

UpStart == spec.in_low \div 2
UpStop  == (spec.in_low * 13) \div 10

LEMMA UpTyped ==
  ASSUME spec \in LineRows
  PROVE  /\ UpStart \in Nat /\ UpStop \in Nat /\ UpStart =< UpStop
         /\ Stride(UpStart, UpStop) \in Nat /\ UpResolution = Stride(UpStart, UpStop) + 10
         /\ spec.in_low \in Nat /\ 2 * UpStart =< spec.in_low
         /\ spec.in_low * 13 =< 10 * UpStop + 9
  <1>1. spec.in_low \in Nat
    BY DEF LineRows
  <1>2. /\ UpStart \in Nat /\ UpStop \in Nat /\ UpStart =< UpStop
        /\ 2 * UpStart =< spec.in_low /\ spec.in_low * 13 =< 10 * UpStop + 9
    BY <1>1 DEF UpStart, UpStop
  <1>3. Stride(UpStart, UpStop) \in Nat
    <2>1. UpStart \in Int /\ UpStop \in Int /\ 0 \in Nat
      BY <1>2
    <2> QED BY <2>1, AscentIs, Zenon
  <1>4. UpResolution = Stride(UpStart, UpStop) + 10
    BY DEF UpResolution, Resolution, Stride, Share, UpStart, UpStop
  <1> QED BY <1>1, <1>2, <1>3, <1>4

\* A pick-up voltage that is within tolerance is that of the device.
LEMMA PickUpFound ==
  ASSUME spec \in LineRows, SweepsReach, dut \in DutsUnderTest, bench \in Benches,
         bench.latched = FALSE,
         Sweep(UpStart, UpStop, 1, TRUE).found # NaN,
         WithinTolerance(Sweep(UpStart, UpStop, 1, TRUE).found, spec.in_low)
  PROVE  /\ Sweep(UpStart, UpStop, 1, TRUE).bench.latched = TRUE
         /\ dut.in_low - 10 =< Sweep(UpStart, UpStop, 1, TRUE).found
         /\ Near(dut.in_low, spec.in_low, UpResolution)
  <1> DEFINE sweep    == Sweep(UpStart, UpStop, 1, TRUE)
             level(k) == Level(UpStart, UpStop, 1, k)
             stride   == Stride(UpStart, UpStop)
  <1>1. UpStart \in Int /\ UpStop \in Int /\ 1 \in {1, -1} /\ TRUE \in BOOLEAN
        /\ bench.latched = ~TRUE
    <2>1. UpStart \in Int /\ UpStop \in Int
      BY UpTyped
    <2> QED BY <2>1
  <1>2. PICK k \in 0 .. SweepSteps :
          /\ FirstHit(UpStart, UpStop, 1, TRUE, k)
          /\ sweep.found = Reading(level(k)) /\ sweep.bench.latched = TRUE
    BY <1>1, SweepFinds, Zenon
  <1>3. k \in Nat /\ k \in 0 .. SweepSteps
    BY <1>2, StepCount
  <1>4. level(k) \in Int /\ level(0) = UpStart
    BY <1>1, <1>3, LevelIs
  <1>5. /\ sweep.found \in Int
        /\ level(k) - 10 =< sweep.found /\ sweep.found =< level(k) + 10
    <2> HIDE DEF level
    <2> QED BY <1>2, <1>4, ReadingNear
  <1>6. InLevel(level(k)) /\ dut.in_low =< level(k)
    BY <1>2, <1>4, Windows DEF FirstHit, Hit
  <1>7. k >= 1
    <2> SUFFICES ASSUME k = 0 PROVE FALSE
      BY <1>3
    <2>1. sweep.found =< UpStart + 10
      BY <1>4, <1>5
    <2>2. (100 - spec.tol) * spec.in_low =< 100 * sweep.found
      BY <1>5, Reach, Tolerance
    <2>3. (100 - spec.tol) * spec.in_low \in Int
      BY Reach
    <2> DEFINE limit == (100 - spec.tol) * spec.in_low
    <2>4. /\ limit \in Int /\ 70 * spec.in_low =< limit /\ limit =< 100 * sweep.found
          /\ spec.in_low \in Nat
      BY <2>2, <2>3, Reach
    <2> HIDE DEF sweep, limit
    <2> QED BY <1>5, <2>1, <2>4, Reach, UpTyped
  <1>8. k - 1 \in 0 .. SweepSteps /\ k - 1 < k /\ k - 1 \in Nat
    BY <1>3, <1>7, StepCount
  <1>9. ~InLevel(level(k - 1))
    BY <1>2, <1>8 DEF FirstHit, Hit
  <1>10. level(k - 1) \in Int
    BY <1>1, <1>8, LevelIs
  <1>11. stride \in Nat /\ level(k - 1) =< level(k) /\ level(k) =< level(k - 1) + stride
    BY <1>1, <1>3, <1>7, NextLevel
  <1>12. level(k - 1) =< dut.in_low
    <2> HIDE DEF level
    <2> QED BY <1>4, <1>6, <1>9, <1>10, <1>11, Crossing
  <1>13. dut.in_low \in Int /\ UpResolution = stride + 10
    BY DutTyped, UpTyped
  <1>14. /\ dut.in_low - 10 =< sweep.found
         /\ dut.in_low - UpResolution =< sweep.found
         /\ sweep.found =< dut.in_low + UpResolution
    <2> HIDE DEF level, sweep, stride
    <2> QED BY <1>4, <1>5, <1>6, <1>10, <1>11, <1>12, <1>13
  <1>15. UpResolution \in Nat
    BY <1>11, <1>13
  <1>16. Near(dut.in_low, spec.in_low, UpResolution)
    <2> HIDE DEF level, sweep, stride
    <2>1. WithinTolerance(sweep.found, spec.in_low)
      BY DEF sweep
    <2> QED BY <1>5, <1>13, <1>14, <1>15, <2>1, Reach, NearFound
  <1> QED BY <1>2, <1>14, <1>16

\* The sweep up comes to the pick-up voltage of a device inside its limits.
LEMMA PickUpGood ==
  ASSUME spec \in LineRows, SweepsReach, dut \in DutsUnderTest, bench \in Benches,
         bench.latched = FALSE, LineInside
  PROVE  /\ Sweep(UpStart, UpStop, 1, TRUE).found # NaN
         /\ WithinTolerance(Sweep(UpStart, UpStop, 1, TRUE).found, spec.in_low)
  <1> DEFINE sweep    == Sweep(UpStart, UpStop, 1, TRUE)
             level(k) == Level(UpStart, UpStop, 1, k)
             stride   == Stride(UpStart, UpStop)
             over     == {k \in 0 .. SweepSteps : level(k) > dut.in_low}
  <1>1. UpStart \in Int /\ UpStop \in Int /\ 1 \in {1, -1} /\ TRUE \in BOOLEAN
        /\ bench.latched = ~TRUE
    <2>1. UpStart \in Int /\ UpStop \in Int
      BY UpTyped
    <2> QED BY <2>1
  <1>2. /\ dut.in_low \in Int /\ dut.in_high \in Int /\ dut.out_low \in Int
        /\ stride \in Nat /\ UpResolution = stride + 10
    BY DutTyped, UpTyped
  <1>3. /\ 100 * (dut.in_low - 10) > (100 - spec.tol) * spec.in_low
        /\ 100 * (dut.in_low + UpResolution) < (100 + spec.tol) * spec.in_low
        /\ UpStart < dut.out_low /\ dut.out_low + 20 < dut.in_low
        /\ dut.in_low + UpResolution < dut.in_high
    BY DEF LineInside, UpStart
  <1>4. level(0) = UpStart /\ level(SweepSteps) = UpStop /\ SweepSteps \in Nat
    <2>1. Span(UpStart, UpStop) = UpStop - UpStart
      BY <1>1, UpTyped, SpanIs
    <2>2. level(SweepSteps) = UpStart + Span(UpStart, UpStop) /\ level(0) = UpStart
      BY <1>1, StepCount, LevelIs
    <2> QED BY <1>1, <2>1, <2>2, StepCount
  <1>5. dut.in_low < UpStop
    <2>1. (100 + spec.tol) * spec.in_low =< 130 * spec.in_low /\ spec.in_low \in Nat
          /\ spec.tol \in Nat
      BY Reach
    <2>2. (100 + spec.tol) * spec.in_low \in Int
      BY <2>1
    <2>3. 100 * (dut.in_low + UpResolution) < 130 * spec.in_low
      <3> DEFINE limit == (100 + spec.tol) * spec.in_low
      <3> HIDE DEF limit
      <3>1. limit \in Int /\ limit =< 130 * spec.in_low
            /\ 100 * (dut.in_low + UpResolution) < limit
        BY <1>3, <2>1, <2>2 DEF limit
      <3> QED BY <1>2, <2>1, <3>1
    <2>4. spec.in_low * 13 =< 10 * UpStop + 9 /\ UpStop \in Int
      BY <1>1, UpTyped
    <2> HIDE DEF stride
    <2> QED BY <1>2, <2>1, <2>3, <2>4
  <1>6. over \in SUBSET Nat /\ SweepSteps \in over
    BY <1>4, <1>5
  <1>7. PICK top \in 0 .. SweepSteps :
          level(top) > dut.in_low /\ \A k \in 0 .. SweepSteps : k < top => ~(level(k) > dut.in_low)
    <2>1. Min(over) \in over /\ \A k \in over : Min(over) =< k
      BY <1>6, LeastNatural
    <2>2. Min(over) \in 0 .. SweepSteps /\ level(Min(over)) > dut.in_low
      BY <2>1
    <2>3. ASSUME NEW k \in 0 .. SweepSteps, k < Min(over) PROVE ~(level(k) > dut.in_low)
      <3>1. k \notin over
        BY <1>4, <2>1, <2>2, <2>3
      <3> QED BY <3>1
    <2> QED BY <2>2, <2>3
  <1>8. top \in Nat /\ level(top) \in Int
    BY <1>1, <1>4, <1>7, LevelIs
  <1>9. top >= 1 /\ top - 1 \in 0 .. SweepSteps /\ top - 1 < top /\ top - 1 \in Nat
    <2>1. top # 0
      <3> HIDE DEF level
      <3> QED BY <1>1, <1>2, <1>3, <1>4, <1>7
    <2> QED BY <1>4, <1>7, <1>8, <2>1
  <1>10. level(top - 1) \in Int /\ level(top - 1) =< dut.in_low
    <2>1. level(top - 1) \in Int
      BY <1>1, <1>9, LevelIs
    <2>2. ~(level(top - 1) > dut.in_low)
      BY <1>7, <1>9
    <2> HIDE DEF level
    <2> QED BY <1>2, <2>1, <2>2
  <1>11. level(top) =< dut.in_low + stride
    <2>1. level(top) =< level(top - 1) + stride
      BY <1>1, <1>8, <1>9, NextLevel
    <2> HIDE DEF level, stride
    <2> QED BY <1>2, <1>8, <1>10, <2>1
  <1>12. InLevel(level(top))
    <2> HIDE DEF level, stride
    <2>1. dut.in_low < level(top) /\ level(top) < dut.in_high
      BY <1>2, <1>3, <1>7, <1>8, <1>11
    <2> QED BY <1>8, <2>1, Windows
  <1>13. PICK k \in 0 .. SweepSteps :
           /\ FirstHit(UpStart, UpStop, 1, TRUE, k) /\ sweep.found = Reading(level(k))
    <2>1. ~Missed(UpStart, UpStop, 1, TRUE)
      BY <1>7, <1>12 DEF Missed, Hit
    <2> QED BY <1>1, <2>1, SweepFinds, Zenon
  <1>14. k \in Nat /\ level(k) \in Int
    BY <1>1, <1>4, <1>13, LevelIs
  <1>15. InLevel(level(k)) /\ dut.in_low =< level(k)
    BY <1>13, <1>14, Windows DEF FirstHit, Hit
  <1>16. level(k) =< dut.in_low + stride
    <2>1. CASE k < top
      <3>1. ~(level(k) > dut.in_low)
        BY <1>7, <1>13, <2>1
      <3> HIDE DEF level, stride
      <3> QED BY <1>2, <1>14, <3>1
    <2>2. CASE k = top
      BY <1>11, <2>2
    <2>3. CASE k > top
      <3>1. ~InLevel(level(top))
        BY <1>7, <1>13, <2>3 DEF FirstHit, Hit
      <3> QED BY <1>12, <3>1
    <2> QED BY <1>8, <1>14, <2>1, <2>2, <2>3
  <1>17. /\ sweep.found \in Int /\ dut.in_low - 10 =< sweep.found
         /\ sweep.found =< dut.in_low + UpResolution
    <2> HIDE DEF level, stride, sweep
    <2>1. Reading(level(k)) \in Int /\ level(k) - 10 =< Reading(level(k))
          /\ Reading(level(k)) =< level(k) + 10
      BY <1>14, ReadingNear
    <2> QED BY <1>2, <1>13, <1>14, <1>15, <1>16, <2>1
  <1>18. sweep.found # NaN
    <2>1. (100 - spec.tol) * spec.in_low \in Int /\ 70 * spec.in_low =< (100 - spec.tol) * spec.in_low
          /\ spec.in_low \in Nat
      BY Reach
    <2> DEFINE limit == (100 - spec.tol) * spec.in_low
    <2>2. limit \in Int /\ limit >= 0 /\ 100 * (dut.in_low - 10) > limit
      BY <1>3, <2>1
    <2> HIDE DEF limit, sweep
    <2> QED BY <1>2, <1>17, <2>2 DEF NaN
  <1>19. WithinTolerance(sweep.found, spec.in_low)
    <2> DEFINE a == dut.in_low - 10
               b == dut.in_low + UpResolution
    <2>1. a \in Int /\ b \in Int /\ a =< sweep.found /\ sweep.found =< b
      <3> HIDE DEF sweep, stride
      <3> QED BY <1>2, <1>17
    <2>2. /\ 100 * a > (100 - spec.tol) * spec.in_low
          /\ 100 * b < (100 + spec.tol) * spec.in_low
      BY <1>3
    <2> HIDE DEF a, b, sweep
    <2> QED BY <1>17, <2>1, <2>2, Reach, WithinFound
  <1> QED BY <1>18, <1>19

DownStop == (spec.out_low * 7) \div 10

LEMMA DownTyped ==
  ASSUME spec \in LineRows
  PROVE  /\ Between \in Nat /\ DownStop \in Nat /\ spec.out_low \in Nat
         /\ Stride(Between, DownStop) \in Nat
         /\ DownResolution = Stride(Between, DownStop) + 10
         /\ 10 * DownStop =< spec.out_low * 7
  <1>1. spec.out_low \in Nat /\ spec.in_low \in Nat
    BY DEF LineRows
  <1>2. Between \in Nat /\ DownStop \in Nat /\ 10 * DownStop =< spec.out_low * 7
    BY <1>1 DEF Between, DownStop
  <1>3. Stride(Between, DownStop) \in Nat
    <2>1. Between \in Int /\ DownStop \in Int /\ 0 \in Nat
      BY <1>2
    <2> QED BY <2>1, AscentIs, Zenon
  <1>4. DownResolution = Stride(Between, DownStop) + 10
    BY DEF DownResolution, Resolution, Stride, Share, DownStop
  <1> QED BY <1>1, <1>2, <1>3, <1>4

\* A drop-out voltage that is within tolerance is that of the device, if it
\* held the line where the sweep starts.
LEMMA DropOutFound ==
  ASSUME spec \in LineRows, SweepsReach, dut \in DutsUnderTest, bench \in Benches,
         bench.latched = TRUE, HeldLevel(Between),
         Sweep(Between, DownStop, -1, FALSE).found # NaN,
         WithinTolerance(Sweep(Between, DownStop, -1, FALSE).found, spec.out_low)
  PROVE  /\ Sweep(Between, DownStop, -1, FALSE).bench.latched = FALSE
         /\ Near(dut.out_low, spec.out_low, DownResolution)
  <1> DEFINE sweep    == Sweep(Between, DownStop, -1, FALSE)
             level(k) == Level(Between, DownStop, -1, k)
             stride   == Stride(Between, DownStop)
  <1>1. Between \in Int /\ DownStop \in Int /\ -1 \in {1, -1} /\ FALSE \in BOOLEAN
        /\ bench.latched = ~FALSE
    <2>1. Between \in Int /\ DownStop \in Int
      BY DownTyped
    <2> QED BY <2>1
  <1>2. PICK k \in 0 .. SweepSteps :
          /\ FirstHit(Between, DownStop, -1, FALSE, k)
          /\ sweep.found = Reading(level(k)) /\ sweep.bench.latched = FALSE
    BY <1>1, SweepFinds, Zenon
  <1>3. k \in Nat /\ k \in 0 .. SweepSteps
    BY <1>2, StepCount
  <1>4. level(k) \in Int /\ level(0) = Between
    BY <1>1, <1>3, LevelIs
  <1>5. /\ sweep.found \in Int
        /\ level(k) - 10 =< sweep.found /\ sweep.found =< level(k) + 10
    <2> HIDE DEF level
    <2> QED BY <1>2, <1>4, ReadingNear
  <1>6. ~HeldLevel(level(k))
    BY <1>2 DEF FirstHit, Hit
  <1>7. k >= 1
    <2>1. k # 0
      BY <1>4, <1>6
    <2> QED BY <1>3, <2>1
  <1>8. k - 1 \in 0 .. SweepSteps /\ k - 1 < k /\ k - 1 \in Nat
    BY <1>3, <1>7, StepCount
  <1>9. HeldLevel(level(k - 1))
    BY <1>2, <1>8 DEF FirstHit, Hit
  <1>10. level(k - 1) \in Int
    BY <1>1, <1>8, LevelIs
  <1>11. stride \in Nat /\ level(k) =< level(k - 1) /\ level(k - 1) =< level(k) + stride
    BY <1>1, <1>3, <1>7, NextLevel
  <1>12. level(k) =< dut.out_low /\ dut.out_low =< level(k - 1)
    <2> HIDE DEF level
    <2> QED BY <1>4, <1>6, <1>9, <1>10, <1>11, Crossing, Windows
  <1>13. dut.out_low \in Int /\ DownResolution = stride + 10
    BY DutTyped, DownTyped
  <1>14. /\ dut.out_low - DownResolution =< sweep.found
         /\ sweep.found =< dut.out_low + DownResolution
    <2> HIDE DEF level, sweep, stride
    <2> QED BY <1>4, <1>5, <1>10, <1>11, <1>12, <1>13
  <1>15. DownResolution \in Nat
    BY <1>11, <1>13
  <1>16. Near(dut.out_low, spec.out_low, DownResolution)
    <2> HIDE DEF level, sweep, stride
    <2>1. WithinTolerance(sweep.found, spec.out_low)
      BY DEF sweep
    <2> QED BY <1>5, <1>13, <1>14, <1>15, <2>1, Reach, NearFound
  <1> QED BY <1>2, <1>16

\* The sweep down comes to the drop-out voltage of a device inside its limits,
\* and reads less than the pick-up voltage.
LEMMA DropOutGood ==
  ASSUME spec \in LineRows, SweepsReach, dut \in DutsUnderTest, bench \in Benches,
         bench.latched = TRUE, LineInside, pickup \in Nat, dut.in_low - 10 =< pickup
  PROVE  /\ NaN \notin {Sweep(Between, DownStop, -1, FALSE).found, pickup}
         /\ WithinTolerance(Sweep(Between, DownStop, -1, FALSE).found, spec.out_low)
         /\ Sweep(Between, DownStop, -1, FALSE).found < pickup
  <1> DEFINE sweep    == Sweep(Between, DownStop, -1, FALSE)
             level(k) == Level(Between, DownStop, -1, k)
             stride   == Stride(Between, DownStop)
             under    == {k \in 0 .. SweepSteps : level(k) < dut.out_low}
  <1>1. Between \in Int /\ DownStop \in Int /\ -1 \in {1, -1} /\ FALSE \in BOOLEAN
        /\ bench.latched = ~FALSE /\ -1 # 1
    <2>1. Between \in Int /\ DownStop \in Int
      BY DownTyped
    <2>2. -1 \in {1, -1} /\ -1 # 1
      OBVIOUS
    <2>3. FALSE \in BOOLEAN /\ bench.latched = ~FALSE
      OBVIOUS
    <2> QED BY <2>1, <2>2, <2>3
  <1>2. /\ dut.in_low \in Int /\ dut.in_high \in Int /\ dut.out_low \in Int
        /\ dut.out_high \in Int
        /\ stride \in Nat /\ DownResolution = stride + 10
    BY DutTyped, DownTyped
  <1>3. /\ 100 * (dut.out_low - DownResolution) > (100 - spec.tol) * spec.out_low
        /\ 100 * (dut.out_low + 10) < (100 + spec.tol) * spec.out_low
        /\ dut.out_low + 20 < dut.in_low
        /\ dut.out_low < Between /\ Between < dut.in_high /\ dut.in_high =< dut.out_high
    BY DEF LineInside
  <1>4. 70 * spec.out_low < 100 * (dut.out_low - DownResolution) /\ spec.out_low \in Nat
    <2> DEFINE limit == (100 - spec.tol) * spec.out_low
    <2>1. limit \in Int /\ 70 * spec.out_low =< limit /\ spec.out_low \in Nat
      BY Reach
    <2>2. 100 * (dut.out_low - DownResolution) > limit
      BY <1>3
    <2> HIDE DEF limit, stride
    <2> QED BY <1>2, <2>1, <2>2
  <1>5. DownStop < dut.out_low /\ DownStop =< Between
    <2>1. 10 * DownStop =< spec.out_low * 7
      BY DownTyped
    <2> HIDE DEF stride
    <2>2. DownStop < dut.out_low
      BY <1>1, <1>2, <1>4, <2>1
    <2> QED BY <1>1, <1>2, <1>3, <2>2
  <1>6. level(0) = Between /\ level(SweepSteps) = DownStop /\ SweepSteps \in Nat
    <2>1. Span(Between, DownStop) = Between - DownStop
      BY <1>1, <1>5, SpanIs
    <2>2. level(SweepSteps) = Between - Span(Between, DownStop) /\ level(0) = Between
      BY <1>1, StepCount, LevelIs, Zenon
    <2> QED BY <1>1, <2>1, <2>2, StepCount
  <1>7. under \in SUBSET Nat /\ SweepSteps \in under
    BY <1>5, <1>6
  <1>8. PICK low \in 0 .. SweepSteps :
          level(low) < dut.out_low /\ \A k \in 0 .. SweepSteps : k < low => ~(level(k) < dut.out_low)
    <2>1. Min(under) \in under /\ \A k \in under : Min(under) =< k
      BY <1>7, LeastNatural
    <2>2. Min(under) \in 0 .. SweepSteps /\ level(Min(under)) < dut.out_low
      BY <2>1
    <2>3. ASSUME NEW k \in 0 .. SweepSteps, k < Min(under) PROVE ~(level(k) < dut.out_low)
      <3>1. k \notin under
        BY <1>6, <2>1, <2>2, <2>3
      <3> QED BY <3>1
    <2> QED BY <2>2, <2>3
  <1>9. low \in Nat /\ level(low) \in Int
    BY <1>1, <1>6, <1>8, LevelIs
  <1>10. ~HeldLevel(level(low))
    <2> HIDE DEF level, stride
    <2> QED BY <1>2, <1>8, <1>9, Windows
  <1>11. PICK k \in 0 .. SweepSteps :
           /\ FirstHit(Between, DownStop, -1, FALSE, k) /\ sweep.found = Reading(level(k))
    <2>1. ~Missed(Between, DownStop, -1, FALSE)
      BY <1>8, <1>10 DEF Missed, Hit
    <2> QED BY <1>1, <2>1, SweepFinds, Zenon
  <1>12. k \in Nat /\ level(k) \in Int
    BY <1>1, <1>6, <1>11, LevelIs
  <1>13. ~HeldLevel(level(k))
    BY <1>11 DEF FirstHit, Hit
  <1>14. HeldLevel(level(0))
    <2> HIDE DEF level, stride
    <2>1. dut.out_low < level(0) /\ level(0) < dut.out_high /\ level(0) \in Int
      BY <1>1, <1>2, <1>3, <1>6
    <2> QED BY <2>1, Windows
  <1>15. k >= 1 /\ k - 1 \in 0 .. SweepSteps /\ k - 1 < k /\ k - 1 \in Nat
    <2>1. k # 0
      BY <1>13, <1>14
    <2> QED BY <1>6, <1>11, <1>12, <2>1
  <1>16. HeldLevel(level(k - 1))
    BY <1>11, <1>15 DEF FirstHit, Hit
  <1>17. level(k - 1) \in Int
    BY <1>1, <1>15, LevelIs
  <1>18. level(k) =< level(k - 1) /\ level(k - 1) =< level(k) + stride
    BY <1>1, <1>12, <1>15, NextLevel
  <1>19. level(k) =< dut.out_low /\ dut.out_low =< level(k) + stride
    <2> HIDE DEF level, stride
    <2>1. level(k) =< dut.out_low /\ dut.out_low =< level(k - 1)
      BY <1>12, <1>13, <1>16, <1>17, <1>18, Crossing, Windows
    <2> QED BY <1>2, <1>12, <1>17, <1>18, <2>1
  <1>20. /\ sweep.found \in Int /\ dut.out_low - DownResolution =< sweep.found
         /\ sweep.found =< dut.out_low + 10
    <2> HIDE DEF level, stride, sweep
    <2>1. Reading(level(k)) \in Int /\ level(k) - 10 =< Reading(level(k))
          /\ Reading(level(k)) =< level(k) + 10
      BY <1>12, ReadingNear
    <2> QED BY <1>2, <1>11, <1>12, <1>19, <2>1
  <1>21. NaN \notin {sweep.found, pickup} /\ sweep.found < pickup
    <2> HIDE DEF sweep, stride
    <2>1. sweep.found > 0
      BY <1>2, <1>4, <1>20
    <2>2. sweep.found < pickup
      BY <1>2, <1>3, <1>20
    <2> QED BY <1>20, <2>1, <2>2 DEF NaN
  <1>22. WithinTolerance(sweep.found, spec.out_low)
    <2> DEFINE a == dut.out_low - DownResolution
               b == dut.out_low + 10
    <2>1. a \in Int /\ b \in Int /\ a =< sweep.found /\ sweep.found =< b
      <3> HIDE DEF sweep, stride
      <3> QED BY <1>2, <1>20
    <2>2. /\ 100 * a > (100 - spec.tol) * spec.out_low
          /\ 100 * b < (100 + spec.tol) * spec.out_low
      BY <1>3
    <2> HIDE DEF a, b, sweep
    <2> QED BY <1>20, <2>1, <2>2, Reach, WithinFound
  <1> QED BY <1>21, <1>22

LEMMA Latched ==
  ASSUME NEW b \in Benches
  PROVE  b.latched \in BOOLEAN /\ (~b.latched) \in BOOLEAN
  BY DEF Benches

\* What is left to show of a step of a line case that publishes an outcome.
LEMMA LineStep ==
  ASSUME Inv, stage \in LineStages, UNCHANGED timing, UNCHANGED case,
         stage' \in LineStages, bench' \in Benches, pickup' \in Nat \cup {NaN},
         stage' \in EarlyStages => stage \in EarlyStages,
         NEW check \in {"dead line", "pick-up", "hysteresis", "drop-out", "ride-through"},
         NEW ok \in BOOLEAN, Says(check, 0, ok)
  PROVE  Inv'
  <1>1. spec' = spec /\ spec \in LineRows /\ InCase
    BY StagesInCase, InvFacts DEF StageOK, case
  <1>2. TimesTyped' /\ TracesOK' /\ StepsOK' /\ (Untimed => Untimed')
    BY TimingKept
  <1>3. stage' \in EarlyStages => Untimed'
    BY <1>2, InvFacts DEF StageOK
  <1>4. StageOK' /\ stage' \in Stages \ {"calibrate", "raised", "points"}
    BY <1>1, <1>3 DEF StageOK, TripStages, LineStages, Stages
  <1>5. said' \subseteq Outcomes /\ BracketOK'
    BY SaysOther
  <1> QED BY <1>1, <1>2, <1>4, <1>5, CaseStep

LEMMA DeadLineInv == Inv /\ DeadLine => Inv'
  <1> SUFFICES ASSUME Inv, DeadLine PROVE Inv'
    OBVIOUS
  <1>1. /\ stage = "dead" /\ stage' = "pick-up"
        /\ bench' = Looked(Supply(bench, spec.in_low \div 2))
        /\ Says("dead line", 0, ~bench'.latched)
        /\ UNCHANGED timing /\ UNCHANGED case /\ pickup' = pickup
    BY DEF DeadLine
  <1>2. spec \in LineRows
    BY <1>1, InvFacts DEF StageOK, LineStages
  <1>3. bench' \in Benches
    <2>1. Supply(bench, spec.in_low \div 2) \in Benches
      <3>1. spec.in_low \div 2 \in Int /\ bench \in Benches
        BY <1>2, LineRowTyped, InvFacts
      <3> QED BY <3>1, BenchOps
    <2> QED BY <1>1, <2>1, BenchOps
  <1>4. (~bench'.latched) \in BOOLEAN /\ pickup' \in Nat \cup {NaN}
    BY <1>1, <1>3, Latched, InvFacts
  <1>5. stage \in LineStages /\ stage' \in LineStages /\ stage \in EarlyStages
    BY <1>1 DEF LineStages, EarlyStages
  <1> QED BY <1>1, <1>3, <1>4, <1>5, LineStep

LEMMA PickUpInv == Inv /\ PickUp => Inv'
  <1> SUFFICES ASSUME Inv, PickUp PROVE Inv'
    OBVIOUS
  <1> DEFINE sweep == Sweep(spec.in_low \div 2, (spec.in_low * 13) \div 10, 1, TRUE)
             ok == sweep.found # NaN /\ WithinTolerance(sweep.found, spec.in_low)
  <1>1. /\ stage = "pick-up" /\ stage' = "hysteresis"
        /\ bench' = sweep.bench /\ pickup' = sweep.found
        /\ Says("pick-up", 0, ok)
        /\ UNCHANGED timing /\ UNCHANGED case
    BY DEF PickUp
  <1>2. spec \in LineRows
    BY <1>1, InvFacts DEF StageOK, LineStages
  <1>3. sweep.bench \in Benches /\ sweep.found \in Nat \cup {NaN}
    <2> DEFINE start == spec.in_low \div 2
               stop  == (spec.in_low * 13) \div 10
    <2>1. start \in Nat /\ stop \in Nat /\ start =< stop /\ bench \in Benches
      BY <1>2, LineRowTyped, InvFacts
    <2> HIDE DEF start, stop
    <2>2. /\ Sweep(start, stop, 1, TRUE).bench \in Benches
          /\ Sweep(start, stop, 1, TRUE).found \in Nat \cup {NaN}
      <3>1. start \in Int /\ stop \in Int /\ TRUE \in BOOLEAN /\ 1 \in {1, -1}
        BY <2>1
      <3> QED BY <2>1, <3>1, SweepTyped, Zenon
    <2> QED BY <2>2 DEF start, stop
  <1>4. ok \in BOOLEAN
    BY DEF WithinTolerance, Within
  <1> HIDE DEF sweep, ok
  <1>5. bench' \in Benches /\ pickup' \in Nat \cup {NaN}
    BY <1>1, <1>3
  <1>6. stage \in LineStages /\ stage' \in LineStages /\ stage \in EarlyStages
    BY <1>1 DEF LineStages, EarlyStages
  <1> QED BY <1>1, <1>4, <1>5, <1>6, LineStep

LEMMA HysteresisInv == Inv /\ Hysteresis => Inv'
  <1> SUFFICES ASSUME Inv, Hysteresis PROVE Inv'
    OBVIOUS
  <1>1. /\ stage = "hysteresis" /\ stage' = "drop-out"
        /\ bench' = Looked(Supply(bench, Between))
        /\ Says("hysteresis", 0, bench'.latched)
        /\ UNCHANGED timing /\ UNCHANGED case /\ pickup' = pickup
    BY DEF Hysteresis
  <1>2. spec \in LineRows
    BY <1>1, InvFacts DEF StageOK, LineStages
  <1>3. bench' \in Benches
    <2>1. Supply(bench, Between) \in Benches
      <3>1. Between \in Int /\ bench \in Benches
        BY <1>2, LineRowTyped, InvFacts
      <3> QED BY <3>1, BenchOps
    <2> QED BY <1>1, <2>1, BenchOps
  <1>4. bench'.latched \in BOOLEAN /\ pickup' \in Nat \cup {NaN}
    BY <1>1, <1>3, Latched, InvFacts
  <1>5. stage \in LineStages /\ stage' \in LineStages /\ stage \in EarlyStages
    BY <1>1 DEF LineStages, EarlyStages
  <1> QED BY <1>1, <1>3, <1>4, <1>5, LineStep

LEMMA DropOutInv == Inv /\ DropOut => Inv'
  <1> SUFFICES ASSUME Inv, DropOut PROVE Inv'
    OBVIOUS
  <1> DEFINE sweep == Sweep(Between, (spec.out_low * 7) \div 10, -1, FALSE)
             ok == /\ NaN \notin {sweep.found, pickup}
                   /\ WithinTolerance(sweep.found, spec.out_low) /\ sweep.found < pickup
  <1>1. /\ stage = "drop-out" /\ stage' = "line-in"
        /\ bench' = sweep.bench
        /\ Says("drop-out", 0, ok)
        /\ UNCHANGED timing /\ UNCHANGED case /\ pickup' = pickup
    BY DEF DropOut
  <1>2. spec \in LineRows
    BY <1>1, InvFacts DEF StageOK, LineStages
  <1>3. sweep.bench \in Benches
    <2> DEFINE start == Between
               stop  == (spec.out_low * 7) \div 10
    <2>1. start \in Int /\ stop \in Int /\ bench \in Benches
      BY <1>2, LineRowTyped, InvFacts
    <2> HIDE DEF start, stop
    <2>2. Sweep(start, stop, -1, FALSE).bench \in Benches
      <3>1. FALSE \in BOOLEAN /\ -1 \in {1, -1}
        OBVIOUS
      <3> QED BY <2>1, <3>1, SweepTyped, Zenon
    <2> QED BY <2>2 DEF start, stop
  <1>4. ok \in BOOLEAN
    BY DEF WithinTolerance, Within
  <1> HIDE DEF sweep, ok
  <1>5. bench' \in Benches /\ pickup' \in Nat \cup {NaN}
    BY <1>1, <1>3, InvFacts
  <1>6. stage \in LineStages /\ stage' \in LineStages /\ stage \in EarlyStages
    BY <1>1 DEF LineStages, EarlyStages
  <1> QED BY <1>1, <1>4, <1>5, <1>6, LineStep

LEMMA LineInInv == Inv /\ LineIn => Inv'
  <1> SUFFICES ASSUME Inv, LineIn PROVE Inv'
    OBVIOUS
  <1>1. /\ stage = "line-in" /\ stage' = "time"
        /\ bench' = Looked(Supply(Removed(bench), spec.nominal))
        /\ tripped' = bench'.latched
        /\ UNCHANGED <<device, plan, pin, contact, release, steps>>
        /\ UNCHANGED case /\ pickup' = pickup /\ said' = said
    BY DEF LineIn
  <1>2. spec' = spec /\ spec \in LineRows /\ Untimed /\ InCase
    BY <1>1, StagesInCase, InvFacts DEF StageOK, LineStages, EarlyStages, case
  <1>3. bench' \in Benches /\ pickup' \in Nat \cup {NaN}
    <2>1. Removed(bench) \in Benches /\ spec.nominal \in Int
      BY <1>2, BenchOps, InvFacts, LineRowTyped
    <2>2. Supply(Removed(bench), spec.nominal) \in Benches
      BY <2>1, BenchOps
    <2> QED BY <1>1, <2>2, BenchOps, InvFacts
  <1>4. TimesTyped' /\ TracesOK' /\ StepsOK' /\ Untimed'
    <2>1. tripped' \in BOOLEAN
      BY <1>1, <1>3, Latched
    <2> QED BY <1>1, <1>2, <2>1, NewStimulus
  <1>5. StageOK' /\ stage' \in Stages \ {"calibrate", "raised", "points"}
    BY <1>1, <1>2 DEF StageOK, TripStages, LineStages, EarlyStages, Stages
  <1>6. said' \subseteq Outcomes /\ BracketOK'
    BY <1>1, SaysNothing
  <1> QED BY <1>1, <1>2, <1>3, <1>4, <1>5, <1>6, CaseStep

LEMMA HoleInv == Inv /\ Hole => Inv'
  <1> SUFFICES ASSUME Inv, Hole PROVE Inv'
    OBVIOUS
  <1> DEFINE gone == bench.dropped \/ spec.hole > dut.ride
  <1>1. /\ stage = "hole" /\ stage' = "remove"
        /\ bench' = Looked([bench EXCEPT !.dropped = gone])
        /\ Says("ride-through", 0, bench'.latched)
        /\ UNCHANGED timing /\ UNCHANGED case /\ pickup' = pickup
    BY DEF Hole
  <1>2. gone \in BOOLEAN
    OBVIOUS
  <1> HIDE DEF gone
  <1>3. bench' \in Benches
    <2>1. [bench EXCEPT !.dropped = gone] \in Benches
      BY <1>2, BenchOps, InvFacts
    <2> QED BY <1>1, <2>1, BenchOps
  <1>4. bench'.latched \in BOOLEAN /\ pickup' \in Nat \cup {NaN}
    BY <1>1, <1>3, Latched, InvFacts
  <1>5. stage \in LineStages /\ stage' \in LineStages /\ stage' \notin EarlyStages
    BY <1>1 DEF LineStages, EarlyStages
  <1> QED BY <1>1, <1>3, <1>4, <1>5, LineStep

LEMMA RemoveInv == Inv /\ Remove => Inv'
  <1> SUFFICES ASSUME Inv, Remove PROVE Inv'
    OBVIOUS
  <1>1. /\ stage = "remove" /\ stage' = "release" /\ bench' = Removed(bench)
        /\ UNCHANGED timing /\ UNCHANGED case /\ pickup' = pickup /\ said' = said
    BY DEF Remove
  <1>2. spec' = spec /\ spec \in LineRows /\ InCase
    BY <1>1, StagesInCase, InvFacts DEF StageOK, LineStages, case
  <1>3. TimesTyped' /\ TracesOK' /\ StepsOK'
    BY <1>1, TimingKept
  <1>4. StageOK' /\ stage' \in Stages \ {"calibrate", "raised", "points"}
    BY <1>1, <1>2 DEF StageOK, TripStages, LineStages, EarlyStages, Stages
  <1>5. bench' \in Benches /\ pickup' \in Nat \cup {NaN}
    BY <1>1, BenchOps, InvFacts
  <1>6. said' \subseteq Outcomes /\ BracketOK'
    BY <1>1, SaysNothing
  <1> QED BY <1>1, <1>2, <1>3, <1>4, <1>5, <1>6, CaseStep

-----------------------------------------------------------------------------
(* The calibration, and the steps of an analog case.                         *)

LEMMA CalibrateInv == Inv /\ Calibrate => Inv'
  <1> SUFFICES ASSUME Inv, Calibrate PROVE Inv'
    OBVIOUS
  <1>1. /\ stage = "calibrate"
        /\ stage' = (IF Needed \subseteq dut.paths THEN AfterCalibration ELSE "raised")
        /\ bench' = AllRemoved(bench)
        /\ UNCHANGED timing /\ UNCHANGED case /\ pickup' = pickup /\ said' = said
    BY DEF Calibrate
  <1>2. spec' = spec /\ dut' = dut /\ spec \in Rows /\ Untimed /\ said = {}
    BY <1>1, InvFacts DEF StageOK, EarlyStages, case, Inv, PathsOK
  <1>3. TimesTyped' /\ TracesOK' /\ StepsOK' /\ Untimed'
    BY <1>1, <1>2, TimingKept
  <1>4. /\ spec.kind \in {"overcurrent", "harmonic"} => AfterCalibration = "energise"
        /\ spec.kind = "line" => AfterCalibration = "dead"
        /\ spec.kind = "analog" => AfterCalibration = "points"
    BY DEF AfterCalibration
  <1>5. \/ stage' = "raised"
        \/ stage' = "energise" /\ spec \in TripRows
        \/ stage' = "dead" /\ spec \in LineRows
        \/ stage' = "points" /\ spec \in AnalogRows
    BY <1>1, <1>2, <1>4, Kinds
  <1>6. StageOK' /\ stage' \in Stages
    BY <1>2, <1>3, <1>5 DEF StageOK, TripStages, LineStages, EarlyStages, Stages
  <1>7. BenchOK'
    BY <1>1, BenchOps, InvFacts DEF BenchOK, Benches
  <1>8. PathsOK'
    <2>1. ~bench'.supplied /\ ~bench'.injected /\ said' = {}
      BY <1>1, <1>2, BenchOps, InvFacts
    <2>2. stage' # "raised" => Needed \subseteq dut.paths
      BY <1>1
    <2>3. Needed' = Needed
      BY <1>2, SameCase
    <2> QED BY <1>2, <1>5, <2>1, <2>2, <2>3 DEF PathsOK
  <1>9. said' \subseteq Outcomes /\ BracketOK'
    BY <1>1, SaysNothing
  <1>10. PointsOK'
    <2> SUFFICES ASSUME spec \in AnalogRows PROVE PointsOK'
      BY <1>2 DEF PointsOK
    <2>1. stage' \in {"raised", "points"}
      BY <1>5 DEF TripRows, LineRows, AnalogRows
    <2>2. /\ IsFiniteSet(said) /\ Cardinality(said) =< Len(spec.points)
          /\ said = PointsTo(Cardinality(said)) /\ spec.points # <<>>
      BY <1>1 DEF Inv, PointsOK
    <2>3. Cardinality(said) = 0
      BY <1>2, FS_EmptySet
    <2>4. PointsTo(0)' = {}
      BY DEF PointsTo
    <2>5. said' = PointsTo(Cardinality(said))'
      BY <1>1, <1>2, <2>3, <2>4
    <2> QED BY <1>1, <1>2, <2>1, <2>2, <2>5 DEF PointsOK
  <1>11. pickup' \in Nat \cup {NaN}
    BY <1>1, InvFacts
  <1> QED BY <1>2, <1>3, <1>6, <1>7, <1>8, <1>9, <1>10, <1>11, InvFacts DEF Inv

\* One more point is measured, judged and published.
LEMMA AnalogPointInv == Inv /\ AnalogPoint => Inv'
  <1> SUFFICES ASSUME Inv, AnalogPoint PROVE Inv'
    OBVIOUS
  <1> DEFINE n    == Cardinality(said)
             last == spec.points[n + 1]
  <1>1. /\ stage = "points" /\ n < Len(spec.points) /\ stage' = "points"
        /\ bench' = Supply(bench, last)
        /\ said' = said \cup {Point(n + 1)}
        /\ UNCHANGED timing /\ UNCHANGED case /\ pickup' = pickup
    BY DEF AnalogPoint, Says, Point, OffBy
  <1>2. spec' = spec /\ dut' = dut /\ spec \in AnalogRows /\ dut \in DutsUnderTest
    BY <1>1, InvFacts DEF StageOK, case
  <1>3. /\ IsFiniteSet(said) /\ said = PointsTo(n) /\ spec.points # <<>>
    BY <1>1, <1>2 DEF Inv, PointsOK
  <1>4. n \in Nat /\ Len(spec.points) \in Nat /\ n + 1 \in 1 .. Len(spec.points)
        /\ last \in Nat
    <2>1. n \in Nat
      BY <1>3, FS_CardinalityType
    <2> HIDE DEF n
    <2> QED BY <1>1, <1>2, <2>1, AnalogRowTyped
  <1>5. TimesTyped' /\ TracesOK' /\ StepsOK'
    BY <1>1, TimingKept
  <1>6. StageOK' /\ stage' \in Stages
    BY <1>1, <1>2 DEF StageOK, TripStages, LineStages, EarlyStages, Stages
  <1>7. BenchOK'
    <2> HIDE DEF last
    <2>1. Supply(bench, last) \in Benches
      <3>1. last \in Int /\ bench \in Benches
        BY <1>4, InvFacts
      <3> QED BY <3>1, BenchOps
    <2> QED BY <1>1, <2>1 DEF BenchOK, Benches
  <1>8. PathsOK'
    <2>1. Needed \subseteq dut.paths
      BY <1>1 DEF Inv, PathsOK
    <2>2. Needed' \subseteq dut'.paths
      BY <1>2, <2>1, SameCase
    <2> QED BY <1>1, <2>2 DEF PathsOK
  <1>9. Point(n + 1) \in Outcomes
    <2>1. PointOk(Applied(spec.points[n + 1]), OffBy(spec.points[n + 1])) \in BOOLEAN
      BY DEF PointOk, Within
    <2>2. n + 1 \in Nat
      BY <1>4
    <2> HIDE DEF n
    <2> QED BY <2>1, <2>2 DEF Point, Outcomes
  <1>10. said' \subseteq Outcomes
    BY <1>1, <1>9, InvFacts
  <1>11. BracketOK'
    <2>1. said' = said \cup {Outcome("point", n + 1,
                     PointOk(Applied(spec.points[n + 1]), OffBy(spec.points[n + 1])))}
      BY <1>1, Zenon DEF Outcome, Point
    <2>2. "point" \notin {"below", "above"}
      OBVIOUS
    <2> QED BY <1>2, <2>1, <2>2, BracketKept, InvFacts
  <1>12. Point(n + 1) \notin said
    <2>1. ASSUME NEW nth \in 1 .. n, Point(nth) = Point(n + 1) PROVE FALSE
      <3>1. Point(nth).at = nth /\ Point(n + 1).at = n + 1
        BY DEF Point
      <3> HIDE DEF n
      <3> QED BY <1>4, <2>1, <3>1
    <2> QED BY <1>3, <2>1 DEF PointsTo
  <1>13. IsFiniteSet(said') /\ Cardinality(said') = n + 1
    BY <1>1, <1>3, <1>12, FS_AddElement
  <1>14. said' = {Point(nth)' : nth \in 1 .. n + 1}
    <2>1. said' = {Point(nth) : nth \in 1 .. n + 1}
      <3> HIDE DEF n
      <3>1. 1 .. n + 1 = (1 .. n) \cup {n + 1}
        BY <1>4
      <3> QED BY <1>1, <1>3, <3>1 DEF PointsTo
    <2>2. \A nth : Point(nth)' = Point(nth)
      BY <1>2, SameCase
    <2> HIDE DEF n
    <2> QED BY <2>1, <2>2
  <1>15. said' = PointsTo(Cardinality(said))'
    BY <1>13, <1>14 DEF PointsTo
  <1>16. PointsOK'
    <2>1. Cardinality(said)' =< Len(spec.points)'
      BY <1>1, <1>2, <1>4, <1>13
    <2> QED BY <1>1, <1>2, <1>3, <1>13, <1>15, <2>1 DEF PointsOK
  <1>17. pickup' \in Nat \cup {NaN} /\ spec' \in Rows /\ dut' \in DutsUnderTest
    BY <1>1, <1>2, InvFacts
  <1> QED BY <1>5, <1>6, <1>7, <1>8, <1>10, <1>11, <1>16, <1>17 DEF Inv

LEMMA LastPointInv == Inv /\ LastPoint => Inv'
  <1> SUFFICES ASSUME Inv, LastPoint PROVE Inv'
    OBVIOUS
  <1>1. /\ stage = "points" /\ Cardinality(said) = Len(spec.points) /\ stage' = "done"
        /\ bench' = Removed(bench)
        /\ UNCHANGED timing /\ UNCHANGED case /\ pickup' = pickup /\ said' = said
    BY DEF LastPoint
  <1>2. spec' = spec /\ dut' = dut /\ spec \in AnalogRows
    BY <1>1, InvFacts DEF StageOK, case
  <1>3. TimesTyped' /\ TracesOK' /\ StepsOK'
    BY <1>1, TimingKept
  <1>4. StageOK' /\ stage' \in Stages
    BY <1>1 DEF StageOK, TripStages, LineStages, EarlyStages, Stages
  <1>5. BenchOK'
    BY <1>1, BenchOps, InvFacts DEF BenchOK, Benches
  <1>6. PathsOK'
    <2>1. Needed \subseteq dut.paths
      BY <1>1 DEF Inv, PathsOK
    <2>2. Needed' \subseteq dut'.paths
      BY <1>2, <2>1, SameCase
    <2> QED BY <1>1, <2>2 DEF PathsOK
  <1>7. said' \subseteq Outcomes /\ BracketOK'
    BY <1>1, SaysNothing
  <1>8. PointsOK'
    <2>1. /\ IsFiniteSet(said) /\ said = PointsTo(Cardinality(said)) /\ spec.points # <<>>
          /\ Cardinality(said) =< Len(spec.points)
      BY <1>1, <1>2 DEF Inv, PointsOK
    <2>2. PointsTo(Cardinality(said))' = PointsTo(Cardinality(said))
      BY <1>1, <1>2, SameCase DEF PointsTo
    <2> QED BY <1>1, <1>2, <2>1, <2>2 DEF PointsOK
  <1>9. pickup' \in Nat \cup {NaN} /\ spec' \in Rows /\ dut' \in DutsUnderTest
    BY <1>1, <1>2, InvFacts
  <1> QED BY <1>3, <1>4, <1>5, <1>6, <1>7, <1>8, <1>9 DEF Inv

LEMMA StutterInv == Inv /\ UNCHANGED vars => Inv'
  <1> SUFFICES ASSUME Inv, UNCHANGED vars PROVE Inv'
    OBVIOUS
  <1>1. /\ UNCHANGED timing /\ UNCHANGED case /\ bench' = bench /\ stage' = stage
        /\ pickup' = pickup /\ said' = said
    BY DEF vars
  <1>2. spec' = spec /\ dut' = dut
    BY <1>1 DEF case
  <1>3. TimesTyped' /\ TracesOK' /\ StepsOK' /\ (Untimed => Untimed')
    BY <1>1, TimingKept
  <1>4. StageOK' /\ BenchOK'
    BY <1>1, <1>2, <1>3, InvFacts DEF StageOK, BenchOK
  <1>5. PathsOK'
    BY <1>1, <1>2, SameCase DEF Inv, PathsOK
  <1>6. said' \subseteq Outcomes /\ BracketOK'
    BY <1>1, SaysNothing
  <1>7. PointsOK'
    <2>1. PointsTo(Cardinality(said))' = PointsTo(Cardinality(said))
      BY <1>1, <1>2, SameCase DEF PointsTo
    <2> QED BY <1>1, <1>2, <2>1 DEF Inv, PointsOK
  <1>8. /\ pickup' \in Nat \cup {NaN} /\ spec' \in Rows /\ dut' \in DutsUnderTest
        /\ stage' \in Stages
    BY <1>1, <1>2, InvFacts
  <1> QED BY <1>3, <1>4, <1>5, <1>6, <1>7, <1>8 DEF Inv

LEMMA NextInv == Inv /\ [Next]_vars => Inv'
  <1> SUFFICES ASSUME Inv, [Next]_vars PROVE Inv'
    OBVIOUS
  <1> QED
    BY CalibrateInv, EnergiseLineInv, BelowInv, AboveInv, DriveInv, CaptureInv, JudgeInv,
       OutputsOffInv, DeadLineInv, PickUpInv, HysteresisInv, DropOutInv, LineInInv,
       HoleInv, RemoveInv, TimeReleaseInv, JudgeReleaseInv, AnalogPointInv, LastPointInv,
       StutterInv
    DEF Next

LEMMA Invariant == Spec => []Inv
  BY InitInv, NextInv, PTL DEF Spec

-----------------------------------------------------------------------------
(* What a line case has shown, as far as it is.  While all outcomes are ok,  *)
(* the latch is known at every step, and each step has shown a threshold; a  *)
(* device inside its limits has only outcomes that are ok.                   *)

AllOk == \A outcome \in said : outcome.ok

PickUpNear  == Near(dut.in_low, spec.in_low, UpResolution)
DropOutNear == Near(dut.out_low, spec.out_low, DownResolution)
Declared    == InLevel(spec.nominal)

AfterLineIn     == {"time", "hole", "remove", "release", "done"}
AfterDropOut    == AfterLineIn \cup {"line-in"}
AfterHysteresis == AfterDropOut \cup {"drop-out"}
AfterPickUp     == AfterHysteresis \cup {"hysteresis"}

LineShows ==
  /\ stage \in {"pick-up", "line-in"} => bench.latched = FALSE
  /\ stage \in {"hysteresis", "drop-out"} => bench.latched = TRUE
  /\ stage \in {"time", "hole"} =>
       /\ Declared => bench.latched = TRUE
       /\ bench.kv = spec.nominal /\ bench.supplied = TRUE /\ bench.dropped = FALSE
  /\ stage \in AfterPickUp => pickup \in Nat /\ dut.in_low - 10 =< pickup /\ PickUpNear
  /\ stage \in AfterHysteresis => HeldLevel(Between)
  /\ stage \in AfterDropOut => DropOutNear
  /\ stage \in AfterLineIn => (tripped = TRUE => Declared)
  /\ stage \in {"remove", "release", "done"} => spec.hole =< dut.ride

LineOK ==
  spec \in LineRows /\ SweepsReach =>
    /\ AllOk => LineShows
    /\ LineInside => AllOk

LEMMA SameLine ==
  ASSUME spec' = spec, dut' = dut
  PROVE  /\ PickUpNear' = PickUpNear /\ DropOutNear' = DropOutNear /\ Declared' = Declared
         /\ HeldLevel(Between)' = HeldLevel(Between)
         /\ LineInside' = LineInside /\ SweepsReach' = SweepsReach
  BY DEF PickUpNear, DropOutNear, Declared, InLevel, HeldLevel, Within, AtLeast, Between, Near,
         UpResolution, DownResolution, Resolution, Span, LineInside, SweepsReach

\* One more outcome.
LEMMA SaysAll ==
  ASSUME NEW check, NEW ok \in BOOLEAN, Says(check, 0, ok)
  PROVE  AllOk' <=> AllOk /\ ok
  <1>1. said' = said \cup {Outcome(check, 0, ok)}
    BY Zenon DEF Says, Outcome
  <1>2. Outcome(check, 0, ok).ok <=> ok
    BY Zenon DEF Outcome
  <1>3. ASSUME AllOk, ok PROVE AllOk'
    BY <1>1, <1>2, <1>3, Zenon DEF AllOk
  <1>4. ASSUME AllOk' PROVE AllOk /\ ok
    BY <1>1, <1>2, <1>4, Zenon DEF AllOk
  <1> QED BY <1>3, <1>4

\* What is left to show of a step that publishes an outcome.
LEMMA LineSays ==
  ASSUME LineOK, UNCHANGED case, NEW check, NEW ok \in BOOLEAN, Says(check, 0, ok),
         spec \in LineRows /\ SweepsReach /\ AllOk /\ LineShows =>
           /\ ok => LineShows'
           /\ LineInside => ok
  PROVE  LineOK'
  <1>1. spec' = spec /\ LineInside' = LineInside /\ SweepsReach' = SweepsReach
    <2>1. spec' = spec /\ dut' = dut
      BY DEF case
    <2> QED BY <2>1, SameLine
  <1>2. AllOk' <=> AllOk /\ ok
    BY SaysAll
  <1> QED BY <1>1, <1>2 DEF LineOK

\* ... and of one that does not.
LEMMA LineQuiet ==
  ASSUME LineOK, UNCHANGED case, said' = said,
         spec \in LineRows /\ SweepsReach /\ AllOk /\ LineShows => LineShows'
  PROVE  LineOK'
  <1>1. spec' = spec /\ LineInside' = LineInside /\ SweepsReach' = SweepsReach
    <2>1. spec' = spec /\ dut' = dut
      BY DEF case
    <2> QED BY <2>1, SameLine
  <1>2. AllOk' <=> AllOk
    BY DEF AllOk
  <1> QED BY <1>1, <1>2 DEF LineOK

\* A step that only moves the procedure on.
LEMMA LineRests ==
  ASSUME LineOK, UNCHANGED case, said' = said, bench' = bench, pickup' = pickup,
         tripped' = tripped, stage' = stage
  PROVE  LineOK'
  <1>1. spec' = spec /\ dut' = dut
    BY DEF case
  <1>2. /\ PickUpNear' = PickUpNear /\ DropOutNear' = DropOutNear /\ Declared' = Declared
        /\ HeldLevel(Between)' = HeldLevel(Between)
    BY <1>1, SameLine
  <1>3. LineShows => LineShows'
    BY <1>1, <1>2 DEF LineShows, AfterPickUp, AfterHysteresis, AfterDropOut, AfterLineIn
  <1> QED BY <1>3, LineQuiet

LEMMA DeadLineOK ==
  ASSUME Inv, LineOK, DeadLine
  PROVE  LineOK'
  <1>1. /\ stage = "dead" /\ stage' = "pick-up"
        /\ bench' = Looked(Supply(bench, UpStart))
        /\ Says("dead line", 0, ~bench'.latched) /\ UNCHANGED case
    BY DEF DeadLine, UpStart
  <1>2. spec \in LineRows /\ dut \in DutsUnderTest /\ bench \in Benches
    BY <1>1, InvFacts DEF StageOK, LineStages
  <1>3. UpStart \in Int /\ bench.latched \in BOOLEAN
    BY <1>2, UpTyped, Latched
  <1>4. /\ bench' \in Benches
        /\ bench.latched = TRUE => bench'.latched = HeldLevel(UpStart)
        /\ bench.latched = FALSE => bench'.latched = InLevel(UpStart)
    BY <1>1, <1>2, <1>3, LookNow
  <1>5. bench'.latched \in BOOLEAN /\ (~bench'.latched) \in BOOLEAN
    BY <1>4, Latched
  <1>6. ASSUME ~bench'.latched PROVE LineShows'
    <2>1. bench'.latched = FALSE
      BY <1>5, <1>6, Zenon
    <2> QED BY <1>1, <2>1 DEF LineShows, AfterPickUp, AfterHysteresis, AfterDropOut, AfterLineIn
  <1>7. ASSUME LineInside PROVE ~bench'.latched
    <2>1. UpStart < dut.out_low /\ dut.out_low + 20 < dut.in_low
      BY <1>7 DEF LineInside, UpStart
    <2>2. ~HeldLevel(UpStart) /\ ~InLevel(UpStart)
      BY <1>2, <1>3, <2>1, Windows, DutTyped
    <2>3. CASE bench.latched = TRUE
      BY <1>4, <2>2, <2>3, Zenon
    <2>4. CASE bench.latched = FALSE
      BY <1>4, <2>2, <2>4, Zenon
    <2> QED BY <1>3, <2>3, <2>4
  <1> QED BY <1>1, <1>5, <1>6, <1>7, LineSays

LEMMA PickUpOK ==
  ASSUME Inv, LineOK, PickUp
  PROVE  LineOK'
  <1> DEFINE sweep == Sweep(UpStart, UpStop, 1, TRUE)
             ok == sweep.found # NaN /\ WithinTolerance(sweep.found, spec.in_low)
  <1>1. /\ stage = "pick-up" /\ stage' = "hysteresis"
        /\ bench' = sweep.bench /\ pickup' = sweep.found
        /\ Says("pick-up", 0, ok) /\ UNCHANGED case
    BY DEF PickUp, UpStart, UpStop
  <1>2. spec \in LineRows /\ dut \in DutsUnderTest /\ bench \in Benches
        /\ spec' = spec /\ dut' = dut
    BY <1>1, InvFacts DEF StageOK, LineStages, case
  <1>3. sweep.found \in Nat \cup {NaN}
    <2>1. UpStart \in Nat /\ UpStart \in Int /\ UpStop \in Int /\ bench \in Benches
      BY <1>2, UpTyped
    <2>2. TRUE \in BOOLEAN /\ 1 \in {1, -1}
      OBVIOUS
    <2> QED BY <2>1, <2>2, SweepTyped, Zenon
  <1>4. ok \in BOOLEAN
    BY DEF WithinTolerance, Within
  <1>5. ASSUME SweepsReach, LineShows, ok PROVE LineShows'
    <2>1. bench.latched = FALSE
      BY <1>1, <1>5 DEF LineShows
    <2>2. sweep.bench.latched = TRUE /\ dut.in_low - 10 =< sweep.found /\ PickUpNear
      BY <1>2, <1>5, <2>1, PickUpFound DEF PickUpNear
    <2>3. PickUpNear' = PickUpNear
      BY <1>2, SameLine
    <2>4. sweep.found \in Nat
      BY <1>3, <1>5
    <2> HIDE DEF sweep
    <2> QED BY <1>1, <1>2, <2>2, <2>3, <2>4
            DEF LineShows, AfterPickUp, AfterHysteresis, AfterDropOut, AfterLineIn
  <1>6. ASSUME SweepsReach, LineShows, LineInside PROVE ok
    <2>1. bench.latched = FALSE
      BY <1>1, <1>6 DEF LineShows
    <2> QED BY <1>2, <1>6, <2>1, PickUpGood
  <1> HIDE DEF ok
  <1> QED BY <1>1, <1>4, <1>5, <1>6, LineSays

LEMMA HysteresisOK ==
  ASSUME Inv, LineOK, Hysteresis
  PROVE  LineOK'
  <1>1. /\ stage = "hysteresis" /\ stage' = "drop-out"
        /\ bench' = Looked(Supply(bench, Between)) /\ pickup' = pickup
        /\ Says("hysteresis", 0, bench'.latched) /\ UNCHANGED case
    BY DEF Hysteresis
  <1>2. spec \in LineRows /\ dut \in DutsUnderTest /\ bench \in Benches
        /\ spec' = spec /\ dut' = dut
    BY <1>1, InvFacts DEF StageOK, LineStages, case
  <1>3. Between \in Int
    BY <1>2, DownTyped
  <1>4. bench' \in Benches /\ (bench.latched = TRUE => bench'.latched = HeldLevel(Between))
    BY <1>1, <1>2, <1>3, LookNow
  <1>5. bench'.latched \in BOOLEAN
    BY <1>4, Latched
  <1>6. ASSUME LineShows, bench'.latched PROVE LineShows'
    <2>1. /\ bench.latched = TRUE /\ pickup \in Nat /\ dut.in_low - 10 =< pickup /\ PickUpNear
      BY <1>1, <1>6 DEF LineShows, AfterPickUp
    <2>2. bench'.latched = TRUE /\ HeldLevel(Between)
      BY <1>4, <1>5, <1>6, <2>1, Zenon
    <2>3. PickUpNear' = PickUpNear /\ HeldLevel(Between)' = HeldLevel(Between)
      BY <1>2, SameLine
    <2> QED BY <1>1, <1>2, <2>1, <2>2, <2>3
            DEF LineShows, AfterPickUp, AfterHysteresis, AfterDropOut, AfterLineIn
  <1>7. ASSUME LineShows, LineInside PROVE bench'.latched
    <2>1. bench.latched = TRUE
      BY <1>1, <1>7 DEF LineShows
    <2>2. dut.out_low < Between /\ Between < dut.in_high /\ dut.in_high =< dut.out_high
      BY <1>7 DEF LineInside
    <2>3. HeldLevel(Between)
      BY <1>2, <1>3, <2>2, Windows, DutTyped
    <2> QED BY <1>4, <2>1, <2>3, Zenon
  <1> QED BY <1>1, <1>5, <1>6, <1>7, LineSays

LEMMA DropOutOK ==
  ASSUME Inv, LineOK, DropOut
  PROVE  LineOK'
  <1> DEFINE sweep == Sweep(Between, DownStop, -1, FALSE)
             ok == /\ NaN \notin {sweep.found, pickup}
                   /\ WithinTolerance(sweep.found, spec.out_low) /\ sweep.found < pickup
  <1>1. /\ stage = "drop-out" /\ stage' = "line-in"
        /\ bench' = sweep.bench /\ pickup' = pickup
        /\ Says("drop-out", 0, ok) /\ UNCHANGED case
    BY DEF DropOut, DownStop
  <1>2. spec \in LineRows /\ dut \in DutsUnderTest /\ bench \in Benches
        /\ spec' = spec /\ dut' = dut
    BY <1>1, InvFacts DEF StageOK, LineStages, case
  <1>3. ok \in BOOLEAN
    BY DEF WithinTolerance, Within
  <1>4. LineShows => /\ bench.latched = TRUE /\ HeldLevel(Between)
                     /\ pickup \in Nat /\ dut.in_low - 10 =< pickup /\ PickUpNear
    BY <1>1 DEF LineShows, AfterPickUp, AfterHysteresis
  <1>5. ASSUME SweepsReach, LineShows, ok PROVE LineShows'
    <2>1. sweep.bench.latched = FALSE /\ DropOutNear
      BY <1>2, <1>4, <1>5, DropOutFound DEF DropOutNear
    <2>2. /\ PickUpNear' = PickUpNear /\ DropOutNear' = DropOutNear
          /\ HeldLevel(Between)' = HeldLevel(Between)
      BY <1>2, SameLine
    <2> HIDE DEF sweep
    <2> QED BY <1>1, <1>2, <1>4, <1>5, <2>1, <2>2
            DEF LineShows, AfterPickUp, AfterHysteresis, AfterDropOut, AfterLineIn
  <1>6. ASSUME SweepsReach, LineShows, LineInside PROVE ok
    BY <1>2, <1>4, <1>6, DropOutGood
  <1> HIDE DEF ok
  <1> QED BY <1>1, <1>3, <1>5, <1>6, LineSays

LEMMA LineInOK ==
  ASSUME Inv, LineOK, LineIn
  PROVE  LineOK'
  <1> DEFINE off == Removed(bench)
  <1>1. /\ stage = "line-in" /\ stage' = "time"
        /\ bench' = Looked(Supply(off, spec.nominal)) /\ pickup' = pickup
        /\ tripped' = bench'.latched /\ said' = said /\ UNCHANGED case
    BY DEF LineIn
  <1>2. spec \in LineRows /\ dut \in DutsUnderTest /\ bench \in Benches
        /\ spec' = spec /\ dut' = dut
    BY <1>1, InvFacts DEF StageOK, LineStages, case
  <1>3. off \in Benches /\ off.latched = bench.latched /\ spec.nominal \in Int
    <2>1. off \in Benches /\ off.latched = bench.latched
      BY <1>2 DEF Removed, Benches
    <2>2. spec.nominal \in Int
      BY <1>2 DEF LineRows
    <2> QED BY <2>1, <2>2
  <1> HIDE DEF off
  <1>4. /\ bench' \in Benches /\ (bench.latched = FALSE => bench'.latched = Declared)
        /\ bench'.kv = spec.nominal /\ bench'.supplied = TRUE /\ bench'.dropped = FALSE
    BY <1>1, <1>3, LookNow DEF Declared
  <1>5. ASSUME LineShows PROVE LineShows'
    <2>1. /\ bench.latched = FALSE /\ HeldLevel(Between) /\ DropOutNear
          /\ pickup \in Nat /\ dut.in_low - 10 =< pickup /\ PickUpNear
      BY <1>1, <1>5 DEF LineShows, AfterPickUp, AfterHysteresis, AfterDropOut
    <2>2. bench'.latched = Declared
      BY <1>4, <2>1
    <2>3. /\ PickUpNear' = PickUpNear /\ DropOutNear' = DropOutNear /\ Declared' = Declared
          /\ HeldLevel(Between)' = HeldLevel(Between)
      BY <1>2, SameLine
    <2>4. Declared \in BOOLEAN
      BY DEF Declared, InLevel, Within
    <2>5. (Declared => bench'.latched = TRUE) /\ (tripped' = TRUE => Declared)
      BY <1>1, <2>2, <2>4, Zenon
    <2> QED BY <1>1, <1>2, <1>4, <2>1, <2>3, <2>5
            DEF LineShows, AfterPickUp, AfterHysteresis, AfterDropOut, AfterLineIn
  <1> QED BY <1>1, <1>5, LineQuiet

LEMMA HoleOK ==
  ASSUME Inv, LineOK, Hole
  PROVE  LineOK'
  <1> DEFINE gone   == bench.dropped \/ spec.hole > dut.ride
             before == [bench EXCEPT !.dropped = gone]
  <1>1. /\ stage = "hole" /\ stage' = "remove"
        /\ bench' = Looked(before) /\ pickup' = pickup /\ tripped' = tripped
        /\ Says("ride-through", 0, bench'.latched) /\ UNCHANGED case
    BY DEF Hole, timing
  <1>2. spec \in LineRows /\ dut \in DutsUnderTest /\ bench \in Benches
        /\ spec' = spec /\ dut' = dut
    BY <1>1, InvFacts DEF StageOK, LineStages, case
  <1>3. /\ before \in Benches /\ before.kv = bench.kv /\ before.supplied = bench.supplied
        /\ before.latched = bench.latched /\ before.dropped = gone
    <2>1. gone \in BOOLEAN
      OBVIOUS
    <2> HIDE DEF gone
    <2> QED BY <1>2, <2>1 DEF Benches
  <1> HIDE DEF before
  <1>4. bench' \in Benches /\ bench'.latched = Settled(before)
    BY <1>1, <1>3, BenchOps DEF Looked, Benches
  <1>5. bench'.latched \in BOOLEAN /\ Settled(before) \in BOOLEAN
    BY <1>4, Latched
  <1>6. /\ spec.hole \in Int /\ dut.ride \in Int /\ spec.nominal \in Int
        /\ dut.in_low \in Int /\ dut.in_high \in Int
        /\ dut.out_low \in Int /\ dut.out_high \in Int
    BY <1>2, DutTyped DEF LineRows
  <1>7. LineShows => /\ HeldLevel(Between) /\ DropOutNear
                     /\ pickup \in Nat /\ dut.in_low - 10 =< pickup /\ PickUpNear
                     /\ (tripped = TRUE => Declared) /\ (Declared => bench.latched = TRUE)
                     /\ bench.kv = spec.nominal /\ bench.supplied = TRUE
                     /\ bench.dropped = FALSE
    BY <1>1 DEF LineShows, AfterPickUp, AfterHysteresis, AfterDropOut, AfterLineIn
  <1>8. ASSUME LineShows, bench'.latched PROVE LineShows'
    <2>1. Settled(before)
      BY <1>4, <1>5, <1>8, Zenon
    <2>2. ~gone
      BY <1>3, <2>1, Zenon DEF Settled
    <2>3. spec.hole =< dut.ride
      BY <1>6, <2>2
    <2>4. /\ PickUpNear' = PickUpNear /\ DropOutNear' = DropOutNear /\ Declared' = Declared
          /\ HeldLevel(Between)' = HeldLevel(Between)
      BY <1>2, SameLine
    <2> QED BY <1>1, <1>2, <1>7, <1>8, <2>3, <2>4
            DEF LineShows, AfterPickUp, AfterHysteresis, AfterDropOut, AfterLineIn
  <1>9. ASSUME LineShows, LineInside PROVE bench'.latched
    <2>1. /\ dut.in_low < spec.nominal /\ spec.nominal < dut.in_high
          /\ dut.in_high =< dut.out_high /\ dut.out_low + 20 < dut.in_low
          /\ spec.hole =< dut.ride
      BY <1>9 DEF LineInside
    <2>2. Declared /\ HeldLevel(spec.nominal)
      BY <1>2, <1>6, <2>1, Windows DEF Declared
    <2>3. ~gone
      BY <1>6, <1>7, <1>9, <2>1
    <2>4. LineKv(before) = spec.nominal /\ before.latched = TRUE /\ ~before.dropped
      BY <1>3, <1>7, <1>9, <2>2, <2>3 DEF LineKv
    <2>5. Settled(before)
      BY <2>2, <2>4 DEF Settled, HeldLevel
    <2> QED BY <1>4, <2>5
  <1> QED BY <1>1, <1>5, <1>8, <1>9, LineSays

LEMMA RemoveOK ==
  ASSUME Inv, LineOK, Remove
  PROVE  LineOK'
  <1>1. /\ stage = "remove" /\ stage' = "release" /\ pickup' = pickup
        /\ tripped' = tripped /\ said' = said /\ UNCHANGED case
    BY DEF Remove, timing
  <1>2. spec' = spec /\ dut' = dut
    BY <1>1 DEF case
  <1>3. /\ PickUpNear' = PickUpNear /\ DropOutNear' = DropOutNear /\ Declared' = Declared
        /\ HeldLevel(Between)' = HeldLevel(Between)
    BY <1>2, SameLine
  <1>4. LineShows => LineShows'
    BY <1>1, <1>2, <1>3
       DEF LineShows, AfterPickUp, AfterHysteresis, AfterDropOut, AfterLineIn
  <1> QED BY <1>1, <1>4, LineQuiet

\* The two that publish what a trace shows: their outcomes are not among these.
LEMMA JudgesOK ==
  ASSUME Inv, LineOK, Judge \/ JudgeRelease
  PROVE  LineOK'
  <1>1. /\ bench' = bench /\ pickup' = pickup /\ tripped' = tripped /\ said' = said
        /\ UNCHANGED case
    BY DEF Judge, JudgeRelease, PublishTiming, PublishRelease
  <1>2. \/ stage = "time" /\ stage' \in {"hole", "off"}
        \/ stage = "release" /\ stage' = "done"
    BY DEF Judge, JudgeRelease
  <1>3. spec' = spec /\ dut' = dut
    BY <1>1 DEF case
  <1>4. /\ PickUpNear' = PickUpNear /\ DropOutNear' = DropOutNear /\ Declared' = Declared
        /\ HeldLevel(Between)' = HeldLevel(Between)
    BY <1>3, SameLine
  <1>5. LineShows => LineShows'
    BY <1>1, <1>2, <1>3, <1>4
       DEF LineShows, AfterPickUp, AfterHysteresis, AfterDropOut, AfterLineIn
  <1> QED BY <1>1, <1>5, LineQuiet

LEMMA CapturesOK ==
  ASSUME Inv, LineOK, Capture \/ TimeRelease
  PROVE  LineOK'
  BY LineRests DEF Capture, TimeRelease, CapturePin, CaptureContact, CaptureRelease

\* Nothing has been published when a case begins, or shown.
LEMMA BeginsOK ==
  /\ Init => LineOK
  /\ Inv /\ Calibrate => LineOK'
  <1>1. ASSUME Init PROVE LineOK
    <2>1. said = {} /\ stage \in {"raised", "calibrate"}
      BY <1>1 DEF Init
    <2> QED BY <2>1 DEF LineOK, AllOk, LineShows, AfterPickUp, AfterHysteresis, AfterDropOut,
                        AfterLineIn
  <1>2. ASSUME Inv, Calibrate PROVE LineOK'
    <2>1. said' = {} /\ stage' \in {"raised", "energise", "dead", "points"}
      <3>1. /\ stage = "calibrate" /\ said' = said /\ spec \in Rows
            /\ stage' = (IF Needed \subseteq dut.paths THEN AfterCalibration ELSE "raised")
        BY <1>2, InvFacts DEF Calibrate
      <3>2. said = {}
        BY <1>2, <3>1 DEF Inv, PathsOK
      <3>3. spec.kind \in {"overcurrent", "harmonic", "line", "analog"}
        BY <3>1, Kinds
      <3>4. AfterCalibration \in {"energise", "dead", "points"}
        BY <3>3 DEF AfterCalibration
      <3> QED BY <3>1, <3>2, <3>4
    <2> QED BY <2>1 DEF LineOK, AllOk, LineShows, AfterPickUp, AfterHysteresis, AfterDropOut,
                        AfterLineIn
  <1> QED BY <1>1, <1>2

\* The steps of the other cases.
LEMMA OthersOK ==
  ASSUME Inv, stage \in TripStages \cup {"points"}, UNCHANGED case
  PROVE  LineOK'
  <1>1. spec \in TripRows \cup AnalogRows /\ spec \in Rows /\ spec' = spec
    BY InvFacts DEF StageOK, case
  <1>2. spec \notin LineRows
    BY <1>1, Kinds DEF TripRows, AnalogRows
  <1> QED BY <1>1, <1>2 DEF LineOK

LEMMA LineNext == Inv /\ LineOK /\ [Next]_vars => LineOK'
  <1> SUFFICES ASSUME Inv, LineOK, [Next]_vars PROVE LineOK'
    OBVIOUS
  <1>1. CASE Calibrate
    BY <1>1, BeginsOK
  <1>2. CASE EnergiseLine \/ Below \/ Above \/ Drive \/ OutputsOff
    BY <1>2, OthersOK
       DEF TripStages, EnergiseLine, Below, Above, Drive, OutputsOff
  <1>3. CASE AnalogPoint \/ LastPoint
    BY <1>3, OthersOK DEF AnalogPoint, LastPoint
  <1>4. CASE UNCHANGED vars
    BY <1>4, LineRests DEF vars, timing
  <1> QED
    BY <1>1, <1>2, <1>3, <1>4, CapturesOK, JudgesOK, DeadLineOK, PickUpOK, HysteresisOK,
       DropOutOK, LineInOK, HoleOK, RemoveOK
    DEF Next

LEMMA LineInvariant == Spec => [](Inv /\ LineOK)
  <1>1. Init => Inv /\ LineOK
    BY InitInv, BeginsOK
  <1>2. Inv /\ LineOK /\ [Next]_vars => (Inv /\ LineOK)'
    BY NextInv, LineNext
  <1> QED BY <1>1, <1>2, PTL DEF Spec

LEMMA InvLinePass == Inv /\ LineOK => LinePassMeans
  <1> SUFFICES ASSUME Inv, LineOK, spec.kind = "line", SweepsReach, stage = "done", AllOk
               PROVE  /\ PickUpNear /\ DropOutNear
                      /\ dut.out_low =< Between
                      /\ dut.ride >= spec.hole
                      /\ Passed("line-in") =>
                           spec.nominal >= dut.in_low /\ spec.nominal =< dut.in_high
    BY DEF LinePassMeans, AllOk, PickUpNear, DropOutNear
  <1>1. spec \in LineRows /\ dut \in DutsUnderTest
    BY InvFacts, Kinds
  <1>2. LineShows
    BY <1>1 DEF LineOK
  <1>3. /\ PickUpNear /\ HeldLevel(Between) /\ DropOutNear
        /\ (tripped = TRUE => Declared) /\ spec.hole =< dut.ride
    BY <1>2 DEF LineShows, AfterPickUp, AfterHysteresis, AfterDropOut, AfterLineIn
  <1>4. /\ Between \in Int /\ spec.hole \in Int /\ spec.nominal \in Int
        /\ dut.in_low \in Int /\ dut.in_high \in Int /\ dut.ride \in Int
        /\ dut.out_low \in Int
    BY <1>1, DutTyped, DownTyped DEF LineRows
  <1>5. dut.out_low =< Between
    BY <1>1, <1>3, <1>4, Windows
  <1>6. dut.ride >= spec.hole
    BY <1>3, <1>4
  <1>7. ASSUME Passed("line-in")
        PROVE  spec.nominal >= dut.in_low /\ spec.nominal =< dut.in_high
    <2>1. PassIsTrue /\ TimesTyped
      BY InvPassIsTrue, InvFacts
    <2>2. tripped = TRUE
      BY <1>7, <2>1 DEF PassIsTrue, TimesTyped
    <2>3. dut.in_low =< spec.nominal /\ spec.nominal =< dut.in_high
      BY <1>1, <1>3, <1>4, <2>2, Windows DEF Declared
    <2> QED BY <1>4, <2>3
  <1> QED BY <1>3, <1>5, <1>6, <1>7

LEMMA InvGoodDut == Inv /\ LineOK => GoodDutPasses
  <1> SUFFICES ASSUME Inv, LineOK PROVE GoodDutPasses
    OBVIOUS
  <1>1. spec \in Rows /\ dut \in DutsUnderTest
    BY InvFacts
  <1>2. ASSUME TripPointInside, spec \in TripRows
        PROVE  ~Denied("below") /\ ~Denied("above")
    <2>1. /\ Square(spec.quantity, BelowWindow) \in Nat
          /\ Square(spec.quantity, AboveWindow) \in Nat /\ TripSquare \in Nat
      BY <1>1, <1>2, TripRowTyped, SquareTyped, TripSquareTyped
    <2>2. ~TripsAt(BelowWindow) /\ TripsAt(AboveWindow)
      BY <1>2, <2>1 DEF TripPointInside, TripsAt, AtLeast
    <2>3. ASSUME NEW outcome \in said, outcome.check \in {"below", "above"} PROVE outcome.ok
      BY <2>2, <2>3, InvFacts DEF BracketOK
    <2> QED BY <2>3 DEF Denied
  <1>3. ASSUME spec \in LineRows, SweepsReach, LineInside
        PROVE  \A outcome \in said : outcome.ok
    BY <1>3 DEF LineOK, AllOk
  <1> QED BY <1>1, <1>2, <1>3, Kinds DEF GoodDutPasses

-----------------------------------------------------------------------------
(* Theorems.                                                                 *)

\* Every variable keeps its type: the traces are samples, the outcomes measure
\* whole numbers of ticks, and the two generator channels are levels.
THEOREM CasesTypeCorrect == Spec => []TypeOK
  BY Invariant, InvTypes, PTL

\* Whatever times a device takes, however they fall between the samples and
\* wherever the gate ends, a timing check that passes is true of the device.
THEOREM PassesAreTrue == Spec => []PassIsTrue
  BY Invariant, InvPassIsTrue, PTL

\* A device that keeps its limits with a sample to spare is never failed.
THEOREM GoodDevicesPass == Spec => []GoodDevicePasses
  BY Invariant, InvGoodDevicePasses, PTL

\* A device that trips late by less than the margin of the gate is measured.
THEOREM LateDevicesAreMeasured == Spec => []LateIsMeasured
  BY Invariant, InvLateIsMeasured, PTL

\* Both looks at the bracket passed: the trip point lies in it, for every row,
\* tolerance and quantity, whichever quantity the device compares.
THEOREM TripPointPinned == Spec => []BracketPinsTripPoint
  BY Invariant, InvBracket, PTL

\* A passed analog case bounds the gain error by its lowest and highest points,
\* and the offset error too, for any points in any order.
THEOREM GainAndOffsetSeparate == Spec => []AnalogPointsSeparate
  BY Invariant, InvAnalog, PTL

\* No case with a dead path gets to judge anything, or leaves an output on.
THEOREM DeadPathsRaise == Spec => []DeadPathNeverGreen
  BY Invariant, InvDeadPathNeverGreen, PTL

\* A line case whose outcomes are all ok shows both thresholds where the row has
\* them, to a stride of the sweeps and half the last digit of a reading, and that
\* the device holds between them and rides the hole through: for every row and
\* every number of steps, and whatever an earlier case left of the latch.
THEOREM LinePassesMean == Spec => []LinePassMeans
  BY LineInvariant, InvLinePass, PTL

\* A device inside its limits by more than that is never failed.
THEOREM GoodDutsPass == Spec => []GoodDutPasses
  BY LineInvariant, InvGoodDut, PTL
=============================================================================
