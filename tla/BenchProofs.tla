---------------------------- MODULE BenchProofs -----------------------------
(* Theorems about the in-process bench, for every number of channels, every  *)
(* set of levels and every pair of windows with the pick-up window inside    *)
(* the hold window.                                                          *)
EXTENDS Bench, TLAPS

-----------------------------------------------------------------------------
(* Lemmas about one call.                                                    *)

\* Squares of naturals are ordered like the naturals: what lets an RMS be
\* compared by its square.
LEMMA SquareMonotone ==
  ASSUME NEW x \in Nat, NEW y \in Nat, x =< y
  PROVE  x * x =< y * y
  <1>1. x * x =< x * y  BY SMT
  <1>2. x * y =< y * y  BY SMT
  <1> QED BY <1>1, <1>2, SMT

\* 8 * rms^2 is an integer for every channel the bench can hold.
LEMMA Rms8Type ==
  ASSUME NEW ch \in ChannelState
  PROVE  Rms8(ch) \in Int /\ DcV(ch) \in Int
  <1>1. SumSquares(ch.harmonics) \in Nat
    BY SumAssumption DEF ChannelState
  <1>2. ch.amplitude \in Int /\ ch.offset \in Int
    BY BenchAssumption DEF ChannelState
  <1> QED BY <1>1, <1>2 DEF Rms8, DcV

\* The pick-up window lies inside the hold window, on DC and on AC.
LEMMA PickUpInHold ==
  ASSUME NEW b \in SimulatedBench, InPickUp(b)
  PROVE  InHold(b)
  <1> DEFINE ch == b.channels[VoltageChannel]
             g == VoltsToKilovolts
  <1>1. ch \in ChannelState /\ g \in Nat
    BY BenchAssumption DEF SimulatedBench
  <1>2. Rms8(ch) * g * g \in Int /\ DcV(ch) * g \in Int
    BY <1>1, Rms8Type
  <1>3. /\ LineOutLow \in Nat /\ LineInLow \in Nat /\ LineOutLow =< LineInLow
        /\ LineInHigh \in Nat /\ LineOutHigh \in Nat /\ LineInHigh =< LineOutHigh
    BY WindowAssumption
  <1>4. /\ LineOutLow * LineOutLow =< LineInLow * LineInLow
        /\ LineInHigh * LineInHigh =< LineOutHigh * LineOutHigh
    BY <1>3, SquareMonotone
  <1> HIDE DEF ch, g
  <1>5. CASE IsAc(ch)
    <2> DEFINE x == Rms8(ch) * g * g
               ol == LineOutLow * LineOutLow
               il == LineInLow * LineInLow
               ih == LineInHigh * LineInHigh
               oh == LineOutHigh * LineOutHigh
    <2>1. /\ 8 * LineOutLow * LineOutLow = 8 * ol
          /\ 8 * LineInLow * LineInLow = 8 * il
          /\ 8 * LineInHigh * LineInHigh = 8 * ih
          /\ 8 * LineOutHigh * LineOutHigh = 8 * oh
      BY <1>3
    <2>2. x \in (8 * il) .. (8 * ih)
      BY <1>5, <2>1 DEF InPickUp, LineWithin, ch, g
    <2>3. {ol, il, ih, oh} \subseteq Int /\ x \in Int
      BY <1>2, <1>3
    <2> HIDE DEF x, ol, il, ih, oh
    <2>4. x \in (8 * ol) .. (8 * oh)
      BY <1>4, <2>2, <2>3 DEF ol, il, ih, oh
    <2> QED BY <1>5, <2>1, <2>4 DEF InHold, LineWithin, ch, g, x, ol, oh
  <1>6. CASE ~IsAc(ch)
    <2>1. DcV(ch) * g \in LineInLow .. LineInHigh
      BY <1>6 DEF InPickUp, LineWithin, ch, g
    <2>2. DcV(ch) * g \in LineOutLow .. LineOutHigh
      BY <2>1, <1>2, <1>3
    <2> QED BY <1>6, <2>2 DEF InHold, LineWithin, ch, g
  <1> QED BY <1>5, <1>6

\* A look settles the line: looking again changes nothing, whatever the bench.
LEMMA SettleTwice ==
  ASSUME NEW b \in SimulatedBench
  PROVE  SettleLine(SettleLine(b)) = SettleLine(b)
  <1> DEFINE s == SettleLine(b)
  <1>1. /\ b.line_latched \in BOOLEAN /\ b.hole_dropped \in BOOLEAN
        /\ DOMAIN b = {"channels", "line_latched", "hole_dropped", "correction"}
    BY DEF SimulatedBench
  <1>2. /\ s.channels = b.channels /\ s.hole_dropped = b.hole_dropped
        /\ s.line_latched = (/\ ~b.hole_dropped
                            /\ IF b.line_latched THEN InHold(b) ELSE InPickUp(b))
        /\ s \in SimulatedBench
    BY <1>1 DEF SettleLine, SimulatedBench
  <1>3. InHold(s) = InHold(b) /\ InPickUp(s) = InPickUp(b)
    BY <1>2 DEF InHold, InPickUp, LineWithin
  <1>4. (/\ ~s.hole_dropped
         /\ IF s.line_latched THEN InHold(s) ELSE InPickUp(s)) = s.line_latched
    BY <1>1, <1>2, <1>3, PickUpInHold
  <1>5. SettleLine(s) = [s EXCEPT !.line_latched = s.line_latched]
    BY <1>4 DEF SettleLine
  <1>6. [s EXCEPT !.line_latched = s.line_latched] = s
    BY <1>2 DEF SimulatedBench
  <1> QED BY <1>5, <1>6

-----------------------------------------------------------------------------
(* Type correctness.                                                         *)

LEMMA CallTypes ==
  ASSUME NEW b \in SimulatedBench, NEW c \in Channels
  PROVE  /\ \A amplitude \in Levels, offset \in Offsets :
              ConfigureSine(b, c, amplitude, offset) \in SimulatedBench
         /\ \A level \in Levels : ConfigureDc(b, c, level) \in SimulatedBench
         /\ \A order \in Orders, level \in HarmonicLevels :
              AddHarmonic(b, c, order, level) \in SimulatedBench
         /\ \A on \in BOOLEAN : SetOutput(b, c, on) \in SimulatedBench
         /\ \A ms \in Durations : InterruptOutput(b, c, ms) \in SimulatedBench
  <1>1. Silence \in [Orders -> HarmonicLevels]
    BY BenchAssumption DEF Silence
  <1>2. \A amplitude \in Levels, offset \in Offsets :
          ConfigureSine(b, c, amplitude, offset) \in SimulatedBench
    BY <1>1 DEF SimulatedBench, ChannelState, ConfigureSine
  <1>3. \A level \in Levels : ConfigureDc(b, c, level) \in SimulatedBench
    BY <1>1 DEF SimulatedBench, ChannelState, ConfigureDc
  <1>4. \A order \in Orders, level \in HarmonicLevels :
          AddHarmonic(b, c, order, level) \in SimulatedBench
    BY DEF SimulatedBench, ChannelState, AddHarmonic
  <1>5. \A on \in BOOLEAN : SetOutput(b, c, on) \in SimulatedBench
    <2>1. ASSUME NEW on \in BOOLEAN
          PROVE  [b.channels[c] EXCEPT !.enabled = on] \in ChannelState
      BY DEF SimulatedBench, ChannelState
    <2>2. ASSUME NEW ch \in ChannelState
          PROVE  [b EXCEPT !.channels[c] = ch, !.hole_dropped = FALSE] \in SimulatedBench
      BY DEF SimulatedBench
    <2>3. ASSUME NEW on \in BOOLEAN
          PROVE  SetOutput(b, c, on)
                   = [b EXCEPT !.channels[c] = [b.channels[c] EXCEPT !.enabled = on],
                               !.hole_dropped = FALSE]
      BY DEF SetOutput, SimulatedBench, ChannelState
    <2>4. ASSUME NEW on \in BOOLEAN
          PROVE  SetOutput(b, c, on) \in SimulatedBench
      <3>1. [b.channels[c] EXCEPT !.enabled = on] \in ChannelState
        BY <2>1
      <3> QED BY <3>1, <2>2, <2>3
    <2> QED BY <2>4
  <1>6. \A ms \in Durations : InterruptOutput(b, c, ms) \in SimulatedBench
    BY DEF SimulatedBench, InterruptOutput
  <1> QED BY <1>2, <1>3, <1>4, <1>5, <1>6

LEMMA InitBenchType == InitBench \in SimulatedBench
  BY BenchAssumption
  DEF InitBench, IdleChannel, Silence, SimulatedBench, ChannelState

LEMMA ResultTypes ==
  /\ \A what \in {"None", "KeyError", "ValueError"} : Raises(what) \in Results
  /\ \A b \in SimulatedBench : Returns(RelayStates(b)) \in Results
  <1>1. \A what \in {"None", "KeyError", "ValueError"} : Raises(what) \in Results
    BY DEF Raises, Results
  <1>2. ASSUME NEW b \in SimulatedBench
        PROVE  Returns(RelayStates(b)) \in Results
    <2>1. RelayStates(b) \in Readings
      BY DEF RelayStates, Readings, SimulatedBench, OvercurrentTripped,
             FastOvercurrentTripped, HarmonicTripped, RmsAtLeast
    <2> QED BY <2>1 DEF Returns, Results
  <1> QED BY <1>1, <1>2

LEMMA SettleType ==
  ASSUME NEW b \in SimulatedBench PROVE SettleLine(b) \in SimulatedBench
  BY DEF SettleLine, SimulatedBench

LEMMA TypeStep == TypeOK /\ [Next]_vars => TypeOK'
  <1> SUFFICES ASSUME TypeOK, [Next]_vars PROVE TypeOK'
    OBVIOUS
  <1> USE DEF TypeOK
  <1>1. ASSUME NEW c \in Callable, NEW after,
               c \in Channels => after \in SimulatedBench, Programmed(c, after)
        PROVE  TypeOK'
    BY <1>1, ResultTypes DEF Programmed, Histories
  <1>2. ASSUME NEW c \in Callable, NEW amplitude \in Levels, NEW offset \in Offsets,
               ConfigureSineCall(c, amplitude, offset)
        PROVE  TypeOK'
    BY <1>1, <1>2, CallTypes DEF ConfigureSineCall
  <1>3. ASSUME NEW c \in Callable, NEW level \in Levels, ConfigureDcCall(c, level)
        PROVE  TypeOK'
    BY <1>1, <1>3, CallTypes DEF ConfigureDcCall
  <1>4. ASSUME NEW c \in Callable, NEW order \in Orders, NEW level \in HarmonicLevels,
               AddHarmonicCall(c, order, level)
        PROVE  TypeOK'
    BY <1>1, <1>4, CallTypes DEF AddHarmonicCall
  <1>5. ASSUME NEW c \in Callable, NEW on \in BOOLEAN, OutputCall(c, on)
        PROVE  TypeOK'
    BY <1>1, <1>5, CallTypes DEF OutputCall
  <1>6. ASSUME NEW c \in Callable, NEW ms \in Durations, InterruptCall(c, ms)
        PROVE  TypeOK'
    BY <1>6, CallTypes, ResultTypes DEF InterruptCall, Histories
  <1>7. CASE GetRelayStates
    <2>1. bench' \in SimulatedBench
      BY <1>7, SettleType DEF GetRelayStates
    <2>2. result' \in Results /\ result'.relays.line \in BOOLEAN
      BY <1>7, <2>1, ResultTypes
      DEF GetRelayStates, Returns, RelayStates, SimulatedBench
    <2> QED BY <1>7, <2>1, <2>2 DEF GetRelayStates, Histories
  <1>8. ASSUME NEW factor \in Corrections, ApplyAnalogCorrection(factor)
        PROVE  TypeOK'
    BY <1>8, ResultTypes DEF ApplyAnalogCorrection, SetCorrection, SimulatedBench
  <1>9. CASE ResetBench
    BY <1>9, InitBenchType, ResultTypes DEF ResetBench, Reset, Histories
  <1>10. CASE UNCHANGED vars
    BY <1>10 DEF vars
  <1> QED
    BY <1>2, <1>3, <1>4, <1>5, <1>6, <1>7, <1>8, <1>9, <1>10
    DEF Next, GeneratorCall

\* Whatever is called in whatever order, every channel, the latch and the
\* correction keep their type.
THEOREM TypeCorrect == Spec => []TypeOK
  <1>1. Init => TypeOK
    BY InitBenchType, ResultTypes DEF Init, TypeOK, Histories
  <1> QED BY <1>1, TypeStep, PTL DEF Spec

\* Reading the detectors never depends on how often they are read.
THEOREM ReadsAreIdempotent == Spec => []ReadIdempotent
  <1>1. TypeOK => ReadIdempotent
    BY SettleTwice DEF TypeOK, ReadIdempotent
  <1> QED BY <1>1, TypeCorrect, PTL

-----------------------------------------------------------------------------
(* The line is held.                                                         *)

\* A generator call moves the voltage and may end a drop-out; the latch is
\* not its business.
KeepsLatch(before, after) ==
  /\ after.line_latched = before.line_latched
  /\ after.hole_dropped \in {before.hole_dropped, FALSE}

LEMMA CallsKeepLatch ==
  ASSUME NEW b \in SimulatedBench, NEW c \in Channels
  PROVE  /\ \A amplitude, offset : KeepsLatch(b, ConfigureSine(b, c, amplitude, offset))
         /\ \A level : KeepsLatch(b, ConfigureDc(b, c, level))
         /\ \A order, level : KeepsLatch(b, AddHarmonic(b, c, order, level))
         /\ \A on : KeepsLatch(b, SetOutput(b, c, on))
         /\ \A factor : KeepsLatch(b, SetCorrection(b, factor))
  BY DEF KeepsLatch, ConfigureSine, ConfigureDc, AddHarmonic, SetOutput,
         SetCorrection, SimulatedBench

\* The correction is not part of what energises the line.
LEMMA CorrectionKeepsLine ==
  ASSUME NEW b \in SimulatedBench, NEW factor
  PROVE  /\ InHold(SetCorrection(b, factor)) = InHold(b)
         /\ InPickUp(SetCorrection(b, factor)) = InPickUp(b)
  BY DEF InHold, InPickUp, LineWithin, SetCorrection, SimulatedBench

LEMMA HoleKeepsLine ==
  ASSUME NEW b \in SimulatedBench, NEW c, NEW ms
  PROVE  /\ InHold(InterruptOutput(b, c, ms)) = InHold(b)
         /\ InPickUp(InterruptOutput(b, c, ms)) = InPickUp(b)
         /\ InterruptOutput(b, c, ms).line_latched = b.line_latched
  BY DEF InHold, InPickUp, LineWithin, InterruptOutput, SimulatedBench

LEMMA SettleKeepsLine ==
  ASSUME NEW b \in SimulatedBench
  PROVE  /\ InHold(SettleLine(b)) = InHold(b)
         /\ InPickUp(SettleLine(b)) = InPickUp(b)
         /\ SettleLine(b).hole_dropped = b.hole_dropped
         /\ SettleLine(b).line_latched =
              (~b.hole_dropped /\ IF b.line_latched THEN InHold(b) ELSE InPickUp(b))
  BY DEF InHold, InPickUp, LineWithin, SettleLine, SimulatedBench

LEMMA LatchStep ==
  TypeOK /\ LatchStandsOnVoltage /\ [Next]_vars => LatchStandsOnVoltage'
  <1> SUFFICES ASSUME TypeOK, LatchStandsOnVoltage, [Next]_vars
               PROVE  LatchStandsOnVoltage'
    OBVIOUS
  <1> USE DEF LatchStandsOnVoltage
  <1>0. bench \in SimulatedBench /\ history \in Histories
    BY DEF TypeOK
  <1>1. ASSUME NEW c \in Callable, NEW after,
               c \in Channels => KeepsLatch(bench, after), Programmed(c, after)
        PROVE  LatchStandsOnVoltage'
    <2>1. CASE c \notin Channels
      BY <2>1, <1>1 DEF Programmed, InHold
    <2>2. CASE c \in Channels
      <3>1. /\ bench' = after
            /\ history'.line = history.line
            /\ history'.excursion = (history.excursion \/ ~InHold(after))
        BY <2>2, <1>0, <1>1 DEF Programmed, Histories
      <3>2. InHold(bench)' = InHold(after)
        BY <3>1 DEF InHold, LineWithin
      <3>3. after.line_latched = bench.line_latched /\ after.hole_dropped \in {bench.hole_dropped, FALSE}
        BY <2>2, <1>1 DEF KeepsLatch
      <3> QED BY <3>1, <3>2, <3>3
    <2> QED BY <2>1, <2>2
  <1>2. ASSUME NEW c \in Callable, NEW amplitude \in Levels, NEW offset \in Offsets,
               ConfigureSineCall(c, amplitude, offset)
        PROVE  LatchStandsOnVoltage'
    BY <1>0, <1>1, <1>2, CallsKeepLatch DEF ConfigureSineCall
  <1>3. ASSUME NEW c \in Callable, NEW level \in Levels, ConfigureDcCall(c, level)
        PROVE  LatchStandsOnVoltage'
    BY <1>0, <1>1, <1>3, CallsKeepLatch DEF ConfigureDcCall
  <1>4. ASSUME NEW c \in Callable, NEW order \in Orders, NEW level \in HarmonicLevels,
               AddHarmonicCall(c, order, level)
        PROVE  LatchStandsOnVoltage'
    BY <1>0, <1>1, <1>4, CallsKeepLatch DEF AddHarmonicCall
  <1>5. ASSUME NEW c \in Callable, NEW on \in BOOLEAN, OutputCall(c, on)
        PROVE  LatchStandsOnVoltage'
    BY <1>0, <1>1, <1>5, CallsKeepLatch DEF OutputCall
  <1>6. ASSUME NEW c \in Callable, NEW ms \in Durations, InterruptCall(c, ms)
        PROVE  LatchStandsOnVoltage'
    <2>1. CASE UNCHANGED <<bench, history>>
      BY <2>1 DEF InHold
    <2>2. CASE /\ bench' = InterruptOutput(bench, c, ms)
               /\ history' = IF RideThrough(ms) THEN history
                            ELSE [history EXCEPT !.excursion = TRUE,
                                                 !.outage = @ \/ c = VoltageChannel]
      <3>1. InHold(bench)' = InHold(bench) /\ bench'.line_latched = bench.line_latched
        BY <2>2, <1>0, HoleKeepsLine DEF InHold, LineWithin
      <3>2. CASE RideThrough(ms)
        <4>1. ms \in Int /\ LineHoleRide \in Int
          BY BenchAssumption
        <4>2. bench' = bench
          BY <3>2, <2>2, <4>1 DEF RideThrough, InterruptOutput
        <4> QED BY <4>2, <3>1, <3>2, <2>2
      <3>3. CASE ~RideThrough(ms)
        BY <3>1, <3>3, <2>2, <1>0 DEF Histories
      <3> QED BY <3>2, <3>3
    <2> QED BY <1>6, <2>1, <2>2 DEF InterruptCall
  <1>7. CASE GetRelayStates
    <2>1. /\ bench' = SettleLine(bench)
          /\ history'.line = bench'.line_latched
      BY <1>7, <1>0 DEF GetRelayStates, Returns, RelayStates, Histories
    <2>2. InHold(bench)' = InHold(bench)
      BY <2>1, <1>0, SettleKeepsLine DEF InHold, LineWithin
    <2>3. InPickUp(bench) => InHold(bench)
      BY <1>0, PickUpInHold
    <2> QED BY <2>1, <2>2, <2>3, <1>0, SettleKeepsLine
  <1>8. ASSUME NEW factor \in Corrections, ApplyAnalogCorrection(factor)
        PROVE  LatchStandsOnVoltage'
    <2>1. bench' = SetCorrection(bench, factor) /\ history' = history
      BY <1>8 DEF ApplyAnalogCorrection
    <2>2. InHold(bench)' = InHold(bench)
      BY <2>1, <1>0, CorrectionKeepsLine DEF InHold, LineWithin
    <2>3. bench'.hole_dropped = bench.hole_dropped /\ bench'.line_latched = bench.line_latched
      BY <2>1, <1>0 DEF SetCorrection, SimulatedBench
    <2> QED BY <2>1, <2>2, <2>3
  <1>9. CASE ResetBench
    BY <1>9 DEF ResetBench, Reset, InitBench
  <1>10. CASE UNCHANGED vars
    BY <1>10 DEF vars, InHold
  <1> QED
    BY <1>2, <1>3, <1>4, <1>5, <1>6, <1>7, <1>8, <1>9, <1>10
    DEF Next, GeneratorCall

\* A declared line is held while the voltage stays inside the hold window and
\* no hole outlasts the ride-through, whatever the generator does meanwhile.
THEOREM DeclaredLineIsHeld == Spec => []LineIsHeld
  <1>1. Init => LatchStandsOnVoltage
    BY DEF Init, LatchStandsOnVoltage, InitBench
  <1>2. TypeOK /\ LatchStandsOnVoltage => LineIsHeld
    BY SettleKeepsLine DEF TypeOK, LatchStandsOnVoltage, LineIsHeld
  <1> QED BY <1>1, <1>2, LatchStep, TypeCorrect, PTL DEF Spec

-----------------------------------------------------------------------------
(* The bench implements the hysteretic line detector.                        *)

LEMMA ZoneOf ==
  ASSUME bench \in SimulatedBench
  PROVE  /\ LineZone \in Line!Zones
         /\ LineZone = "pick-up" <=> InPickUp(bench)
         /\ LineZone \in {"pick-up", "dead band"} <=> InHold(bench)
  BY PickUpInHold DEF LineZone, Line!Zones

LEMMA ImplementationStep ==
  TypeOK /\ TypeOK' /\ [Next]_vars => [Line!Next]_(Line!vars)
  <1> SUFFICES ASSUME TypeOK, TypeOK', [Next]_vars
               PROVE  [Line!Next]_(Line!vars)
    OBVIOUS
  <1>0. bench \in SimulatedBench /\ LineZone \in Line!Zones /\ LineZone' \in Line!Zones
    BY ZoneOf DEF TypeOK, LineZone, Line!Zones
  <1>1. ASSUME NEW c \in Callable, NEW after,
               c \in Channels => KeepsLatch(bench, after), Programmed(c, after)
        PROVE  Line!Next \/ UNCHANGED Line!vars
    <2>1. CASE c \notin Channels
      BY <2>1, <1>1 DEF Programmed, Line!vars, LineZone, InPickUp, InHold
    <2>2. CASE c \in Channels
      <3>1. Line!Drive
        BY <2>2, <1>0, <1>1 DEF Programmed, KeepsLatch, Line!Drive
      <3> QED BY <3>1 DEF Line!Next
    <2> QED BY <2>1, <2>2
  <1>2. ASSUME NEW c \in Callable, NEW amplitude \in Levels, NEW offset \in Offsets,
               ConfigureSineCall(c, amplitude, offset)
        PROVE  Line!Next \/ UNCHANGED Line!vars
    BY <1>0, <1>1, <1>2, CallsKeepLatch DEF ConfigureSineCall
  <1>3. ASSUME NEW c \in Callable, NEW level \in Levels, ConfigureDcCall(c, level)
        PROVE  Line!Next \/ UNCHANGED Line!vars
    BY <1>0, <1>1, <1>3, CallsKeepLatch DEF ConfigureDcCall
  <1>4. ASSUME NEW c \in Callable, NEW order \in Orders, NEW level \in HarmonicLevels,
               AddHarmonicCall(c, order, level)
        PROVE  Line!Next \/ UNCHANGED Line!vars
    BY <1>0, <1>1, <1>4, CallsKeepLatch DEF AddHarmonicCall
  <1>5. ASSUME NEW c \in Callable, NEW on \in BOOLEAN, OutputCall(c, on)
        PROVE  Line!Next \/ UNCHANGED Line!vars
    BY <1>0, <1>1, <1>5, CallsKeepLatch DEF OutputCall
  <1>6. ASSUME NEW c \in Callable, NEW ms \in Durations, InterruptCall(c, ms)
        PROVE  Line!Next \/ UNCHANGED Line!vars
    <2>1. CASE bench' = bench
      BY <2>1 DEF Line!vars, LineZone
    <2>2. CASE bench' = InterruptOutput(bench, c, ms) /\ ms > LineHoleRide
      <3>1. LineZone' = LineZone
        <4>1. bench'.channels = bench.channels
          BY <2>2, <1>0 DEF InterruptOutput, SimulatedBench
        <4> QED BY <4>1 DEF LineZone, InPickUp, InHold, LineWithin
      <3>2. bench'.hole_dropped = TRUE /\ bench'.line_latched = bench.line_latched
        BY <2>2, <1>0 DEF InterruptOutput, SimulatedBench
      <3> QED BY <3>1, <3>2 DEF Line!Next, Line!LongHole
    <2> QED BY <1>6, <2>1, <2>2 DEF InterruptCall, InterruptOutput
  <1>7. CASE GetRelayStates
    <2>1. bench' = SettleLine(bench)
      BY <1>7 DEF GetRelayStates
    <2>2. LineZone' = LineZone
      <3>1. bench'.channels = bench.channels
        BY <2>1, <1>0 DEF SettleLine, SimulatedBench
      <3> QED BY <3>1 DEF LineZone, InPickUp, InHold, LineWithin
    <2>3. bench.line_latched \in BOOLEAN /\ bench.hole_dropped \in BOOLEAN
      BY <1>0 DEF SimulatedBench
    <2>4. bench'.line_latched = (/\ ~bench.hole_dropped
                                /\ \/ LineZone = "pick-up"
                                   \/ LineZone = "dead band" /\ bench.line_latched)
      BY <2>1, <2>3, <1>0, SettleKeepsLine, ZoneOf, PickUpInHold
    <2>5. Line!Look
      BY <2>1, <2>2, <2>4, <1>0, SettleKeepsLine DEF Line!Look
    <2> QED BY <2>5 DEF Line!Next
  <1>8. ASSUME NEW factor \in Corrections, ApplyAnalogCorrection(factor)
        PROVE  UNCHANGED Line!vars
    BY <1>8, <1>0, CorrectionKeepsLine
    DEF ApplyAnalogCorrection, SetCorrection, SimulatedBench, Line!vars, LineZone
  <1>9. CASE ResetBench
    <2>1. bench'.hole_dropped = FALSE /\ bench'.line_latched = FALSE
      BY <1>9 DEF ResetBench, Reset, InitBench
    <2> QED BY <2>1, <1>0 DEF Line!Next, Line!PowerCycle
  <1>10. CASE UNCHANGED vars
    BY <1>10 DEF vars, Line!vars, LineZone
  <1> QED
    BY <1>2, <1>3, <1>4, <1>5, <1>6, <1>7, <1>8, <1>9, <1>10
    DEF Next, GeneratorCall

\* The bench is a hysteretic line detector, for every waveform, level, offset
\* and harmonic the generator can be programmed with.
THEOREM BenchImplementsHystereticLine == Spec => ImplementsHystereticLine
  <1>1. Init => Line!Init
    <2>1. Init => bench \in SimulatedBench
      BY InitBenchType DEF Init
    <2>2. Init => bench.hole_dropped = FALSE /\ bench.line_latched = FALSE
      BY DEF Init, InitBench
    <2>3. Init => LineZone \in Line!Zones
      BY <2>1, ZoneOf
    <2> QED BY <2>2, <2>3 DEF Line!Init
  <1> QED
    BY <1>1, ImplementationStep, TypeCorrect, PTL
    DEF Spec, ImplementsHystereticLine, Line!Spec
=============================================================================
