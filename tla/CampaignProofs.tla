--------------------------- MODULE CampaignProofs ---------------------------
(* What a verdict of Campaign is worth, for every suite: any plan, any racks *)
(* of configurations, either caller, and any call raising at any time.       *)
EXTENDS Campaign, TLAPS

-----------------------------------------------------------------------------
(* The procedures.  All that the proofs need of them is which steps they     *)
(* have, and that they end with the outputs off: Procedure.                  *)
Calls == {"ask", "on", "off", "probe"}

Steps == {x \in [do: Calls \cup {"note", "judge"}, uses: SUBSET ToSet(Drivers), output: Outputs] :
            /\ x.do \notin Calls => x.output = "voltage"
            /\ x.do = "probe" => x.uses = {"multimeter"}}

Silences(x, c) == x.do \in {"off", "probe"} /\ x.output = c

\* After s, the output c is off if it was off before.
Quiet(s, c) ==
  \A i \in 1..Len(s) : s[i].do = "on" /\ s[i].output = c =>
    \E j \in (i + 1)..Len(s) : Silences(s[j], c)

Called(s, d) == \E x \in ToSet(s) : x.do \in Calls /\ d \in x.uses
Shown(s, d)  == \E x \in ToSet(s) : x.do \in {"judge", "probe"} /\ d \in x.uses

\* There is evidence; whatever is used is called, and all but the generator
\* is called or judged where a dead bench shows.
Procedure(s) ==
  /\ s \in Seq(Steps)
  /\ \E x \in ToSet(s) : x.do = "note"
  /\ \A x \in ToSet(s) : \A d \in x.uses :
       Called(s, d) /\ (d # "signal_generator" => Shown(s, d))
  /\ \A c \in Outputs : Quiet(s, c)

\* What the analog output case works with.
Devices3 == {"signal_generator", "multimeter", "dut"}

LEMMA Devices ==
  /\ ToSet(Drivers) = {"signal_generator", "multimeter", "oscilloscope", "dut"}
  /\ Devices3 \subseteq ToSet(Drivers) /\ "oscilloscope" \in ToSet(Drivers)
  BY DEF ToSet, Drivers, Devices3

\* Every step uses some of devs, and switches on none but those of on.
Limited(devs, on) == {x \in Steps : x.uses \subseteq devs /\ (x.do = "on" => x.output \in on)}

\* Every step of t is one of s.
Part(t, s) == ToSet(t) \subseteq ToSet(s)

\* Parts that tell it all, below.
Calibrates(s) == Part(Calibrate("voltage"), s) /\ Part(Note, s)
AsksTheDut(s) == Part(Look, s) /\ Part(Judge({"dut"}), s)

LEMMA OneStep ==
  ASSUME NEW do \in Calls \cup {"note", "judge"}, NEW devs, NEW on,
         NEW uses \in SUBSET (ToSet(Drivers) \cap devs), NEW output \in Outputs,
         do \notin Calls => output = "voltage", do = "on" => output \in on,
         do = "probe" => uses = {"multimeter"}
  PROVE  /\ Step(do, uses, output) \in Seq(Limited(devs, on))
         /\ ToSet(Step(do, uses, output)) = {[do |-> do, uses |-> uses, output |-> output]}
  <1>1. [do |-> do, uses |-> uses, output |-> output] \in Limited(devs, on)
    BY DEF Steps, Limited
  <1>2. Step(do, uses, output) \in Seq(Limited(devs, on))
    BY <1>1 DEF Step
  <1>3. /\ Len(Step(do, uses, output)) = 1 /\ DOMAIN Step(do, uses, output) = {1}
        /\ Step(do, uses, output)[1] = [do |-> do, uses |-> uses, output |-> output]
    BY DEF Step
  <1> QED BY <1>2, <1>3 DEF ToSet

LEMMA StepsJoin ==
  ASSUME NEW S, NEW s \in Seq(S), NEW t \in Seq(S)
  PROVE  s \o t \in Seq(S) /\ ToSet(s \o t) = ToSet(s) \cup ToSet(t)
  <1>1. ASSUME NEW x \in ToSet(s \o t) PROVE x \in ToSet(s) \cup ToSet(t)
    <2>1. PICK i \in 1..(Len(s) + Len(t)) : x = (s \o t)[i]
      BY <1>1 DEF ToSet
    <2>2. CASE i <= Len(s)
      BY <2>1, <2>2 DEF ToSet
    <2>3. CASE i > Len(s)
      <3>1. i - Len(s) \in 1..Len(t) /\ x = t[i - Len(s)]
        BY <2>1, <2>3
      <3> QED BY <3>1 DEF ToSet
    <2> QED BY <2>2, <2>3
  <1>2. ASSUME NEW x \in ToSet(s) PROVE x \in ToSet(s \o t)
    <2>1. PICK i \in 1..Len(s) : x = s[i]
      BY <1>2 DEF ToSet
    <2>2. i \in 1..Len(s \o t) /\ (s \o t)[i] = x
      BY <2>1
    <2> QED BY <2>2 DEF ToSet
  <1>3. ASSUME NEW x \in ToSet(t) PROVE x \in ToSet(s \o t)
    <2>1. PICK i \in 1..Len(t) : x = t[i]
      BY <1>3 DEF ToSet
    <2>2. Len(s) + i \in 1..Len(s \o t) /\ (s \o t)[Len(s) + i] = x
      BY <2>1
    <2> QED BY <2>2 DEF ToSet
  <1> QED BY <1>1, <1>2, <1>3

\* What follows switches nothing on, or switches off last.
LEMMA SingleSteps ==
  ASSUME NEW devs, Devices3 \subseteq devs, NEW on
  PROVE  LET Good == Seq(Limited(devs, on))
         IN /\ \A c \in Outputs : /\ Generate(c) \in Good /\ Off(c) \in Good
                                  /\ Measure(c) \in Good /\ Probe(c) \in Good
                                  /\ c \in on => On(c) \in Good
            /\ Look \in Good /\ ReadOutput \in Good /\ Note \in Good
            /\ \A alive \in SUBSET Devices3 : Judge(alive) \in Good
            /\ "oscilloscope" \in devs => Capture \in Good /\ Judge({"oscilloscope"}) \in Good
  BY OneStep, Devices DEF Calls, Outputs, Generate, On, Off, Measure, Probe, Look, ReadOutput,
                          Capture, Note, Judge, Devices3

\* What the proofs of the procedures have in common.
LEMMA Parts ==
  /\ \A S, s, t : s \in Seq(S) /\ t \in Seq(S) =>
       /\ s \o t \in Seq(S) /\ Part(t, s \o t)
       /\ \A u : Part(u, s) => Part(u, s \o t)
  /\ \A s : Part(s, s)
  /\ "voltage" \in Outputs /\ "current" \in Outputs
  /\ \A alive \in {{}, {"dut"}, {"multimeter"}, {"multimeter", "dut"}} : alive \in SUBSET Devices3
  <1>1. \A S, s, t : s \in Seq(S) /\ t \in Seq(S) =>
          s \o t \in Seq(S) /\ ToSet(s \o t) = ToSet(s) \cup ToSet(t)
    BY StepsJoin
  <1> QED BY <1>1 DEF Outputs, Devices3, Part

LEMMA Procedures ==
  ASSUME NEW devs, Devices3 \subseteq devs, NEW on, "voltage" \in on
  PROVE  LET Good == Seq(Limited(devs, on))
         IN /\ \A c \in Outputs \cap on : Calibrate(c) \in Good
            /\ BothOff \in Good
            /\ EnergiseLine \in Good /\ Sweep \in Good /\ AnalogPoint \in Good
            /\ "oscilloscope" \in devs => Timed \in Good
  <1> DEFINE Good == Seq(Limited(devs, on))
  <1>1. \A s, t \in Good : s \o t \in Good
    BY Parts
  <1>2. /\ \A c \in Outputs : /\ Generate(c) \in Good /\ Off(c) \in Good
                              /\ Measure(c) \in Good /\ Probe(c) \in Good
                              /\ c \in on => On(c) \in Good
        /\ Look \in Good /\ ReadOutput \in Good
        /\ \A alive \in SUBSET Devices3 : Judge(alive) \in Good
        /\ "oscilloscope" \in devs => Capture \in Good /\ Judge({"oscilloscope"}) \in Good
    BY SingleSteps
  <1> HIDE DEF Good
  <1>3. \A c \in Outputs \cap on : Calibrate(c) \in Good
    BY <1>1, <1>2, Zenon DEF Calibrate
  <1>4. EnergiseLine \in Good
    BY <1>1, <1>2, Parts, Zenon DEF EnergiseLine
  <1>5. Sweep \in Good
    BY <1>1, <1>2, Parts, Zenon DEF Sweep
  <1>6. AnalogPoint \in Good
    BY <1>1, <1>2, <1>4, Parts, Zenon DEF AnalogPoint
  <1>7. BothOff \in Good
    BY <1>1, <1>2, Parts, Zenon DEF BothOff
  <1>8. "oscilloscope" \in devs => Timed \in Good
    BY <1>1, <1>2, Zenon DEF Timed
  <1> QED BY <1>3, <1>4, <1>5, <1>6, <1>7, <1>8 DEF Good

\* What follows switches c off last, or leaves it alone.
LEMMA QuietJoin ==
  ASSUME NEW S, NEW s \in Seq(S), NEW t \in Seq(S), NEW c,
         \A x \in ToSet(t) : ~(x.do = "on" /\ x.output = c),
         Quiet(s, c) \/ \E x \in ToSet(t) : Silences(x, c)
  PROVE  Quiet(s \o t, c)
  <1> SUFFICES ASSUME NEW i \in 1..Len(s \o t), (s \o t)[i].do = "on", (s \o t)[i].output = c
               PROVE  \E j \in (i + 1)..Len(s \o t) : Silences((s \o t)[j], c)
    BY DEF Quiet
  <1>1. i \in 1..Len(s)
    <2> SUFFICES ASSUME i > Len(s) PROVE FALSE
      OBVIOUS
    <2>1. i - Len(s) \in 1..Len(t) /\ (s \o t)[i] = t[i - Len(s)]
      OBVIOUS
    <2> QED BY <2>1 DEF ToSet
  <1>2. (s \o t)[i] = s[i]
    BY <1>1
  <1>3. CASE Quiet(s, c)
    <2>1. PICK j \in (i + 1)..Len(s) : Silences(s[j], c)
      BY <1>1, <1>2, <1>3 DEF Quiet
    <2>2. j \in (i + 1)..Len(s \o t) /\ (s \o t)[j] = s[j]
      BY <1>1
    <2> QED BY <2>1, <2>2
  <1>4. CASE \E x \in ToSet(t) : Silences(x, c)
    <2>1. PICK j \in 1..Len(t) : Silences(t[j], c)
      BY <1>4 DEF ToSet
    <2>2. Len(s) + j \in (i + 1)..Len(s \o t) /\ (s \o t)[Len(s) + j] = t[j]
      BY <1>1
    <2> QED BY <2>1, <2>2
  <1> QED BY <1>3, <1>4

LEMMA QuietNever ==
  ASSUME NEW devs, NEW on, NEW c, c \notin on, NEW s \in Seq(Limited(devs, on))
  PROVE  Quiet(s, c)
  BY DEF Quiet, Limited

LEMMA QuietEnds ==
  ASSUME NEW devs, Devices3 \subseteq devs, NEW on, NEW c \in Outputs
  PROVE  LET Good == Seq(Limited(devs, on))
         IN /\ \A s \in Good : Quiet(s \o Off(c), c) /\ Quiet(s \o BothOff, c)
            /\ \A s \in Good : Quiet(s, c) =>
                 /\ Quiet(s \o Measure(c), c)
                 /\ "oscilloscope" \in devs => Quiet(s \o Capture, c)
                 /\ Quiet(s \o Judge({}), c)
  <1> DEFINE Good == Seq(Limited(devs, on))
  <1>1. /\ \A d \in Outputs : Off(d) \in Good /\ Measure(d) \in Good
        /\ "oscilloscope" \in devs => Capture \in Good
        /\ Judge({}) \in Good /\ BothOff \in Good
    BY SingleSteps, Parts DEF BothOff
  <1>2. /\ \A d \in Outputs :
             /\ ToSet(Off(d)) = {[do |-> "off", uses |-> {"signal_generator"}, output |-> d]}
             /\ ToSet(Measure(d)) = {[do |-> "ask", uses |-> {"multimeter"}, output |-> d]}
        /\ ToSet(Capture) = {[do |-> "ask", uses |-> {"oscilloscope"}, output |-> "current"]}
        /\ ToSet(Judge({})) = {[do |-> "judge", uses |-> {}, output |-> "voltage"]}
    BY OneStep, Devices DEF Off, Measure, Capture, Judge, Calls, Outputs
  <1>3. ToSet(BothOff) = ToSet(Off("current")) \cup ToSet(Off("voltage"))
    BY <1>1, Parts, StepsJoin DEF BothOff
  <1>8. \A d \in Outputs : /\ \E x \in ToSet(Off(d)) : Silences(x, d)
                           /\ \A x \in ToSet(Off(d)) : x.do = "off"
    <2> SUFFICES ASSUME NEW d \in Outputs
                 PROVE  /\ Silences([do |-> "off", uses |-> {"signal_generator"}, output |-> d], d)
                        /\ \A x \in ToSet(Off(d)) : x.do = "off"
      BY <1>2
    <2> QED BY <1>2 DEF Silences
  <1>5. \A s \in Good : Quiet(s \o Off(c), c)
    BY <1>1, <1>8, QuietJoin
  <1>6. \A s \in Good : Quiet(s \o BothOff, c)
    <2>1. \A x \in ToSet(BothOff) : x.do = "off"
      BY <1>2, <1>3, Parts
    <2>2. \E x \in ToSet(BothOff) : Silences(x, c)
      BY <1>3, <1>8 DEF Outputs
    <2> QED BY <1>1, <2>1, <2>2, QuietJoin
  <1>7. \A s \in Good : Quiet(s, c) =>
          /\ Quiet(s \o Measure(c), c)
          /\ "oscilloscope" \in devs => Quiet(s \o Capture, c)
          /\ Quiet(s \o Judge({}), c)
    BY <1>1, <1>2, QuietJoin
  <1> QED BY <1>5, <1>6, <1>7

\* What a procedure is put together of, and what it keeps of its parts.
Joins(Good) ==
  \A s, t : s \in Good /\ t \in Good =>
    s \o t \in Good /\ Part(t, s \o t) /\ \A u : Part(u, s) => Part(u, s \o t)

Makes(Good, devs, on) ==
  /\ \A c \in Outputs : /\ Generate(c) \in Good /\ Off(c) \in Good /\ Measure(c) \in Good
                        /\ c \in on => On(c) \in Good /\ Calibrate(c) \in Good
  /\ Look \in Good /\ ReadOutput \in Good /\ Note \in Good /\ BothOff \in Good
  /\ \A alive \in SUBSET Devices3 : Judge(alive) \in Good
  /\ EnergiseLine \in Good /\ Sweep \in Good /\ AnalogPoint \in Good
  /\ "oscilloscope" \in devs => Capture \in Good /\ Timed \in Good
  /\ "voltage" \in on

LEMMA Makings ==
  ASSUME NEW devs, Devices3 \subseteq devs, NEW on, "voltage" \in on
  PROVE  Joins(Seq(Limited(devs, on))) /\ Makes(Seq(Limited(devs, on)), devs, on)
  BY SingleSteps, Procedures, Parts DEF Joins, Makes

LEMMA OvercurrentSteps ==
  /\ RunOvercurrentCase \in Seq(Limited(ToSet(Drivers), Outputs))
  /\ Calibrates(RunOvercurrentCase) /\ AsksTheDut(RunOvercurrentCase)
  /\ Part(Timed, RunOvercurrentCase)
  /\ \A c \in Outputs : Quiet(RunOvercurrentCase, c)
  <1> DEFINE Good == Seq(Limited(ToSet(Drivers), Outputs))
             Prepared == Calibrate("voltage") \o Calibrate("current") \o Note \o EnergiseLine
             Nominal  == Prepared \o Generate("current") \o On("current") \o Measure("current")
                         \o Look \o Judge({})
             Tripped  == Nominal \o Generate("current") \o Measure("current") \o Look
                         \o Judge({"dut"})
             Clocked  == Tripped \o Generate("current") \o Measure("current") \o Note \o Timed
  <1>1. Joins(Good) /\ Makes(Good, ToSet(Drivers), Outputs)
    BY Makings, Devices DEF Devices3, Outputs
  <1> HIDE DEF Good
  <1>2. Prepared \in Good /\ Calibrates(Prepared)
    BY <1>1, Devices, Parts, Zenon DEF Joins, Makes, Calibrates, AsksTheDut
  <1> HIDE DEF Prepared
  <1>3. Nominal \in Good /\ Calibrates(Nominal)
    BY <1>2, <1>1, Devices, Parts, Zenon DEF Joins, Makes, Calibrates, AsksTheDut
  <1> HIDE DEF Nominal
  <1>4. Tripped \in Good /\ Calibrates(Tripped) /\ AsksTheDut(Tripped)
    BY <1>3, <1>1, Devices, Parts, Zenon DEF Joins, Makes, Calibrates, AsksTheDut
  <1> HIDE DEF Tripped
  <1>5. Clocked \in Good /\ Calibrates(Clocked) /\ AsksTheDut(Clocked) /\ Part(Timed, Clocked)
    BY <1>4, <1>1, Devices, Parts, Zenon DEF Joins, Makes, Calibrates, AsksTheDut
  <1> HIDE DEF Clocked
  <1> DEFINE Whole == Clocked \o BothOff
  <1>6. Whole \in Good /\ Calibrates(Whole) /\ AsksTheDut(Whole) /\ Part(Timed, Whole)
    BY <1>5, <1>1, Devices, Parts, Zenon DEF Joins, Makes, Calibrates, AsksTheDut
  <1>7. \A c \in Outputs : Quiet(Clocked \o BothOff, c)
    BY <1>5, Devices, QuietEnds DEF Good
  <1> QED BY <1>6, <1>7 DEF RunOvercurrentCase, Good, Prepared, Nominal, Tripped, Clocked

LEMMA HarmonicSteps ==
  /\ RunHarmonicCase \in Seq(Limited(ToSet(Drivers), Outputs))
  /\ Calibrates(RunHarmonicCase) /\ AsksTheDut(RunHarmonicCase)
  /\ Part(Timed, RunHarmonicCase)
  /\ \A c \in Outputs : Quiet(RunHarmonicCase, c)
  <1> DEFINE Good == Seq(Limited(ToSet(Drivers), Outputs))
             Prepared == Calibrate("voltage") \o Calibrate("current") \o Note
                         \o EnergiseLine \o Judge({"multimeter"})
             Nominal  == Prepared \o Generate("current") \o On("current") \o Look
                         \o Measure("current") \o Judge({})
             Tripped  == Nominal \o Generate("current") \o Measure("current") \o Look
                         \o Judge({"dut"})
             Clocked  == Tripped \o Generate("current") \o Timed
  <1>1. Joins(Good) /\ Makes(Good, ToSet(Drivers), Outputs)
    BY Makings, Devices DEF Devices3, Outputs
  <1> HIDE DEF Good
  <1>2. Prepared \in Good /\ Calibrates(Prepared)
    BY <1>1, Devices, Parts, Zenon DEF Joins, Makes, Calibrates, AsksTheDut
  <1> HIDE DEF Prepared
  <1>3. Nominal \in Good /\ Calibrates(Nominal)
    BY <1>2, <1>1, Devices, Parts, Zenon DEF Joins, Makes, Calibrates, AsksTheDut
  <1> HIDE DEF Nominal
  <1>4. Tripped \in Good /\ Calibrates(Tripped) /\ AsksTheDut(Tripped)
    BY <1>3, <1>1, Devices, Parts, Zenon DEF Joins, Makes, Calibrates, AsksTheDut
  <1> HIDE DEF Tripped
  <1>5. Clocked \in Good /\ Calibrates(Clocked) /\ AsksTheDut(Clocked) /\ Part(Timed, Clocked)
    BY <1>4, <1>1, Devices, Parts, Zenon DEF Joins, Makes, Calibrates, AsksTheDut
  <1> HIDE DEF Clocked
  <1> DEFINE Whole == Clocked \o BothOff
  <1>6. Whole \in Good /\ Calibrates(Whole) /\ AsksTheDut(Whole) /\ Part(Timed, Whole)
    BY <1>5, <1>1, Devices, Parts, Zenon DEF Joins, Makes, Calibrates, AsksTheDut
  <1>7. \A c \in Outputs : Quiet(Clocked \o BothOff, c)
    BY <1>5, Devices, QuietEnds DEF Good
  <1> QED BY <1>6, <1>7 DEF RunHarmonicCase, Good, Prepared, Nominal, Tripped, Clocked

LEMMA LineSteps ==
  /\ RunLineDetectionCase \in Seq(Limited(ToSet(Drivers), {"voltage"}))
  /\ Calibrates(RunLineDetectionCase) /\ AsksTheDut(RunLineDetectionCase)
  /\ Part(Timed, RunLineDetectionCase)
  /\ \A c \in Outputs : Quiet(RunLineDetectionCase, c)
  <1> DEFINE Good == Seq(Limited(ToSet(Drivers), {"voltage"}))
             Prepared == Calibrate("voltage") \o Note
             Below    == Prepared \o Generate("voltage") \o On("voltage") \o Measure("voltage")
                         \o Look \o Judge({})
             Swept    == Below \o Sweep
                         \o Generate("voltage") \o Look \o Measure("voltage")
                         \o Judge({"dut"}) \o Sweep
             Detected == Swept \o Off("voltage") \o EnergiseLine \o Timed
                         \o Generate("voltage") \o Look \o Judge({"dut"})
  <1>1. Joins(Good) /\ Makes(Good, ToSet(Drivers), {"voltage"})
    BY Makings, Devices DEF Devices3, Outputs
  <1> HIDE DEF Good
  <1>2. Prepared \in Good /\ Calibrates(Prepared)
    BY <1>1, Devices, Parts, Zenon DEF Joins, Makes, Calibrates, AsksTheDut
  <1> HIDE DEF Prepared
  <1>3. Below \in Good /\ Calibrates(Below)
    BY <1>2, <1>1, Devices, Parts, Zenon DEF Joins, Makes, Calibrates, AsksTheDut
  <1> HIDE DEF Below
  <1>4. Swept \in Good /\ Calibrates(Swept) /\ AsksTheDut(Swept)
    BY <1>3, <1>1, Devices, Parts, Zenon DEF Joins, Makes, Calibrates, AsksTheDut
  <1> HIDE DEF Swept
  <1>5. Detected \in Good /\ Calibrates(Detected) /\ AsksTheDut(Detected) /\ Part(Timed, Detected)
    BY <1>4, <1>1, Devices, Parts, Zenon DEF Joins, Makes, Calibrates, AsksTheDut
  <1> HIDE DEF Detected
  <1> DEFINE Whole == Detected \o Off("voltage") \o Capture \o Judge({})
  <1>6. Whole \in Good /\ Calibrates(Whole) /\ AsksTheDut(Whole) /\ Part(Timed, Whole)
    BY <1>5, <1>1, Devices, Parts, Zenon DEF Joins, Makes, Calibrates, AsksTheDut
  <1>7. \A c \in Outputs : Quiet(Detected \o Off("voltage") \o Capture \o Judge({}), c)
    <2>1. Detected \o Off("voltage") \in Good /\ Detected \o Off("voltage") \o Capture \in Good
      BY <1>5, <1>1, Devices, Parts, Zenon DEF Joins, Makes, Calibrates, AsksTheDut
    <2>2. Quiet(Detected \o Off("voltage"), "voltage")
      BY <1>5, Devices, QuietEnds, Parts DEF Good
    <2>3. Quiet(Detected \o Off("voltage") \o Capture, "voltage")
      BY <2>1, <2>2, Devices, QuietEnds, Parts DEF Good
    <2>4. Quiet(Detected \o Off("voltage") \o Capture \o Judge({}), "voltage")
      BY <2>1, <2>3, Devices, QuietEnds, Parts DEF Good
    <2>5. Quiet(Detected \o Off("voltage") \o Capture \o Judge({}), "current")
      BY <1>6, QuietNever DEF Good
    <2> QED BY <2>4, <2>5 DEF Outputs
  <1> QED BY <1>6, <1>7
          DEF RunLineDetectionCase, Good, LineDetectionSteps, Prepared, Below, Swept, Detected

LEMMA AnalogSteps ==
  /\ RunAnalogOutputCase \in Seq(Limited(Devices3, {"voltage"}))
  /\ Calibrates(RunAnalogOutputCase)
  /\ Part(AnalogPoint, RunAnalogOutputCase)
  /\ \A c \in Outputs : Quiet(RunAnalogOutputCase, c)
  <1> DEFINE Good == Seq(Limited(Devices3, {"voltage"}))
             Prepared == Calibrate("voltage") \o Note
             Points   == Prepared \o AnalogPoint \o AnalogPoint
  <1>1. Joins(Good) /\ Makes(Good, Devices3, {"voltage"})
    BY Makings, Devices DEF Devices3, Outputs
  <1> HIDE DEF Good
  <1>2. Prepared \in Good /\ Calibrates(Prepared)
    BY <1>1, Parts, Zenon DEF Joins, Makes, Calibrates, AsksTheDut
  <1> HIDE DEF Prepared
  <1>3. Points \in Good /\ Calibrates(Points) /\ Part(AnalogPoint, Points)
    BY <1>2, <1>1, Parts, Zenon DEF Joins, Makes, Calibrates, AsksTheDut
  <1> HIDE DEF Points
  <1> DEFINE Whole == Points \o Off("voltage") \o Measure("voltage")
  <1>4. Whole \in Good /\ Calibrates(Whole) /\ Part(AnalogPoint, Whole)
    BY <1>3, <1>1, Parts, Zenon DEF Joins, Makes, Calibrates, AsksTheDut
  <1>5. \A c \in Outputs : Quiet(Points \o Off("voltage") \o Measure("voltage"), c)
    <2>1. Points \o Off("voltage") \in Good
      BY <1>3, <1>1, Parts, Zenon DEF Joins, Makes, Calibrates, AsksTheDut
    <2>2. Quiet(Points \o Off("voltage"), "voltage")
      BY <1>3, Devices, QuietEnds, Parts DEF Good
    <2>3. Quiet(Points \o Off("voltage") \o Measure("voltage"), "voltage")
      BY <2>1, <2>2, Devices, QuietEnds, Parts DEF Good
    <2>4. Quiet(Points \o Off("voltage") \o Measure("voltage"), "current")
      BY <1>4, QuietNever DEF Good
    <2> QED BY <2>3, <2>4 DEF Outputs
  <1> QED BY <1>4, <1>5 DEF RunAnalogOutputCase, Good, Prepared, Points

LEMMA PartsTell ==
  /\ \E x \in ToSet(Note) : x.do = "note"
  /\ Called(Calibrate("voltage"), "signal_generator")
  /\ Called(Calibrate("voltage"), "multimeter") /\ Shown(Calibrate("voltage"), "multimeter")
  /\ Called(Look, "dut") /\ Shown(Judge({"dut"}), "dut")
  /\ Called(Timed, "oscilloscope") /\ Shown(Timed, "oscilloscope")
  /\ Called(AnalogPoint, "dut") /\ Shown(AnalogPoint, "dut")
  <1> DEFINE Good == Seq(Limited(ToSet(Drivers), Outputs))
  <1>1. \A s, t : s \in Good /\ t \in Good =>
          s \o t \in Good /\ Part(t, s \o t) /\ \A u : Part(u, s) => Part(u, s \o t)
    BY Parts
  <1>2. /\ Devices3 \subseteq ToSet(Drivers) /\ "oscilloscope" \in ToSet(Drivers)
        /\ "voltage" \in Outputs
    BY Devices DEF Devices3, Outputs
  <1>3. /\ Generate("voltage") \in Good /\ On("voltage") \in Good /\ Probe("voltage") \in Good
        /\ Capture \in Good /\ ReadOutput \in Good /\ EnergiseLine \in Good
        /\ Judge({"oscilloscope"}) \in Good /\ Judge({"multimeter", "dut"}) \in Good
    BY <1>2, SingleSteps, Procedures, Parts
  <1> HIDE DEF Good
  <1>4. /\ Part(Generate("voltage"), Calibrate("voltage"))
        /\ Part(Probe("voltage"), Calibrate("voltage"))
    BY <1>1, <1>3, Parts, Zenon DEF Calibrate
  <1>5. Part(Capture, Timed) /\ Part(Judge({"oscilloscope"}), Timed)
    BY <1>1, <1>3, Parts, Zenon DEF Timed
  <1>6. Part(ReadOutput, AnalogPoint) /\ Part(Judge({"multimeter", "dut"}), AnalogPoint)
    BY <1>1, <1>3, Parts, Zenon DEF AnalogPoint
  <1>7. /\ \E x \in ToSet(Note) : x.do = "note"
        /\ Called(Generate("voltage"), "signal_generator")
        /\ Called(Probe("voltage"), "multimeter") /\ Shown(Probe("voltage"), "multimeter")
        /\ Called(Look, "dut") /\ Called(ReadOutput, "dut") /\ Called(Capture, "oscilloscope")
        /\ \A alive \in SUBSET ToSet(Drivers) : \A d \in alive : Shown(Judge(alive), d)
    <2> DEFINE Just(do, uses, c) == {[do |-> do, uses |-> uses, output |-> c]}
    <2>1. /\ ToSet(Note) = Just("note", {}, "voltage")
          /\ ToSet(Generate("voltage")) = Just("ask", {"signal_generator"}, "voltage")
          /\ ToSet(Probe("voltage")) = Just("probe", {"multimeter"}, "voltage")
          /\ ToSet(Look) = Just("ask", {"dut"}, "current")
          /\ ToSet(ReadOutput) = Just("ask", {"dut"}, "voltage")
          /\ ToSet(Capture) = Just("ask", {"oscilloscope"}, "current")
          /\ \A alive \in SUBSET ToSet(Drivers) :
               ToSet(Judge(alive)) = Just("judge", alive, "voltage")
      BY OneStep, Devices DEF Calls, Outputs, Generate, Probe, Look, ReadOutput, Capture, Note,
                              Judge
    <2>2. \A s, do, uses, c, d : ToSet(s) = Just(do, uses, c) /\ d \in uses =>
            (do \in Calls => Called(s, d)) /\ (do \in {"judge", "probe"} => Shown(s, d))
      BY DEF Called, Shown
    <2>3. \E x \in ToSet(Note) : x.do = "note"
      BY <2>1
    <2> HIDE DEF Just
    <2> QED BY <2>1, <2>2, <2>3 DEF Calls
  <1>8. ASSUME NEW s, NEW t, Part(s, t), NEW d
        PROVE  (Called(s, d) => Called(t, d)) /\ (Shown(s, d) => Shown(t, d))
    BY <1>8 DEF Part, Called, Shown
  <1>9. /\ {"oscilloscope"} \in SUBSET ToSet(Drivers) /\ {"dut"} \in SUBSET ToSet(Drivers)
        /\ {"multimeter", "dut"} \in SUBSET ToSet(Drivers)
    BY Devices
  <1> QED BY <1>4, <1>5, <1>6, <1>7, <1>8, <1>9

\* Facts about a part are facts about the whole.
LEMMA IsProcedure ==
  ASSUME NEW devs, NEW on, NEW s \in Seq(Limited(devs, on)), \A c \in Outputs : Quiet(s, c),
         Calibrates(s),
         \/ devs = ToSet(Drivers) /\ AsksTheDut(s) /\ Part(Timed, s)
         \/ devs = Devices3 /\ Part(AnalogPoint, s)
  PROVE  Procedure(s)
  <1>1. s \in Seq(Steps)
    BY DEF Limited
  <1>2. \E x \in ToSet(s) : x.do = "note"
    BY PartsTell DEF Part, Calibrates
  <1>3. \A t, d : Part(t, s) => (Called(t, d) => Called(s, d)) /\ (Shown(t, d) => Shown(s, d))
    BY DEF Part, Called, Shown
  <1>4. Called(s, "signal_generator") /\ Called(s, "multimeter") /\ Shown(s, "multimeter")
    BY <1>3, PartsTell DEF Calibrates
  <1>5. Called(s, "dut") /\ Shown(s, "dut")
    BY <1>3, PartsTell DEF AsksTheDut
  <1>6. devs = ToSet(Drivers) => Called(s, "oscilloscope") /\ Shown(s, "oscilloscope")
    BY <1>3, PartsTell, Devices DEF Devices3
  <1>7. \A d \in devs : Called(s, d) /\ (d # "signal_generator" => Shown(s, d))
    BY <1>4, <1>5, <1>6, Devices DEF Devices3
  <1>8. \A x \in ToSet(s) : x.uses \subseteq devs
    BY DEF ToSet, Limited
  <1> QED BY <1>1, <1>2, <1>7, <1>8 DEF Procedure

LEMMA ScriptsAreProcedures ==
  \A kind \in {"overcurrent", "harmonic", "line_detection", "analog_output"} :
    Procedure(Runners[kind])
  <1>1. Procedure(RunOvercurrentCase)
    BY OvercurrentSteps, IsProcedure
  <1>2. Procedure(RunHarmonicCase)
    BY HarmonicSteps, IsProcedure
  <1>3. Procedure(RunLineDetectionCase)
    BY LineSteps, IsProcedure
  <1>4. Procedure(RunAnalogOutputCase)
    BY AnalogSteps, IsProcedure
  <1> QED BY <1>1, <1>2, <1>3, <1>4 DEF Runners

-----------------------------------------------------------------------------
(* The inductive invariant.                                                  *)
Ended == phase \in {"report", "disconnect", "over"}

\* How far the suite is, and what that leaves of its verdict.
Progress ==
  /\ log.finished = 1 .. row - 1
  /\ phase \in {"start", "connect", "unwind"} => row = 1 /\ pc = 1
  /\ ~Ended => verdict = "none"
  /\ phase = "report" /\ Caller = "script" => verdict = "none"
  /\ log.raised => verdict = "fail"
  /\ verdict # "fail" /\ Ended => row > Len(Plan)
  /\ verdict = "pass" => AllPassed
  /\ \A k \in log.failed : k \in DOMAIN cases /\ "FAIL" \in cases[k]

\* Every case that is through has its row, and the report of a green one too.
Evidence ==
  /\ \A i \in 1 .. row - 1 : Plan[i] \in DOMAIN cases
  /\ row =< Len(Plan) => /\ pc =< Len(Script) + 1
                         /\ \A j \in 1 .. pc - 1 : Script[j].do = "note" => Key \in DOMAIN cases
  /\ phase \in {"disconnect", "over"} /\ verdict = "pass" =>
       DOMAIN report = Keys /\ \A k \in Keys : report[k] = "PASS"

\* The outputs the procedure has switched on and not off again.
SwitchedOn ==
  {c \in Outputs : \E i \in 1 .. pc - 1 :
     /\ Script[i].do = "on" /\ Script[i].output = c
     /\ \A j \in i + 1 .. pc - 1 : ~Silences(Script[j], c)}

Stimulus ==
  ~log.raised =>
    live = IF phase = "cases" /\ row =< Len(Plan) THEN SwitchedOn ELSE {}

\* What it means that a step is behind: the calls were answered, and a
\* judgement that shows a dead bench has failed the case if there was one.
Answered(k, x) ==
  /\ x.do \in Calls => \A d \in x.uses : Fits(Config, d) /\ HasChannel(d, x.output)
  /\ x.do \in {"judge", "probe"} => k \in log.failed \/ \A d \in x.uses : ~Dead(d)

Measured ==
  /\ \A i \in 1 .. row - 1 : \A j \in 1 .. Len(Runners[Plan[i].kind]) :
       Answered(Plan[i], Runners[Plan[i].kind][j])
  /\ row =< Len(Plan) => \A j \in 1 .. pc - 1 : Answered(Key, Script[j])

\* The controller is of the last configuration that was not refused.
Built ==
  /\ phase = "connect" => at > 0
  /\ phase # "start" /\ ~log.raised => controller > 0
  /\ controller > 0 => ~Refused(Config)
  /\ \A h \in handles : h.bench =< controller

\* Of the present bench, what may be open between two drivers.
Mine == {h \in handles : h.bench = controller}

\* connect_all has not got to it, or Unwind has it behind.
Passed(h) == \A j \in 1 .. at : h.driver # Drivers[j]

\* A close that raised is not forgotten by the time a suite is over.
Stuck == \A h \in log.stuck : h.what = "manager" /\ (phase = "unwind" \/ verdict = "fail")

Open ==
  /\ Stuck
  /\ phase = "start" => handles = {}
  /\ phase = "connect" => \A h \in Mine : \E j \in 1 .. at - 1 : h.driver = Drivers[j]
  /\ phase = "unwind" => \A h \in Mine \ log.stuck :
                          Passed(h) => h.driver = log.unopened /\ h.what # "socket"
  /\ phase = "disconnect" =>
       \A h \in Mine \ log.stuck : \E j \in at .. Len(Drivers) : h.driver = Drivers[j]
  /\ phase = "report" /\ Caller = "script" => Mine = {}
  /\ NoDriverIsStranded

Inv == TypeOK /\ Progress /\ Evidence /\ Stimulus /\ Measured /\ Built /\ Open

-----------------------------------------------------------------------------
(* Types.                                                                    *)
Kinds == {"overcurrent", "harmonic", "line_detection", "analog_output"}

LEMMA PlanRows ==
  ASSUME TypeOK
  PROVE  /\ Caller \in {"robot", "script"} /\ Plan \in Seq([kind: Kinds, name: STRING])
         /\ Len(suite.configs) \in Nat \ {0} /\ (Caller = "script" => Len(suite.configs) = 1)
         /\ DOMAIN suite.configs = 1 .. Len(suite.configs)
         /\ \A i \in 1 .. Len(suite.configs) : suite.configs[i].channels \in Nat
         /\ Len(Plan) \in Nat /\ DOMAIN Plan = 1 .. Len(Plan)
         /\ \A i \in 1 .. Len(Plan) : Plan[i] \in Keys /\ Plan[i].kind \in Kinds
         /\ \A k \in Keys : \E i \in 1 .. Len(Plan) : k = Plan[i]
  <1>1. /\ Caller \in {"robot", "script"} /\ Plan \in Seq([kind: Kinds, name: STRING])
        /\ Len(suite.configs) \in Nat \ {0} /\ (Caller = "script" => Len(suite.configs) = 1)
        /\ DOMAIN suite.configs = 1 .. Len(suite.configs)
        /\ \A i \in 1 .. Len(suite.configs) : suite.configs[i].channels \in Nat
    BY CampaignAssumption DEF TypeOK, Caller, Plan, Kinds
  <1>2. Len(Plan) \in Nat /\ DOMAIN Plan = 1 .. Len(Plan)
    BY <1>1
  <1>3. \A i \in 1 .. Len(Plan) : Plan[i] \in Keys /\ Plan[i].kind \in Kinds
    <2> SUFFICES ASSUME NEW i \in 1 .. Len(Plan) PROVE Plan[i] \in Keys /\ Plan[i].kind \in Kinds
      OBVIOUS
    <2>1. Plan[i] \in [kind: Kinds, name: STRING]
      <3>1. \A S : \A s \in Seq(S) : \A j \in 1 .. Len(s) : s[j] \in S
        OBVIOUS
      <3> QED BY <1>1, <3>1, Zenon
    <2>2. Plan[i] \in Keys
      BY <1>2 DEF Keys, ToSet
    <2> QED BY <2>1, <2>2
  <1>4. \A k \in Keys : \E i \in 1 .. Len(Plan) : k = Plan[i]
    BY <1>2 DEF Keys, ToSet
  <1> QED BY <1>1, <1>2, <1>3, <1>4

LEMMA InScript ==
  ASSUME TypeOK, row =< Len(Plan)
  PROVE  /\ Key \in Keys /\ Procedure(Script)
         /\ Len(Script) \in Nat /\ DOMAIN Script = 1 .. Len(Script)
         /\ \A j \in 1 .. Len(Script) : Script[j] \in Steps /\ Script[j].output \in Outputs
  <1>1. row \in 1 .. Len(Plan)
    BY PlanRows DEF TypeOK
  <1>2. Key \in Keys /\ Procedure(Script)
    BY <1>1, PlanRows, ScriptsAreProcedures DEF Key, Script, Kinds
  <1>3. Script \in Seq(Steps)
    BY <1>2 DEF Procedure
  <1> QED BY <1>2, <1>3 DEF Steps

LEMMA DriversOfARack ==
  ASSUME NEW config, ~Refused(config), NEW role \in Roles
  PROVE  TransportOf(config, role) \in {"simulated", "lan", "visa", "udp"}
  <1>1. \A n \in DOMAIN REGISTRY : REGISTRY[n].transport \in {"simulated", "lan", "visa", "udp"}
    BY DEF REGISTRY, SimDriver, LanDriver, VisaDriver
  <1>2. config.instruments[role].driver \in DOMAIN REGISTRY
    BY DEF Refused, BlockRefuses
  <1> QED BY <1>1, <1>2 DEF TransportOf, DriverOf

Handle(b, d, w) == [bench |-> b, driver |-> d, what |-> w]

LEMMA HoldsType ==
  ASSUME TypeOK, Built, controller > 0, NEW d \in ToSet(Drivers)
  PROVE  /\ \A h \in Holds(d) : \E w \in {"socket", "manager", "instrument"} :
              h = Handle(controller, d, w)
         /\ \A kept \in KeptByAFailedOpen(d) : \A h \in kept :
              \E w \in {"manager", "instrument"} : h = Handle(controller, d, w)
  <1>1. Transport(d) \in {"simulated", "lan", "visa", "udp"}
    BY DriversOfARack, Devices DEF Built, Transport, Roles
  <1>2. \A h \in Holds(d) : \E w \in {"socket", "manager", "instrument"} :
              h = Handle(controller, d, w)
    BY <1>1 DEF Holds, Handle
  <1>3. ASSUME NEW kept \in KeptByAFailedOpen(d), NEW h \in kept
        PROVE  \E w \in {"manager", "instrument"} : h = Handle(controller, d, w)
    <2>1. Transport(d) = "visa" /\ h \in Holds(d)
      BY <1>3 DEF KeptByAFailedOpen, Managers
    <2> QED BY <2>1 DEF Holds, Handle
  <1> QED BY <1>2, <1>3

\* A call of a procedure either returns or raises.
Returns ==
  /\ phase = "cases" /\ row =< Len(Plan) /\ pc =< Len(Script)
  /\ Script[pc].do \in Calls /\ CanAnswer
  /\ Script[pc].do = "probe" => \A d \in Script[pc].uses : ~Dead(d)
  /\ live' = CASE Script[pc].do = "on" -> live \cup {Script[pc].output}
               [] Script[pc].do = "ask" -> live
               [] OTHER -> live \ {Script[pc].output}
  /\ Proceeds(live')

Fails == phase = "cases" /\ live' \subseteq Outputs /\ Raises({live'})

LEMMA CallsEnd ==
  ASSUME TypeOK, AskInstrument \/ SwitchOn \/ SwitchOff \/ CalibrationProbe
  PROVE  Returns \/ Fails
  <1>1. row =< Len(Plan) /\ pc \in 1 .. Len(Script) /\ phase = "cases"
    BY InScript DEF TypeOK, AskInstrument, SwitchOn, SwitchOff, CalibrationProbe, InCase
  <1>2. Script[pc] \in Steps /\ Script[pc].output \in Outputs
    BY <1>1, InScript
  <1>3. CASE AskInstrument
    BY <1>1, <1>3 DEF AskInstrument, InCase, Calls, TypeOK, Returns, Fails, Raises, Proceeds
  <1>4. CASE SwitchOn
    BY <1>1, <1>2, <1>4 DEF SwitchOn, InCase, Calls, TypeOK, Returns, Fails, Raises, Proceeds
  <1>5. CASE SwitchOff
    BY <1>1, <1>2, <1>5 DEF SwitchOff, InCase, Calls, TypeOK, Returns, Fails, Raises, Proceeds
  <1>6. CASE CalibrationProbe
    <2>1. Script[pc].uses = {"multimeter"}
      BY <1>2, <1>6 DEF CalibrationProbe, InCase, Steps
    <2> QED BY <1>1, <1>2, <1>6, <2>1 DEF CalibrationProbe, InCase, Calls, TypeOK, Returns, Fails,
                                          Raises, Proceeds
  <1> QED BY <1>3, <1>4, <1>5, <1>6

\* Connecting and disconnecting runs no row, judges none and raises nothing.
LEMMA LogKept ==
  ASSUME TypeOK, Connect \/ Connected \/ Unwind \/ Disconnect \/ Disconnected
  PROVE  log'.finished = log.finished /\ log'.failed = log.failed /\ log'.raised = log.raised
  BY DEF Connect, Connected, Unwind, Disconnect, Disconnected, Close, TypeOK

Logs(held) ==
  [finished: SUBSET (DOMAIN Plan), failed: SUBSET Keys, raised: BOOLEAN,
   unopened: ToSet(Drivers) \cup {"none"}, stuck: SUBSET held]

LEMMA TypeInit == Init => TypeOK
  BY CampaignAssumption DEF Init, TypeOK, Phases, Drivers, Plan

LEMMA TypeStep ==
  ASSUME Inv, Next
  PROVE  TypeOK'
  <1> USE DEF Inv
  <1>1. ASSUME UNCHANGED suite,
               phase' \in Phases, at' \in 0 .. Len(Drivers) + 1,
               opened' \in 0 .. Len(suite.configs), controller' \in 0 .. opened',
               handles' \subseteq [bench: 1 .. opened', driver: ToSet(Drivers),
                                   what: {"socket", "manager", "instrument"}],
               live' \subseteq Outputs, row' \in 1 .. Len(Plan) + 1, pc' \in Nat \ {0},
               DOMAIN cases' \subseteq Keys,
               \A k \in DOMAIN cases' : cases'[k] # {} /\ cases'[k] \subseteq {"PASS", "FAIL"},
               verdict' \in {"none", "pass", "fail"},
               report' = <<>> \/ DOMAIN report' \subseteq Keys,
               log' \in Logs(handles')
        PROVE  TypeOK'
    BY <1>1 DEF TypeOK, Plan, Keys, Logs
  <1>2. ASSUME OpenBench PROVE TypeOK'
    <2>1. /\ opened' \in 0 .. Len(suite.configs) /\ controller' \in 0 .. opened'
          /\ opened =< opened'
      BY <1>2, PlanRows DEF OpenBench, TypeOK
    <2>2. log' \in Logs(handles)
      BY <1>2 DEF OpenBench, TypeOK, Logs
    <2>3. handles' \subseteq [bench: 1 .. opened', driver: ToSet(Drivers),
                              what: {"socket", "manager", "instrument"}]
      BY <1>2, <2>1 DEF OpenBench, TypeOK
    <2> QED BY <1>1, <1>2, <2>1, <2>2, <2>3 DEF OpenBench, TypeOK, Phases, Drivers, campaign
  <1>3. ASSUME Connect PROVE TypeOK'
    <2>1. at \in 1 .. Len(Drivers) /\ Drivers[at] \in ToSet(Drivers) /\ controller > 0
      BY <1>3 DEF Connect, TypeOK, Built, Progress, Ended, Drivers, ToSet
    <2>2. \A new \in {Holds(Drivers[at])} \cup KeptByAFailedOpen(Drivers[at]) :
            new \subseteq [bench: 1 .. opened, driver: ToSet(Drivers),
                           what: {"socket", "manager", "instrument"}]
      BY <2>1, HoldsType DEF Handle, TypeOK
    <2>4. PICK new \in {Holds(Drivers[at])} \cup KeptByAFailedOpen(Drivers[at]) :
            handles' = handles \cup new
      BY <1>3 DEF Connect
    <2>5. log' \in Logs(handles')
      BY <1>3, <2>1, <2>4 DEF Connect, TypeOK, Logs
    <2>3. handles' \subseteq [bench: 1 .. opened', driver: ToSet(Drivers),
                              what: {"socket", "manager", "instrument"}]
      BY <1>3, <2>2, <2>4 DEF Connect, TypeOK, built
    <2>6. at' \in 0 .. Len(Drivers) + 1 /\ phase' \in Phases
      BY <1>3, <2>1 DEF Connect, TypeOK, Phases, Drivers
    <2> QED BY <1>1, <1>3, <2>3, <2>5, <2>6 DEF Connect, TypeOK, campaign, built
  <1>4. ASSUME Connected PROVE TypeOK'
    BY <1>1, <1>4 DEF Connected, TypeOK, Phases, campaign, built, Logs
  <1>15. ASSUME NEW d, NEW stuck \in KeptByAClose(d), Close(d, stuck)
         PROVE  handles' \subseteq handles /\ log' \in Logs(handles')
    BY <1>15 DEF Close, KeptByAClose, Managers, Held, TypeOK, Logs
  <1>5. ASSUME Unwind PROVE TypeOK'
    <2>1. handles' \subseteq handles /\ log' \in Logs(handles')
      BY <1>5, <1>15 DEF Unwind
    <2> QED BY <1>1, <1>5, <2>1 DEF Unwind, TypeOK, Drivers, campaign, built
  <1>6. ASSUME Unwound PROVE TypeOK'
    BY <1>1, <1>6 DEF Unwound, TypeOK, Phases, campaign, built, Logs
  <1>7. ASSUME Disconnect PROVE TypeOK'
    <2>1. handles' \subseteq handles /\ log' \in Logs(handles')
      BY <1>7, <1>15 DEF Disconnect
    <2> QED BY <1>1, <1>7, <2>1 DEF Disconnect, TypeOK, Drivers, campaign, built
  <1>8. ASSUME Disconnected PROVE TypeOK'
    BY <1>1, <1>8 DEF Disconnected, TypeOK, Phases, campaign, built, Logs
  <1>9. ASSUME Returns PROVE TypeOK'
    <2>1. live' \subseteq Outputs
      <3>1. Script[pc].output \in Outputs
        BY <1>9, InScript DEF Returns, TypeOK
      <3> QED BY <1>9, <3>1 DEF Returns, TypeOK
    <2>2. UNCHANGED <<lifecycle, row, cases, verdict, report, log>> /\ pc' = pc + 1
      BY <1>9 DEF Returns, Proceeds
    <2> QED BY <2>1, <2>2 DEF TypeOK, Plan, Keys, lifecycle, built
  <1>10. ASSUME Fails PROVE TypeOK'
    <2>1. log' \in Logs(handles)
      BY <1>10 DEF Fails, Raises, TypeOK, Logs
    <2>2. phase' \in Phases /\ at' \in 0 .. Len(Drivers) + 1
      BY <1>10 DEF Fails, Raises, Aborts, Phases, Drivers
    <2> QED BY <1>1, <1>10, <2>1, <2>2 DEF Fails, Raises, TypeOK, campaign, built
  <1>11. ASSUME PublishStep PROVE TypeOK'
    <2>1. PICK outcome \in {"PASS", "FAIL"} : Publish(outcome) /\ row =< Len(Plan)
      BY <1>11 DEF PublishStep, InCase
    <2>2. Key \in Keys
      BY <2>1, InScript
    <2>3. /\ DOMAIN cases' \subseteq Keys
          /\ \A k \in DOMAIN cases' : cases'[k] # {} /\ cases'[k] \subseteq {"PASS", "FAIL"}
      BY <2>1, <2>2 DEF Publish, TypeOK
    <2>4. log' \in Logs(handles)
      BY <2>1, <2>2 DEF Publish, TypeOK, Logs
    <2>5. UNCHANGED <<lifecycle, live, row, verdict, report>> /\ pc' = pc + 1
      BY <2>1 DEF Publish
    <2> QED BY <2>3, <2>4, <2>5 DEF TypeOK, Plan, Keys, lifecycle, built, Logs
  <1>12. ASSUME NextCase PROVE TypeOK'
    <2>1. row \in DOMAIN Plan /\ row' \in 1 .. Len(Plan) + 1
      BY <1>12, PlanRows DEF NextCase, TypeOK
    <2>2. log' \in Logs(handles)
      BY <1>12, <2>1 DEF NextCase, TypeOK, Logs
    <2>3. UNCHANGED <<lifecycle, live, cases, verdict, report>> /\ pc' = 1
      BY <1>12 DEF NextCase
    <2> QED BY <2>1, <2>2, <2>3 DEF TypeOK, Plan, Keys, lifecycle, built, Logs
  <1>13. ASSUME EndOfPlan PROVE TypeOK'
    <2>1. /\ phase' \in Phases /\ at' \in 0 .. Len(Drivers) + 1
          /\ verdict' \in {"none", "pass", "fail"}
      BY <1>13 DEF EndOfPlan, Aborts, Phases, Drivers, TypeOK
    <2> QED BY <1>1, <1>13, <2>1 DEF EndOfPlan, TypeOK, campaign, built, Logs
  <1>14. ASSUME WriteReport PROVE TypeOK'
    <2>1. /\ phase' \in Phases /\ at' \in 0 .. Len(Drivers) + 1
          /\ verdict' \in {"none", "pass", "fail"}
      BY <1>14 DEF WriteReport, Phases, Drivers, TypeOK
    <2>2. report' = <<>> \/ DOMAIN report' \subseteq Keys
      BY <1>14 DEF WriteReport, TypeOK
    <2>3. log' \in Logs(handles)
      BY <1>14 DEF WriteReport, TypeOK, Logs
    <2> QED BY <1>1, <1>14, <2>1, <2>2, <2>3 DEF WriteReport, TypeOK, campaign, built
  <1> QED BY <1>2, <1>3, <1>4, <1>5, <1>6, <1>7, <1>8, <1>9, <1>10, <1>11, <1>12, <1>13, <1>14,
             CallsEnd DEF Next

-----------------------------------------------------------------------------
(* What is open.                                                             *)

LEMMA BuiltStep ==
  ASSUME Inv, Next
  PROVE  Built'
  <1> USE DEF Inv
  <1>1. ASSUME OpenBench PROVE Built'
    <2>1. UNCHANGED <<suite, handles>> /\ opened' = opened + 1 /\ at' = 1
      BY <1>1 DEF OpenBench, campaign
    <2>2. \A h \in handles : h.bench \in 1 .. opened
      BY DEF TypeOK
    <2>3. CASE Refused(suite.configs[opened'])
      BY <1>1, <2>1, <2>3 DEF OpenBench, Built, Config, TypeOK
    <2>4. CASE ~Refused(suite.configs[opened'])
      BY <1>1, <2>1, <2>2, <2>4 DEF OpenBench, Built, Config, TypeOK
    <2> QED BY <2>3, <2>4
  <1>2. ASSUME Connect PROVE Built'
    <2>1. at \in 1 .. Len(Drivers) /\ Drivers[at] \in ToSet(Drivers) /\ controller > 0
      BY <1>2 DEF Connect, TypeOK, Built, Progress, Ended, Drivers, ToSet
    <2>2. \A h \in handles' : h.bench =< controller
      BY <1>2, <2>1, HoldsType DEF Connect, Built, Handle, TypeOK
    <2>3. log'.raised = log.raised
      BY <1>2 DEF Connect, TypeOK
    <2> QED BY <1>2, <2>1, <2>2, <2>3 DEF Connect, Built, built, campaign, Config
  <1>3. ASSUME UNCHANGED <<suite, controller>>, handles' \subseteq handles,
               phase' # "connect", phase # "start", log.raised => log'.raised
        PROVE  Built'
    BY <1>3 DEF Built, Config
  <1>4. ASSUME Connected \/ Unwind \/ Unwound \/ Disconnect \/ Disconnected
        PROVE  Built'
    <2>1. ASSUME NEW d, NEW stuck \in KeptByAClose(d), Close(d, stuck)
          PROVE  handles' \subseteq handles /\ log'.raised = log.raised
      BY <2>1 DEF Close, KeptByAClose, Managers, Held, TypeOK
    <2>2. ASSUME Unwind \/ Disconnect
          PROVE  handles' \subseteq handles /\ log'.raised = log.raised
      BY <2>1, <2>2 DEF Unwind, Disconnect
    <2> QED BY <1>3, <1>4, <2>2 DEF Connected, Unwind, Unwound, Disconnect, Disconnected,
                                    campaign, built, TypeOK
  <1>5. ASSUME Returns \/ Fails \/ PublishStep \/ NextCase \/ EndOfPlan \/ WriteReport
        PROVE  Built'
    BY <1>3, <1>5 DEF Returns, Proceeds, Fails, Raises, Aborts, PublishStep, InCase, Publish,
                      NextCase, EndOfPlan, WriteReport, lifecycle, campaign, built, TypeOK
  <1> QED BY <1>1, <1>2, <1>4, <1>5, CallsEnd DEF Next

LEMMA OpenStep ==
  ASSUME Inv, Next
  PROVE  Open'
  <1> USE DEF Inv
  <1>1. \A h \in handles :
          h.bench \in 1 .. opened /\ h.bench =< controller /\ h.driver \in ToSet(Drivers)
    BY DEF TypeOK, Built
  <1>2. /\ \A d \in ToSet(Drivers) : \E j \in 1 .. Len(Drivers) : d = Drivers[j]
        /\ \A j \in 1 .. Len(Drivers) : Drivers[j] \in ToSet(Drivers)
        /\ \A i, j \in 1 .. Len(Drivers) : Drivers[i] = Drivers[j] => i = j
        /\ Len(Drivers) = 4
    BY DEF ToSet, Drivers
  <1>3. /\ controller \in 0 .. opened /\ opened \in 0 .. Len(suite.configs)
        /\ at \in 0 .. Len(Drivers) + 1
    BY DEF TypeOK
  <1>4. ASSUME OpenBench PROVE Open'
    <2>1. UNCHANGED <<suite, handles>> /\ opened' = opened + 1 /\ at' = 1
      BY <1>4 DEF OpenBench, campaign
    <2>2. log'.stuck = {}
      BY <1>4 DEF OpenBench, Open, Stuck, Progress, Ended, TypeOK
    <2>3. CASE Refused(suite.configs[opened']) /\ Caller = "script"
      BY <1>4, <2>1, <2>2, <2>3 DEF OpenBench, Open, Stuck, NoDriverIsStranded
    <2>4. CASE Refused(suite.configs[opened']) /\ Caller = "robot"
      BY <1>4, <2>1, <2>2, <2>4 DEF OpenBench, Open, Stuck, NoDriverIsStranded, Caller
    <2>5. CASE ~Refused(suite.configs[opened'])
      <3>1. Mine' = {} /\ phase' = "connect"
        BY <1>1, <1>3, <1>4, <2>1, <2>5 DEF OpenBench, Mine
      <3> QED BY <2>2, <3>1 DEF Open, Stuck, NoDriverIsStranded
    <2> QED BY <2>3, <2>4, <2>5, PlanRows
  <1>5. ASSUME Connect PROVE Open'
    <2>1. at \in 1 .. Len(Drivers) /\ Drivers[at] \in ToSet(Drivers) /\ controller > 0
      BY <1>5, <1>2, <1>3 DEF Connect, Built, Progress, Ended
    <2>2. UNCHANGED <<built, suite, verdict>> /\ log'.stuck = log.stuck /\ log.stuck = {}
      BY <1>5 DEF Connect, campaign, TypeOK, Open, Stuck, Progress, Ended
    <2>3. CASE handles' = handles \cup Holds(Drivers[at]) /\ at' = at + 1 /\ phase' = phase
      <3>1. \A h \in Holds(Drivers[at]) : h.driver = Drivers[at]
        BY <2>1, HoldsType DEF Handle
      <3> QED BY <1>3, <1>5, <2>1, <2>2, <2>3, <3>1
              DEF Connect, Open, Stuck, Mine, NoDriverIsStranded, built
    <2>4. CASE /\ \E kept \in KeptByAFailedOpen(Drivers[at]) : handles' = handles \cup kept
               /\ log' = [log EXCEPT !.unopened = Drivers[at]]
               /\ at' = at - 1 /\ phase' = "unwind"
      <3>1. \A h \in Mine' : h \in Mine \/ \E w \in {"manager", "instrument"} :
                                              h = Handle(controller, Drivers[at], w)
        BY <2>1, <2>2, <2>4, HoldsType DEF Mine, built
      <3>2. \A h \in Mine : ~Passed(h)'
        BY <1>3, <1>5, <2>4 DEF Connect, Open, Passed
      <3>3. log'.unopened = Drivers[at]
        BY <2>4 DEF TypeOK
      <3> QED BY <2>2, <2>4, <3>1, <3>2, <3>3 DEF Open, Stuck, NoDriverIsStranded, Handle
    <2> QED BY <1>5, <2>3, <2>4 DEF Connect
  <1>6. ASSUME Connected PROVE Open'
    BY <1>6 DEF Connected, Open, Stuck, NoDriverIsStranded
  <1>14. ASSUME NEW d, NEW stuck \in KeptByAClose(d), Close(d, stuck),
                UNCHANGED built
         PROVE  /\ \A h \in (Mine \ log.stuck)' : h \in Mine \ log.stuck /\ h.driver # d
                /\ \A h \in log'.stuck : h \in log.stuck \/ (h \in stuck /\ h.what = "manager")
                /\ log'.unopened = log.unopened
    <2>1. /\ log'.stuck = (log.stuck \ Held(d)) \cup stuck
          /\ log'.unopened = log.unopened
          /\ handles' = (handles \ Held(d)) \cup stuck
      BY <1>14 DEF Close, TypeOK
    <2> QED BY <1>14, <2>1 DEF KeptByAClose, Managers, Held, Mine, built
  <1>7. ASSUME Unwind PROVE Open'
    <2>2. /\ \A h \in (Mine \ log.stuck)' : h \in Mine \ log.stuck /\ h.driver # Drivers[at]
          /\ \A h \in log'.stuck : h \in log.stuck \/ h.what = "manager"
          /\ log'.unopened = log.unopened
      BY <1>7, <1>14 DEF Unwind
    <2>3. \A h \in (Mine \ log.stuck)' : Passed(h)' => Passed(h)
      BY <1>3, <1>7, <2>2 DEF Unwind, Passed
    <2> QED BY <1>7, <2>2, <2>3 DEF Unwind, Open, Stuck, NoDriverIsStranded
  <1>8. ASSUME Unwound PROVE Open'
    <2>1. /\ log'.stuck = log.stuck /\ log'.unopened = log.unopened /\ verdict' = "fail"
          /\ UNCHANGED <<built, suite, handles>>
      BY <1>8 DEF Unwound, TypeOK, campaign
    <2>2. CASE Caller = "robot"
      BY <1>8, <2>1, <2>2 DEF Unwound, Open, Stuck, NoDriverIsStranded, Caller
    <2>3. CASE Caller = "script"
      <3>1. \A h \in handles : h.bench < controller \/ (h \in Mine /\ Passed(h))
        BY <1>1, <1>3, <1>8 DEF Unwound, Mine, Passed
      <3>2. phase' = "over" /\ Caller' = "script"
        BY <1>8, <2>1, <2>3 DEF Unwound, Caller
      <3> QED BY <1>8, <2>1, <3>1, <3>2 DEF Unwound, Open, Stuck, NoDriverIsStranded, built
    <2> QED BY <2>2, <2>3, PlanRows
  <1>9. ASSUME Disconnect PROVE Open'
    <2>2. PICK stuck \in KeptByAClose(Drivers[at]) :
            /\ Close(Drivers[at], stuck)
            /\ (stuck = {} /\ verdict' = verdict) \/ verdict' = "fail"
      BY <1>9 DEF Disconnect
    <2>3. /\ \A h \in (Mine \ log.stuck)' : h \in Mine \ log.stuck /\ h.driver # Drivers[at]
          /\ \A h \in log'.stuck : h \in log.stuck \/ (h \in stuck /\ h.what = "manager")
      BY <1>9, <1>14, <2>2 DEF Disconnect
    <2>4. \A h \in (Mine \ log.stuck)' : \E j \in at' .. Len(Drivers) : h.driver = Drivers[j]
      BY <1>2, <1>3, <1>9, <2>3 DEF Disconnect, Open
    <2> QED BY <1>9, <2>2, <2>3, <2>4 DEF Disconnect, Open, Stuck, NoDriverIsStranded
  <1>10. ASSUME Disconnected PROVE Open'
    <2>1. Mine \ log.stuck = {}
      BY <1>1, <1>2, <1>3, <1>10 DEF Disconnected, Open, Mine
    <2>2. \A h \in handles : h.bench < controller \/ h \in Mine
      BY <1>1, <1>3 DEF Mine
    <2>3. \A h \in handles : h.bench < controller
                             \/ (h \in log.stuck /\ h.what = "manager" /\ verdict = "fail")
      BY <1>10, <2>1, <2>2 DEF Disconnected, Open, Stuck
    <2>4. UNCHANGED <<built, suite, handles, verdict, log>>
      BY <1>10 DEF Disconnected, campaign
    <2>5. phase' = "report" /\ Caller = "script" => Mine = {}
      BY <1>10, <2>1 DEF Disconnected, Open, Stuck
    <2>6. /\ Mine' = Mine /\ Caller' = Caller /\ phase' \in {"report", "over"}
          /\ NoDriverIsStranded' /\ Stuck'
      BY <1>10, <2>3, <2>4 DEF Disconnected, Open, Stuck, NoDriverIsStranded, Mine, built, Caller
    <2> QED BY <2>5, <2>6 DEF Open
  <1>11. ASSUME Returns \/ PublishStep \/ NextCase PROVE Open'
    <2>1. UNCHANGED <<lifecycle, verdict>> /\ phase = "cases" /\ log'.stuck = log.stuck
      BY <1>11 DEF Returns, Proceeds, PublishStep, InCase, Publish, NextCase, lifecycle, TypeOK
    <2> QED BY <2>1 DEF lifecycle, Open, Stuck, NoDriverIsStranded
  <1>12. ASSUME Fails \/ EndOfPlan PROVE Open'
    <2>1. /\ UNCHANGED <<suite, controller, handles>> /\ at' = 1 /\ log'.stuck = log.stuck
          /\ phase' = IF Caller = "robot" THEN "report" ELSE "disconnect"
      BY <1>12 DEF Fails, Raises, EndOfPlan, Aborts, built, campaign, TypeOK
    <2>2. log.stuck = {}
      BY <1>12 DEF Fails, EndOfPlan, Open, Stuck, Progress, Ended
    <2> QED BY <1>1, <1>2, <2>1, <2>2 DEF Open, Stuck, NoDriverIsStranded, Mine, Caller
  <1>13. ASSUME WriteReport PROVE Open'
    <2>1. /\ UNCHANGED <<suite, controller, handles>> /\ at' = 1 /\ phase = "report"
          /\ phase' = IF Caller = "robot" THEN "disconnect" ELSE "over"
          /\ log'.stuck = log.stuck
      BY <1>13 DEF WriteReport, built, campaign, TypeOK
    <2>2. CASE Caller = "robot"
      <3>1. verdict' = verdict \/ verdict' = "fail"
        BY <1>13, <2>2 DEF WriteReport
      <3> QED BY <1>1, <1>2, <2>1, <2>2, <3>1 DEF Open, Stuck, NoDriverIsStranded, Mine
    <2>3. CASE Caller = "script"
      <3>1. \A h \in handles : h.bench < controller
        BY <1>1, <1>3, <2>1, <2>3 DEF Open, Mine
      <3>2. log.stuck = {}
        BY <2>1, <2>3 DEF Open, Stuck, Progress
      <3> QED BY <2>1, <2>3, <3>1, <3>2 DEF Open, Stuck, NoDriverIsStranded, Mine
    <2> QED BY <2>2, <2>3, PlanRows
  <1> QED BY <1>4, <1>5, <1>6, <1>7, <1>8, <1>9, <1>10, <1>11, <1>12, <1>13, CallsEnd DEF Next

-----------------------------------------------------------------------------
(* What is through, and what it says.                                        *)

LEMMA ProgressStep ==
  ASSUME Inv, Next
  PROVE  Progress'
  <1> USE DEF Inv
  <1>1. row \in 1 .. Len(Plan) + 1 /\ Len(Plan) \in Nat /\ Caller \in {"robot", "script"}
    BY PlanRows DEF TypeOK
  <1>2. ASSUME OpenBench PROVE Progress'
    <2>1. /\ UNCHANGED <<suite, row, pc, cases>> /\ row = 1 /\ pc = 1 /\ ~Ended
          /\ log'.finished = log.finished /\ log'.failed = log.failed
          /\ \/ phase' = "connect" /\ UNCHANGED <<verdict, log>>
             \/ phase' = "over" /\ verdict' = "fail"
             \/ phase' = "report" /\ Caller # "script" /\ verdict' = "fail"
      BY <1>2 DEF OpenBench, campaign, Ended, Progress, TypeOK
    <2> QED BY <2>1 DEF Progress, Ended, Plan, Caller, AllPassed
  <1>3. ASSUME Connect \/ Connected PROVE Progress'
    <2>1. /\ UNCHANGED <<suite, row, pc, cases, verdict>> /\ phase = "connect"
          /\ phase' \in {"connect", "unwind", "cases"}
          /\ log'.finished = log.finished /\ log'.failed = log.failed /\ log'.raised = log.raised
      BY <1>3, LogKept DEF Connect, Connected, campaign
    <2> QED BY <2>1 DEF Progress, Ended, Caller, Plan, AllPassed
  <1>4. ASSUME Unwind \/ Unwound PROVE Progress'
    <2>1. /\ UNCHANGED <<suite, row, pc, cases>> /\ phase = "unwind"
          /\ log'.finished = log.finished /\ log'.failed = log.failed
      BY <1>4, LogKept DEF Unwind, Unwound, campaign, TypeOK
    <2>2. \/ phase' = "unwind" /\ verdict' = verdict /\ log'.raised = log.raised
          \/ phase' = "over" /\ verdict' = "fail"
          \/ phase' = "report" /\ Caller # "script" /\ verdict' = "fail"
      BY <1>4, LogKept DEF Unwind, Unwound
    <2> QED BY <2>1, <2>2 DEF Progress, Ended, Plan, Caller, AllPassed
  <1>5. ASSUME Disconnect \/ Disconnected PROVE Progress'
    <2>1. /\ UNCHANGED <<suite, row, pc, cases>> /\ phase = "disconnect"
          /\ log'.finished = log.finished /\ log'.failed = log.failed /\ log'.raised = log.raised
          /\ phase' \in {"disconnect", "over", "report"} /\ verdict' \in {verdict, "fail"}
          /\ phase' = "report" => verdict' = "none"
      BY <1>5, LogKept DEF Disconnect, Disconnected, campaign
    <2> QED BY <1>1, <2>1, Zenon DEF Progress, Ended, Plan, AllPassed
  <1>6. ASSUME Returns PROVE Progress'
    BY <1>6 DEF Returns, Proceeds, Progress, lifecycle, Ended, Caller, Plan, AllPassed
  <1>7. ASSUME Fails PROVE Progress'
    <2>1. phase' \in {"report", "disconnect"} /\ (phase' = "report" => Caller # "script")
      BY <1>7 DEF Fails, Raises, Aborts
    <2> QED BY <1>7, <2>1 DEF Fails, Raises, Progress, campaign, Ended, Caller, Plan, AllPassed,
                              TypeOK
  <1>8. ASSUME PublishStep PROVE Progress'
    <2>1. PICK outcome \in {"PASS", "FAIL"} : Publish(outcome) /\ phase = "cases"
      BY <1>8 DEF PublishStep, InCase
    <2>2. UNCHANGED <<suite, phase, row, verdict>> /\ pc' = pc + 1
      BY <2>1 DEF Publish, lifecycle
    <2>3. /\ log'.finished = log.finished /\ log'.raised = log.raised
          /\ log'.failed \subseteq log.failed \cup (IF outcome = "FAIL" THEN {Key} ELSE {})
      BY <2>1 DEF Publish, TypeOK
    <2>4. /\ DOMAIN cases' = DOMAIN cases \cup {Key}
          /\ \A k \in DOMAIN cases : cases[k] \subseteq cases'[k]
          /\ outcome \in cases'[Key]
      BY <2>1 DEF Publish
    <2>5. \A k \in log'.failed : k \in DOMAIN cases' /\ "FAIL" \in cases'[k]
      BY <2>3, <2>4 DEF Progress
    <2>6. phase = "cases" /\ verdict = "none" /\ ~log.raised
      BY <2>1 DEF Progress, Ended
    <2> QED BY <2>2, <2>3, <2>5, <2>6 DEF Progress, Ended, Caller, Plan
  <1>9. ASSUME NextCase PROVE Progress'
    <2>1. /\ log'.finished = log.finished \cup {row} /\ log'.failed = log.failed
          /\ log'.raised = log.raised
      BY <1>9 DEF NextCase, TypeOK
    <2>2. log'.finished = 1 .. row' - 1
      BY <1>1, <1>9, <2>1 DEF NextCase, Progress
    <2> QED BY <1>9, <2>1, <2>2 DEF NextCase, Progress, lifecycle, Ended
  <1>10. ASSUME EndOfPlan PROVE Progress'
    <2>1. /\ UNCHANGED <<suite, row, pc, cases, log>> /\ verdict = "none"
          /\ ~log.raised /\ row > Len(Plan)
          /\ phase' = IF Caller = "robot" THEN "report" ELSE "disconnect"
          /\ verdict' = IF Caller = "robot" THEN (IF AllPassed THEN "pass" ELSE "fail") ELSE "none"
      BY <1>10 DEF EndOfPlan, Aborts, campaign, Progress, Ended
    <2> QED BY <1>1, <2>1 DEF Progress, Ended, Caller, Plan, AllPassed
  <1>11. ASSUME WriteReport PROVE Progress'
    <2>1. /\ UNCHANGED <<suite, row, pc, cases>>
          /\ phase = "report" /\ phase' \in {"disconnect", "over"}
          /\ log'.finished = log.finished /\ log'.failed = log.failed
      BY <1>11 DEF WriteReport, campaign, TypeOK
    <2>2. /\ verdict' = "pass" => AllPassed /\ ~log'.raised
          /\ log'.raised => verdict' = "fail"
          /\ verdict' # "fail" => verdict # "fail"
      BY <1>1, <1>11, <2>1 DEF WriteReport, Progress, TypeOK
    <2> QED BY <2>1, <2>2 DEF Progress, Ended, Plan, AllPassed
  <1> QED BY <1>2, <1>3, <1>4, <1>5, <1>6, <1>7, <1>8, <1>9, <1>10, <1>11, CallsEnd DEF Next

LEMMA EvidenceStep ==
  ASSUME Inv, Next
  PROVE  Evidence'
  <1> USE DEF Inv
  <1>1. row \in 1 .. Len(Plan) + 1 /\ Len(Plan) \in Nat /\ pc \in Nat \ {0}
        /\ Caller \in {"robot", "script"}
    BY PlanRows DEF TypeOK
  <1>2. ASSUME UNCHANGED <<suite, row, pc, cases>>,
               phase' \notin {"disconnect", "over"} \/ verdict' # "pass"
                 \/ (phase \in {"disconnect", "over"} /\ verdict = "pass" /\ UNCHANGED report)
        PROVE  Evidence'
    BY <1>2 DEF Evidence, Plan, Key, Script, Keys
  <1>3. ASSUME OpenBench \/ Connect \/ Connected \/ Unwind \/ Unwound PROVE Evidence'
    BY <1>2, <1>3 DEF OpenBench, Connect, Connected, Unwind, Unwound, campaign, Progress, Ended
  <1>4. ASSUME Disconnect \/ Disconnected PROVE Evidence'
    BY <1>2, <1>4 DEF Disconnect, Disconnected, campaign
  <1>5. ASSUME Fails \/ EndOfPlan PROVE Evidence'
    <2>1. UNCHANGED <<suite, row, pc, cases>> /\ (phase' = "report" \/ verdict' # "pass")
      BY <1>5 DEF Fails, Raises, EndOfPlan, Aborts, campaign, Progress, Ended
    <2> QED BY <1>2, <2>1
  <1>6. ASSUME WriteReport PROVE Evidence'
    <2>1. CASE verdict' # "pass"
      BY <1>2, <1>6, <2>1 DEF WriteReport, campaign
    <2>2. CASE verdict' = "pass"
      <3>1. /\ UNCHANGED <<suite, row, pc, cases>> /\ phase = "report" /\ AllPassed
            /\ row = Len(Plan) + 1
            /\ report' = [k \in DOMAIN cases |-> CaseOutcome(cases[k])]
        BY <1>1, <1>6, <2>2 DEF WriteReport, campaign, Progress, Ended
      <3>2. DOMAIN cases = Keys
        <4>1. \A i \in 1 .. Len(Plan) : Plan[i] \in DOMAIN cases
          BY <1>1, <3>1 DEF Evidence
        <4>2. DOMAIN cases \subseteq Keys
          BY DEF TypeOK
        <4>3. \A k \in Keys : k \in DOMAIN cases
          BY <4>1, PlanRows
        <4> QED BY <4>2, <4>3
      <3>3. \A k \in Keys : report'[k] = "PASS"
        BY <3>1, <3>2 DEF AllPassed, CaseOutcome
      <3> QED BY <3>1, <3>2, <3>3 DEF Evidence, Plan, Key, Script, Keys
    <2> QED BY <2>1, <2>2
  <1>7. ASSUME Returns PROVE Evidence'
    <2>1. /\ UNCHANGED <<suite, phase, row, cases, report>> /\ pc' = pc + 1 /\ phase = "cases"
          /\ pc =< Len(Script) /\ row =< Len(Plan) /\ Script[pc].do # "note"
      BY <1>7 DEF Returns, Proceeds, lifecycle, Calls
    <2> QED BY <1>1, <2>1, InScript DEF Evidence, Plan, Key, Script, Keys
  <1>8. ASSUME PublishStep PROVE Evidence'
    <2>1. PICK outcome \in {"PASS", "FAIL"} : Publish(outcome)
      BY <1>8 DEF PublishStep
    <2>2. /\ UNCHANGED <<suite, phase, row>> /\ pc' = pc + 1 /\ phase = "cases"
          /\ pc =< Len(Script) /\ row =< Len(Plan) /\ DOMAIN cases' = DOMAIN cases \cup {Key}
      BY <1>8, <2>1 DEF PublishStep, InCase, Publish, lifecycle
    <2> QED BY <1>1, <2>2, InScript DEF Evidence, Plan, Key, Script, Keys
  <1>9. ASSUME NextCase PROVE Evidence'
    <2>1. /\ UNCHANGED <<suite, phase, cases>> /\ phase = "cases" /\ row =< Len(Plan)
          /\ row' = row + 1 /\ pc' = 1 /\ pc > Len(Script)
      BY <1>9 DEF NextCase, lifecycle
    <2>2. \E j \in 1 .. Len(Script) : Script[j].do = "note"
      <3>1. \E x \in ToSet(Script) : x.do = "note"
        BY <2>1, InScript DEF Procedure
      <3> QED BY <2>1, <3>1, InScript DEF ToSet
    <2>3. Plan[row] \in DOMAIN cases
      BY <1>1, <2>1, <2>2, InScript DEF Evidence, Key
    <2>4. \A i \in 1 .. row' - 1 : Plan[i] \in DOMAIN cases
      BY <1>1, <2>1, <2>3 DEF Evidence
    <2>5. row' =< Len(Plan) => Len(Runners[Plan[row'].kind]) \in Nat
      BY <1>1, <2>1, PlanRows, ScriptsAreProcedures DEF Kinds, Procedure
    <2> QED BY <2>1, <2>4, <2>5 DEF Evidence, Plan, Key, Script, Keys
  <1> QED BY <1>3, <1>4, <1>5, <1>6, <1>7, <1>8, <1>9, CallsEnd DEF Next

-----------------------------------------------------------------------------
(* What is switched on, and what was measured.                               *)

LEMMA StimulusStep ==
  ASSUME Inv, Next
  PROVE  Stimulus'
  <1> USE DEF Inv
  <1>1. /\ row \in 1 .. Len(Plan) + 1 /\ Len(Plan) \in Nat /\ pc \in Nat \ {0}
        /\ live \subseteq Outputs
    BY PlanRows DEF TypeOK
  <1>2. pc = 1 => SwitchedOn = {}
    BY DEF SwitchedOn
  <1>3. ASSUME row =< Len(Plan), pc > Len(Script), phase = "cases", ~log.raised
        PROVE  live = {}
    <2>1. pc - 1 = Len(Script) /\ Len(Script) \in Nat
      BY <1>1, <1>3, InScript DEF Evidence
    <2>2. \A c \in Outputs : Quiet(Script, c)
      BY <1>3, InScript DEF Procedure
    <2>3. SwitchedOn = {}
      BY <2>1, <2>2 DEF SwitchedOn, Quiet
    <2> QED BY <1>3, <2>3 DEF Stimulus
  <1>4. ASSUME OpenBench PROVE Stimulus'
    <2>1. live' = live /\ phase' # "cases" /\ pc = 1 /\ (log'.raised \/ log' = log)
      BY <1>4 DEF OpenBench, Progress, TypeOK
    <2> QED BY <1>2, <2>1 DEF Stimulus
  <1>5. ASSUME Connect PROVE Stimulus'
    BY <1>5, LogKept DEF Connect, Stimulus
  <1>6. ASSUME Connected PROVE Stimulus'
    <2>1. /\ UNCHANGED <<suite, row, pc, live, log>> /\ pc = 1 /\ phase # "cases"
      BY <1>6 DEF Connected, campaign, Progress
    <2>2. SwitchedOn' = {}
      BY <2>1 DEF SwitchedOn
    <2> QED BY <2>1, <2>2 DEF Stimulus
  <1>7. ASSUME Unwind \/ Unwound PROVE Stimulus'
    BY <1>7, LogKept DEF Unwind, Unwound, Stimulus, TypeOK
  <1>8. ASSUME Disconnect \/ Disconnected PROVE Stimulus'
    BY <1>8, LogKept DEF Disconnect, Disconnected, Stimulus
  <1>9. ASSUME Fails PROVE Stimulus'
    BY <1>9 DEF Fails, Raises, Stimulus, TypeOK
  <1>10. ASSUME Returns \/ PublishStep PROVE Stimulus'
    <2>1. /\ UNCHANGED <<suite, phase, row>> /\ pc' = pc + 1 /\ log'.raised = log.raised
          /\ phase = "cases" /\ row =< Len(Plan) /\ pc =< Len(Script)
      BY <1>10 DEF Returns, Proceeds, PublishStep, InCase, Publish, lifecycle, TypeOK
    <2>2. \A c \in Outputs :
            c \in SwitchedOn' <=>
              \/ Script[pc].do = "on" /\ Script[pc].output = c
              \/ c \in SwitchedOn /\ ~Silences(Script[pc], c)
      <3> SUFFICES ASSUME NEW c \in Outputs
                   PROVE  c \in SwitchedOn' <=>
                            \/ Script[pc].do = "on" /\ Script[pc].output = c
                            \/ c \in SwitchedOn /\ ~Silences(Script[pc], c)
        OBVIOUS
      <3>1. Script' = Script /\ pc' - 1 = pc
        BY <1>1, <2>1 DEF Script, Plan
      <3>2. ASSUME c \in SwitchedOn'
            PROVE  \/ Script[pc].do = "on" /\ Script[pc].output = c
                   \/ c \in SwitchedOn /\ ~Silences(Script[pc], c)
        <4>1. PICK i \in 1 .. pc : /\ Script[i].do = "on" /\ Script[i].output = c
                                   /\ \A j \in i + 1 .. pc : ~Silences(Script[j], c)
          BY <3>1, <3>2 DEF SwitchedOn
        <4> QED BY <1>1, <4>1 DEF SwitchedOn
      <3>3. ASSUME Script[pc].do = "on", Script[pc].output = c
            PROVE  c \in SwitchedOn'
        BY <1>1, <3>1, <3>3 DEF SwitchedOn
      <3>4. ASSUME c \in SwitchedOn, ~Silences(Script[pc], c)
            PROVE  c \in SwitchedOn'
        <4>1. PICK i \in 1 .. pc - 1 : /\ Script[i].do = "on" /\ Script[i].output = c
                                       /\ \A j \in i + 1 .. pc - 1 : ~Silences(Script[j], c)
          BY <3>4 DEF SwitchedOn
        <4> QED BY <1>1, <3>1, <3>4, <4>1 DEF SwitchedOn
      <3> QED BY <3>2, <3>3, <3>4
    <2>3. SwitchedOn \subseteq Outputs /\ SwitchedOn' \subseteq Outputs
      BY DEF SwitchedOn
    <2>4. Script[pc].output \in Outputs /\ Script[pc].do \in Calls \cup {"note", "judge"}
      BY <1>1, <2>1, InScript DEF Steps
    <2>5. ASSUME live = SwitchedOn PROVE live' = SwitchedOn'
      <3>1. CASE Returns
        BY <2>2, <2>3, <2>4, <2>5, <3>1 DEF Returns, Silences, Calls
      <3>2. CASE PublishStep
        BY <2>2, <2>3, <2>5, <3>2 DEF PublishStep, InCase, Publish, Silences
      <3> QED BY <1>10, <3>1, <3>2
    <2>6. row' =< Len(Plan') /\ phase' = "cases"
      BY <2>1 DEF Plan
    <2> QED BY <2>1, <2>5, <2>6 DEF Stimulus
  <1>11. ASSUME NextCase PROVE Stimulus'
    <2>1. /\ live' = live /\ log'.raised = log.raised /\ pc' = 1
          /\ phase = "cases" /\ row =< Len(Plan) /\ pc > Len(Script)
      BY <1>11 DEF NextCase, TypeOK
    <2>2. SwitchedOn' = {}
      BY <2>1 DEF SwitchedOn
    <2> QED BY <1>3, <2>1, <2>2 DEF Stimulus
  <1>12. ASSUME EndOfPlan PROVE Stimulus'
    <2>1. UNCHANGED <<live, log>> /\ phase' # "cases" /\ row > Len(Plan)
      BY <1>12 DEF EndOfPlan, Aborts
    <2> QED BY <1>1, <2>1 DEF Stimulus
  <1>13. ASSUME WriteReport PROVE Stimulus'
    <2>1. /\ live' = live /\ phase # "cases" /\ phase' # "cases" /\ (log' = log \/ log'.raised)
      BY <1>13 DEF WriteReport, TypeOK
    <2> QED BY <2>1 DEF Stimulus
  <1> QED BY <1>4, <1>5, <1>6, <1>7, <1>8, <1>9, <1>10, <1>11, <1>12, <1>13, CallsEnd DEF Next

LEMMA MeasuredStep ==
  ASSUME Inv, Next
  PROVE  Measured'
  <1> USE DEF Inv
  <1>1. row \in 1 .. Len(Plan) + 1 /\ Len(Plan) \in Nat /\ pc \in Nat \ {0}
    BY PlanRows DEF TypeOK
  <1>2. ASSUME UNCHANGED <<suite, controller>>, log.failed \subseteq log'.failed,
               NEW k, NEW x, Answered(k, x)
        PROVE  Answered(k, x)'
    BY <1>2 DEF Answered, Fits, DriverOf, HasChannel, n_channels, Transport, Dead, BenchOf,
                TransportOf, Config
  <1>3. ASSUME UNCHANGED <<suite, controller, row, pc>>, log'.failed = log.failed
        PROVE  Measured'
    BY <1>2, <1>3 DEF Measured, Plan, Key, Script
  <1>4. ASSUME OpenBench PROVE Measured'
    <2>1. row' = 1 /\ pc' = 1
      BY <1>4 DEF OpenBench, Progress, campaign
    <2> QED BY <2>1 DEF Measured
  <1>5. ASSUME Connect \/ Connected \/ Unwind \/ Disconnect \/ Disconnected \/ EndOfPlan
        PROVE  Measured'
    BY <1>3, <1>5, LogKept DEF Connect, Connected, Unwind, Disconnect, Disconnected, EndOfPlan,
                               campaign, built
  <1>6. ASSUME Unwound \/ Fails \/ WriteReport PROVE Measured'
    BY <1>3, <1>6 DEF Unwound, Fails, Raises, WriteReport, campaign, built, TypeOK
  <1>7. ASSUME Returns \/ PublishStep PROVE Measured'
    <2>1. /\ UNCHANGED <<suite, controller, row>> /\ pc' = pc + 1
          /\ log.failed \subseteq log'.failed
          /\ row =< Len(Plan) /\ pc =< Len(Script)
      BY <1>7 DEF Returns, Proceeds, PublishStep, InCase, Publish, lifecycle, built, TypeOK
    <2>2. Plan' = Plan /\ Key' = Key /\ Script' = Script
      BY <2>1 DEF Plan, Key, Script
    <2>3. PICK k, x : k = Key /\ x = Script[pc]
      OBVIOUS
    <2>4. Answered(k, x)'
      <3>1. CASE Returns
        <4>1. Answered(k, x)
          BY <2>3, <3>1 DEF Returns, CanAnswer, Answered, Calls
        <4> QED BY <1>2, <2>1, <4>1
      <3>2. CASE PublishStep
        <4>1. CASE x.do = "note"
          BY <4>1 DEF Answered, Calls
        <4>2. CASE x.do = "judge"
          <5>1. PICK outcome \in {"PASS", "FAIL"} :
                  /\ outcome = "PASS" => \A d \in x.uses : ~Dead(d)
                  /\ Publish(outcome)
            BY <2>3, <3>2, <4>2 DEF PublishStep, InCase
          <5>2. outcome = "FAIL" => k \in log'.failed
            BY <2>3, <5>1 DEF Publish, TypeOK
          <5>3. (\A d \in x.uses : ~Dead(d)) => (\A d \in x.uses : ~Dead(d))'
            BY <2>1 DEF Dead, BenchOf, TransportOf, DriverOf, Config
          <5> QED BY <4>2, <5>1, <5>2, <5>3 DEF Answered, Calls
        <4> QED BY <2>3, <3>2, <4>1, <4>2 DEF PublishStep, InCase
      <3> QED BY <1>7, <3>1, <3>2
    <2>5. \A j \in 1 .. pc' - 1 : Answered(Key, Script[j])'
      <3> SUFFICES ASSUME NEW j \in 1 .. pc' - 1 PROVE Answered(k, Script[j])'
        BY <2>2, <2>3
      <3>1. CASE j = pc
        BY <2>2, <2>3, <2>4, <3>1
      <3>2. CASE j < pc
        <4>1. Answered(k, Script[j])
          BY <1>1, <2>1, <2>3, <3>2 DEF Measured
        <4>2. PICK y : y = Script[j]
          OBVIOUS
        <4> QED BY <1>2, <2>1, <2>2, <4>1, <4>2
      <3> QED BY <1>1, <2>1, <3>1, <3>2
    <2>6. \A i \in 1 .. row - 1 : \A j \in 1 .. Len(Runners[Plan[i].kind]) :
            Answered(Plan[i], Runners[Plan[i].kind][j])'
      BY <1>2, <2>1, <2>2 DEF Measured
    <2> QED BY <2>1, <2>2, <2>5, <2>6 DEF Measured
  <1>8. ASSUME NextCase PROVE Measured'
    <2>1. /\ UNCHANGED <<suite, controller>> /\ row' = row + 1 /\ pc' = 1 /\ row =< Len(Plan)
          /\ pc > Len(Script) /\ log'.failed = log.failed
      BY <1>8 DEF NextCase, lifecycle, built, TypeOK
    <2>2. \A i \in 1 .. row : \A j \in 1 .. Len(Runners[Plan[i].kind]) :
            Answered(Plan[i], Runners[Plan[i].kind][j])
      <3>1. \A j \in 1 .. Len(Script) : Answered(Key, Script[j])
        BY <1>1, <2>1, InScript DEF Measured
      <3> QED BY <1>1, <3>1 DEF Measured, Key, Script
    <2>3. Plan' = Plan
      BY <2>1 DEF Plan
    <2>4. \A i \in 1 .. row' - 1 : \A j \in 1 .. Len(Runners[Plan[i].kind]) :
            Answered(Plan[i], Runners[Plan[i].kind][j])'
      BY <1>1, <1>2, <2>1, <2>2, <2>3
    <2> QED BY <2>1, <2>3, <2>4 DEF Measured
  <1> QED BY <1>4, <1>5, <1>6, <1>7, <1>8, CallsEnd DEF Next

-----------------------------------------------------------------------------
(* The theorems.                                                             *)
LEMMA InvInit == Init => Inv
  <1> SUFFICES ASSUME Init PROVE Inv
    OBVIOUS
  <1>1. TypeOK
    BY TypeInit
  <1>2. Progress /\ Evidence /\ Stimulus /\ Measured /\ Built
    <2>1. Len(Plan) \in Nat
      BY <1>1, PlanRows
    <2>2. row =< Len(Plan) => Len(Script) \in Nat
      BY <1>1, InScript
    <2> QED BY <2>1, <2>2 DEF Init, Progress, Ended, AllPassed, Evidence, Stimulus, Measured, Built
  <1>3. Open
    BY DEF Init, Open, Stuck, NoDriverIsStranded
  <1> QED BY <1>1, <1>2, <1>3 DEF Inv

LEMMA InvStep == Inv /\ [Next]_vars => Inv'
  <1>1. Inv /\ Next => Inv'
    BY TypeStep, ProgressStep, EvidenceStep, StimulusStep, MeasuredStep, BuiltStep, OpenStep DEF Inv
  <1>2. ASSUME Inv, UNCHANGED vars PROVE Inv'
    <2> USE <1>2 DEF Inv, vars
    <2>1. TypeOK'
      BY DEF TypeOK, Plan, Keys
    <2>2. Progress'
      BY DEF Progress, Ended, AllPassed, Plan, Caller
    <2>3. Evidence'
      BY DEF Evidence, Plan, Keys, Key, Script
    <2>4. Stimulus'
      BY DEF Stimulus, SwitchedOn, Plan, Script
    <2>5. Measured'
      <3>1. ASSUME NEW k, NEW x, Answered(k, x) PROVE Answered(k, x)'
        BY <3>1 DEF Answered, Fits, DriverOf, HasChannel, n_channels, Transport, Dead, BenchOf,
                    TransportOf, Config
      <3> QED BY <3>1 DEF Measured, Plan, Key, Script
    <2>6. Built'
      BY DEF Built, Config
    <2>7. Open'
      BY DEF Open, Stuck, Mine, Passed, NoDriverIsStranded, Caller
    <2> QED BY <2>1, <2>2, <2>3, <2>4, <2>5, <2>6, <2>7
  <1> QED BY <1>1, <1>2

LEMMA Invariance == Spec => []Inv
  BY InvInit, InvStep, PTL DEF Spec

\* The state stays within its types, with any call raising at any time: the
\* recorder holds no row without a step, and no row of no plan.
THEOREM CampaignTypeCorrect == Spec => []TypeOK
  <1>1. Inv => TypeOK
    BY DEF Inv
  <1> QED BY <1>1, Invariance, PTL

\* All Cases Passed, and the exit code of run_all.py, are never green for a
\* plan of which a row did not run, a step failed or a call raised - wherever
\* the exception was caught, gathered or passed on.
THEOREM GreenVerdictsAreEarned == Spec => []GreenIsEarned
  <1>1. Inv => GreenIsEarned
    <2> SUFFICES ASSUME Inv, verdict = "pass"
                 PROVE  log.finished = DOMAIN Plan /\ log.failed = {} /\ ~log.raised
      BY DEF GreenIsEarned
    <2> USE DEF Inv
    <2>1. row = Len(Plan) + 1 /\ Len(Plan) \in Nat /\ DOMAIN Plan = 1 .. Len(Plan)
      BY PlanRows DEF TypeOK, Progress
    <2>2. AllPassed
      BY DEF Progress
    <2>3. log.failed = {}
      BY <2>2 DEF Progress, AllPassed, CaseOutcome
    <2> QED BY <2>1, <2>3 DEF Progress
  <1> QED BY <1>1, Invariance, PTL

\* A green verdict of any plan on any rack that is not refused: every driver
\* used has the interface and the channels it is used by, and stood on a
\* bench that a stimulus reached.  Each procedure judges, somewhere, every
\* instrument it uses by something a dead bench fails.
THEOREM GreenVerdictsAreMeasured == Spec => []GreenIsMeasured
  <1>1. Inv => GreenIsMeasured
    <2> SUFFICES ASSUME Inv, verdict = "pass", NEW k \in Keys, NEW i \in DOMAIN Runners[k.kind],
                        NEW d \in Runners[k.kind][i].uses
                 PROVE  Fits(Config, d) /\ HasChannel(d, Runners[k.kind][i].output) /\ ~Dead(d)
      BY DEF GreenIsMeasured
    <2> USE DEF Inv
    <2> DEFINE s == Runners[k.kind]
    <2>1. PICK n \in 1 .. Len(Plan) : k = Plan[n]
      BY PlanRows
    <2>2. Procedure(s)
      BY <2>1, PlanRows, ScriptsAreProcedures DEF Kinds
    <2>3. DOMAIN s = 1 .. Len(s) /\ s[i] \in Steps
      BY <2>2 DEF Procedure
    <2>4. \A x \in ToSet(s) : Answered(k, x)
      <3>1. n \in 1 .. row - 1
        BY <2>1, PlanRows DEF TypeOK, Progress
      <3> QED BY <2>1, <2>3, <3>1 DEF Measured, ToSet
    <2>5. s[i] \in ToSet(s)
      BY <2>3 DEF ToSet
    <2>6. PICK x \in ToSet(s) : x.do \in Calls /\ d \in x.uses
      BY <2>2, <2>5 DEF Procedure, Called
    <2>7. Fits(Config, d) /\ HasChannel(d, x.output)
      BY <2>4, <2>6 DEF Answered
    <2>8. HasChannel(d, s[i].output)
      <3>1. CASE s[i].do \in Calls
        BY <2>4, <2>5, <3>1 DEF Answered
      <3>2. CASE s[i].do \notin Calls
        <4>1. s[i].output = "voltage"
          BY <2>3, <3>2 DEF Steps
        <4>2. Transport(d) = "simulated" => n_channels(Config) >= 1
          <5>1. n_channels(Config) \in Nat
            <6>1. controller \in 1 .. Len(suite.configs)
              BY DEF TypeOK, Progress, Built, Ended
            <6> QED BY <6>1, PlanRows DEF n_channels, Config
          <5> QED BY <2>7, <5>1 DEF HasChannel
        <4> QED BY <4>1, <4>2 DEF HasChannel
      <3> QED BY <3>1, <3>2
    <2>9. ~Dead(d)
      <3>1. CASE d = "signal_generator"
        BY <3>1 DEF Dead
      <3>2. CASE d # "signal_generator"
        <4>1. PICK y \in ToSet(s) : y.do \in {"judge", "probe"} /\ d \in y.uses
          BY <2>2, <2>5, <3>2 DEF Procedure, Shown
        <4>2. log.failed = {}
          BY DEF Progress, AllPassed, CaseOutcome
        <4> QED BY <2>4, <4>1, <4>2 DEF Answered
      <3> QED BY <3>1, <3>2
    <2> QED BY <2>7, <2>8, <2>9
  <1> QED BY <1>1, Invariance, PTL

\* When a suite is over and green, its report has a row for every case of the
\* plan, and every row says PASS.
THEOREM ReportsAgree == Spec => []ReportAgreesWithVerdict
  <1>1. Inv => ReportAgreesWithVerdict
    BY DEF Inv, Evidence, ReportAgreesWithVerdict
  <1> QED BY <1>1, Invariance, PTL

\* connect_all that fails, at whichever driver, with whichever closes raising,
\* has closed all that had connected: what is left of its bench is what the
\* driver that did not open kept, or a manager whose close raised.
THEOREM FailedConnectsUnwind == Spec => []UnwindsCleanly
  <1>1. Inv => UnwindsCleanly
    BY DEF Inv, Open, Mine, Passed, UnwindsCleanly
  <1> QED BY <1>1, Invariance, PTL

\* disconnect_all, whatever its disconnects raise, strands no driver: what is
\* still open belongs to a bench that was replaced, or failed the verdict by
\* its own close, or never let a script in.
THEOREM NothingElseStaysOpen == Spec => []NoDriverIsStranded
  <1>1. Inv => NoDriverIsStranded
    BY DEF Inv, Open
  <1> QED BY <1>1, Invariance, PTL

\* No case that ran to its end leaves an output on for the next one.
THEOREM CasesAreSwitchedOff == Spec => []CasesSwitchOff
  <1>1. Inv => CasesSwitchOff
    BY DEF Inv, TypeOK, Stimulus, SwitchedOn, CasesSwitchOff
  <1> QED BY <1>1, Invariance, PTL
=============================================================================
