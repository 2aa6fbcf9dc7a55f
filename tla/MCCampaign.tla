----------------------------- MODULE MCCampaign -----------------------------
(* The plans and the racks of config/: in process, raw sockets and PyVISA,   *)
(* the last two with the UDP device; and configurations edited by hand.      *)
EXTENDS Campaign

Rows(kinds, names) ==
  [i \in DOMAIN kinds |-> [kind |-> kinds[i], name |-> names[i]]]

\* A Robot suite runs one plan; the script runs three, one after the other.
MCLinePlan == Rows(<<"line_detection", "line_detection">>, <<"dc_1", "dc_2">>)
MCScriptPlans == Rows(<<"overcurrent", "overcurrent", "harmonic", "analog_output">>,
                      <<"slow", "fast", "dc", "ch1">>)
MCAllPlans == Rows(<<"line_detection">>, <<"dc">>) \o MCScriptPlans

Block(driver, keys) == [driver |-> driver, keys |-> keys]
Host == [address |-> "var_default", port |-> "number", timeout_s |-> "number"]

Config0(generator, meter, scope, dut) ==
  [found |-> TRUE, top |-> {"bench", "instruments", "simulation"}, named |-> TRUE,
   simulation |-> "known", channels |-> 2,
   instruments |-> [signal_generator |-> generator, multimeter |-> meter,
                    oscilloscope |-> scope, dut |-> dut]]

Udp == Block("udp_dut", Host)
SimGenerator == Block("sim_signal_generator", [channels |-> "number"])
SimMeter == Block("sim_multimeter", <<>>)
SimScope == Block("sim_oscilloscope", [sample_rate_hz |-> "number"])
SimDut   == Block("sim_dut", <<>>)

Simulated == Config0(SimGenerator, SimMeter, SimScope, SimDut)
Socket == Config0(Block("lan_signal_generator", Host), Block("lan_multimeter", Host),
                  Block("lan_oscilloscope", Host), Udp)
Resource == [resource |-> "var_default", visa_backend |-> "text", timeout_s |-> "number"]
Visa == Config0(Block("visa_signal_generator", Resource), Block("visa_multimeter", Resource),
                Block("visa_oscilloscope", Resource), Udp)

With(config, role, block) == [config EXCEPT !.instruments[role] = block]

\* Racks of two benches, a driver in a foreign role, one channel: all are built.
Mixed == {With(Simulated, "multimeter", Block("lan_multimeter", Host)),
          With(Simulated, "oscilloscope", Block("lan_oscilloscope", Host)),
          With(Socket, "dut", SimDut),
          With(Simulated, "multimeter", SimScope),
          With(Simulated, "oscilloscope", SimMeter),
          [Simulated EXCEPT !.channels = 1]}

\* One configuration for every way of being refused.
RefusedConfigs ==
  {[Simulated EXCEPT !.found = FALSE], [Simulated EXCEPT !.top = {"bench"}],
   [Simulated EXCEPT !.named = FALSE], [Simulated EXCEPT !.simulation = "not_numbers"],
   With(Simulated, "signal_generator", Block("sim_signal_generator", [channels |-> "var_number"])),
   With(Socket, "dut", Block("tcp_dut", Host)),
   With(Socket, "dut", Block("udp_dut", [port |-> "number"])),
   With(Socket, "multimeter", Block("lan_multimeter", [address |-> "var_unset"])),
   With(Socket, "multimeter", Block("lan_multimeter", [address |-> "text", port |-> "var_empty"])),
   With(Socket, "multimeter", Block("lan_multimeter", [address |-> "text", channels |-> "number"]))}

ASSUME ReadyAndRefused ==
  /\ \A c \in {Simulated, Socket, Visa} \cup Mixed : ~Refused(c)
  /\ \A c \in RefusedConfigs : Refused(c)

Suite(caller, configs, plan, leftOn) ==
  [caller |-> caller, configs |-> configs, plan |-> plan, leftOn |-> leftOn]

MCSuites  ==
  {Suite("robot", <<Socket, Visa>>, MCLinePlan, FALSE),
   Suite("robot", <<Visa, Socket>>, MCLinePlan, TRUE),
   Suite("robot", <<Simulated>>, MCAllPlans, FALSE), Suite("script", <<Socket>>, MCScriptPlans, FALSE),
   Suite("script", <<Visa>>, MCScriptPlans, FALSE),
   Suite("robot", <<Socket>>, <<>>, FALSE)}
  \cup {Suite("robot", <<c, Socket>>, MCLinePlan, FALSE) : c \in RefusedConfigs}
  \cup {Suite("robot", <<Socket, c>>, MCLinePlan, FALSE) : c \in RefusedConfigs}
  \cup {Suite("script", <<c>>, MCScriptPlans, leftOn) : c \in Mixed, leftOn \in BOOLEAN}
  \cup {Suite("robot", <<c>>, MCLinePlan, FALSE) : c \in Mixed}
MCScripts == {Suite("script", <<Visa>>, MCScriptPlans, FALSE)}
=============================================================================
