----------------------------- MODULE RackConfig -----------------------------
(* What a bench configuration file becomes: load_config validates its        *)
(* structure, the Layer 3 registry turns each block of `instruments` into a  *)
(* driver, build_context decides whether there is an in-process bench.       *)
(* Either an exception leaves Open Bench before anything is connected, or    *)
(* every role has a driver - of whatever interface the named driver has.     *)
(*                                                                           *)
(* A configuration is [found, top, named, simulation, channels, instruments]:*)
(* the file exists, its top-level keys, bench.name is there, the keys of the *)
(* simulation block ("known", "unknown", "not_numbers"), the number that     *)
(* `channels` stands for, and role -> [driver, keys: key -> value].          *)
(* A value is a "number" or a "text", or a ${VAR}: of a variable that is a   *)
(* number, a text, set to nothing, or not set, with a default or without.    *)
EXTENDS Naturals

Roles == {"signal_generator", "multimeter", "oscilloscope", "dut"}

SimDriver(role, keys) == [transport |-> "simulated", role |-> role, keys |-> keys, required |-> {}]
LanDriver(role) ==
  [transport |-> "lan", role |-> role,
   keys |-> {"address", "port", "timeout_s", "name"}, required |-> {"address"}]
VisaDriver(role) ==
  [transport |-> "visa", role |-> role,
   keys |-> {"resource", "visa_backend", "sim_yaml", "timeout_s", "name"}, required |-> {"resource"}]

REGISTRY ==
  [sim_signal_generator  |-> SimDriver("signal_generator", {"channels", "name"}),
   sim_multimeter        |-> SimDriver("multimeter", {"name"}),
   sim_oscilloscope      |-> SimDriver("oscilloscope", {"sample_rate_hz", "name"}),
   sim_dut               |-> SimDriver("dut", {"name"}),
   lan_signal_generator  |-> LanDriver("signal_generator"),
   lan_multimeter        |-> LanDriver("multimeter"),
   lan_oscilloscope      |-> LanDriver("oscilloscope"),
   visa_signal_generator |-> VisaDriver("signal_generator"),
   visa_multimeter       |-> VisaDriver("multimeter"),
   visa_oscilloscope     |-> VisaDriver("oscilloscope"),
   udp_dut |-> [transport |-> "udp", role |-> "dut", required |-> {"address"},
                keys |-> {"address", "port", "timeout_s", "retries", "name"}]]

\* expand_env: a variable that is set to nothing is set; its default is not taken.
expand_env(value) ==
  CASE value \in {"var_number", "var_default"} -> "number"
    [] value = "var_text" -> "text"
    [] value = "var_empty" -> "empty"
    [] OTHER -> value

\* The keys a builder passes to int() or float(); it uses the others as text.
Numeric == {"port", "timeout_s", "retries", "sample_rate_hz"}

-----------------------------------------------------------------------------
\* load_config raises.
LoadRefuses(config) ==
  \/ ~config.found
  \/ ~({"bench", "instruments"} \subseteq config.top)
  \/ ~(Roles \subseteq DOMAIN config.instruments)
  \/ config.simulation # "known"      \* SimConfig.from_mapping
  \/ ~config.named

needs_simulated_bench(config) ==
  \E role \in Roles : LET driver == config.instruments[role].driver
                      IN driver \in DOMAIN REGISTRY /\ REGISTRY[driver].transport = "simulated"

\* build_context: int() of what the file says, before any ${VAR} is expanded.
ContextRefuses(config) ==
  LET keys == config.instruments["signal_generator"].keys
  IN needs_simulated_bench(config) /\ "channels" \in DOMAIN keys /\ keys["channels"] # "number"

n_channels(config) ==
  IF "channels" \in DOMAIN config.instruments["signal_generator"].keys THEN config.channels ELSE 2

\* _spec raises: a key the driver does not know, or a variable without a value.
SpecRefuses(block) ==
  \/ ~(DOMAIN block.keys \subseteq REGISTRY[block.driver].keys)
  \/ \E key \in DOMAIN block.keys : expand_env(block.keys[key]) = "var_unset"

\* build_driver and the builder it calls raise, for the block of one role.
BlockRefuses(block) ==
  \/ block.driver \notin DOMAIN REGISTRY
  \/ SpecRefuses(block)
  \/ ~(REGISTRY[block.driver].required \subseteq DOMAIN block.keys)
  \/ \E key \in DOMAIN block.keys \cap Numeric : expand_env(block.keys[key]) # "number"

\* No controller comes of the configuration.
Refused(config) ==
  LoadRefuses(config) \/ ContextRefuses(config) \/ \E role \in Roles : BlockRefuses(config.instruments[role])

-----------------------------------------------------------------------------
(* Of a configuration that is not refused.                                   *)
DriverOf(config, role) == REGISTRY[config.instruments[role].driver]

TransportOf(config, role) == DriverOf(config, role).transport

\* The interface the engine calls is the one the driver has: nothing compares
\* the two when the driver is built.
Fits(config, role) == DriverOf(config, role).role = role

\* The in-process drivers share one bench, the others reach what is outside.
BenchOf(config, role) == IF TransportOf(config, role) = "simulated" THEN "process" ELSE "outside"
=============================================================================
