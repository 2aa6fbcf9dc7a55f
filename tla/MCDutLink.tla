------------------------------ MODULE MCDutLink -----------------------------
(* Values for the constants of DutWire: the requests that read the device    *)
(* and that correct it.  Channel 9 does not exist; a factor of 0 is out of   *)
(* range.                                                                    *)
EXTENDS DutWire

Relays       == [msg |-> "REQ_RELAYS", arg |-> 0]
Analog(c)    == [msg |-> "REQ_ANALOG", arg |-> c]
Correct(f)   == [msg |-> "REQ_SET_CORRECTION", arg |-> f]

MCRequests == {Analog(1), Analog(9), Correct(2), Correct(3)}
MCReads    == {Relays, Analog(1), Analog(2)}
MCMixed    == {Relays, Analog(1), Analog(9), Correct(2), Correct(0)}

MCIdentity == [fw_major |-> 2, fw_minor |-> 4, serial |-> 100247, name |-> <<83, 73, 77>>]
=============================================================================
