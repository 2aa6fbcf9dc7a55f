--------------------------- MODULE MCScpiSession ----------------------------
(* Values for the constants of ScpiSession: a payload of two bytes, the      *)
(* first of which looks like a terminator.                                   *)
EXTENDS ScpiSession

MCPayload == <<"nl", "byte">>
=============================================================================
