-------------------------------- MODULE MCPoll --------------------------------
(* Poll for TLC: arguments that divide each other, that do not, and that   *)
(* fall back to the defaults.                                              *)
EXTENDS Poll

MCIntervals == {-1, 1, 3}
MCTimeouts  == {0, 1, 4, 6}
=============================================================================
