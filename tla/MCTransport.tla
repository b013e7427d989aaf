----------------------------- MODULE MCTransport -----------------------------
(* Transport for TLC.                                                      *)
EXTENDS Transport, TLC

MCRetryBudgets == {-1, 0, 1}
MCOneRetry     == {1}
MCTwoSkews     == {0, 9}
MCFarSkew      == {9}
Interchangeable == Permutations(Calls)

(* All but executed, which no step and no property of transport_clock      *)
(* reads.                                                                  *)
Clockwork ==
  <<retries, clockOffset, pc, attempt, corrected, outcome, sent, wire, adrift, seen, clockVars>>
=============================================================================
