-------------------------------- MODULE Wallets --------------------------------
(***************************************************************************)
(* wallets.freeze over the request loop: every call of Transport is one    *)
(* freeze of the same wallet, not frozen at first, and every execution of  *)
(* a call toggles the wallet's flag.                                       *)
(***************************************************************************)
EXTENDS Transport, FiniteSetsExt

Odd(n) == n % 2 = 1

frozen == Odd(MapThenSumSet(LAMBDA c : executed[c], Calls))

(* "Toggle the frozen flag": once all calls have returned a wallet, the    *)
(* flag has been toggled once by each.                                     *)
FreezeToggles ==
  (\A c \in Calls : outcome[c] = "ok") => (frozen <=> Odd(Cardinality(Calls)))
=============================================================================
