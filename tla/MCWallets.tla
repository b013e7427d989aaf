------------------------------- MODULE MCWallets -------------------------------
(* Wallets for TLC: a client with one retry.                               *)
EXTENDS Wallets

MCOneRetry == {1}
MCSkews    == {0, 9}
=============================================================================
