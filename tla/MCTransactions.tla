---------------------------- MODULE MCTransactions ----------------------------
(* Transactions for TLC: one program that approves and then swaps, and one *)
(* that makes a single call from the same address.                         *)
EXTENDS Transactions

CONSTANTS swap, transfer

MCCalls == [t \in Tasks |-> IF t = swap THEN 2 ELSE 1]
=============================================================================
