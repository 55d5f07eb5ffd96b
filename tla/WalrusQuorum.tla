---------------------------- MODULE WalrusQuorum ----------------------------
(***************************************************************************)
(* The thresholds of the Walrus client, as functions of the number n of    *)
(* shards: packages/walrus/src/utils/index.ts.                             *)
(***************************************************************************)
EXTENDS Integers, FiniteSets

MaxFaulty(n) == (n - 1) \div 3

IsQuorum(size, n) == size > 2 * MaxFaulty(n)

IsAtValidity(size, n) == size >= MaxFaulty(n)

IsAboveValidity(size, n) == size > MaxFaulty(n)

(* primarySymbols for the encoding type RS2, whose safety limit is 0.      *)
MinSymbols(n) == (n - MaxFaulty(n)) - MaxFaulty(n)
=============================================================================
