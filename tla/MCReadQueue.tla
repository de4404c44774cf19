----------------------------- MODULE MCReadQueue -----------------------------
(***************************************************************************)
(* A small instance of ReadQueue for TLC: two reads that the user asked    *)
(* for, which are alike, and one of an automation run.                     *)
(***************************************************************************)
EXTENDS ReadQueue, TLC

CONSTANTS c1, c2, a1

Alike == Permutations({c1, c2})
=============================================================================
