---------------------------- MODULE MCAutomation -----------------------------
(***************************************************************************)
(* A small instance of Automation for TLC: a daily schedule that skips     *)
(* what it missed.                                                         *)
(***************************************************************************)
EXTENDS Automation, TLC

CONSTANT daily

Windows == [d \in Definitions |-> {1, 2}]
=============================================================================
