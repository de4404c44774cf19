--------------------------- MODULE MCConnectedWork ---------------------------
(* Small instances of ConnectedWork: one change, by mail or in the calendar. *)
EXTENDS ConnectedWork, TLC

CONSTANT change
=============================================================================
