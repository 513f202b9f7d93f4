----------------------------- MODULE MCMonitor ------------------------------
(***************************************************************************)
(* Monitor with a history of three lines, and messages enough to fill it   *)
(* and to shift it.                                                        *)
(***************************************************************************)
EXTENDS Monitor

MCCommands == {"monitor", "ps", "shutdown"}
=============================================================================
