----------------------------- MODULE MCDebugger -----------------------------
(***************************************************************************)
(* Debugger with the geometry of MCKernel: programs of one partition, and  *)
(* programs that mask interrupts, stop the timer, fail, sleep, or wait for *)
(* the monitor.                                                            *)
(***************************************************************************)
EXTENDS Debugger

MCRamSize == 300 + 85 * MAX_PROCESSES

MCMaskingInstructions ==
  {Plain({}), Plain({"IC_INVALID_ADDR"}), Svc(3), Svc(4), Hab, Dhab, Tti(0)}
=============================================================================
