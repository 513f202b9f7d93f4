------------------------------ MODULE MCKernel ------------------------------
(***************************************************************************)
(* Kernel with the real partition size (85 words), stack (50 words) and    *)
(* quantum (2), on a small number of partitions and processes.             *)
(***************************************************************************)
EXTENDS Kernel

MCRamSize == 300 + 85 * MAX_PROCESSES

(* One partition, two partitions, and more than there are.                 *)
MCWordCounts == {10, 60, 85 * MAX_PROCESSES}

(* Refused, no sleep, and long enough to miss a turn.                      *)
MCSleepTimes == {-1, 0, 2}

(* Refused, and one tic.                                                   *)
MCShortSleeps == {-1, 1}

(* Programs that leave the interrupts alone.  LOAD with a mode digit above *)
(* 2 raises both faults.                                                   *)
MCInstructions ==
  {Plain({}), Plain(Faults), Plain({"IC_OVERFLOW"}), Svc(1), Svc(2), Svc(4), Svc(5), WildFetch}

(* Programs that branch, print and sleep.                                  *)
MCServiceInstructions == {Plain({}), Svc(2), Svc(4)}

(* Programs that run, sleep and end.                                       *)
MCShortInstructions == {Plain({}), Svc(1), Svc(4)}
=============================================================================
