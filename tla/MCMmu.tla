------------------------------- MODULE MCMmu --------------------------------
(***************************************************************************)
(* Mmu on a RAM of a few partitions with the real partition size (85       *)
(* words) and stack (50 words): only the number of partitions, 20 in       *)
(* inc/definitions.h, is reduced.                                          *)
(***************************************************************************)
EXTENDS Mmu

MCRamSize == 300 + 85 * MAX_PROCESSES
=============================================================================
