------------------------------- MODULE MCDma --------------------------------
(***************************************************************************)
(* Dma on a disk of two tracks of one cylinder of one sector, and a RAM    *)
(* of four words: the kernel's, the partition being loaded, and those of   *)
(* two processes.                                                          *)
(***************************************************************************)
EXTENDS Dma

MCBase == [p \in Processes |-> IF p = "p" THEN 2 ELSE 3]
MCOperands == {-1, 0, 1, 2}
MCLoaderSectors == {<<1, 0, 0>>}
=============================================================================
