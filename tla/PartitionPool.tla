--------------------------- MODULE PartitionPool ----------------------------
(***************************************************************************)
(* What the partition allocator promises to the kernel: a pool of blocks   *)
(* from which a run is taken in one step, all of it free, and to which the *)
(* blocks of a run come back one at a time.  Which of the free runs is     *)
(* taken is left open (the scan of mmu.c is first fit only with respect to *)
(* the moment it started: see FirstFitAtCall in Mmu).                      *)
(***************************************************************************)
EXTENDS Partitions

VARIABLES free,      \* blocks nobody holds
          holders,   \* runs handed out: <<start, count>>
          returning  \* blocks of the run being given back, not yet free

pvars == <<free, holders, returning>>

Init ==
  /\ free = Blocks
  /\ holders = {}
  /\ returning = {}

Take(r) ==
  /\ Run(r[1], r[2]) \subseteq free
  /\ free' = free \ Run(r[1], r[2])
  /\ holders' = holders \union {r}
  /\ UNCHANGED returning

GiveBack(r) ==
  /\ returning = {}
  /\ r \in holders
  /\ holders' = holders \ {r}
  /\ returning' = Run(r[1], r[2])
  /\ UNCHANGED free

Return(b) ==
  /\ b \in returning
  /\ returning' = returning \ {b}
  /\ free' = free \union {b}
  /\ UNCHANGED holders

Next ==
  \/ \E r \in Blocks \X (1 .. MAX_PROCESSES) : Take(r)
  \/ \E r \in holders : GiveBack(r)
  \/ \E b \in returning : Return(b)

Spec == Init /\ [][Next]_pvars
=============================================================================
