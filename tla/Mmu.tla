-------------------------------- MODULE Mmu ---------------------------------
(***************************************************************************)
(* The partition allocator of src/kernel/mmu.c at the granularity of its   *)
(* accesses to FREE_PARTITIONS.  No lock protects the bitmap:              *)
(*   - the console thread allocates (createProcess), scanning the bitmap   *)
(*     one entry at a time and then clearing a run of it;                  *)
(*   - the CPU thread frees (cpuThreadWorker, when a process ends), setting*)
(*     one entry at a time,                                                *)
(* and the two interleave at every entry.  mmuInit runs before the CPU     *)
(* thread exists (main.c calls initOS, then osStart); the restart command, *)
(* which runs it again, is in the module Kernel.                           *)
(***************************************************************************)
EXTENDS Partitions

VARIABLES
  FREE_PARTITIONS,  \* the bitmap, TRUE = free
  held,             \* runs handed out and not yet given back: <<start, count>>
  alloc,            \* the console thread inside allocateMemory
  freeing,          \* the CPU thread inside freeMemory: blocks startBlock..end-1
  atCall            \* history: the bitmap when allocateMemory was entered

vars == <<FREE_PARTITIONS, held, alloc, freeing, atCall>>

Idle == [pc |-> "idle", required |-> 0, i |-> 0, count |-> 0, result |-> -1]
NotFreeing == [next |-> 0, end |-> 0]

(* What a client may hold: a run allocateMemory returned. *)
Runs == {r \in Blocks \X (1 .. MAX_PROCESSES) : r[1] + r[2] <= MAX_PROCESSES}

(* The blocks on their way between the bitmap and a holder. *)
BeingMarked == IF alloc.pc = "mark" THEN Run(alloc.result, alloc.required) ELSE {}
Marked == IF alloc.pc = "mark" THEN alloc.result .. alloc.i - 1 ELSE {}
BeingFreed == freeing.next .. freeing.end - 1

-----------------------------------------------------------------------------
(* mmuInit: every partition is free. *)
Init ==
  /\ FREE_PARTITIONS = [b \in Blocks |-> TRUE]
  /\ held = {}
  /\ alloc = Idle
  /\ freeing = NotFreeing
  /\ atCall = FREE_PARTITIONS

(* allocateMemory is entered.  A request outside 1..MAX_PROCESSES (a      *)
(* program with no words or too large for the RAM asks for 0 blocks)      *)
(* is refused at once.                                                    *)
AllocateCall(n) ==
  /\ alloc.pc \in {"idle", "returned"}
  /\ alloc' = [Idle EXCEPT !.pc = IF n <= 0 \/ n > MAX_PROCESSES THEN "returned" ELSE "scan",
                           !.required = n]
  /\ atCall' = FREE_PARTITIONS
  /\ UNCHANGED <<FREE_PARTITIONS, held, freeing>>

(* Mutant: an occupied partition does not reset the count. *)
ContiguousCountKept(count, isFree) == IF isFree THEN count + 1 ELSE count

ContiguousCount(count, isFree) == IF isFree THEN count + 1 ELSE 0

(* Mutant: one more partition than requested has to be free. *)
FoundOneMore(count) == count > alloc.required

Found(count) == count = alloc.required

(* Mutant: off by one. *)
StartIndexBelow(i, n) == i - n

StartIndex(i, n) == i - n + 1

(* One iteration of the scan. *)
AllocateScan ==
  /\ alloc.pc = "scan"
  /\ alloc.i < MAX_PROCESSES
  /\ LET count == ContiguousCount(alloc.count, FREE_PARTITIONS[alloc.i])
         start == StartIndex(alloc.i, alloc.required)
     IN  \/ /\ FREE_PARTITIONS[alloc.i] /\ Found(count)
            /\ alloc' = [alloc EXCEPT !.pc = "mark", !.count = count,
                                      !.i = start, !.result = start]
         \/ /\ ~(FREE_PARTITIONS[alloc.i] /\ Found(count))
            /\ alloc' = [alloc EXCEPT !.count = count, !.i = @ + 1]
  /\ UNCHANGED <<FREE_PARTITIONS, held, freeing, atCall>>

(* Mutant: the scan runs one entry too far before it gives up. *)
ScannedAllAndOne == alloc.i > MAX_PROCESSES

ScannedAll == alloc.i = MAX_PROCESSES

(* The scan reached the end of the bitmap: -1. *)
AllocateFail ==
  /\ alloc.pc = "scan"
  /\ ScannedAll
  /\ alloc' = [alloc EXCEPT !.pc = "returned"]
  /\ UNCHANGED <<FREE_PARTITIONS, held, freeing, atCall>>

(* One iteration of the loop that marks the run occupied; the last one is *)
(* followed by the return of startIndex.                                  *)
AllocateMark ==
  /\ alloc.pc = "mark"
  /\ FREE_PARTITIONS' = [FREE_PARTITIONS EXCEPT ![alloc.i] = FALSE]
  /\ IF alloc.i + 1 = alloc.result + alloc.required
       THEN /\ alloc' = [alloc EXCEPT !.pc = "returned", !.i = @ + 1]
            /\ held' = held \union {<<alloc.result, alloc.required>>}
       ELSE /\ alloc' = [alloc EXCEPT !.i = @ + 1]
            /\ UNCHANGED held
  /\ UNCHANGED <<freeing, atCall>>

(* Mutants: the freeing loop stops one entry early, or one entry late. *)
FreeEndEarly(r) == r[1] + r[2] - 1
FreeEndLate(r) == r[1] + r[2] + 1

FreeEnd(r) == r[1] + r[2]

(* freeMemory is entered for a run some process owned.  Its range check   *)
(* passes for every run allocateMemory returned (TypeOK).                 *)
FreeCall(r) ==
  /\ BeingFreed = {}
  /\ r \in held
  /\ freeing' = [next |-> r[1], end |-> FreeEnd(r)]
  /\ held' = held \ {r}
  /\ UNCHANGED <<FREE_PARTITIONS, alloc, atCall>>

(* One iteration of the loop that marks the run free. *)
FreeBlock ==
  /\ freeing.next < freeing.end
  /\ FREE_PARTITIONS' = [FREE_PARTITIONS EXCEPT ![freeing.next] = TRUE]
  /\ freeing' = [freeing EXCEPT !.next = @ + 1]
  /\ UNCHANGED <<held, alloc, atCall>>

Next ==
  \/ \E n \in 0 .. MAX_PROCESSES + 1 : AllocateCall(n)
  \/ AllocateScan
  \/ AllocateFail
  \/ AllocateMark
  \/ \E r \in held : FreeCall(r)
  \/ FreeBlock

Spec == Init /\ [][Next]_vars

(* The console thread finishes a call it has started, and so does the CPU *)
(* thread; neither has to make another one.                               *)
Fairness ==
  /\ WF_vars(AllocateScan \/ AllocateFail \/ AllocateMark)
  /\ WF_vars(FreeBlock)

FairSpec == Spec /\ Fairness

-----------------------------------------------------------------------------
TypeOK ==
  /\ FREE_PARTITIONS \in [Blocks -> BOOLEAN]
  /\ held \in SUBSET Runs
  /\ alloc \in [pc : {"idle", "scan", "mark", "returned"},
                required : 0 .. MAX_PROCESSES + 1,
                i : 0 .. MAX_PROCESSES,
                count : 0 .. MAX_PROCESSES,
                result : Blocks \union {-1}]
  /\ freeing \in [next : 0 .. MAX_PROCESSES, end : 0 .. MAX_PROCESSES]
  /\ freeing.next <= freeing.end
  /\ atCall \in [Blocks -> BOOLEAN]

(* No block belongs to two holders: the runs that are held, the run being *)
(* handed out and the run being given back are pairwise disjoint, however *)
(* the scan, the marking and the freeing interleave (allocateMemory,      *)
(* freeMemory: the bitmap has no lock).                                   *)
NoSharedBlock ==
  /\ \A r, s \in held : r # s => Run(r[1], r[2]) \cap Run(s[1], s[2]) = {}
  /\ \A r \in held : Run(r[1], r[2]) \cap (BeingMarked \union BeingFreed) = {}
  /\ BeingMarked \cap BeingFreed = {}

(* No block leaks: a block the bitmap calls occupied is in a run that is  *)
(* held, being handed out or being given back, and one that it calls free *)
(* is in none of them.                                                    *)
BitmapExact ==
  \A b \in Blocks :
    ~FREE_PARTITIONS[b] <=> \/ \E r \in held : b \in Run(r[1], r[2])
                            \/ b \in Marked
                            \/ b \in BeingFreed

(* allocateMemory is first fit with respect to the moment it was called:  *)
(* when it returns -1 no run of the requested length was free at that     *)
(* moment, and when it returns a start none was free below it.  Frees     *)
(* that overtake the scan may still make room below.                      *)
FirstFitAtCall ==
  alloc.pc \in {"mark", "returned"} /\ alloc.required \in 1 .. MAX_PROCESSES =>
    \A s \in FreeRuns(atCall, alloc.required) : alloc.result # -1 /\ alloc.result <= s

(* calculateRequiredBlocks agrees with its meaning on every word count up   *)
(* to more than the whole RAM.                                              *)
RequiredBlocksCorrect ==
  \A wordCount \in -1 .. RAM_SIZE + 1 : RequiredBlocksMinimal(wordCount)

(* The allocator implements the pool of PartitionPool.  An allocation takes *)
(* effect when it marks its last block: until then the blocks it has        *)
(* already marked still count as free, which nobody can tell, since only    *)
(* one thread allocates.                                                    *)
Pool == INSTANCE PartitionPool
  WITH free <- {b \in Blocks : FREE_PARTITIONS[b]} \union Marked,
       holders <- held,
       returning <- BeingFreed

ImplementsPool == Pool!Spec

(* A call of allocateMemory returns, and a run given back becomes free,     *)
(* whatever the other thread does to the bitmap meanwhile.                  *)
CallsReturn ==
  /\ alloc.pc = "scan" ~> alloc.pc = "returned"
  /\ BeingFreed # {} ~> BeingFreed = {}
=============================================================================
