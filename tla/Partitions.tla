----------------------------- MODULE Partitions -----------------------------
(***************************************************************************)
(* The geometry of the user RAM: the part of it the kernel hands out to    *)
(* processes is cut in MAX_PROCESSES partitions ("blocks") of equal size,  *)
(* and a process owns a run of consecutive blocks (inc/kernel/mmu.h,       *)
(* src/kernel/mmu.c).  Everything here is a pure function of the program's *)
(* #defines, which are the CONSTANTS.                                      *)
(***************************************************************************)
EXTENDS Integers, TLAPS

CONSTANTS RAM_SIZE,          \* words of main memory
          OS_RESERVED_SIZE,  \* words below the first partition
          MAX_PROCESSES,     \* PCBs, and also partitions
          MIN_STACK_SIZE     \* words a program gets beyond its own

PARTITION_SIZE == (RAM_SIZE - OS_RESERVED_SIZE) \div MAX_PROCESSES

ASSUME GeometryAssumption ==
  /\ MAX_PROCESSES \in Nat \ {0}
  /\ OS_RESERVED_SIZE \in Nat \ {0}
  /\ MIN_STACK_SIZE \in Nat
  /\ RAM_SIZE \in Nat
  /\ PARTITION_SIZE \in Nat \ {0}
  /\ OS_RESERVED_SIZE + MAX_PROCESSES * PARTITION_SIZE <= RAM_SIZE

Blocks == 0 .. MAX_PROCESSES - 1

(* The blocks start, ..., start + count - 1. *)
Run(start, count) == start .. start + count - 1

(* First-fit candidates: where a run of count free blocks could start. *)
FreeRuns(free, count) ==
  {s \in Blocks : s + count <= MAX_PROCESSES /\ \A b \in Run(s, count) : free[b]}

GET_BASE_REGISTER(start) == OS_RESERVED_SIZE + start * PARTITION_SIZE

(* Mutant: the first word after the run. *)
GET_LIMIT_REGISTER_Past(rb, count) == rb + count * PARTITION_SIZE

GET_LIMIT_REGISTER(rb, count) == rb + count * PARTITION_SIZE - 1

(* Blocks for a program of wordCount words and its stack; 0 when there are *)
(* no words, or more than the whole user RAM could hold.  (No word count   *)
(* of the catalog is anywhere near the top of int: vfsLoadToDisk refuses   *)
(* one that exceeds the disk.)                                             *)
CalculateRequiredBlocks(wordCount) ==
  LET total == wordCount + MIN_STACK_SIZE
  IN  IF total <= MIN_STACK_SIZE \/ total > PARTITION_SIZE * MAX_PROCESSES
        THEN 0
        ELSE (total + PARTITION_SIZE - 1) \div PARTITION_SIZE

(* calculateRequiredBlocks against its meaning: the least number of blocks *)
(* that holds the program and the minimum stack, and 0, which              *)
(* allocateMemory refuses, exactly when the program is empty or no number  *)
(* of blocks holds it.                                                     *)
Fits(wordCount, count) == count * PARTITION_SIZE >= wordCount + MIN_STACK_SIZE

RequiredBlocksMinimal(wordCount) ==
  LET n == CalculateRequiredBlocks(wordCount)
  IN  IF wordCount <= 0 \/ ~Fits(wordCount, MAX_PROCESSES)
        THEN n = 0
        ELSE n \in 1 .. MAX_PROCESSES /\ Fits(wordCount, n) /\ ~Fits(wordCount, n - 1)

-----------------------------------------------------------------------------
(*             Facts about the geometry, for every size of it              *)

(* The rounded up quotient. *)
LEMMA Ceiling ==
  ASSUME NEW t \in Nat \ {0}, NEW p \in Nat \ {0}, NEW n \in Int, n = (t + p - 1) \div p
  PROVE  n \in Nat \ {0} /\ n * p >= t /\ (n - 1) * p < t
<1>1. n * p <= t + p - 1 /\ t + p - 1 < (n + 1) * p
  OBVIOUS
<1>2. (n + 1) * p = n * p + p /\ (n - 1) * p = n * p - p
  OBVIOUS
<1>3. n * p >= t /\ (n - 1) * p < t
  BY <1>1, <1>2
<1>4. n > 0
  BY <1>3
<1> QED
  BY <1>3, <1>4

(* The word count is rounded up, and refused, as RequiredBlocksMinimal says. *)
LEMMA RequiredBlocksMeaning ==
  ASSUME NEW wordCount \in Int
  PROVE  RequiredBlocksMinimal(wordCount)
<1> DEFINE t == wordCount + MIN_STACK_SIZE
           n == CalculateRequiredBlocks(wordCount)
<1>0. /\ MIN_STACK_SIZE \in Nat /\ PARTITION_SIZE \in Nat \ {0} /\ MAX_PROCESSES \in Nat \ {0}
      /\ PARTITION_SIZE * MAX_PROCESSES \in Nat
  BY GeometryAssumption
<1>1. CASE wordCount <= 0 \/ ~Fits(wordCount, MAX_PROCESSES)
  BY <1>0, <1>1 DEF RequiredBlocksMinimal, CalculateRequiredBlocks, Fits
<1>2. CASE wordCount > 0 /\ Fits(wordCount, MAX_PROCESSES)
  <2>1. t \in Nat \ {0} /\ n = (t + PARTITION_SIZE - 1) \div PARTITION_SIZE /\ n \in Int
        /\ t <= MAX_PROCESSES * PARTITION_SIZE
    BY <1>0, <1>2 DEF CalculateRequiredBlocks, Fits
  <2>2. n \in Nat \ {0} /\ n * PARTITION_SIZE >= t /\ (n - 1) * PARTITION_SIZE < t
    <3> HIDE DEF n, t
    <3> QED
      BY <1>0, <2>1, Ceiling
  <2>3. n <= MAX_PROCESSES
    <3> HIDE DEF n, t
    <3>1. SUFFICES ASSUME n - 1 >= MAX_PROCESSES PROVE FALSE
      BY <1>0, <2>2
    <3>2. (n - 1) * PARTITION_SIZE >= MAX_PROCESSES * PARTITION_SIZE
      BY <1>0, <2>2, <3>1
    <3> QED
      BY <1>0, <2>1, <2>2, <3>2
  <2> HIDE DEF n
  <2>4. n \in 1 .. MAX_PROCESSES /\ Fits(wordCount, n) /\ ~Fits(wordCount, n - 1)
    BY <1>0, <1>2, <2>2, <2>3 DEF Fits
  <2> QED
    BY <1>2, <2>4 DEF RequiredBlocksMinimal, n
<1> QED
  BY <1>1, <1>2 DEF Fits

(* No program is given more blocks than there are. *)
LEMMA RequiredBlocksType ==
  ASSUME NEW wordCount \in Int
  PROVE  CalculateRequiredBlocks(wordCount) \in 0 .. MAX_PROCESSES
BY RequiredBlocksMeaning, GeometryAssumption DEF RequiredBlocksMinimal
=============================================================================
