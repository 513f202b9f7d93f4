----------------------------- MODULE MmuProofs ------------------------------
(***************************************************************************)
(* What Mmu guarantees for every number of partitions and every RAM size.  *)
(***************************************************************************)
EXTENDS Mmu

(* What the console thread knows inside allocateMemory: while it scans,    *)
(* the last count entries it looked at are free, too few of them; while it *)
(* marks, the rest of the run is still free.  Only this thread occupies    *)
(* entries, so that the other one cannot falsify it.                       *)
ScanInv ==
  alloc.pc = "scan" =>
    /\ alloc.required \in 1 .. MAX_PROCESSES
    /\ alloc.count <= alloc.i /\ alloc.count < alloc.required
    /\ alloc.result = -1
    /\ \A b \in alloc.i - alloc.count .. alloc.i - 1 : FREE_PARTITIONS[b]

MarkInv ==
  alloc.pc = "mark" =>
    /\ alloc.required \in 1 .. MAX_PROCESSES
    /\ alloc.result \in Blocks
    /\ alloc.result + alloc.required <= MAX_PROCESSES
    /\ alloc.result <= alloc.i /\ alloc.i < alloc.result + alloc.required
    /\ \A b \in alloc.i .. alloc.result + alloc.required - 1 : FREE_PARTITIONS[b]

IInv == TypeOK /\ ScanInv /\ MarkInv /\ NoSharedBlock /\ BitmapExact

(* First fit needs more of the past: what was free at the call is free     *)
(* while the scan goes on, and no run that was free then starts below the  *)
(* entries that are being counted.                                         *)
FitInv ==
  /\ alloc.pc = "scan" =>
       /\ \A b \in Blocks : atCall[b] => FREE_PARTITIONS[b]
       /\ \A s \in FreeRuns(atCall, alloc.required) : alloc.i - alloc.count <= s
  /\ FirstFitAtCall

LEMMA SomePartitions == MAX_PROCESSES \in Nat \ {0}
BY GeometryAssumption

USE SomePartitions DEF Blocks

LEMMA InitIInv == Init => IInv
BY DEF Init, IInv, TypeOK, ScanInv, MarkInv, NoSharedBlock, BitmapExact, Idle, NotFreeing,
       BeingMarked, BeingFreed, Marked, Runs, Run

(* The record alloc is always one of these. *)
AllocStates ==
  [pc : {"idle", "scan", "mark", "returned"},
   required : 0 .. MAX_PROCESSES + 1, i : 0 .. MAX_PROCESSES, count : 0 .. MAX_PROCESSES,
   result : Blocks \union {-1}]

LEMMA StepTypeOK == IInv /\ [Next]_vars => TypeOK'
<1> SUFFICES ASSUME TypeOK, ScanInv, MarkInv, [Next]_vars PROVE TypeOK'
  BY DEF IInv
<1>0. alloc \in AllocStates
  BY DEF TypeOK, AllocStates
<1>1. ASSUME NEW n \in 0 .. MAX_PROCESSES + 1, AllocateCall(n) PROVE TypeOK'
  <2> DEFINE pc == IF n <= 0 \/ n > MAX_PROCESSES THEN "returned" ELSE "scan"
  <2>1. alloc' = [pc |-> pc, required |-> n, i |-> 0, count |-> 0, result |-> -1]
    BY <1>1 DEF AllocateCall, Idle
  <2>2. pc \in {"scan", "returned"}
    OBVIOUS
  <2>3. alloc' \in AllocStates
    BY <2>1, <2>2 DEF AllocStates
  <2> QED
    BY <1>1, <2>3 DEF TypeOK, AllocStates, AllocateCall
<1>2. CASE AllocateScan
  <2> DEFINE count == ContiguousCount(alloc.count, FREE_PARTITIONS[alloc.i])
             start == StartIndex(alloc.i, alloc.required)
  <2>1. alloc.i \in 0 .. MAX_PROCESSES - 1 /\ alloc.required \in 1 .. MAX_PROCESSES
        /\ alloc.count <= alloc.i /\ alloc.count < alloc.required /\ alloc.count \in Nat
    BY <1>0, <1>2 DEF AllocateScan, ScanInv, AllocStates
  <2>2. count \in 0 .. MAX_PROCESSES
    BY <2>1 DEF ContiguousCount
  <2>3. CASE FREE_PARTITIONS[alloc.i] /\ Found(count)
    <3>1. start \in Blocks
      BY <2>1, <2>3 DEF StartIndex, Found, ContiguousCount
    <3>2. alloc' = [pc |-> "mark", required |-> alloc.required, i |-> start, count |-> count,
                    result |-> start]
      BY <1>0, <1>2, <2>3 DEF AllocateScan, AllocStates
    <3> HIDE DEF count, start
    <3>3. alloc' \in AllocStates
      BY <1>0, <2>2, <3>1, <3>2 DEF AllocStates
    <3> QED
      BY <1>2, <3>3 DEF TypeOK, AllocStates, AllocateScan
  <2>4. CASE ~(FREE_PARTITIONS[alloc.i] /\ Found(count))
    <3>1. alloc' = [pc |-> "scan", required |-> alloc.required, i |-> alloc.i + 1,
                    count |-> count, result |-> alloc.result]
      BY <1>0, <1>2, <2>4 DEF AllocateScan, AllocStates
    <3> HIDE DEF count
    <3>2. alloc' \in AllocStates
      BY <1>0, <2>1, <2>2, <3>1 DEF AllocStates
    <3> QED
      BY <1>2, <3>2 DEF TypeOK, AllocStates, AllocateScan
  <2> QED
    BY <2>3, <2>4
<1>3. CASE AllocateFail
  BY <1>3 DEF AllocateFail, TypeOK
<1>4. CASE AllocateMark
  <2>1. alloc.i \in Blocks /\ alloc.i + 1 \in 0 .. MAX_PROCESSES
        /\ alloc.required \in 1 .. MAX_PROCESSES /\ alloc.result \in Blocks
        /\ alloc.result + alloc.required <= MAX_PROCESSES
    BY <1>0, <1>4 DEF AllocateMark, MarkInv, AllocStates
  <2>2. alloc' \in AllocStates
    BY <1>0, <1>4, <2>1 DEF AllocateMark, AllocStates
  <2>3. held' \in SUBSET Runs
    BY <1>4, <2>1 DEF AllocateMark, TypeOK, Runs
  <2>4. FREE_PARTITIONS' \in [Blocks -> BOOLEAN]
    BY <1>4 DEF AllocateMark, TypeOK
  <2> QED
    BY <1>4, <2>2, <2>3, <2>4 DEF AllocateMark, TypeOK, AllocStates
<1>5. ASSUME NEW r \in held, FreeCall(r) PROVE TypeOK'
  BY <1>5 DEF FreeCall, FreeEnd, Runs, TypeOK
<1>6. CASE FreeBlock
  BY <1>6, SMTT(30) DEF FreeBlock, TypeOK
<1>7. CASE UNCHANGED vars
  BY <1>7 DEF vars, TypeOK
<1> QED
  BY <1>1, <1>2, <1>3, <1>4, <1>5, <1>6, <1>7 DEF Next

(* What AllocateScan does to the record, case by case. *)
LEMMA ScanStep ==
  ASSUME TypeOK, ScanInv, AllocateScan
  PROVE  /\ alloc.pc = "scan" /\ alloc.i \in 0 .. MAX_PROCESSES - 1
         /\ alloc.count \in Nat /\ alloc.required \in 1 .. MAX_PROCESSES
         /\ UNCHANGED <<FREE_PARTITIONS, held, freeing, atCall>>
         /\ \/ /\ FREE_PARTITIONS[alloc.i] /\ alloc.count + 1 = alloc.required
               /\ alloc' = [pc |-> "mark", required |-> alloc.required,
                             i |-> alloc.i - alloc.count, count |-> alloc.count + 1,
                             result |-> alloc.i - alloc.count]
            \/ /\ FREE_PARTITIONS[alloc.i] /\ alloc.count + 1 < alloc.required
               /\ alloc' = [pc |-> "scan", required |-> alloc.required, i |-> alloc.i + 1,
                             count |-> alloc.count + 1, result |-> -1]
            \/ /\ ~FREE_PARTITIONS[alloc.i]
               /\ alloc' = [pc |-> "scan", required |-> alloc.required, i |-> alloc.i + 1,
                             count |-> 0, result |-> -1]
<1>0. alloc \in AllocStates
  BY DEF TypeOK, AllocStates
<1>1. alloc.pc = "scan" /\ alloc.i \in 0 .. MAX_PROCESSES - 1
      /\ alloc.required \in 1 .. MAX_PROCESSES
      /\ alloc.count <= alloc.i /\ alloc.count < alloc.required /\ alloc.count \in Nat
      /\ alloc.result = -1
  BY <1>0 DEF AllocateScan, ScanInv, AllocStates
<1>2. CASE FREE_PARTITIONS[alloc.i] /\ alloc.count + 1 = alloc.required
  <2>1. StartIndex(alloc.i, alloc.required) = alloc.i - alloc.count
    BY <1>1, <1>2 DEF StartIndex
  <2> QED
    BY <1>0, <1>1, <1>2, <2>1 DEF AllocateScan, AllocStates, ContiguousCount, Found
<1>3. CASE FREE_PARTITIONS[alloc.i] /\ alloc.count + 1 # alloc.required
  <2>1. ContiguousCount(alloc.count, FREE_PARTITIONS[alloc.i]) = alloc.count + 1
    BY <1>3 DEF ContiguousCount
  <2>2. alloc' = [alloc EXCEPT !.count = alloc.count + 1, !.i = @ + 1]
    BY <1>3, <2>1 DEF AllocateScan, Found
  <2>3. alloc' = [pc |-> "scan", required |-> alloc.required, i |-> alloc.i + 1,
                  count |-> alloc.count + 1, result |-> -1]
    BY <1>0, <1>1, <2>2 DEF AllocStates
  <2>4. alloc.count + 1 < alloc.required
    BY <1>1, <1>3
  <2> QED
    BY <1>1, <1>3, <2>3, <2>4 DEF AllocateScan
<1>4. CASE ~FREE_PARTITIONS[alloc.i]
  BY <1>0, <1>1, <1>4 DEF AllocateScan, AllocStates, ContiguousCount, Found
<1> QED
  BY <1>2, <1>3, <1>4

(* The same for AllocateMark. *)
LEMMA MarkStep ==
  ASSUME TypeOK, MarkInv, AllocateMark
  PROVE  /\ alloc.pc = "mark" /\ alloc.i \in Blocks
         /\ alloc.result \in Blocks /\ alloc.required \in 1 .. MAX_PROCESSES
         /\ FREE_PARTITIONS' = [FREE_PARTITIONS EXCEPT ![alloc.i] = FALSE]
         /\ alloc'.result = alloc.result /\ alloc'.required = alloc.required
         /\ alloc'.i = alloc.i + 1
         /\ UNCHANGED <<freeing, atCall>>
         /\ \/ /\ alloc.i + 1 = alloc.result + alloc.required
               /\ alloc'.pc = "returned"
               /\ held' = held \union {<<alloc.result, alloc.required>>}
            \/ /\ alloc.i + 1 < alloc.result + alloc.required
               /\ alloc'.pc = "mark"
               /\ held' = held
<1>0. alloc \in AllocStates
  BY DEF TypeOK, AllocStates
<1>1. alloc.pc = "mark" /\ alloc.i \in Blocks /\ alloc.result \in Blocks
      /\ alloc.required \in 1 .. MAX_PROCESSES /\ alloc.i < alloc.result + alloc.required
  BY <1>0 DEF AllocateMark, MarkInv, AllocStates
<1>2. alloc'.result = alloc.result /\ alloc'.required = alloc.required /\ alloc'.i = alloc.i + 1
  BY <1>0, <1>1 DEF AllocateMark, AllocStates
<1>3. CASE alloc.i + 1 = alloc.result + alloc.required
  <2>1. alloc' = [alloc EXCEPT !.pc = "returned", !.i = @ + 1]
    BY <1>3 DEF AllocateMark
  <2>2. alloc'.pc = "returned"
    BY <1>0, <2>1 DEF AllocStates
  <2> QED
    BY <1>1, <1>2, <1>3, <2>2 DEF AllocateMark
<1>4. CASE alloc.i + 1 # alloc.result + alloc.required
  <2>1. alloc' = [alloc EXCEPT !.i = @ + 1]
    BY <1>4 DEF AllocateMark
  <2>2. alloc'.pc = "mark"
    BY <1>0, <1>1, <2>1 DEF AllocStates
  <2>3. alloc.i + 1 < alloc.result + alloc.required
    BY <1>1, <1>4
  <2> QED
    BY <1>1, <1>2, <1>4, <2>2, <2>3 DEF AllocateMark
<1> QED
  BY <1>3, <1>4

(* freeMemory: the run moves from held to BeingFreed. *)
LEMMA FreeCallStep ==
  ASSUME TypeOK, NEW r \in held, FreeCall(r)
  PROVE  /\ BeingFreed = {} /\ BeingFreed' = Run(r[1], r[2])
         /\ held' = held \ {r} /\ r \in Runs
         /\ UNCHANGED <<FREE_PARTITIONS, atCall, Marked, BeingMarked>>
<1>1. freeing' = [next |-> r[1], end |-> r[1] + r[2]]
  BY DEF FreeCall, FreeEnd
<1>2. freeing'.next = r[1] /\ freeing'.end = r[1] + r[2] /\ r[1] \in Int /\ r[2] \in Int
  BY <1>1 DEF TypeOK, Runs
<1>3. BeingFreed' = Run(r[1], r[2])
  BY <1>2, SMT DEF BeingFreed, Run
<1>4. UNCHANGED <<Marked, BeingMarked>>
  BY DEF FreeCall, Marked, BeingMarked
<1> QED
  BY <1>3, <1>4 DEF FreeCall, TypeOK

LEMMA StepScanInv == IInv /\ [Next]_vars => ScanInv'
<1> SUFFICES ASSUME TypeOK, ScanInv, MarkInv, [Next]_vars PROVE ScanInv'
  BY DEF IInv
<1>1. ASSUME NEW n \in 0 .. MAX_PROCESSES + 1, AllocateCall(n) PROVE ScanInv'
  BY <1>1 DEF AllocateCall, Idle, ScanInv
<1>2. CASE AllocateScan
  BY <1>2, ScanStep DEF ScanInv
<1>3. CASE AllocateFail
  BY <1>3 DEF AllocateFail, ScanInv, TypeOK
<1>4. CASE AllocateMark
  BY <1>4, MarkStep DEF ScanInv
<1>5. ASSUME NEW r \in held, FreeCall(r) PROVE ScanInv'
  BY <1>5 DEF FreeCall, ScanInv
<1>6. CASE FreeBlock
  BY <1>6 DEF FreeBlock, ScanInv, TypeOK
<1>7. CASE UNCHANGED vars
  BY <1>7 DEF vars, ScanInv
<1> QED
  BY <1>1, <1>2, <1>3, <1>4, <1>5, <1>6, <1>7 DEF Next

LEMMA StepMarkInv == IInv /\ [Next]_vars => MarkInv'
<1> SUFFICES ASSUME TypeOK, ScanInv, MarkInv, [Next]_vars PROVE MarkInv'
  BY DEF IInv
<1>1. ASSUME NEW n \in 0 .. MAX_PROCESSES + 1, AllocateCall(n) PROVE MarkInv'
  BY <1>1 DEF AllocateCall, Idle, MarkInv
<1>2. CASE AllocateScan
  BY <1>2, ScanStep DEF ScanInv, MarkInv
<1>3. CASE AllocateFail
  BY <1>3 DEF AllocateFail, MarkInv, TypeOK
<1>4. CASE AllocateMark
  <2>1. SUFFICES ASSUME alloc'.pc = "mark" PROVE MarkInv'
    BY DEF MarkInv
  <2>2. /\ alloc.required \in 1 .. MAX_PROCESSES /\ alloc.result \in Blocks
        /\ alloc.i \in Blocks /\ alloc.result <= alloc.i
        /\ alloc.result + alloc.required <= MAX_PROCESSES
        /\ alloc'.result = alloc.result /\ alloc'.required = alloc.required
        /\ alloc'.i = alloc.i + 1 /\ alloc.i + 1 < alloc.result + alloc.required
        /\ FREE_PARTITIONS' = [FREE_PARTITIONS EXCEPT ![alloc.i] = FALSE]
    BY <1>4, <2>1, MarkStep DEF MarkInv
  <2>3. ASSUME NEW b \in alloc.i + 1 .. alloc.result + alloc.required - 1
        PROVE  FREE_PARTITIONS'[b]
    <3>1. FREE_PARTITIONS[b]
      BY <1>4, <2>2, MarkStep DEF MarkInv
    <3> QED
      BY <2>2, <3>1 DEF TypeOK
  <2> QED
    BY <2>2, <2>3 DEF MarkInv
<1>5. ASSUME NEW r \in held, FreeCall(r) PROVE MarkInv'
  BY <1>5 DEF FreeCall, MarkInv
<1>6. CASE FreeBlock
  BY <1>6 DEF FreeBlock, MarkInv, TypeOK
<1>7. CASE UNCHANGED vars
  BY <1>7 DEF vars, MarkInv
<1> QED
  BY <1>1, <1>2, <1>3, <1>4, <1>5, <1>6, <1>7 DEF Next

LEMMA StepNoSharedBlock == IInv /\ [Next]_vars => NoSharedBlock'
<1> SUFFICES ASSUME TypeOK, ScanInv, MarkInv, NoSharedBlock, BitmapExact, [Next]_vars
             PROVE  NoSharedBlock'
  BY DEF IInv
<1>1. ASSUME NEW n \in 0 .. MAX_PROCESSES + 1, AllocateCall(n) PROVE NoSharedBlock'
  BY <1>1 DEF AllocateCall, Idle, NoSharedBlock, BeingMarked, BeingFreed
<1>2. CASE AllocateScan
  <2>1. CASE alloc'.pc = "scan"
    BY <1>2, <2>1, ScanStep DEF NoSharedBlock, BeingMarked, BeingFreed
  <2>2. CASE alloc'.pc # "scan"
    <3>1. /\ alloc'.pc = "mark" /\ UNCHANGED <<FREE_PARTITIONS, held, freeing>>
          /\ BeingMarked' = alloc.i - alloc.count .. alloc.i
          /\ \A b \in BeingMarked' : b \in Blocks /\ FREE_PARTITIONS[b]
      BY <1>2, <2>2, ScanStep, SMTT(30) DEF ScanInv, BeingMarked, Run
    <3>2. \A b \in BeingMarked' :
            b \notin BeingFreed /\ \A r \in held : b \notin Run(r[1], r[2])
      BY <3>1 DEF BitmapExact
    <3> QED
      BY <3>1, <3>2 DEF NoSharedBlock, BeingFreed
  <2> QED
    BY <2>1, <2>2
<1>3. CASE AllocateFail
  BY <1>3 DEF AllocateFail, NoSharedBlock, BeingMarked, BeingFreed, TypeOK
<1>4. CASE AllocateMark
  <2>1. BeingMarked = Run(alloc.result, alloc.required) /\ BeingFreed' = BeingFreed
    BY <1>4, MarkStep DEF BeingMarked, BeingFreed
  <2>2. CASE held' = held
    BY <1>4, <2>1, <2>2, MarkStep DEF NoSharedBlock, BeingMarked
  <2>3. CASE alloc'.pc = "returned"
    <3>1. BeingMarked' = {} /\ held' = held \union {<<alloc.result, alloc.required>>}
      BY <1>4, <2>3, MarkStep DEF BeingMarked
    <3> QED
      BY <2>1, <3>1 DEF NoSharedBlock
  <2> QED
    BY <1>4, <2>2, <2>3, MarkStep
<1>5. ASSUME NEW r \in held, FreeCall(r) PROVE NoSharedBlock'
  <2>1. BeingFreed' = Run(r[1], r[2]) /\ BeingMarked' = BeingMarked /\ held' = held \ {r}
    BY <1>5, FreeCallStep
  <2> QED
    BY <2>1 DEF NoSharedBlock
<1>6. CASE FreeBlock
  <2>1. BeingFreed' \subseteq BeingFreed /\ BeingMarked' = BeingMarked /\ held' = held
    BY <1>6 DEF FreeBlock, TypeOK, BeingFreed, BeingMarked
  <2> QED
    BY <2>1 DEF NoSharedBlock
<1>7. CASE UNCHANGED vars
  BY <1>7 DEF vars, NoSharedBlock, BeingMarked, BeingFreed
<1> QED
  BY <1>1, <1>2, <1>3, <1>4, <1>5, <1>6, <1>7 DEF Next

LEMMA StepBitmapExact == IInv /\ [Next]_vars => BitmapExact'
<1> SUFFICES ASSUME TypeOK, ScanInv, MarkInv, NoSharedBlock, BitmapExact, [Next]_vars
             PROVE  BitmapExact'
  BY DEF IInv
<1>1. ASSUME NEW n \in 0 .. MAX_PROCESSES + 1, AllocateCall(n) PROVE BitmapExact'
  BY <1>1 DEF AllocateCall, Idle, BitmapExact, Marked, BeingFreed
<1>2. CASE AllocateScan
  <2>1. Marked = {} /\ Marked' = {} /\ UNCHANGED <<FREE_PARTITIONS, held, BeingFreed>>
    BY <1>2, ScanStep DEF Marked, BeingFreed
  <2> QED
    BY <2>1 DEF BitmapExact
<1>3. CASE AllocateFail
  <2>1. Marked = {} /\ Marked' = {} /\ UNCHANGED <<FREE_PARTITIONS, held, BeingFreed>>
    BY <1>3 DEF AllocateFail, Marked, BeingFreed, TypeOK
  <2> QED
    BY <2>1 DEF BitmapExact
<1>4. CASE AllocateMark
  <2>1. /\ Marked = alloc.result .. alloc.i - 1 /\ alloc.i \in Blocks
        /\ FREE_PARTITIONS' = [FREE_PARTITIONS EXCEPT ![alloc.i] = FALSE]
        /\ BeingFreed' = BeingFreed /\ alloc.result <= alloc.i
    BY <1>4, MarkStep DEF Marked, BeingFreed, MarkInv
  <2>2. CASE held' = held /\ alloc'.pc = "mark"
    <3>1. Marked' = Marked \union {alloc.i}
      BY <1>4, <2>1, <2>2, MarkStep DEF Marked
    <3> QED
      BY <2>1, <2>2, <3>1 DEF BitmapExact, TypeOK
  <2>3. CASE alloc'.pc = "returned" /\ alloc.i + 1 = alloc.result + alloc.required
    <3>1. Marked' = {} /\ held' = held \union {<<alloc.result, alloc.required>>}
      BY <1>4, <2>3, MarkStep DEF Marked
    <3>2. Run(alloc.result, alloc.required) = Marked \union {alloc.i}
      BY <1>4, <2>1, <2>3, MarkStep, SMTT(30) DEF Run
    <3>3. ASSUME NEW b \in Blocks
          PROVE  (\E r \in held' : b \in Run(r[1], r[2]))
                   <=> b \in Marked \union {alloc.i} \/ \E r \in held : b \in Run(r[1], r[2])
      <4> DEFINE t == <<alloc.result, alloc.required>>
      <4>1. Run(t[1], t[2]) = Marked \union {alloc.i}
        BY <3>2
      <4> HIDE DEF t
      <4>2. held' = held \union {t}
        BY <3>1 DEF t
      <4> QED
        BY <4>1, <4>2
    <3> QED
      BY <2>1, <3>1, <3>3 DEF BitmapExact, TypeOK
  <2> QED
    BY <1>4, <2>2, <2>3, MarkStep
<1>5. ASSUME NEW r \in held, FreeCall(r) PROVE BitmapExact'
  <2>1. /\ BeingFreed = {} /\ BeingFreed' = Run(r[1], r[2])
        /\ UNCHANGED <<FREE_PARTITIONS, Marked>> /\ held' = held \ {r}
    BY <1>5, FreeCallStep
  <2> QED
    BY <2>1 DEF BitmapExact
<1>6. CASE FreeBlock
  <2>1. /\ freeing.next \in BeingFreed /\ BeingFreed' = BeingFreed \ {freeing.next}
        /\ FREE_PARTITIONS' = [FREE_PARTITIONS EXCEPT ![freeing.next] = TRUE]
        /\ UNCHANGED <<held, Marked>>
    BY <1>6 DEF FreeBlock, TypeOK, BeingFreed, Marked
  <2>2. freeing.next \notin Marked /\ \A r \in held : freeing.next \notin Run(r[1], r[2])
    <3>1. Marked \subseteq BeingMarked
      BY DEF TypeOK, Marked, BeingMarked, MarkInv, Run
    <3> QED
      BY <2>1, <3>1 DEF NoSharedBlock
  <2> QED
    BY <2>1, <2>2 DEF BitmapExact, TypeOK
<1>7. CASE UNCHANGED vars
  BY <1>7 DEF vars, BitmapExact, Marked, BeingFreed
<1> QED
  BY <1>1, <1>2, <1>3, <1>4, <1>5, <1>6, <1>7 DEF Next

LEMMA Invariance == Spec => []IInv
<1>1. IInv /\ [Next]_vars => IInv'
  BY StepTypeOK, StepScanInv, StepMarkInv, StepNoSharedBlock, StepBitmapExact DEF IInv
<1> QED
  BY InitIInv, <1>1, PTL DEF Spec

(* Every variable keeps its type: the indices of both loops stay in the    *)
(* bitmap, whatever the other thread does.                                 *)
THEOREM TypeCorrect == Spec => []TypeOK
BY Invariance, PTL DEF IInv

(* allocateMemory and freeMemory never give one partition to two holders.  *)
THEOREM Disjointness == Spec => []NoSharedBlock
BY Invariance, PTL DEF IInv

(* FREE_PARTITIONS is exact at every access: nothing leaks.                *)
THEOREM Exactness == Spec => []BitmapExact
BY Invariance, PTL DEF IInv

-----------------------------------------------------------------------------
(*                               First fit                                 *)

LEMMA InitFitInv == Init => FitInv
BY DEF Init, FitInv, FirstFitAtCall, Idle

LEMMA StepFitInv == IInv /\ FitInv /\ [Next]_vars => FitInv'
<1> SUFFICES ASSUME TypeOK, ScanInv, MarkInv, FitInv, [Next]_vars PROVE FitInv'
  BY DEF IInv
<1>1. ASSUME NEW n \in 0 .. MAX_PROCESSES + 1, AllocateCall(n) PROVE FitInv'
  BY <1>1 DEF AllocateCall, Idle, FitInv, FirstFitAtCall, FreeRuns
<1>2. CASE AllocateScan
  <2>0. /\ \A b \in Blocks : atCall[b] => FREE_PARTITIONS[b]
        /\ \A s \in FreeRuns(atCall, alloc.required) : alloc.i - alloc.count <= s
        /\ atCall' = atCall /\ FREE_PARTITIONS' = FREE_PARTITIONS
        /\ alloc'.required = alloc.required
    BY <1>2, ScanStep DEF FitInv
  <2>1. CASE FREE_PARTITIONS[alloc.i]
    <3>1. \/ /\ alloc'.pc = "mark" /\ alloc'.result = alloc.i - alloc.count
             /\ alloc'.result # -1
          \/ /\ alloc'.pc = "scan" /\ alloc'.i - alloc'.count = alloc.i - alloc.count
      BY <1>2, <2>1, ScanStep DEF ScanInv
    <3> QED
      BY <2>0, <3>1 DEF FitInv, FirstFitAtCall
  <2>2. CASE ~FREE_PARTITIONS[alloc.i]
    <3>1. alloc'.pc = "scan" /\ alloc'.i = alloc.i + 1 /\ alloc'.count = 0
      BY <1>2, <2>2, ScanStep
    <3>2. ASSUME NEW s \in FreeRuns(atCall, alloc.required)
          PROVE  alloc.i + 1 <= s
      <4>1. /\ s \in Blocks /\ alloc.i - alloc.count <= s
            /\ alloc.i \in Blocks /\ alloc.count \in Nat /\ alloc.required \in Nat
            /\ alloc.count < alloc.required
        BY <1>2, <2>0, ScanStep DEF FreeRuns, ScanInv
      <4>2. SUFFICES ASSUME s <= alloc.i PROVE FALSE
        BY <4>1
      <4>3. alloc.i \in Run(s, alloc.required)
        BY <4>1, <4>2 DEF Run
      <4> QED
        BY <2>0, <2>2, <4>1, <4>3 DEF FreeRuns
    <3>3. alloc'.i - alloc'.count = alloc.i + 1
      BY <1>2, <3>1, ScanStep
    <3> QED
      BY <2>0, <3>1, <3>2, <3>3 DEF FitInv, FirstFitAtCall
  <2> QED
    BY <2>1, <2>2
<1>3. CASE AllocateFail
  <2>1. /\ alloc.pc = "scan" /\ alloc.i = MAX_PROCESSES
        /\ alloc'.pc = "returned" /\ alloc'.required = alloc.required /\ atCall' = atCall
    BY <1>3 DEF AllocateFail, ScannedAll, TypeOK
  <2>2. FreeRuns(atCall, alloc.required) = {}
    <3>1. SUFFICES ASSUME NEW s \in FreeRuns(atCall, alloc.required) PROVE FALSE
      OBVIOUS
    <3>2. /\ alloc.count < alloc.required /\ alloc.count \in Nat /\ alloc.required \in Nat
          /\ s \in Blocks /\ s + alloc.required <= MAX_PROCESSES
          /\ alloc.i - alloc.count <= s
      BY <2>1 DEF ScanInv, FitInv, FreeRuns, TypeOK
    <3> QED
      BY <2>1, <3>2
  <2> QED
    BY <2>1, <2>2 DEF FitInv, FirstFitAtCall
<1>4. CASE AllocateMark
  BY <1>4, MarkStep DEF FitInv, FirstFitAtCall
<1>5. ASSUME NEW r \in held, FreeCall(r) PROVE FitInv'
  BY <1>5 DEF FreeCall, FitInv, FirstFitAtCall
<1>6. CASE FreeBlock
  <2>1. \A b \in Blocks : FREE_PARTITIONS[b] => FREE_PARTITIONS'[b]
    BY <1>6 DEF FreeBlock, TypeOK
  <2> QED
    BY <1>6, <2>1 DEF FreeBlock, FitInv, FirstFitAtCall
<1>7. CASE UNCHANGED vars
  BY <1>7 DEF vars, FitInv, FirstFitAtCall
<1> QED
  BY <1>1, <1>2, <1>3, <1>4, <1>5, <1>6, <1>7 DEF Next

(* allocateMemory finds a run whenever one was free at its call, and none  *)
(* was free below the one it returns.                                      *)
THEOREM FirstFit == Spec => []FirstFitAtCall
<1>1. FitInv => FirstFitAtCall
  BY DEF FitInv
<1> QED
  BY Invariance, InitFitInv, StepFitInv, <1>1, PTL DEF Spec

-----------------------------------------------------------------------------
(*                       The allocator is a pool                           *)

LEMMA InitPool == Init => Pool!Init
BY DEF Init, Pool!Init, Pool!Blocks, Idle, NotFreeing, Marked, BeingFreed

LEMMA StepPool == IInv /\ [Next]_vars => [Pool!Next]_(Pool!pvars)
<1> SUFFICES ASSUME TypeOK, ScanInv, MarkInv, NoSharedBlock, BitmapExact, [Next]_vars
             PROVE  [Pool!Next]_(Pool!pvars)
  BY DEF IInv
<1> USE DEF Pool!pvars
<1>1. ASSUME NEW n \in 0 .. MAX_PROCESSES + 1, AllocateCall(n) PROVE UNCHANGED Pool!pvars
  BY <1>1 DEF AllocateCall, Idle, Marked, BeingFreed
<1>2. CASE AllocateScan
  BY <1>2, ScanStep DEF Marked, BeingFreed
<1>3. CASE AllocateFail
  BY <1>3 DEF AllocateFail, Marked, BeingFreed, TypeOK
<1>4. CASE AllocateMark
  <2>1. /\ Marked = alloc.result .. alloc.i - 1 /\ alloc.i \in Blocks
        /\ FREE_PARTITIONS' = [FREE_PARTITIONS EXCEPT ![alloc.i] = FALSE]
        /\ BeingFreed' = BeingFreed /\ alloc.result <= alloc.i /\ FREE_PARTITIONS[alloc.i]
    BY <1>4, MarkStep, SMTT(30) DEF Marked, BeingFreed, MarkInv
  <2>2. CASE held' = held /\ alloc'.pc = "mark"
    <3>1. Marked' = Marked \union {alloc.i}
      BY <1>4, <2>1, <2>2, MarkStep DEF Marked
    <3> QED
      BY <2>1, <2>2, <3>1 DEF TypeOK
  <2>3. CASE alloc'.pc = "returned" /\ alloc.i + 1 = alloc.result + alloc.required
    <3> DEFINE t == <<alloc.result, alloc.required>>
    <3>1. Marked' = {} /\ held' = held \union {t} /\ t \in Blocks \X (1 .. MAX_PROCESSES)
      BY <1>4, <2>3, MarkStep DEF Marked
    <3>2. Run(t[1], t[2]) = Marked \union {alloc.i}
      <4>1. Run(t[1], t[2]) = alloc.result .. alloc.i
        BY <1>4, <2>1, <2>3, MarkStep DEF Run
      <4> QED
        BY <1>4, <2>1, <4>1, MarkStep
    <3> HIDE DEF t
    <3>3. Pool!Run(t[1], t[2]) = Marked \union {alloc.i}
      BY <3>2 DEF Pool!Run, Run
    <3> DEFINE free == {b \in Blocks : FREE_PARTITIONS[b]} \union Marked
    <3>4. Pool!Run(t[1], t[2]) \subseteq free
      BY <2>1, <3>3
    <3>5. free' = free \ Pool!Run(t[1], t[2])
      <4>1. free' = {b \in Blocks : FREE_PARTITIONS[b] /\ b # alloc.i}
        BY <2>1, <3>1 DEF TypeOK
      <4>2. \A b \in Marked : b \notin Blocks \/ ~FREE_PARTITIONS[b]
        BY DEF BitmapExact
      <4> QED
        BY <3>3, <4>1, <4>2
    <3> HIDE DEF free
    <3>6. \E r \in Pool!Blocks \X (1 .. MAX_PROCESSES) :
            /\ Pool!Run(r[1], r[2]) \subseteq free
            /\ free' = free \ Pool!Run(r[1], r[2])
            /\ held' = held \union {r}
            /\ UNCHANGED BeingFreed
      BY <2>1, <3>1, <3>4, <3>5 DEF Pool!Blocks
    <3>7. Pool!Next
      BY <3>6 DEF Pool!Next, Pool!Take, free
    <3> QED
      BY <3>7
  <2> QED
    BY <1>4, <2>2, <2>3, MarkStep
<1>5. ASSUME NEW r \in held, FreeCall(r) PROVE Pool!Next
  BY <1>5, FreeCallStep DEF Pool!Next, Pool!GiveBack, Pool!Run, Run
<1>6. CASE FreeBlock
  <2>1. /\ freeing.next \in BeingFreed /\ BeingFreed' = BeingFreed \ {freeing.next}
        /\ FREE_PARTITIONS' = [FREE_PARTITIONS EXCEPT ![freeing.next] = TRUE]
        /\ UNCHANGED <<held, Marked>>
    BY <1>6 DEF FreeBlock, TypeOK, BeingFreed, Marked
  <2> DEFINE free == {b \in Blocks : FREE_PARTITIONS[b]} \union Marked
  <2>2. free' = free \union {freeing.next}
    BY <1>6, <2>1 DEF TypeOK, FreeBlock
  <2> HIDE DEF free
  <2>3. Pool!Next
    <3>1. \E b \in BeingFreed : /\ BeingFreed' = BeingFreed \ {b}
                               /\ free' = free \union {b}
                               /\ UNCHANGED held
      BY <2>1, <2>2
    <3> QED
      BY <3>1 DEF Pool!Next, Pool!Return, free
  <2> QED
    BY <2>3
<1>7. CASE UNCHANGED vars
  BY <1>7 DEF vars, Marked, BeingFreed
<1> QED
  BY <1>1, <1>2, <1>3, <1>4, <1>5, <1>6, <1>7 DEF Next

(* Every run of the two threads is one of the pool: an allocation is       *)
(* atomic, all of it free, and the freed blocks come back one by one.      *)
THEOREM Refinement == Spec => ImplementsPool
BY Invariance, InitPool, StepPool, PTL DEF Spec, ImplementsPool, Pool!Spec

-----------------------------------------------------------------------------
(*                         Calls come to an end                            *)

(* The accesses to the bitmap that allocateMemory has left, at most.       *)
CallLeft ==
  [idle |-> 0, returned |-> 0, mark |-> alloc.result + alloc.required - alloc.i,
   scan |-> MAX_PROCESSES - alloc.i + alloc.required + 1][alloc.pc]

(* Every step within a call brings it nearer to its end, and nothing else  *)
(* puts it off.                                                            *)
CallsAdvance ==
  [][/\ alloc.pc \in {"scan", "mark"} =>
          IF AllocateScan \/ AllocateFail \/ AllocateMark
            THEN CallLeft' \in 0 .. CallLeft - 1
            ELSE UNCHANGED alloc
     /\ BeingFreed # {} =>
          IF FreeBlock
            THEN freeing'.end - freeing'.next = freeing.end - freeing.next - 1
            ELSE UNCHANGED freeing]_vars

LEMMA CallNearer ==
  ASSUME IInv, AllocateScan \/ AllocateFail \/ AllocateMark
  PROVE  CallLeft' \in 0 .. CallLeft - 1
<1>0. alloc \in AllocStates /\ TypeOK /\ ScanInv /\ MarkInv
  BY DEF IInv, TypeOK, AllocStates
<1>1. CASE AllocateScan
  <2>1. alloc.pc = "scan" /\ alloc.i \in 0 .. MAX_PROCESSES - 1 /\ alloc.count \in Nat
        /\ alloc.required \in 1 .. MAX_PROCESSES
    BY <1>0, <1>1, ScanStep
  <2>2. CallLeft = MAX_PROCESSES - alloc.i + alloc.required + 1
    BY <2>1 DEF CallLeft
  <2>3. CASE alloc'.pc = "mark"
    <3>1. alloc'.required = alloc.required /\ alloc'.result = alloc'.i /\ alloc'.i \in Int
      BY <1>0, <1>1, <2>1, <2>3, ScanStep
    <3>2. CallLeft' = alloc.required
      BY <2>1, <2>3, <3>1 DEF CallLeft
    <3> QED
      BY <2>1, <2>2, <3>2
  <2>4. CASE alloc'.pc = "scan"
    <3>1. alloc'.required = alloc.required /\ alloc'.i = alloc.i + 1
      BY <1>0, <1>1, <2>4, ScanStep
    <3>2. CallLeft' = MAX_PROCESSES - (alloc.i + 1) + alloc.required + 1
      BY <2>4, <3>1 DEF CallLeft
    <3> QED
      BY <2>1, <2>2, <3>2
  <2> QED
    BY <1>0, <1>1, <2>3, <2>4, ScanStep
<1>2. CASE AllocateFail
  <2>1. alloc.pc = "scan" /\ alloc.i = MAX_PROCESSES /\ alloc.required \in 1 .. MAX_PROCESSES
        /\ alloc'.pc = "returned"
    BY <1>0, <1>2 DEF AllocateFail, ScannedAll, ScanInv, AllocStates
  <2>2. CallLeft = alloc.required + 1 /\ CallLeft' = 0
    BY <2>1 DEF CallLeft
  <2> QED
    BY <2>1, <2>2
<1>3. CASE AllocateMark
  <2>1. alloc.pc = "mark" /\ alloc.i \in Int /\ alloc.result \in Int /\ alloc.required \in Nat
        /\ alloc.i < alloc.result + alloc.required
    BY <1>0, <1>3 DEF AllocateMark, MarkInv, AllocStates
  <2>2. CallLeft = alloc.result + alloc.required - alloc.i
    BY <2>1 DEF CallLeft
  <2>3. CASE alloc.i + 1 = alloc.result + alloc.required
    <3>1. alloc'.pc = "returned"
      BY <1>0, <1>3, <2>3 DEF AllocateMark, AllocStates
    <3>2. CallLeft' = 0
      BY <3>1 DEF CallLeft
    <3> QED
      BY <2>1, <2>2, <3>2
  <2>4. CASE alloc.i + 1 # alloc.result + alloc.required
    <3>1. alloc' = [alloc EXCEPT !.i = alloc.i + 1]
      BY <1>3, <2>4 DEF AllocateMark
    <3>2. /\ alloc'.pc = "mark" /\ alloc'.i = alloc.i + 1
          /\ alloc'.result = alloc.result /\ alloc'.required = alloc.required
      BY <1>0, <2>1, <3>1 DEF AllocStates
    <3>3. CallLeft' = alloc.result + alloc.required - (alloc.i + 1)
      BY <3>2 DEF CallLeft
    <3> QED
      BY <2>1, <2>2, <2>4, <3>3
  <2> QED
    BY <2>3, <2>4
<1> QED
  BY <1>1, <1>2, <1>3

(* A call of allocateMemory ends after 2 * MAX_PROCESSES + 1 accesses to   *)
(* the bitmap at most, although its client frees meanwhile, and one of     *)
(* freeMemory after one access for each partition of the run.              *)
THEOREM CallsEnd == Spec => CallsAdvance
<1>1. ASSUME IInv, [Next]_vars, alloc.pc \in {"scan", "mark"},
             ~(AllocateScan \/ AllocateFail \/ AllocateMark)
      PROVE  UNCHANGED alloc
  BY <1>1 DEF Next, AllocateCall, FreeCall, FreeBlock, vars
<1>2. ASSUME IInv, [Next]_vars, BeingFreed # {}, ~FreeBlock PROVE UNCHANGED freeing
  BY <1>2 DEF Next, AllocateCall, AllocateScan, AllocateFail, AllocateMark, FreeCall, vars
<1>3. ASSUME IInv, FreeBlock
      PROVE  freeing'.end - freeing'.next = freeing.end - freeing.next - 1
  BY <1>3 DEF IInv, TypeOK, FreeBlock
<1>4. IInv /\ [Next]_vars =>
        [/\ alloc.pc \in {"scan", "mark"} =>
              IF AllocateScan \/ AllocateFail \/ AllocateMark
                THEN CallLeft' \in 0 .. CallLeft - 1
                ELSE UNCHANGED alloc
         /\ BeingFreed # {} =>
              IF FreeBlock
                THEN freeing'.end - freeing'.next = freeing.end - freeing.next - 1
                ELSE UNCHANGED freeing]_vars
  BY <1>1, <1>2, <1>3, CallNearer
<1> QED
  BY Invariance, <1>4, PTL DEF Spec, CallsAdvance

-----------------------------------------------------------------------------
(*                             Block counts                                *)

(* The number of blocks is right for every program on every RAM.           *)
THEOREM RequiredBlocks == RequiredBlocksCorrect
BY RequiredBlocksMeaning, GeometryAssumption DEF RequiredBlocksCorrect
=============================================================================
