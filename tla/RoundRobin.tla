----------------------------- MODULE RoundRobin -----------------------------
(***************************************************************************)
(* Kernel with a history variable that remembers, for every READY process, *)
(* which other entries have been dispatched since it became READY.         *)
(***************************************************************************)
EXTENDS Kernel

VARIABLE overtakenBy

rrvars == <<vars, overtakenBy>>

Dispatched == {s \in Slots : state[s] # "EXECUTING" /\ state'[s] = "EXECUTING"}

Overtaking ==
  overtakenBy' = [s \in Slots |->
    IF state[s] = "READY" /\ state'[s] = "READY" THEN overtakenBy[s] \union Dispatched ELSE {}]

RoundRobinInit == Init /\ overtakenBy = [s \in Slots |-> {}]

RoundRobinNext == Next /\ Overtaking

RoundRobinSpec == RoundRobinInit /\ [][RoundRobinNext]_rrvars

FairRoundRobin == RoundRobinSpec /\ Fairness

(* Round robin: while a process is READY no other entry of the process     *)
(* table gets the CPU twice, although the scan starts over at entry 0      *)
(* after an idle tick and processes become READY in the middle of a scan.  *)
NobodyTwice ==
  [][\A s \in Slots : state[s] = "READY" =>
       \A t \in Dispatched : t # s => t \notin overtakenBy[s]]_rrvars
=============================================================================
