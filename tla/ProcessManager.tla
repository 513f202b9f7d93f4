--------------------------- MODULE ProcessManager ---------------------------
(***************************************************************************)
(* What the kernel promises about processes: the life of a process table   *)
(* entry, and the partitions it holds meanwhile.  An entry holds nothing   *)
(* while it is FINISHED, gets all its partitions at once while it is NEW,  *)
(* keeps them as long as the process lives, gives them back one by one     *)
(* while it is still EXECUTING, and is FINISHED again only when the last   *)
(* one is back.  At most one entry is EXECUTING.                           *)
(***************************************************************************)
EXTENDS Integers

CONSTANTS Entries, Partition

VARIABLES life,  \* entry -> state
          holds  \* entry -> set of partitions

pvars == <<life, holds>>

Init ==
  /\ life = [e \in Entries |-> "FINISHED"]
  /\ holds = [e \in Entries |-> {}]

Move(e, from, to) ==
  /\ life[e] = from
  /\ life' = [life EXCEPT ![e] = to]

Reserve(e) == Move(e, "FINISHED", "NEW") /\ UNCHANGED holds

Abandon(e) == Move(e, "NEW", "FINISHED") /\ holds[e] = {} /\ UNCHANGED holds

Admit(e, parts) ==
  /\ life[e] = "NEW" /\ holds[e] = {}
  /\ parts # {} /\ \A f \in Entries : holds[f] \cap parts = {}
  /\ holds' = [holds EXCEPT ![e] = parts]
  /\ UNCHANGED life

Start(e) == Move(e, "NEW", "READY") /\ holds[e] # {} /\ UNCHANGED holds

Dispatch(e) ==
  /\ \A f \in Entries : life[f] # "EXECUTING"
  /\ Move(e, "READY", "EXECUTING") /\ UNCHANGED holds

Preempt(e) == Move(e, "EXECUTING", "READY") /\ UNCHANGED holds

Wait(e) ==
  /\ Move(e, "EXECUTING", "BLOCKED") \/ Move(e, "EXECUTING", "BLOCKED_IO")
  /\ UNCHANGED holds

(* Any number of waiting processes may go on at once. *)
WakeUp(awake) ==
  /\ \A e \in awake : life[e] \in {"BLOCKED", "BLOCKED_IO"}
  /\ life' = [e \in Entries |-> IF e \in awake THEN "READY" ELSE life[e]]
  /\ UNCHANGED holds

GiveBack(e, part) ==
  /\ life[e] = "EXECUTING" /\ part \in holds[e]
  /\ holds' = [holds EXCEPT ![e] = @ \ {part}]
  /\ UNCHANGED life

Finish(e) == Move(e, "EXECUTING", "FINISHED") /\ holds[e] = {} /\ UNCHANGED holds

Next ==
  \/ \E e \in Entries :
       \/ Reserve(e) \/ Abandon(e) \/ Start(e)
       \/ Dispatch(e) \/ Preempt(e) \/ Wait(e) \/ Finish(e)
       \/ \E parts \in SUBSET Partition : Admit(e, parts)
       \/ \E part \in Partition : GiveBack(e, part)
  \/ \E awake \in SUBSET Entries : WakeUp(awake)

Spec == Init /\ [][Next]_pvars
=============================================================================
