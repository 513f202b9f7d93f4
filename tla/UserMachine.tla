---------------------------- MODULE UserMachine -----------------------------
(***************************************************************************)
(* What a program may expect of the machine it runs on: every process has  *)
(* registers of its own, its instructions have the outcomes they should    *)
(* have, one at a time, and whatever happens between two of them leaves    *)
(* everything alone but the seven words below the top of its stack, as     *)
(* long as these seven words are there; a read service puts its answer in  *)
(* AC, a service that has to wait is executed again, and the value of an   *)
(* overflow may be put in AC (again).  A process may end at any time.      *)
(* The instruction set is a parameter (it is that of the module Isa).      *)
(***************************************************************************)
EXTENDS Integers

CONSTANTS
  Addresses,
  Accessible(_, _), getPhysicalAddress(_, _),              \* registers, address
  IS_VALID_INSTRUCTION(_), wordToInt(_), intToWord(_), Wrapped(_),
  Cycle(_, _)  \* registers, memory: the outcomes of the next instruction

VARIABLES regs,          \* registers of each process that lives
          RAM,
          lastOverflow   \* the result of the last overflow, of whatever process

mvars == <<regs, RAM, lastOverflow>>

Frame(r) == {getPhysicalAddress(r, r.SP - k) : k \in 1 .. 7}

(* The words below the stack can hold the registers.                       *)
Room(r) ==
  /\ \A k \in 1 .. 7 : Accessible(r, r.SP - k)
  /\ \A w \in {r.AC, r.pc, r.cc, r.mode, r.RB, r.RL, r.RX} : IS_VALID_INSTRUCTION(w)

FrameOnly(r) ==
  /\ DOMAIN RAM' = Addresses
  /\ \A a \in Addresses \ Frame(r) : RAM'[a] = RAM[a]

Execute(p) ==
  /\ Accessible(regs[p], regs[p].pc)
  /\ \E o \in Cycle(regs[p], RAM) :
       /\ regs' = [regs EXCEPT ![p] = o.r]
       /\ RAM' = o.ram
       /\ lastOverflow' = IF "IC_OVERFLOW" \in o.raises THEN o.value ELSE lastOverflow

(* What a process may find changed when it goes on.                        *)
Answered(r, s) == wordToInt(r.AC) = 3 /\ s = [r EXCEPT !.AC = s.AC]

Repeated(r, s) == wordToInt(r.AC) \in {2, 3} /\ s = [r EXCEPT !.pc = intToWord(wordToInt(r.pc) - 1)]

Adjusted(r, s) == s = [r EXCEPT !.AC = Wrapped(lastOverflow)]

Interrupt(p) ==
  /\ DOMAIN regs' = DOMAIN regs
  /\ \A q \in DOMAIN regs \ {p} : regs'[q] = regs[q]
  /\ Room(regs[p]) =>
       \/ regs'[p] = regs[p]
       \/ Answered(regs[p], regs'[p]) \/ Repeated(regs[p], regs'[p]) \/ Adjusted(regs[p], regs'[p])
  /\ FrameOnly(regs[p])
  /\ UNCHANGED lastOverflow

End(p) ==
  /\ regs' = [q \in DOMAIN regs \ {p} |-> regs[q]]
  /\ FrameOnly(regs[p])
  /\ UNCHANGED lastOverflow

Next == \E p \in DOMAIN regs : Execute(p) \/ Interrupt(p) \/ End(p)

Init == RAM \in [Addresses -> Int]

Spec == Init /\ [][Next]_mvars
=============================================================================
