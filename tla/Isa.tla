-------------------------------- MODULE Isa ---------------------------------
(***************************************************************************)
(* The instructions of the virtual CPU (src/hardware/cpu.c) and its        *)
(* translated, protected accesses to RAM (src/hardware/memory.c), as       *)
(* operators: what an instruction makes of the registers r and the memory  *)
(* ram, and which interrupts it raises.  The modules Cpu and UserMachine   *)
(* say when this happens.                                                  *)
(* MAR, MDR and IR are left out: every cycle sets them before it uses them.*)
(***************************************************************************)
EXTENDS Words

CONSTANTS
  RAM_SIZE,
  Garbage,       \* what an uninitialised word may hold
  DmaAddresses,  \* where SDMAON may put a word (see the module Dma),
  DiskWords      \* and what it may find on the disk

Addresses == 0 .. RAM_SIZE - 1

ASSUME IsaAssumption ==
  /\ RAM_SIZE \in Nat \ {0}
  /\ Garbage \subseteq Int /\ DmaAddresses \subseteq Addresses
  /\ \A w \in DiskWords : w \in Int /\ IS_VALID_INSTRUCTION(w)

MODE_USER == 0
MODE_KERNEL == 1

Registers ==
  [AC : Int, pc : Int, cc : Int, mode : Int, RB : Int, RL : Int, RX : Int, SP : Int,
   interruptEnable : BOOLEAN, timerLimit : Nat, cyclesCounter : Nat]

-----------------------------------------------------------------------------
(*                     Memory accesses (memory.c)                          *)

(* Mutant: only the base is compared. *)
isBelowBase(r, a) == r.mode # MODE_KERNEL /\ a < r.RB

isProtectionViolation(r, a) == r.mode # MODE_KERNEL /\ (a < r.RB \/ a > r.RL)

getPhysicalAddress(r, a) == IF r.mode = MODE_KERNEL THEN a ELSE a + r.RB

Accessible(r, a) ==
  /\ ~isProtectionViolation(r, getPhysicalAddress(r, a))
  /\ getPhysicalAddress(r, a) \in Addresses

(* readMemory leaves the caller's variable alone when it fails.            *)
readMemory(r, ram, a, before) ==
  IF Accessible(r, a) THEN ram[getPhysicalAddress(r, a)] ELSE before

(* Mutant: the word is not looked at. *)
WritableAnyWord(r, a, w) == Accessible(r, a)

Writable(r, a, w) == IS_VALID_INSTRUCTION(w) /\ Accessible(r, a)

writeMemory(r, ram, a, w) ==
  IF Writable(r, a, w) THEN [ram EXCEPT ![getPhysicalAddress(r, a)] = w] ELSE ram

-----------------------------------------------------------------------------
(*                            Instructions (cpu.c)                         *)

(* value goes with an overflow (raiseInterruptRelated).                    *)
Outcome(r, ram, raises) == [r |-> r, ram |-> ram, raises |-> raises, value |-> 0]

Invalid(r, ram) == Outcome(r, ram, {"IC_INVALID_INSTR"})
BadAddress(r, ram) == Outcome(r, ram, {"IC_INVALID_ADDR"})

calculateEffectiveAddress(r, ins) ==
  IF ins.direction = 2 THEN ins.value + wordToInt(r.AC) ELSE ins.value

(* The operand, or what is raised instead of it.  An immediate operand     *)
(* sets the condition code.                                                *)
fetchOperand(r, ram, ins) ==
  LET a == calculateEffectiveAddress(r, ins)
  IN  CASE ins.direction = 1 ->
             [word |-> intToWord(ins.value), r |-> [r EXCEPT !.cc = CodeOf(ins.value)], raises |-> {}]
        [] ins.direction \in {0, 2} /\ Accessible(r, a) ->
             [word |-> ram[getPhysicalAddress(r, a)], r |-> r, raises |-> {}]
        [] ins.direction \in {0, 2} /\ ~Accessible(r, a) ->
             [word |-> 0, r |-> r, raises |-> {"IC_INVALID_ADDR"}]
        [] OTHER -> [word |-> 0, r |-> r, raises |-> {"IC_INVALID_INSTR"}]

executeArithmetic(r, ram, ins) ==
  LET operand == fetchOperand(r, ram, ins)
      a == wordToInt(r.AC)
      b == wordToInt(operand.word)
  IN  IF operand.raises # {} THEN Outcome(r, ram, operand.raises)
      ELSE IF ins.op = "DIVI" /\ b = 0 THEN Invalid([r EXCEPT !.cc = CC_OVERFLOW], ram)
      ELSE LET n == Result(ins.op, a, b)
           IN  [r |-> [r EXCEPT !.AC = ResultWord(ins.op, a, b), !.cc = CodeOf(n)], ram |-> ram,
                raises |-> IF TooBig(n) THEN {"IC_OVERFLOW"} ELSE {}, value |-> n]

executeComparison(r, ram, ins) ==
  LET operand == fetchOperand(r, ram, ins)
  IN  Outcome(IF operand.raises # {} THEN r
              ELSE [r EXCEPT !.cc = CodeOf(wordToInt(r.AC) - wordToInt(operand.word))],
              ram, operand.raises)

InAC(r, w) == [r EXCEPT !.AC = w, !.cc = FlagsOf(w)]

Store(r, ram, a) ==
  Outcome(r, writeMemory(r, ram, a, r.AC),
          IF Writable(r, a, r.AC) THEN {} ELSE {"IC_INVALID_ADDR"})

(* LOAD takes a word it could not read as it is.                           *)
Load(r, ram, ins) ==
  LET operand == fetchOperand(r, ram, ins)
  IN  IF operand.raises = {} THEN {Outcome(InAC(r, operand.word), ram, {})}
      ELSE {Outcome(InAC(r, w), ram, operand.raises \union {"IC_INVALID_ADDR"}) : w \in Garbage}

executeDataMovement(r, ram, ins) ==
  CASE ins.op = "STR" -> {IF ins.direction = 1 THEN Invalid(r, ram)
                          ELSE Store(r, ram, calculateEffectiveAddress(r, ins))}
    [] ins.op = "LOAD" -> Load(r, ram, ins)
    [] ins.op = "STRRX" -> {Outcome([r EXCEPT !.RX = r.AC], ram, {})}
    [] ins.op = "STRRB" -> {Outcome([r EXCEPT !.RB = r.AC], ram, {})}
    [] ins.op = "STRRL" -> {Outcome([r EXCEPT !.RL = r.AC], ram, {})}
    [] ins.op = "STRSP" -> {Store(r, ram, r.SP)}
    [] ins.op = "LOADRX" -> {Outcome(InAC(r, r.RX), ram, {})}
    [] ins.op = "LOADRB" -> {Outcome(InAC(r, r.RB), ram, {})}
    [] ins.op = "LOADRL" -> {Outcome(InAC(r, r.RL), ram, {})}
    [] ins.op = "LOADSP" -> {Outcome(InAC(r, readMemory(r, ram, r.SP, r.AC)), ram, {})}

(* The conditional jumps compare AC with the word on top of the stack.     *)
ShouldJump(op, ac, top) ==
  CASE op = "JMPE" -> ac = top [] op = "JMPNE" -> ac # top
    [] op = "JMPLT" -> ac < top [] op = "JMPLGT" -> ac > top [] op = "J" -> TRUE

executeBranching(r, ram, ins) ==
  IF ins.op # "J" /\ ~Accessible(r, r.SP) THEN BadAddress(r, ram)
  ELSE IF ShouldJump(ins.op, wordToInt(r.AC), wordToInt(readMemory(r, ram, r.SP, 0)))
    THEN Outcome([r EXCEPT !.pc = calculateEffectiveAddress(r, ins)], ram, {})
  ELSE Outcome(r, ram, {})

(* PSH stops at RX, POP at RL.                                             *)
executeStackManipulation(r, ram, ins) ==
  CASE ins.op = "PSH" -> IF r.SP - 1 < r.RX THEN BadAddress(r, ram)
                         ELSE Store([r EXCEPT !.SP = @ - 1], ram, r.SP - 1)
    [] ins.op = "POP" -> IF r.SP + r.RB >= r.RL THEN BadAddress(r, ram)
                         ELSE Outcome([InAC(r, readMemory(r, ram, r.SP, r.AC)) EXCEPT !.SP = @ + 1],
                                      ram, {})

executeReturn(r, ram) ==
  IF ~Accessible(r, r.SP) THEN BadAddress(r, ram)
  ELSE Outcome([r EXCEPT !.pc = wordToInt(readMemory(r, ram, r.SP, 0)), !.SP = @ + 1], ram, {})

(* A negative interval is converted to a huge unsigned one: the timer is   *)
(* as good as stopped.                                                     *)
executeTTI(r, ram, ins) ==
  LET operand == fetchOperand(r, ram, ins)
      interval == wordToInt(operand.word)
  IN  Outcome(IF operand.raises # {} THEN r
              ELSE [operand.r EXCEPT !.timerLimit = IF interval < 0 THEN 0 ELSE interval],
              ram, operand.raises)

executeCHMOD(r, ram, ins) ==
  IF ins.value \in {MODE_USER, MODE_KERNEL}
    THEN Outcome([r EXCEPT !.mode = ins.value], ram, {})
    ELSE Invalid(r, ram)

(* The memory a transfer leaves, if it comes to anything.                  *)
Transferred(ram) == {ram} \union {[ram EXCEPT ![a] = w] : a \in DmaAddresses, w \in DiskWords}

(* What the SDMA* instructions do to the CPU and to RAM; the DMA registers *)
(* are those of the module Dma.                                            *)
executeDMAInstruction(r, ram, ins) ==
  LET operand == fetchOperand(r, ram, ins)
      raises == IF operand.raises # {} THEN operand.raises \union {"IC_INVALID_ADDR"} ELSE {}
  IN  IF ins.op = "SDMAON"
        THEN {Outcome(operand.r, m, raises \union {"IC_IO_DONE"}) : m \in Transferred(ram)}
        ELSE {Outcome(operand.r, ram, raises)} \union
             {Outcome(operand.r, ram, operand.raises \union {fault}) :
                fault \in {"IC_INVALID_INSTR", "IC_INVALID_ADDR"}}

execute(r, ram, ins) ==
  CASE ins.op \in {"SUM", "RES", "MULT", "DIVI"} -> {executeArithmetic(r, ram, ins)}
    [] ins.op = "COMP" -> {executeComparison(r, ram, ins)}
    [] ins.op \in {"LOAD", "STR", "LOADRX", "STRRX", "LOADRB", "STRRB", "LOADRL", "STRRL",
                   "LOADSP", "STRSP"} -> executeDataMovement(r, ram, ins)
    [] ins.op \in {"J", "JMPE", "JMPNE", "JMPLT", "JMPLGT"} -> {executeBranching(r, ram, ins)}
    [] ins.op \in {"PSH", "POP"} -> {executeStackManipulation(r, ram, ins)}
    [] ins.op = "SVC" -> {Outcome(r, ram, {"IC_SYSCALL"})}
    [] ins.op = "RETRN" -> {executeReturn(r, ram)}
    [] ins.op = "HAB" -> {Outcome([r EXCEPT !.interruptEnable = TRUE], ram, {})}
    [] ins.op = "DHAB" -> {Outcome([r EXCEPT !.interruptEnable = FALSE], ram, {})}
    [] ins.op = "TTI" -> {executeTTI(r, ram, ins)}
    [] ins.op = "CHMOD" -> {executeCHMOD(r, ram, ins)}
    [] ins.op \in {"SDMAP", "SDMAC", "SDMAS", "SDMAIO", "SDMAM", "SDMAON"} ->
         executeDMAInstruction(r, ram, ins)
    [] OTHER -> {Invalid(r, ram)}

-----------------------------------------------------------------------------
(*                 cpuStep, up to the check of the interrupts              *)

TimerFires(r) == r.timerLimit > 0 /\ r.cyclesCounter + 1 >= r.timerLimit

Counted(r) == [r EXCEPT !.cyclesCounter = IF TimerFires(r) THEN 0 ELSE @ + 1]

Fetched(r, ram) == decode(ram[getPhysicalAddress(r, r.pc)])

(* The outcomes of a cycle whose fetch succeeds.                           *)
Cycle(r, ram) ==
  {[o EXCEPT !.r = Counted(@), !.raises = IF TimerFires(o.r) THEN @ \union {"IC_TIMER"} ELSE @] :
     o \in execute([r EXCEPT !.pc = @ + 1], ram, Fetched(r, ram))}
=============================================================================
