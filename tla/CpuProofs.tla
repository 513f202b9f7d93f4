----------------------------- MODULE CpuProofs ------------------------------
(***************************************************************************)
(* Proofs about Cpu, for every word size, memory, set of partitions and    *)
(* programs: the types, the fence around a partition, and that interrupts  *)
(* are transparent (Cpu implements UserMachine).                           *)
(***************************************************************************)
EXTENDS Cpu, TLAPS

(* The contents a memory may have. *)
Memories == {ram \in [Addresses -> Int] : \A a \in Addresses : Word(ram[a])}

Outcomes == [r : Registers, ram : Memories, raises : SUBSET Codes, value : Int]

-----------------------------------------------------------------------------
(*                                  Words                                  *)

(* The divisors used to take words apart are positive. *)
LEMMA Divisors ==
  /\ SIGN_BIT \in Int /\ SIGN_BIT > 0
  /\ SIGN_BIT \div 10 \in Int /\ SIGN_BIT \div 10 > 0
  /\ SIGN_BIT \div 100 \in Int /\ SIGN_BIT \div 100 > 0
BY WordsAssumption, SMT

(* Quotient and remainder are integers. *)
LEMMA DivisionType ==
  ASSUME NEW a \in Int, NEW b \in Int, b # 0
  PROVE  CQuotient(a, b) \in Int
<1>1. Abs(a) \in Int /\ Abs(b) \in Int /\ Abs(b) > 0
  BY DEF Abs
<1>2. Abs(a) \div Abs(b) \in Int
  BY <1>1, SMT
<1>. QED
  BY <1>2 DEF CQuotient

(* The remainder of C, whose sign is that of the dividend, is an integer. *)
LEMMA RemainderType ==
  ASSUME NEW a \in Int, NEW b \in Int, b > 0
  PROVE  CRemainder(a, b) \in Int
<1>1. a % b \in Int /\ (-a) % b \in Int
  BY SMT
<1>. QED
  BY <1>1 DEF CRemainder

(* A word denotes an integer. *)
LEMMA WordToIntType ==
  ASSUME NEW w \in Int
  PROVE  wordToInt(w) \in Int
BY Divisors, RemainderType DEF wordToInt

(* An integer has a word. *)
LEMMA IntToWordType ==
  ASSUME NEW n \in Int
  PROVE  intToWord(n) \in Int /\ Wrapped(n) \in Int
<1>1. ASSUME NEW m \in Int PROVE intToWord(m) \in Int
  <2>1. Abs(m) \in Int
    BY DEF Abs
  <2>2. Abs(m) % SIGN_BIT \in Int
    BY <2>1, Divisors, SMT
  <2>. QED
    BY <2>1, <2>2, Divisors DEF intToWord
<1>. QED
  BY <1>1, Divisors, RemainderType DEF Wrapped

(* The condition codes are integers. *)
LEMMA CodesType ==
  ASSUME NEW n \in Int
  PROVE  CodeOf(n) \in Int /\ FlagsOf(n) \in Int
BY DEF CodeOf, FlagsOf, CC_ZERO, CC_NEG, CC_POS, CC_OVERFLOW

(* An arithmetic instruction has a result, and a word for it, unless it divides by 0. *)
LEMMA ResultType ==
  ASSUME NEW op \in {"SUM", "RES", "MULT", "DIVI"}, NEW a \in Int, NEW b \in Int,
         op = "DIVI" => b # 0
  PROVE  Result(op, a, b) \in Int /\ ResultWord(op, a, b) \in Int
<1>1. Result(op, a, b) \in Int
  <2>1. CASE op = "DIVI"
    BY <2>1, DivisionType DEF Result
  <2>2. CASE op # "DIVI"
    BY <2>2, SMT DEF Result
  <2>. QED
    BY <2>1, <2>2
<1>. QED
  BY <1>1, Divisors, RemainderType, IntToWordType DEF ResultWord

(* What is fetched is taken for an instruction, whatever it is. *)
LEMMA DecodeType ==
  ASSUME NEW w \in Int
  PROVE  decode(w).direction \in Int /\ decode(w).value \in Int
<1>1. CQuotient(w, SIGN_BIT \div 100) \in Int
  BY Divisors, DivisionType
<1>. QED
  BY <1>1, Divisors, RemainderType DEF decode

-----------------------------------------------------------------------------
(*                                 Memory                                  *)

(* Reading and writing keep the types. *)
LEMMA ReadType ==
  ASSUME NEW r \in Registers, NEW ram \in Memories, NEW a \in Int, NEW before \in Int
  PROVE  readMemory(r, ram, a, before) \in Int
BY DEF readMemory, Accessible, Memories

LEMMA WriteType ==
  ASSUME NEW r \in Registers, NEW ram \in Memories, NEW a \in Int, NEW w \in Int
  PROVE  writeMemory(r, ram, a, w) \in Memories
BY DEF writeMemory, Writable, Accessible, Memories, Word

(* Fetching the operand keeps the types, and raises nothing but faults. *)
LEMMA OperandType ==
  ASSUME NEW r \in Registers, NEW ram \in Memories, NEW ins,
         ins.direction \in Int, ins.value \in Int
  PROVE  /\ calculateEffectiveAddress(r, ins) \in Int
         /\ fetchOperand(r, ram, ins).word \in Int
         /\ fetchOperand(r, ram, ins).r \in Registers
         /\ fetchOperand(r, ram, ins).raises \subseteq Faults
<1>1. wordToInt(r.AC) \in Int
  BY WordToIntType DEF Registers
<1>2. calculateEffectiveAddress(r, ins) \in Int
  BY <1>1 DEF calculateEffectiveAddress
<1>3. intToWord(ins.value) \in Int /\ [r EXCEPT !.cc = CodeOf(ins.value)] \in Registers
  BY IntToWordType, CodesType DEF Registers
<1>. DEFINE a == calculateEffectiveAddress(r, ins)
<1>4. Accessible(r, a) => ram[getPhysicalAddress(r, a)] \in Int
  BY DEF Accessible, Memories
<1>5. CASE ins.direction = 1
  BY <1>2, <1>3, <1>5 DEF fetchOperand, Faults
<1>6. CASE ins.direction \in {0, 2} /\ Accessible(r, a)
  BY <1>2, <1>4, <1>6 DEF fetchOperand, Faults
<1>7. CASE ins.direction \in {0, 2} /\ ~Accessible(r, a)
  BY <1>2, <1>7 DEF fetchOperand, Faults
<1>8. CASE ins.direction \notin {0, 1, 2}
  BY <1>2, <1>8 DEF fetchOperand, Faults
<1>. QED
  BY <1>5, <1>6, <1>7, <1>8

-----------------------------------------------------------------------------
(*                              Instructions                               *)

(* Registers stay registers when one of them changes. *)
LEMMA RegistersUpdate ==
  ASSUME NEW r \in Registers, NEW n \in Int
  PROVE  /\ [r EXCEPT !.cc = n] \in Registers /\ [r EXCEPT !.AC = n] \in Registers
         /\ [r EXCEPT !.pc = n] \in Registers /\ [r EXCEPT !.mode = n] \in Registers
         /\ [r EXCEPT !.RB = n] \in Registers /\ [r EXCEPT !.RL = n] \in Registers
         /\ [r EXCEPT !.RX = n] \in Registers /\ [r EXCEPT !.SP = n] \in Registers
         /\ [r EXCEPT !.interruptEnable = TRUE] \in Registers
         /\ [r EXCEPT !.interruptEnable = FALSE] \in Registers
         /\ InAC(r, n) \in Registers
BY CodesType DEF Registers, InAC

(* An outcome made of a register set, a memory and some interrupts. *)
LEMMA OutcomeType ==
  ASSUME NEW r \in Registers, NEW ram \in Memories, NEW raises, raises \subseteq Codes
  PROVE  Outcome(r, ram, raises) \in Outcomes
BY DEF Outcome, Outcomes

(* So are the outcomes of an instruction that is refused. *)
LEMMA FaultType ==
  ASSUME NEW r \in Registers, NEW ram \in Memories
  PROVE  Invalid(r, ram) \in Outcomes /\ BadAddress(r, ram) \in Outcomes
BY OutcomeType DEF Invalid, BadAddress, Codes, Faults

(* The arithmetic instructions keep the types. *)
LEMMA ArithmeticType ==
  ASSUME NEW r \in Registers, NEW ram \in Memories, NEW ins,
         ins.direction \in Int, ins.value \in Int, ins.op \in {"SUM", "RES", "MULT", "DIVI"}
  PROVE  executeArithmetic(r, ram, ins) \in Outcomes
<1>. DEFINE operand == fetchOperand(r, ram, ins)
            a == wordToInt(r.AC)
            b == wordToInt(operand.word)
            n == Result(ins.op, a, b)
            res == ResultWord(ins.op, a, b)
            code == CodeOf(n)
            done == [r |-> [r EXCEPT !.AC = res, !.cc = code], ram |-> ram,
                     raises |-> IF TooBig(n) THEN {"IC_OVERFLOW"} ELSE {}, value |-> n]
<1>1. operand.word \in Int /\ operand.raises \subseteq Codes
  BY OperandType DEF Codes
<1>2. a \in Int /\ b \in Int
  BY <1>1, WordToIntType DEF Registers
<1>3. CASE operand.raises # {}
  BY <1>1, <1>3, OutcomeType DEF executeArithmetic
<1>4. CASE operand.raises = {} /\ ins.op = "DIVI" /\ b = 0
  <2>1. [r EXCEPT !.cc = CC_OVERFLOW] \in Registers
    <3>1. CC_OVERFLOW \in Int
      BY DEF CC_OVERFLOW
    <3>. QED
      BY <3>1, RegistersUpdate
  <2>2. executeArithmetic(r, ram, ins) = Invalid([r EXCEPT !.cc = CC_OVERFLOW], ram)
    BY <1>4 DEF executeArithmetic
  <2>. QED
    BY <2>1, <2>2, FaultType
<1>5. CASE operand.raises = {} /\ ~(ins.op = "DIVI" /\ b = 0)
  <2>1. n \in Int /\ res \in Int
    BY <1>2, <1>5, ResultType
  <2>2. code \in Int
    BY <2>1, CodesType
  <2>3. executeArithmetic(r, ram, ins) = done
    BY <1>5 DEF executeArithmetic
  <2>. HIDE DEF n, res, code
  <2>4. [r EXCEPT !.AC = res, !.cc = code] \in Registers
    BY <2>1, <2>2 DEF Registers
  <2>. QED
    BY <2>1, <2>3, <2>4 DEF Outcomes, Codes
<1>. QED
  BY <1>3, <1>4, <1>5

(* So does COMP, *)
LEMMA ComparisonType ==
  ASSUME NEW r \in Registers, NEW ram \in Memories, NEW ins,
         ins.direction \in Int, ins.value \in Int
  PROVE  executeComparison(r, ram, ins) \in Outcomes
<1>. DEFINE operand == fetchOperand(r, ram, ins)
            code == CodeOf(wordToInt(r.AC) - wordToInt(operand.word))
<1>1. operand.word \in Int /\ operand.raises \subseteq Codes
  BY OperandType DEF Codes
<1>2. wordToInt(r.AC) \in Int /\ wordToInt(operand.word) \in Int
  BY <1>1, WordToIntType DEF Registers
<1>3. code \in Int
  BY <1>2, CodesType
<1>. HIDE DEF code
<1>4. [r EXCEPT !.cc = code] \in Registers
  BY <1>3, RegistersUpdate
<1>. QED
  BY <1>1, <1>4, OutcomeType DEF executeComparison, code

(* and writing AC to memory, whether or not it can be written, *)
LEMMA StoreType ==
  ASSUME NEW r \in Registers, NEW ram \in Memories, NEW a \in Int
  PROVE  Store(r, ram, a) \in Outcomes
<1>1. writeMemory(r, ram, a, r.AC) \in Memories
  BY WriteType DEF Registers
<1>. QED
  BY <1>1, OutcomeType DEF Store, Codes, Faults

(* and LOAD, also when it loads what nobody has initialised, *)
LEMMA LoadType ==
  ASSUME NEW r \in Registers, NEW ram \in Memories, NEW ins,
         ins.direction \in Int, ins.value \in Int
  PROVE  Load(r, ram, ins) \subseteq Outcomes
<1>. DEFINE operand == fetchOperand(r, ram, ins)
<1>1. operand.word \in Int /\ operand.raises \subseteq Codes
  BY OperandType DEF Codes
<1>2. \A w \in Int : InAC(r, w) \in Registers
  BY RegistersUpdate
<1>3. Outcome(InAC(r, operand.word), ram, {}) \in Outcomes
  BY <1>1, <1>2, OutcomeType
<1>4. \A w \in Garbage :
        Outcome(InAC(r, w), ram, operand.raises \union {"IC_INVALID_ADDR"}) \in Outcomes
  BY <1>1, <1>2, OutcomeType, IsaAssumption DEF Codes, Faults
<1>. QED
  BY <1>3, <1>4 DEF Load

DataMovements == {"STR", "LOAD", "LOADRX", "STRRX", "LOADRB", "STRRB", "LOADRL", "STRRL",
                  "LOADSP", "STRSP"}

(* and therefore the movements of data. *)
LEMMA DataMovementType ==
  ASSUME NEW r \in Registers, NEW ram \in Memories, NEW ins,
         ins.direction \in Int, ins.value \in Int, ins.op \in DataMovements
  PROVE  executeDataMovement(r, ram, ins) \subseteq Outcomes
<1>1. r.AC \in Int /\ r.RX \in Int /\ r.RB \in Int /\ r.RL \in Int /\ r.SP \in Int
  BY DEF Registers
<1>2. CASE ins.op = "STR"
  BY <1>2, OperandType, FaultType, StoreType DEF executeDataMovement
<1>3. CASE ins.op = "LOAD"
  BY <1>3, LoadType DEF executeDataMovement
<1>4. CASE ins.op = "STRSP"
  BY <1>1, <1>4, StoreType DEF executeDataMovement
<1>5. CASE ins.op = "LOADSP"
  <2>1. InAC(r, readMemory(r, ram, r.SP, r.AC)) \in Registers
    BY <1>1, ReadType, RegistersUpdate
  <2>2. Outcome(InAC(r, readMemory(r, ram, r.SP, r.AC)), ram, {}) \in Outcomes
    BY <2>1, OutcomeType
  <2>. QED
    BY <1>5, <2>2 DEF executeDataMovement
<1>6. CASE ins.op \in {"STRRX", "STRRB", "STRRL"}
  <2>1. /\ [r EXCEPT !.RX = r.AC] \in Registers /\ [r EXCEPT !.RB = r.AC] \in Registers
        /\ [r EXCEPT !.RL = r.AC] \in Registers
    BY <1>1, RegistersUpdate
  <2>2. /\ Outcome([r EXCEPT !.RX = r.AC], ram, {}) \in Outcomes
        /\ Outcome([r EXCEPT !.RB = r.AC], ram, {}) \in Outcomes
        /\ Outcome([r EXCEPT !.RL = r.AC], ram, {}) \in Outcomes
    BY <2>1, OutcomeType
  <2>. QED
    BY <1>6, <2>2 DEF executeDataMovement
<1>7. CASE ins.op \in {"LOADRX", "LOADRB", "LOADRL"}
  <2>1. /\ InAC(r, r.RX) \in Registers /\ InAC(r, r.RB) \in Registers
        /\ InAC(r, r.RL) \in Registers
    BY <1>1, RegistersUpdate
  <2>2. /\ Outcome(InAC(r, r.RX), ram, {}) \in Outcomes
        /\ Outcome(InAC(r, r.RB), ram, {}) \in Outcomes
        /\ Outcome(InAC(r, r.RL), ram, {}) \in Outcomes
    BY <2>1, OutcomeType
  <2>. QED
    BY <1>7, <2>2 DEF executeDataMovement
<1>. QED
  BY <1>2, <1>3, <1>4, <1>5, <1>6, <1>7 DEF DataMovements

(* The jumps keep the types, *)
LEMMA BranchingType ==
  ASSUME NEW r \in Registers, NEW ram \in Memories, NEW ins,
         ins.direction \in Int, ins.value \in Int
  PROVE  executeBranching(r, ram, ins) \in Outcomes
BY OperandType, FaultType, RegistersUpdate, OutcomeType DEF executeBranching

(* and so do PSH and POP, *)
LEMMA StackType ==
  ASSUME NEW r \in Registers, NEW ram \in Memories, NEW ins, ins.op \in {"PSH", "POP"}
  PROVE  executeStackManipulation(r, ram, ins) \in Outcomes
<1>1. r.SP \in Int /\ r.AC \in Int
  BY DEF Registers
<1>2. CASE ins.op = "PSH"
  <2>1. [r EXCEPT !.SP = @ - 1] \in Registers
    BY DEF Registers
  <2>. QED
    BY <1>1, <1>2, <2>1, FaultType, StoreType DEF executeStackManipulation
<1>3. CASE ins.op = "POP"
  <2>. DEFINE popped == InAC(r, readMemory(r, ram, r.SP, r.AC))
  <2>1. popped \in Registers
    BY <1>1, ReadType, RegistersUpdate
  <2>. HIDE DEF popped
  <2>2. [popped EXCEPT !.SP = @ + 1] \in Registers
    BY <2>1 DEF Registers
  <2>3. Outcome([popped EXCEPT !.SP = @ + 1], ram, {}) \in Outcomes
    BY <2>2, OutcomeType
  <2>. QED
    BY <1>3, <2>3, FaultType DEF executeStackManipulation, popped
<1>. QED
  BY <1>2, <1>3

(* RETRN, *)
LEMMA ReturnType ==
  ASSUME NEW r \in Registers, NEW ram \in Memories
  PROVE  executeReturn(r, ram) \in Outcomes
<1>. DEFINE n == wordToInt(readMemory(r, ram, r.SP, 0))
<1>1. n \in Int
  BY ReadType, WordToIntType DEF Registers
<1>. HIDE DEF n
<1>2. [r EXCEPT !.pc = n, !.SP = @ + 1] \in Registers
  <2>1. r.SP + 1 \in Int
    BY DEF Registers
  <2>2. [[r EXCEPT !.pc = n] EXCEPT !.SP = r.SP + 1] \in Registers
    BY <1>1, <2>1, RegistersUpdate
  <2>3. [[r EXCEPT !.pc = n] EXCEPT !.SP = r.SP + 1] = [r EXCEPT !.pc = n, !.SP = @ + 1]
    BY DEF Registers
  <2>. QED
    BY <2>2, <2>3
<1>. QED
  BY <1>2, FaultType, OutcomeType DEF executeReturn, n

(* TTI, *)
LEMMA TTIType ==
  ASSUME NEW r \in Registers, NEW ram \in Memories, NEW ins,
         ins.direction \in Int, ins.value \in Int
  PROVE  executeTTI(r, ram, ins) \in Outcomes
<1>. DEFINE operand == fetchOperand(r, ram, ins)
            interval == wordToInt(operand.word)
<1>1. operand.r \in Registers /\ interval \in Int /\ operand.raises \subseteq Codes
  BY OperandType, WordToIntType DEF Codes
<1>. HIDE DEF interval
<1>2. [operand.r EXCEPT !.timerLimit = IF interval < 0 THEN 0 ELSE interval] \in Registers
  BY <1>1 DEF Registers
<1>. QED
  BY <1>1, <1>2, OutcomeType DEF executeTTI, interval

(* CHMOD *)
LEMMA CHMODType ==
  ASSUME NEW r \in Registers, NEW ram \in Memories, NEW ins, ins.value \in Int
  PROVE  executeCHMOD(r, ram, ins) \in Outcomes
BY RegistersUpdate, FaultType, OutcomeType DEF executeCHMOD

(* and the instructions of the DMA. *)
LEMMA DMAType ==
  ASSUME NEW r \in Registers, NEW ram \in Memories, NEW ins,
         ins.direction \in Int, ins.value \in Int
  PROVE  executeDMAInstruction(r, ram, ins) \subseteq Outcomes
<1>. DEFINE operand == fetchOperand(r, ram, ins)
            raises == IF operand.raises # {} THEN operand.raises \union {"IC_INVALID_ADDR"} ELSE {}
<1>1. operand.r \in Registers /\ operand.raises \subseteq Faults
  BY OperandType
<1>2. /\ raises \subseteq Codes /\ raises \union {"IC_IO_DONE"} \subseteq Codes
      /\ \A fault \in {"IC_INVALID_INSTR", "IC_INVALID_ADDR"} :
           operand.raises \union {fault} \subseteq Codes
  BY <1>1 DEF Codes, Faults
<1>3. Transferred(ram) \subseteq Memories
  BY IsaAssumption DEF Transferred, Memories, Word
<1>. HIDE DEF raises
<1>4. \A i \in SUBSET Codes, m \in Memories : Outcome(operand.r, m, i) \in Outcomes
  BY <1>1, OutcomeType
<1>5. raises \union {"IC_IO_DONE"} \in SUBSET Codes
  BY <1>2
<1>6. CASE ins.op = "SDMAON"
  BY <1>3, <1>4, <1>5, <1>6 DEF executeDMAInstruction, raises
<1>7. CASE ins.op # "SDMAON"
  BY <1>2, <1>4, <1>7 DEF executeDMAInstruction, raises
<1>. QED
  BY <1>6, <1>7

-----------------------------------------------------------------------------
(*                             One instruction                             *)

(* Whatever word is fetched, executing it keeps the types. *)
LEMMA ExecuteType ==
  ASSUME NEW r \in Registers, NEW ram \in Memories, NEW ins,
         ins.direction \in Int, ins.value \in Int
  PROVE  execute(r, ram, ins) \subseteq Outcomes
<1>1. CASE ins.op \in {"SUM", "RES", "MULT", "DIVI"}
  BY <1>1, ArithmeticType DEF execute
<1>2. CASE ins.op = "COMP"
  BY <1>2, ComparisonType DEF execute
<1>3. CASE ins.op \in DataMovements
  <2>1. execute(r, ram, ins) = executeDataMovement(r, ram, ins)
    BY <1>3 DEF execute, DataMovements
  <2>. QED
    BY <1>3, <2>1, DataMovementType
<1>4. CASE ins.op \in {"J", "JMPE", "JMPNE", "JMPLT", "JMPLGT"}
  BY <1>4, BranchingType DEF execute
<1>5. CASE ins.op \in {"PSH", "POP"}
  BY <1>5, StackType DEF execute
<1>6. CASE ins.op = "SVC"
  <2>1. Outcome(r, ram, {"IC_SYSCALL"}) \in Outcomes
    BY OutcomeType DEF Codes
  <2>. QED
    BY <1>6, <2>1 DEF execute
<1>7. CASE ins.op = "RETRN"
  BY <1>7, ReturnType DEF execute
<1>8. CASE ins.op \in {"HAB", "DHAB"}
  <2>1. /\ Outcome([r EXCEPT !.interruptEnable = TRUE], ram, {}) \in Outcomes
        /\ Outcome([r EXCEPT !.interruptEnable = FALSE], ram, {}) \in Outcomes
    <3>1. 0 \in Int
      OBVIOUS
    <3>2. /\ [r EXCEPT !.interruptEnable = TRUE] \in Registers
          /\ [r EXCEPT !.interruptEnable = FALSE] \in Registers
      BY <3>1, RegistersUpdate
    <3>. QED
      BY <3>2, OutcomeType
  <2>. QED
    BY <1>8, <2>1 DEF execute
<1>9. CASE ins.op = "TTI"
  BY <1>9, TTIType DEF execute
<1>10. CASE ins.op = "CHMOD"
  BY <1>10, CHMODType DEF execute
<1>11. CASE ins.op \in {"SDMAP", "SDMAC", "SDMAS", "SDMAIO", "SDMAM", "SDMAON"}
  <2>1. execute(r, ram, ins) = executeDMAInstruction(r, ram, ins)
    BY <1>11 DEF execute
  <2>. QED
    BY <2>1, DMAType
<1>12. CASE ins.op \notin
         {"SUM", "RES", "MULT", "DIVI", "COMP", "J", "JMPE", "JMPNE", "JMPLT", "JMPLGT", "PSH",
          "POP", "SVC", "RETRN", "HAB", "DHAB", "TTI", "CHMOD", "SDMAP", "SDMAC", "SDMAS",
          "SDMAIO", "SDMAM", "SDMAON"} \union DataMovements
  <2>1. execute(r, ram, ins) = {Invalid(r, ram)}
    BY <1>12 DEF execute, DataMovements
  <2>. QED
    BY <2>1, FaultType
<1>. QED
  BY <1>1, <1>2, <1>3, <1>4, <1>5, <1>6, <1>7, <1>8, <1>9, <1>10, <1>11, <1>12

(* So does a cycle, the timer included. *)
LEMMA CycleType ==
  ASSUME NEW r \in Registers, NEW ram \in Memories, Accessible(r, r.pc)
  PROVE  Cycle(r, ram) \subseteq Outcomes
<1>. DEFINE ins == Fetched(r, ram)
            next == [r EXCEPT !.pc = @ + 1]
<1>1. ram[getPhysicalAddress(r, r.pc)] \in Int
  BY DEF Accessible, Memories
<1>2. ins.direction \in Int /\ ins.value \in Int
  BY <1>1, DecodeType DEF Fetched
<1>3. next \in Registers
  BY DEF Registers
<1>. HIDE DEF ins, next
<1>4. execute(next, ram, ins) \subseteq Outcomes
  BY <1>2, <1>3, ExecuteType
<1>5. \A o \in Outcomes :
        [o EXCEPT !.r = Counted(@), !.raises = IF TimerFires(o.r) THEN @ \union {"IC_TIMER"} ELSE @]
          \in Outcomes
  <2>1. TAKE o \in Outcomes
  <2>2. Counted(o.r) \in Registers
    BY DEF Outcomes, Registers, Counted
  <2>3. (IF TimerFires(o.r) THEN o.raises \union {"IC_TIMER"} ELSE o.raises) \subseteq Codes
    BY DEF Outcomes, Codes
  <2>. QED
    BY <2>2, <2>3 DEF Outcomes
<1>. QED
  BY <1>4, <1>5 DEF Cycle, ins, next

-----------------------------------------------------------------------------
(*                    Saving and restoring the context                     *)

(* The k-th word pushed is where the k-th word below SP is.                *)
LEMMA PlaceInFrame ==
  ASSUME NEW r \in Registers, NEW k \in Int
  PROVE  r.SP - (IF r.mode = MODE_KERNEL THEN getPhysicalAddress(r, r.SP - k)
                 ELSE getPhysicalAddress(r, r.SP - k) - r.RB) = k
BY DEF Registers, getPhysicalAddress

(* The registers that are saved are words, *)
LEMMA FrameType ==
  ASSUME CPU \in Registers, NEW k \in 1 .. 7
  PROVE  Frame[k] \in Int
BY DEF Frame, Registers

(* what is saved of them passed the test of writeMemory, *)
LEMMA SaveType ==
  ASSUME CPU \in Registers, RAM \in Memories
  PROVE  saveContext \in Memories
<1>. DEFINE place(a) == CPU.SP - (IF CPU.mode = MODE_KERNEL THEN a ELSE a - CPU.RB)
            taken(a) == \E k \in 1 .. 7 : Pushed(k) /\ a = getPhysicalAddress(CPU, CPU.SP - k)
            word(a) == IF taken(a) THEN Frame[place(a)] ELSE RAM[a]
<1>1. saveContext = [a \in Addresses |-> word(a)]
  BY DEF saveContext
<1>2. ASSUME NEW a \in Addresses PROVE word(a) \in Int /\ Word(word(a))
  <2>1. CASE taken(a)
    <3>1. PICK k \in 1 .. 7 : Pushed(k) /\ a = getPhysicalAddress(CPU, CPU.SP - k)
      BY <2>1
    <3>2. place(a) = k
      BY <3>1, PlaceInFrame
    <3>3. IS_VALID_INSTRUCTION(Frame[k])
      BY <3>1 DEF Pushed, Writable
    <3>. QED
      BY <2>1, <3>2, <3>3, FrameType DEF Word
  <2>2. CASE ~taken(a)
    BY <2>2 DEF Memories
  <2>. QED
    BY <2>1, <2>2
<1>. HIDE DEF word
<1>. QED
  BY <1>1, <1>2 DEF Memories

(* and what is restored, failing pops included, are words again.           *)
LEMMA RestoreType ==
  ASSUME NEW r \in Registers, NEW ram \in Memories, NEW ac \in Int
  PROVE  restoreContext(r, ram, ac) \in Registers
<1>. DEFINE pc == readMemory(r, ram, r.SP + 1, 0)
            cc == readMemory(r, ram, r.SP + 2, 0)
            mode == readMemory(r, ram, r.SP + 3, 0)
            user == [r EXCEPT !.AC = ac, !.pc = pc, !.cc = cc, !.mode = mode]
            rb == readMemory(user, ram, r.SP + 4, 0)
            based == [user EXCEPT !.RB = rb]
            rl == readMemory(based, ram, r.SP + 5, 0)
            fenced == [based EXCEPT !.RL = rl]
            rx == readMemory(fenced, ram, r.SP + 6, 0)
<1>1. r.SP \in Int
  BY DEF Registers
<1>2. pc \in Int /\ cc \in Int /\ mode \in Int
  BY <1>1, ReadType
<1>. HIDE DEF pc, cc, mode
<1>3. user \in Registers
  BY <1>2 DEF Registers
<1>. HIDE DEF user
<1>4. rb \in Int
  BY <1>1, <1>3, ReadType
<1>. HIDE DEF rb
<1>5. based \in Registers
  BY <1>3, <1>4, RegistersUpdate
<1>. HIDE DEF based
<1>6. rl \in Int
  BY <1>1, <1>5, ReadType
<1>. HIDE DEF rl
<1>7. fenced \in Registers
  BY <1>5, <1>6, RegistersUpdate
<1>. HIDE DEF fenced
<1>8. rx \in Int
  BY <1>1, <1>7, ReadType
<1>. HIDE DEF rx
<1>9. [fenced EXCEPT !.RX = rx, !.SP = r.SP + 7, !.interruptEnable = TRUE] \in Registers
  <2>1. r.SP + 7 \in Int
    BY <1>1
  <2>2. [[[fenced EXCEPT !.RX = rx] EXCEPT !.SP = r.SP + 7] EXCEPT !.interruptEnable = TRUE]
          \in Registers
    BY <1>7, <1>8, <2>1, RegistersUpdate
  <2>3. [fenced EXCEPT !.RX = rx, !.SP = r.SP + 7, !.interruptEnable = TRUE] =
          [[[fenced EXCEPT !.RX = rx] EXCEPT !.SP = r.SP + 7] EXCEPT !.interruptEnable = TRUE]
    OBVIOUS
  <2>. QED
    BY <2>2, <2>3
<1>. QED
  BY <1>9 DEF restoreContext, pc, cc, mode, user, rb, based, rl, fenced, rx

-----------------------------------------------------------------------------
(*                                  Types                                  *)

(* The word 0 is an instruction: memory that nothing was loaded into.      *)
LEMMA ZeroWord == IS_VALID_INSTRUCTION(0)
<1>1. Abs(0) \div Abs(SIGN_BIT \div 10) = 0
  BY Divisors, SMT DEF Abs
<1>. QED
  BY <1>1, Divisors DEF IS_VALID_INSTRUCTION, OpCode, CQuotient

(* The types hold when the processes have been created. *)
LEMMA InitType == Init => TypeOK
<1>. SUFFICES ASSUME Init PROVE TypeOK
  OBVIOUS
<1>1. PICK load \in [Processes -> UNION {Programs[p] : p \in Processes}] :
        /\ \A p \in Processes : load[p] \in Programs[p]
        /\ RAM = [a \in Addresses |-> Loaded(load, a)]
        /\ context = [p \in Processes |-> NewContext(p, Len(load[p]))]
  BY DEF Init
<1>2. ASSUME NEW a \in Addresses PROVE Loaded(load, a) \in Int /\ Word(Loaded(load, a))
  <2>1. CASE \E p \in Processes : a - Base[p] + 1 \in DOMAIN load[p]
    <3>1. PICK p \in Processes : /\ a - Base[p] + 1 \in DOMAIN load[p]
                                /\ Loaded(load, a) = load[p][a - Base[p] + 1]
      BY <2>1 DEF Loaded
    <3>2. load[p] \in Seq(Int)
      BY <1>1, CpuAssumption
    <3>3. load[p][a - Base[p] + 1] \in Int
      BY <3>1, <3>2
    <3>. QED
      BY <1>1, <3>1, <3>3 DEF Word
  <2>2. CASE ~\E p \in Processes : a - Base[p] + 1 \in DOMAIN load[p]
    BY <2>2, ZeroWord DEF Loaded, Word
  <2>. QED
    BY <2>1, <2>2
<1>3. RAM \in [Addresses -> Int] /\ \A a \in Addresses : Word(RAM[a])
  BY <1>1, <1>2
<1>4. ASSUME NEW p \in Processes PROVE NewContext(p, Len(load[p])) \in Registers
  <2>1. load[p] \in Seq(Int)
    BY <1>1, CpuAssumption
  <2>2. Len(load[p]) \in Int
    BY <2>1
  <2>3. Base[p] \in Int /\ Limit[p] \in Int
    BY CpuAssumption, IsaAssumption DEF Addresses
  <2>. QED
    BY <2>2, <2>3, CpuAssumption DEF NewContext, Registers, MODE_USER
<1>5. context \in [Processes -> Registers]
  BY <1>1, <1>4
<1>6. current \in Processes /\ CPU \in Registers
  BY <1>5 DEF Init
<1>7. interruptBitmap \subseteq Codes /\ interruptValue \in Int /\ steps \in 0 .. MaxSteps
  BY CpuAssumption DEF Init
<1>. QED
  BY <1>3, <1>5, <1>6, <1>7 DEF Init, TypeOK

(* A handler that answers false leaves the types alone, *)
LEMMA HaltType ==
  ASSUME TypeOK, NEW code \in Codes, Handle(code), Halt
  PROVE  TypeOK'
<1>1. CPU \in Registers /\ RAM \in Memories
  BY DEF TypeOK, Memories
<1>2. CPU' \in Registers
  <2>1. Saved \in Registers /\ 0 \in Int
    BY <1>1 DEF Saved, Registers
  <2>. HIDE DEF Saved
  <2>. QED
    BY <2>1, RegistersUpdate DEF Halt
<1>3. RAM' \in Memories
  BY <1>1, SaveType DEF Halt
<1>. QED
  BY <1>2, <1>3 DEF TypeOK, Handle, Halt, Memories, Word

(* and so does one that answers true, whatever it left on the stack.       *)
LEMMA ResumeType ==
  ASSUME TypeOK, NEW code \in Codes, Handle(code), NEW ram \in Memories, NEW ac \in Int,
         NEW next \in {"cycle", "switch"}, Resume(ram, ac, next)
  PROVE  TypeOK'
<1>1. Saved \in Registers
  BY DEF TypeOK, Saved, Registers
<1>2. CPU' \in Registers
  BY <1>1, RestoreType DEF Resume
<1>3. RAM' \in Memories
  BY DEF Resume
<1>4. phase = "check" /\ current \in alive
  BY DEF TypeOK, Handle
<1>. QED
  BY <1>2, <1>3, <1>4 DEF TypeOK, Handle, Resume, Memories, Word

(* The context and the AC in it, as the handlers find them. *)
LEMMA SavedType ==
  ASSUME TypeOK
  PROVE  /\ Saved \in Registers /\ saveContext \in Memories
         /\ \A ram \in Memories : SavedAC(ram) \in Int
         /\ wordToInt(Parameter) \in Int
<1>1. CPU \in Registers /\ RAM \in Memories
  BY DEF TypeOK, Memories
<1>2. Saved \in Registers /\ saveContext \in Memories
  BY <1>1, SaveType DEF Saved, Registers
<1>3. Saved.SP \in Int /\ Saved.SP + 7 \in Int
  BY <1>2 DEF Registers
<1>. HIDE DEF Saved
<1>4. \A ram \in Memories : SavedAC(ram) \in Int
  BY <1>2, <1>3, ReadType DEF SavedAC
<1>5. Parameter \in Int
  BY <1>2, <1>3, ReadType DEF Parameter
<1>. QED
  BY <1>2, <1>4, <1>5, WordToIntType

(* Every step keeps the types. *)
LEMMA NextType == TypeOK /\ [Next]_vars => TypeOK'
<1>. SUFFICES ASSUME TypeOK, [Next]_vars PROVE TypeOK'
  OBVIOUS
<1>1. CASE UNCHANGED vars
  BY <1>1 DEF TypeOK, vars, Word
<1>2. CASE FetchFails
  BY <1>2 DEF TypeOK, FetchFails, Word
<1>3. CASE Execute
  <2>1. CPU \in Registers /\ RAM \in Memories /\ Accessible(CPU, CPU.pc)
    BY <1>3 DEF TypeOK, Memories, Execute
  <2>2. PICK o \in Outcomes :
          /\ CPU' = o.r /\ RAM' = o.ram /\ interruptBitmap' = interruptBitmap \union o.raises
          /\ interruptValue' = IF "IC_OVERFLOW" \in o.raises THEN o.value ELSE interruptValue
    BY <1>3, <2>1, CycleType DEF Execute
  <2>3. CPU' \in Registers /\ RAM' \in Memories
    BY <2>2 DEF Outcomes
  <2>4. interruptBitmap' \subseteq Codes /\ interruptValue' \in Int
    BY <2>2 DEF Outcomes, TypeOK
  <2>5. steps' \in 0 .. MaxSteps
    BY <1>3, CpuAssumption DEF Execute, TypeOK
  <2>. QED
    BY <1>3, <2>3, <2>4, <2>5 DEF Execute, TypeOK, Memories, Word
<1>4. CASE NothingToHandle
  BY <1>4 DEF TypeOK, NothingToHandle, Word
<1>5. CASE HandleFault
  BY <1>5, HaltType DEF HandleFault, Codes
<1>6. CASE HandleOverflow
  <2>1. Wrapped(interruptValue) \in Int
    BY IntToWordType DEF TypeOK
  <2>. QED
    BY <1>6, <2>1, SavedType, ResumeType DEF HandleOverflow, Codes
<1>7. CASE HandleTimer
  BY <1>7, SavedType, ResumeType DEF HandleTimer, Codes
<1>8. CASE HandleIODone
  BY <1>8, SavedType, ResumeType DEF HandleIODone, Codes
<1>9. CASE SyscallHalt
  BY <1>9, HaltType DEF SyscallHalt, Codes
<1>10. CASE SyscallGoOn
  BY <1>10, SavedType, ResumeType DEF SyscallGoOn, Codes
<1>11. CASE SyscallSleep
  BY <1>11, SavedType, ResumeType DEF SyscallSleep, Codes
<1>12. CASE SyscallAgain
  <2>. DEFINE savedPc == wordToInt(readMemory(Saved, saveContext, Saved.SP + 1, 0))
              back == intToWord(savedPc - 1)
              ram == writeMemory(Saved, saveContext, Saved.SP + 1, back)
  <2>1. Saved.SP + 1 \in Int
    BY SavedType DEF Registers
  <2>2. savedPc \in Int
    BY <2>1, SavedType, ReadType, WordToIntType
  <2>3. back \in Int
    BY <2>2, IntToWordType
  <2>. HIDE DEF back
  <2>4. ram \in Memories
    BY <2>1, <2>3, SavedType, WriteType
  <2>5. Handle("IC_SYSCALL") /\ Resume(ram, SavedAC(ram), "switch")
    BY <1>12 DEF SyscallAgain, back
  <2>. HIDE DEF ram
  <2>. QED
    BY <2>4, <2>5, SavedType, ResumeType DEF Codes
<1>13. CASE SyscallRead
  <2>1. PICK n \in Inputs :
          Resume(writeMemory(Saved, saveContext, Saved.SP, intToWord(n)),
                 SavedAC(writeMemory(Saved, saveContext, Saved.SP, intToWord(n))), "cycle")
    BY <1>13 DEF SyscallRead
  <2>. DEFINE ram == writeMemory(Saved, saveContext, Saved.SP, intToWord(n))
  <2>2. intToWord(n) \in Int
    BY CpuAssumption, IntToWordType
  <2>3. Saved.SP \in Int
    BY SavedType DEF Registers
  <2>4. ram \in Memories
    BY <2>2, <2>3, SavedType, WriteType
  <2>5. Handle("IC_SYSCALL") /\ Resume(ram, SavedAC(ram), "cycle")
    BY <1>13, <2>1 DEF SyscallRead
  <2>. HIDE DEF ram
  <2>. QED
    BY <2>4, <2>5, SavedType, ResumeType DEF Codes
<1>14. CASE Switch
  <2>1. context' \in [Processes -> Registers]
    BY <1>14 DEF Switch, TypeOK
  <2>2. CPU' \in Registers /\ current' \in alive /\ current' \in Processes
    BY <1>14, <2>1 DEF Switch, TypeOK
  <2>. QED
    BY <1>14, <2>1, <2>2 DEF Switch, TypeOK, Word
<1>. QED
  BY <1>1, <1>2, <1>3, <1>4, <1>5, <1>6, <1>7, <1>8, <1>9, <1>10, <1>11, <1>12, <1>13, <1>14
     DEF Next, checkInterrupts

(* The registers, whatever is popped into them, stay registers; every word *)
(* of the RAM stays one that writeMemory lets through or a program was     *)
(* loaded with; and the process on the CPU is one that has not ended,      *)
(* until schedulerTick looks for another.                                  *)
THEOREM TypeCorrect == Spec => []TypeOK
BY InitType, NextType, PTL DEF Spec

-----------------------------------------------------------------------------
(*                                The fence                                *)

(* m differs from ram only between base and limit. *)
Within(r, ram, m) == \A a \in Addresses : m[a] # ram[a] => a \in r.RB .. r.RL

(* Outside kernel mode, what writeMemory changes is inside the fence. *)
LEMMA WriteFenced ==
  ASSUME NEW r \in Registers, NEW ram \in Memories, NEW a \in Int, NEW w \in Int,
         r.mode # MODE_KERNEL
  PROVE  Within(r, ram, writeMemory(r, ram, a, w))
<1>1. CASE Writable(r, a, w)
  <2>1. getPhysicalAddress(r, a) \in r.RB .. r.RL
    BY <1>1 DEF Writable, Accessible, isProtectionViolation, getPhysicalAddress, Registers
  <2>2. writeMemory(r, ram, a, w) = [ram EXCEPT ![getPhysicalAddress(r, a)] = w]
    BY <1>1 DEF writeMemory
  <2>. QED
    BY <2>1, <2>2 DEF Within, Memories
<1>2. CASE ~Writable(r, a, w)
  BY <1>2 DEF writeMemory, Within
<1>. QED
  BY <1>1, <1>2

(* AC is stored inside the fence. *)
LEMMA StoreFenced ==
  ASSUME NEW r \in Registers, NEW ram \in Memories, NEW a \in Int, r.mode # MODE_KERNEL
  PROVE  Within(r, ram, Store(r, ram, a).ram)
<1>1. r.AC \in Int
  BY DEF Registers
<1>. QED
  BY <1>1, WriteFenced DEF Store, Outcome

(* An instruction other than SDMAON stores inside the fence, or nowhere.   *)
LEMMA ExecuteFenced ==
  ASSUME NEW r \in Registers, NEW ram \in Memories, NEW ins,
         ins.direction \in Int, ins.value \in Int, ins.op # "SDMAON",
         r.mode # MODE_KERNEL, NEW o \in execute(r, ram, ins)
  PROVE  Within(r, ram, o.ram)
<1>1. r.SP \in Int /\ calculateEffectiveAddress(r, ins) \in Int
  BY OperandType DEF Registers
<1>2. CASE ins.op = "STR"
  <2>1. o \in {IF ins.direction = 1 THEN Invalid(r, ram)
               ELSE Store(r, ram, calculateEffectiveAddress(r, ins))}
    BY <1>2 DEF execute, executeDataMovement
  <2>. QED
    BY <1>1, <2>1, StoreFenced DEF Invalid, Outcome, Within
<1>3. CASE ins.op = "STRSP"
  <2>1. o = Store(r, ram, r.SP)
    BY <1>3 DEF execute, executeDataMovement
  <2>. QED
    BY <1>1, <2>1, StoreFenced
<1>4. CASE ins.op = "PSH"
  <2>. DEFINE pushed == [r EXCEPT !.SP = @ - 1]
  <2>1. pushed \in Registers
    BY DEF Registers
  <2>2. pushed.mode = r.mode /\ pushed.RB = r.RB /\ pushed.RL = r.RL
    BY DEF Registers
  <2>3. o = BadAddress(r, ram) \/ o = Store(pushed, ram, r.SP - 1)
    BY <1>4 DEF execute, executeStackManipulation
  <2>. HIDE DEF pushed
  <2>4. Within(pushed, ram, Store(pushed, ram, r.SP - 1).ram)
    BY <1>1, <2>1, <2>2, StoreFenced
  <2>. QED
    BY <2>2, <2>3, <2>4 DEF Within, BadAddress, Outcome
<1>5. CASE ins.op \in DataMovements \ {"STR", "STRSP", "LOAD"}
  <2>1. o \in executeDataMovement(r, ram, ins)
    BY <1>5 DEF execute, DataMovements
  <2>2. o.ram = ram
    BY <1>5, <2>1 DEF executeDataMovement, DataMovements, Outcome
  <2>. QED
    BY <2>2 DEF Within
<1>6. CASE ins.op = "LOAD"
  <2>1. o \in Load(r, ram, ins)
    BY <1>6 DEF execute, executeDataMovement
  <2>2. o.ram = ram
    BY <2>1 DEF Load, Outcome
  <2>. QED
    BY <2>2 DEF Within
<1>7. CASE ins.op \in {"SUM", "RES", "MULT", "DIVI"}
  <2>1. o = executeArithmetic(r, ram, ins)
    BY <1>7 DEF execute
  <2>2. o.ram = ram
    BY <2>1 DEF executeArithmetic, Invalid, Outcome
  <2>. QED
    BY <2>2 DEF Within
<1>8. CASE ins.op \in {"SDMAP", "SDMAC", "SDMAS", "SDMAIO", "SDMAM"}
  <2>1. o \in executeDMAInstruction(r, ram, ins)
    BY <1>8 DEF execute
  <2>2. o.ram = ram
    BY <1>8, <2>1 DEF executeDMAInstruction, Outcome
  <2>. QED
    BY <2>2 DEF Within
<1>9. CASE ins.op \in {"J", "JMPE", "JMPNE", "JMPLT", "JMPLGT"}
  <2>1. o = executeBranching(r, ram, ins)
    BY <1>9 DEF execute
  <2>2. o.ram = ram
    BY <2>1 DEF executeBranching, BadAddress, Outcome
  <2>. QED
    BY <2>2 DEF Within
<1>10. CASE ins.op \in {"COMP", "POP", "RETRN", "TTI", "CHMOD"}
  <2>2. /\ executeComparison(r, ram, ins).ram = ram /\ executeReturn(r, ram).ram = ram
        /\ executeTTI(r, ram, ins).ram = ram /\ executeCHMOD(r, ram, ins).ram = ram
        /\ ins.op = "POP" => executeStackManipulation(r, ram, ins).ram = ram
    BY DEF executeComparison, executeStackManipulation, executeReturn, executeTTI, executeCHMOD,
           BadAddress, Invalid, Outcome
  <2>3. o.ram = ram
    BY <1>10, <2>2 DEF execute
  <2>. QED
    BY <2>3 DEF Within
<1>11. CASE ins.op \in {"SVC", "HAB", "DHAB"}
  <2>1. o.ram = ram
    BY <1>11 DEF execute, Outcome
  <2>. QED
    BY <2>1 DEF Within
<1>12. CASE ins.op \notin
         {"SUM", "RES", "MULT", "DIVI", "COMP", "J", "JMPE", "JMPNE", "JMPLT", "JMPLGT", "PSH",
          "POP", "SVC", "RETRN", "HAB", "DHAB", "TTI", "CHMOD", "SDMAP", "SDMAC", "SDMAS",
          "SDMAIO", "SDMAM", "SDMAON"} \union DataMovements
  <2>1. o = Invalid(r, ram)
    BY <1>12 DEF execute, DataMovements
  <2>. QED
    BY <2>1 DEF Invalid, Outcome, Within
<1>. QED
  BY <1>2, <1>3, <1>4, <1>5, <1>6, <1>7, <1>8, <1>9, <1>10, <1>11, <1>12 DEF DataMovements

(* The context is saved inside the fence. *)
LEMMA SaveFenced ==
  ASSUME CPU \in Registers, RAM \in Memories, CPU.mode # MODE_KERNEL
  PROVE  Within(CPU, RAM, saveContext)
<1>. SUFFICES ASSUME NEW a \in Addresses, saveContext[a] # RAM[a]
              PROVE  a \in CPU.RB .. CPU.RL
  BY DEF Within
<1>1. PICK k \in 1 .. 7 : Pushed(k) /\ a = getPhysicalAddress(CPU, CPU.SP - k)
  BY DEF saveContext
<1>. QED
  BY <1>1 DEF Pushed, Writable, Accessible, isProtectionViolation, Registers, Addresses

(* So is what a service writes over the saved context. *)
LEMMA OverwriteFenced ==
  ASSUME CPU \in Registers, RAM \in Memories, CPU.mode # MODE_KERNEL,
         Saved \in Registers, saveContext \in Memories, NEW a \in Int, NEW w \in Int
  PROVE  Within(CPU, RAM, writeMemory(Saved, saveContext, a, w))
<1>1. Saved.mode = CPU.mode /\ Saved.RB = CPU.RB /\ Saved.RL = CPU.RL
  BY DEF Saved, Registers
<1>. HIDE DEF Saved
<1>2. Within(Saved, saveContext, writeMemory(Saved, saveContext, a, w))
  BY <1>1, WriteFenced
<1>. QED
  BY <1>1, <1>2, SaveFenced DEF Within

(* No step writes outside the fence. *)
LEMMA NextFenced ==
  ASSUME TypeOK, Next, CPU.mode # MODE_KERNEL, ~Transfers
  PROVE  Within(CPU, RAM, RAM')
<1>1. CPU \in Registers /\ RAM \in Memories
  BY DEF TypeOK, Memories
<1>2. Saved \in Registers /\ saveContext \in Memories /\ Within(CPU, RAM, saveContext)
  BY <1>1, SavedType, SaveFenced
<1>3. CASE Execute
  <2>. DEFINE next == [CPU EXCEPT !.pc = @ + 1]
              ins == Fetched(CPU, RAM)
  <2>1. RAM[getPhysicalAddress(CPU, CPU.pc)] \in Int
    BY <1>1, <1>3 DEF Execute, Accessible, Memories
  <2>2. ins.direction \in Int /\ ins.value \in Int /\ ins.op # "SDMAON"
    BY <1>3, <2>1, DecodeType DEF Fetched, Execute, Transfers
  <2>3. next \in Registers /\ next.mode = CPU.mode /\ next.RB = CPU.RB /\ next.RL = CPU.RL
    BY <1>1 DEF Registers
  <2>4. PICK c \in Cycle(CPU, RAM) : RAM' = c.ram
    BY <1>3 DEF Execute
  <2>5. PICK o \in execute(next, RAM, ins) : c.ram = o.ram
    <3>1. PICK o \in execute(next, RAM, ins) :
            c = [o EXCEPT !.r = Counted(@),
                          !.raises = IF TimerFires(o.r) THEN @ \union {"IC_TIMER"} ELSE @]
      BY <2>4 DEF Cycle
    <3>2. o \in Outcomes
      BY <1>1, <2>2, <2>3, ExecuteType
    <3>. QED
      BY <3>1, <3>2 DEF Outcomes
  <2>. HIDE DEF next, ins
  <2>6. Within(next, RAM, o.ram)
    BY <1>1, <2>2, <2>3, <2>5, ExecuteFenced
  <2>. QED
    BY <2>3, <2>4, <2>5, <2>6 DEF Within
<1>4. CASE UNCHANGED RAM
  BY <1>4 DEF Within
<1>5. CASE RAM' = saveContext
  BY <1>2, <1>5
<1>6. CASE SyscallAgain
  <2>. DEFINE back == intToWord(wordToInt(readMemory(Saved, saveContext, Saved.SP + 1, 0)) - 1)
  <2>1. Saved.SP + 1 \in Int
    BY <1>2 DEF Registers
  <2>2. back \in Int
    <3>1. wordToInt(readMemory(Saved, saveContext, Saved.SP + 1, 0)) \in Int
      BY <1>2, <2>1, ReadType, WordToIntType
    <3>. QED
      BY <3>1, IntToWordType
  <2>3. RAM' = writeMemory(Saved, saveContext, Saved.SP + 1, back)
    BY <1>6 DEF SyscallAgain, Resume
  <2>. HIDE DEF back
  <2>. QED
    BY <1>1, <1>2, <2>1, <2>2, <2>3, OverwriteFenced
<1>7. CASE SyscallRead
  <2>1. PICK n \in Inputs : RAM' = writeMemory(Saved, saveContext, Saved.SP, intToWord(n))
    BY <1>7 DEF SyscallRead, Resume
  <2>2. Saved.SP \in Int /\ intToWord(n) \in Int
    BY <1>2, CpuAssumption, IntToWordType DEF Registers
  <2>. QED
    BY <1>1, <1>2, <2>1, <2>2, OverwriteFenced
<1>8. CASE FetchFails \/ NothingToHandle \/ Switch
  BY <1>4, <1>8 DEF FetchFails, NothingToHandle, Switch
<1>9. CASE HandleFault \/ HandleOverflow \/ HandleTimer \/ HandleIODone \/ SyscallHalt
           \/ SyscallGoOn \/ SyscallSleep
  BY <1>5, <1>9 DEF HandleFault, HandleOverflow, HandleTimer, HandleIODone, SyscallHalt,
     SyscallGoOn, SyscallSleep, Halt, Resume
<1>. QED
  BY <1>3, <1>6, <1>7, <1>8, <1>9 DEF Next, checkInterrupts

(* Memory protection: as long as the CPU is not in kernel mode, no         *)
(* instruction but SDMAON, and no saving of a context, changes a word      *)
(* outside RB .. RL.                                                       *)
THEOREM Protection == Spec => WritesFenced
<1>. DEFINE fenced == CPU.mode # MODE_KERNEL /\ ~Transfers =>
                        \A a \in Addresses : RAM'[a] # RAM[a] => a \in CPU.RB .. CPU.RL
<1>1. TypeOK /\ [Next]_vars => [fenced]_vars
  BY NextFenced DEF Within
<1>. QED
  BY <1>1, TypeCorrect, PTL DEF Spec, WritesFenced

-----------------------------------------------------------------------------
(*                          Exact arithmetic                               *)

(* A number that fits comes back from its word, negative zero or not.      *)
LEMMA RoundTrip ==
  ASSUME NEW n \in Int, ~TooBig(n)
  PROVE  wordToInt(intToWord(n)) = n
<1>1. Abs(n) \in Nat /\ Abs(n) < SIGN_BIT /\ SIGN_BIT \in Nat
  BY Divisors DEF TooBig, MAX_MAGNITUDE, Abs
<1>2. Abs(n) % SIGN_BIT = Abs(n) /\ (Abs(n) + SIGN_BIT) % SIGN_BIT = Abs(n)
  BY <1>1, SMT
<1>3. CASE n < 0
  <2>1. intToWord(n) = Abs(n) + SIGN_BIT
    BY <1>3 DEF intToWord, Abs
  <2>2. wordToInt(intToWord(n)) = -Abs(n)
    BY <1>1, <1>2, <2>1 DEF wordToInt, IS_NEGATIVE, CRemainder
  <2>. QED
    BY <1>3, <2>2 DEF Abs
<1>4. CASE n >= 0
  BY <1>1, <1>2, <1>4 DEF intToWord, wordToInt, IS_NEGATIVE, CRemainder, Abs
<1>. QED
  BY <1>3, <1>4

(* Cutting a product that fits, before the conversion, changes nothing.    *)
LEMMA CutOfSmall ==
  ASSUME NEW n \in Int, ~TooBig(n)
  PROVE  CRemainder(n, SIGN_BIT) = n
<1>1. Abs(n) \in Nat /\ Abs(n) < SIGN_BIT /\ SIGN_BIT \in Nat
  BY Divisors DEF TooBig, MAX_MAGNITUDE, Abs
<1>2. Abs(n) % SIGN_BIT = Abs(n)
  BY <1>1, SMT
<1>. QED
  BY <1>2 DEF CRemainder, Abs

(* The numbers that are too big are those outside the range of a word, and *)
(* the condition code says so.                                             *)
LEMMA TooBigCode ==
  ASSUME NEW n \in Int
  PROVE  /\ TooBig(n) <=> n \notin -MAX_MAGNITUDE .. MAX_MAGNITUDE
         /\ CodeOf(n) = CC_OVERFLOW <=> TooBig(n)
BY Divisors DEF TooBig, CodeOf, Abs, MAX_MAGNITUDE, CC_OVERFLOW, CC_ZERO, CC_NEG, CC_POS

(* What Exact says of the next state, of the outcome of an instruction.    *)
ExactOutcome(o, n) ==
  IF TooBig(n) THEN o.r.cc = CC_OVERFLOW /\ "IC_OVERFLOW" \in o.raises
               ELSE wordToInt(o.r.AC) = n /\ o.r.cc # CC_OVERFLOW

(* Sum, difference and product are exact, or an overflow.                  *)
LEMMA ArithmeticOutcome ==
  ASSUME NEW r \in Registers, NEW ram \in Memories, NEW ins,
         ins.direction \in Int, ins.value \in Int, ins.op \in {"SUM", "RES", "MULT"},
         fetchOperand(r, ram, ins).raises = {}
  PROVE  ExactOutcome(executeArithmetic(r, ram, ins),
           Result(ins.op, wordToInt(r.AC), wordToInt(fetchOperand(r, ram, ins).word)))
<1>. DEFINE a == wordToInt(r.AC)
            b == wordToInt(fetchOperand(r, ram, ins).word)
            n == Result(ins.op, a, b)
            res == ResultWord(ins.op, a, b)
            code == CodeOf(n)
<1>1. n \in Int
  <2>1. a \in Int /\ b \in Int
    BY OperandType, WordToIntType DEF Registers
  <2>. QED
    BY <2>1, ResultType
<1>2. executeArithmetic(r, ram, ins) =
        [r |-> [r EXCEPT !.AC = res, !.cc = code], ram |-> ram,
         raises |-> IF TooBig(n) THEN {"IC_OVERFLOW"} ELSE {}, value |-> n]
  BY DEF executeArithmetic
<1>3. ~TooBig(n) => wordToInt(res) = n
  BY <1>1, RoundTrip, CutOfSmall DEF ResultWord
<1>4. code = CC_OVERFLOW <=> TooBig(n)
  BY <1>1, TooBigCode
<1>. HIDE DEF n, res, code
<1>5. executeArithmetic(r, ram, ins).r.AC = res /\ executeArithmetic(r, ram, ins).r.cc = code
  <2>1. executeArithmetic(r, ram, ins).r = [r EXCEPT !.AC = res, !.cc = code]
    BY <1>2
  <2>. QED
    BY <2>1 DEF Registers
<1>6. executeArithmetic(r, ram, ins).raises = IF TooBig(n) THEN {"IC_OVERFLOW"} ELSE {}
  BY <1>2
<1>7. ExactOutcome(executeArithmetic(r, ram, ins), n)
  BY <1>3, <1>4, <1>5, <1>6 DEF ExactOutcome
<1>. QED
  BY <1>7 DEF n

(* The operand does not depend on the program counter, *)
LEMMA OperandOfNext ==
  ASSUME NEW r \in Registers, NEW ram, NEW ins
  PROVE  LET next == [r EXCEPT !.pc = @ + 1]
         IN  /\ fetchOperand(next, ram, ins).raises = fetchOperand(r, ram, ins).raises
             /\ fetchOperand(next, ram, ins).word = fetchOperand(r, ram, ins).word
             /\ next.AC = r.AC
<1>. DEFINE next == [r EXCEPT !.pc = @ + 1]
<1>1. next.AC = r.AC /\ next.mode = r.mode /\ next.RB = r.RB /\ next.RL = r.RL
  BY DEF Registers
<1>. HIDE DEF next
<1>2. calculateEffectiveAddress(next, ins) = calculateEffectiveAddress(r, ins)
  BY <1>1 DEF calculateEffectiveAddress
<1>3. \A a : /\ Accessible(next, a) <=> Accessible(r, a)
             /\ getPhysicalAddress(next, a) = getPhysicalAddress(r, a)
  BY <1>1 DEF Accessible, isProtectionViolation, getPhysicalAddress
<1>4. /\ fetchOperand(next, ram, ins).raises = fetchOperand(r, ram, ins).raises
      /\ fetchOperand(next, ram, ins).word = fetchOperand(r, ram, ins).word
  BY <1>2, <1>3 DEF fetchOperand
<1>. QED
  BY <1>1, <1>4 DEF next

(* nor its result on the timer, which counts the cycle afterwards.         *)
LEMMA CountedKeeps ==
  ASSUME NEW r \in Registers
  PROVE  Counted(r).AC = r.AC /\ Counted(r).cc = r.cc
BY DEF Counted, Registers

(* Every sum, difference and product is exact or is an overflow, which is  *)
(* raised; also with a negative zero, at the greatest magnitude, and when  *)
(* the product is cut before it is looked at.                              *)
LEMMA ExecuteExact ==
  ASSUME TypeOK, Execute, Fetched(CPU, RAM).op \in {"SUM", "RES", "MULT"}, Operand.raises = {}
  PROVE  Exact(Result(Fetched(CPU, RAM).op, wordToInt(CPU.AC), wordToInt(Operand.word)))
<1>. DEFINE next == [CPU EXCEPT !.pc = @ + 1]
            ins == Fetched(CPU, RAM)
            n == Result(ins.op, wordToInt(CPU.AC), wordToInt(Operand.word))
            o == executeArithmetic(next, RAM, ins)
<1>1. CPU \in Registers /\ RAM \in Memories /\ next \in Registers
  BY DEF TypeOK, Memories, Registers
<1>2. ins.direction \in Int /\ ins.value \in Int
  <2>1. RAM[getPhysicalAddress(CPU, CPU.pc)] \in Int
    BY <1>1 DEF Execute, Accessible, Memories
  <2>. QED
    BY <2>1, DecodeType DEF Fetched
<1>3. /\ fetchOperand(next, RAM, ins).raises = {}
      /\ fetchOperand(next, RAM, ins).word = Operand.word
      /\ next.AC = CPU.AC
  BY <1>1, OperandOfNext DEF Operand
<1>4. n \in Int
  <2>1. wordToInt(CPU.AC) \in Int /\ wordToInt(Operand.word) \in Int
    BY <1>1, <1>2, OperandType, WordToIntType DEF Operand, Registers
  <2>. QED
    BY <2>1, ResultType
<1>5. ins.op \in {"SUM", "RES", "MULT", "DIVI"} /\ execute(next, RAM, ins) = {o}
  BY DEF execute
<1>6. o \in Outcomes
  BY <1>1, <1>2, <1>5, ArithmeticType
<1>7. ExactOutcome(o, n)
  BY <1>1, <1>2, <1>3, ArithmeticOutcome
<1>. HIDE DEF next, n, o
<1>8. PICK c \in Cycle(CPU, RAM) : CPU' = c.r /\ interruptBitmap' = interruptBitmap \union c.raises
  BY DEF Execute
<1>9. c = [o EXCEPT !.r = Counted(@),
                    !.raises = IF TimerFires(o.r) THEN @ \union {"IC_TIMER"} ELSE @]
  BY <1>5, <1>8 DEF Cycle, next
<1>10. CPU'.AC = o.r.AC /\ CPU'.cc = o.r.cc /\ o.raises \subseteq interruptBitmap'
  <2>1. c.r = Counted(o.r) /\ o.raises \subseteq c.raises /\ o.r \in Registers
    BY <1>6, <1>9 DEF Outcomes
  <2>. QED
    BY <1>8, <2>1, CountedKeeps
<1>11. Exact(n)
  BY <1>4, <1>7, <1>10, TooBigCode DEF Exact, ExactOutcome
<1>. QED
  BY <1>11 DEF n

(* The arithmetic of programs is exact or reported, for every word size.   *)
THEOREM ArithmeticCorrect == Spec => ArithmeticExact
<1>. DEFINE a == wordToInt(CPU.AC)
            b == wordToInt(Operand.word)
            op == Fetched(CPU, RAM).op
            exact == Execute /\ op \in {"SUM", "RES", "MULT"} /\ Operand.raises = {} =>
                       Exact(CASE op = "SUM" -> a + b [] op = "RES" -> a - b [] op = "MULT" -> a * b)
<1>1. TypeOK /\ [Next]_vars => [exact]_vars
  <2>1. op \in {"SUM", "RES", "MULT"} =>
          Result(op, a, b) = CASE op = "SUM" -> a + b [] op = "RES" -> a - b [] op = "MULT" -> a * b
    BY DEF Result
  <2>. QED
    BY <2>1, ExecuteExact
<1>. QED
  BY <1>1, TypeCorrect, PTL DEF Spec, ArithmeticExact

-----------------------------------------------------------------------------
(*                              The refinement                             *)

(* The registers of the processes, wherever they are kept. *)
Regs == [p \in alive |-> IF p = current THEN CPU ELSE context[p]]

(* m differs from the RAM only where the context is saved. *)
Below(m) ==
  DOMAIN m = Addresses /\ \A a \in Addresses \ Machine!Frame(CPU) : m[a] = RAM[a]

(* The context is saved below the stack and nowhere else. *)
LEMMA SaveBelow ==
  ASSUME RAM \in Memories
  PROVE  Below(saveContext)
BY DEF Below, saveContext, Machine!Frame

(* When it fits, its words are where they have been pushed. *)
LEMMA SavedFrame ==
  ASSUME CPU \in Registers, Machine!Room(CPU), NEW k \in 1 .. 7
  PROVE  saveContext[getPhysicalAddress(CPU, CPU.SP - k)] = Frame[k]
<1>1. IS_VALID_INSTRUCTION(Frame[k])
  BY DEF Machine!Room, Frame
<1>2. Pushed(k)
  BY <1>1 DEF Machine!Room, Pushed, Writable
<1>3. getPhysicalAddress(CPU, CPU.SP - k) \in Addresses
  BY DEF Machine!Room, Accessible
<1>. DEFINE a == getPhysicalAddress(CPU, CPU.SP - k)
<1>4. CPU.SP - (IF CPU.mode = MODE_KERNEL THEN a ELSE a - CPU.RB) = k
  BY PlaceInFrame
<1>. HIDE DEF a
<1>5. \E j \in 1 .. 7 : Pushed(j) /\ a = getPhysicalAddress(CPU, CPU.SP - j)
  BY <1>2 DEF a
<1>. QED
  BY <1>3, <1>4, <1>5 DEF saveContext, a

(* Popping a context whose mode, base and limit are untouched gives the    *)
(* registers back, but for AC and the program counter, which may have been *)
(* overwritten. *)
LEMMA RestoreFrame ==
  ASSUME CPU \in Registers, Machine!Room(CPU), CPU.interruptEnable, NEW ram, NEW ac,
         \A k \in 1 .. 5 : ram[getPhysicalAddress(CPU, CPU.SP - k)] = Frame[k]
  PROVE  restoreContext(Saved, ram, ac) =
           [CPU EXCEPT !.AC = ac, !.pc = ram[getPhysicalAddress(CPU, CPU.SP - 6)]]
<1>. DEFINE at(k) == getPhysicalAddress(CPU, CPU.SP - k)
<1>1. /\ Saved.SP + 1 = CPU.SP - 6 /\ Saved.SP + 2 = CPU.SP - 5 /\ Saved.SP + 3 = CPU.SP - 4
      /\ Saved.SP + 4 = CPU.SP - 3 /\ Saved.SP + 5 = CPU.SP - 2 /\ Saved.SP + 6 = CPU.SP - 1
      /\ Saved.SP + 7 = CPU.SP
  BY DEF Saved, Registers
<1>2. ASSUME NEW r, r.mode = CPU.mode, r.RB = CPU.RB, r.RL = CPU.RL, NEW k \in 1 .. 7
      PROVE  readMemory(r, ram, CPU.SP - k, 0) = ram[at(k)]
  <2>1. Accessible(r, CPU.SP - k)
    BY <1>2 DEF Machine!Room, Accessible, isProtectionViolation, getPhysicalAddress
  <2>. QED
    BY <1>2, <2>1 DEF readMemory, getPhysicalAddress
<1>3. /\ ram[at(1)] = CPU.RX /\ ram[at(2)] = CPU.RL /\ ram[at(3)] = CPU.RB
      /\ ram[at(4)] = CPU.mode /\ ram[at(5)] = CPU.cc
  BY DEF Frame
<1>. HIDE DEF at
<1>4. Saved.mode = CPU.mode /\ Saved.RB = CPU.RB /\ Saved.RL = CPU.RL
  BY DEF Saved, Registers
<1>. DEFINE user == [Saved EXCEPT !.AC = ac, !.pc = ram[at(6)], !.cc = CPU.cc, !.mode = CPU.mode]
            based == [user EXCEPT !.RB = CPU.RB]
            fenced == [based EXCEPT !.RL = CPU.RL]
<1>5. /\ readMemory(Saved, ram, Saved.SP + 1, 0) = ram[at(6)]
      /\ readMemory(Saved, ram, Saved.SP + 2, 0) = CPU.cc
      /\ readMemory(Saved, ram, Saved.SP + 3, 0) = CPU.mode
  BY <1>1, <1>2, <1>3, <1>4
<1>6. user.mode = CPU.mode /\ user.RB = CPU.RB /\ user.RL = CPU.RL
  BY DEF Saved, Registers
<1>7. based.mode = CPU.mode /\ based.RB = CPU.RB /\ based.RL = CPU.RL
  BY DEF Saved, Registers
<1>8. fenced.mode = CPU.mode /\ fenced.RB = CPU.RB /\ fenced.RL = CPU.RL
  BY DEF Saved, Registers
<1>9. [fenced EXCEPT !.RX = CPU.RX, !.SP = CPU.SP, !.interruptEnable = TRUE] =
        [CPU EXCEPT !.AC = ac, !.pc = ram[at(6)]]
  BY DEF Saved, Registers
<1>. HIDE DEF user
<1>10. readMemory(user, ram, Saved.SP + 4, 0) = CPU.RB
  BY <1>1, <1>2, <1>3, <1>6
<1>. HIDE DEF based
<1>11. readMemory(based, ram, Saved.SP + 5, 0) = CPU.RL
  BY <1>1, <1>2, <1>3, <1>7
<1>. HIDE DEF fenced
<1>12. readMemory(fenced, ram, Saved.SP + 6, 0) = CPU.RX
  BY <1>1, <1>2, <1>3, <1>8
<1>13. restoreContext(Saved, ram, ac) =
         [fenced EXCEPT !.RX = readMemory(fenced, ram, Saved.SP + 6, 0), !.SP = Saved.SP + 7,
                        !.interruptEnable = TRUE]
  <2>1. user = [Saved EXCEPT !.AC = ac, !.pc = readMemory(Saved, ram, Saved.SP + 1, 0),
                             !.cc = readMemory(Saved, ram, Saved.SP + 2, 0),
                             !.mode = readMemory(Saved, ram, Saved.SP + 3, 0)]
    BY <1>5 DEF user
  <2>2. based = [user EXCEPT !.RB = readMemory(user, ram, Saved.SP + 4, 0)]
    BY <1>10 DEF based
  <2>3. fenced = [based EXCEPT !.RL = readMemory(based, ram, Saved.SP + 5, 0)]
    BY <1>11 DEF fenced
  <2>. QED
    BY <2>1, <2>2, <2>3, Zenon DEF restoreContext
<1>. QED
  BY <1>1, <1>9, <1>12, <1>13 DEF at

(* When the context does not fit nothing is promised; when it does, the    *)
(* process goes on as it was, or as the machine allows. *)
LEMMA ResumeRefines ==
  ASSUME TypeOK, NEW code \in Codes, Handle(code), NEW ram, NEW ac,
         NEW next \in {"cycle", "switch"}, Resume(ram, ac, next), Below(ram),
         Machine!Room(CPU) =>
           \/ CPU' = CPU
           \/ Machine!Answered(CPU, CPU') \/ Machine!Repeated(CPU, CPU')
           \/ Machine!Adjusted(CPU, CPU')
  PROVE  Machine!Next
<1>1. current \in alive /\ current' = current /\ alive' = alive /\ context' = context
  BY DEF TypeOK, Handle, Resume
<1>2. /\ Regs[current] = CPU /\ Regs'[current] = CPU'
      /\ DOMAIN Regs = alive /\ DOMAIN Regs' = alive
      /\ \A q \in alive \ {current} : Regs'[q] = Regs[q]
  BY <1>1 DEF Regs
<1>3. Below(RAM') /\ interruptValue' = interruptValue
  BY DEF Resume, Handle
<1>4. PICK p \in alive : p = current
  BY <1>1
<1>5. Machine!Interrupt(p)
  BY <1>1, <1>2, <1>3, <1>4 DEF Machine!Interrupt, Machine!FrameOnly, Below, Regs
<1>. QED
  BY <1>5 DEF Machine!Next

(* A process that ends leaves the others and the memory outside the saved  *)
(* context alone. *)
LEMMA EndRefines ==
  ASSUME current \in alive, current' = current, alive' = alive \ {current},
         context' = context, interruptValue' = interruptValue, Below(RAM')
  PROVE  Machine!Next
<1>1. PICK p \in alive : p = current
  OBVIOUS
<1>2. Regs' = [q \in alive \ {current} |-> Regs[q]]
  BY DEF Regs
<1>3. Regs[p] = CPU /\ DOMAIN Regs = alive
  BY <1>1 DEF Regs
<1>4. Machine!End(p)
  BY <1>1, <1>2, <1>3 DEF Machine!End, Machine!FrameOnly, Below, Regs
<1>. QED
  BY <1>4 DEF Machine!Next

(* The handlers that answer false. *)
LEMMA HaltRefines ==
  ASSUME TypeOK, NEW code \in Codes, Handle(code), Halt
  PROVE  Machine!Next
<1>1. Below(RAM')
  BY SaveBelow DEF Halt, TypeOK, Memories
<1>. QED
  BY <1>1, EndRefines DEF TypeOK, Handle, Halt

(* The handlers that answer true and leave the saved context alone, but    *)
(* for AC. *)
LEMMA GoOnRefines ==
  ASSUME TypeOK, NEW code \in Codes, Handle(code), NEW ac, NEW next \in {"cycle", "switch"},
         Resume(saveContext, ac, next),
         Machine!Room(CPU) => ac \in {CPU.AC, Wrapped(interruptValue)}
  PROVE  Machine!Next
<1>1. CPU \in Registers /\ RAM \in Memories /\ CPU.interruptEnable
  BY DEF TypeOK, Memories, Handle
<1>2. ASSUME Machine!Room(CPU)
      PROVE  CPU' = [CPU EXCEPT !.AC = ac]
  <2>1. \A k \in 1 .. 6 : saveContext[getPhysicalAddress(CPU, CPU.SP - k)] = Frame[k]
    BY <1>1, <1>2, SavedFrame
  <2>. DEFINE ram == saveContext
  <2>. HIDE DEF ram
  <2>2. restoreContext(Saved, ram, ac) =
          [CPU EXCEPT !.AC = ac, !.pc = ram[getPhysicalAddress(CPU, CPU.SP - 6)]]
    <3>1. \A k \in 1 .. 5 : ram[getPhysicalAddress(CPU, CPU.SP - k)] = Frame[k]
      BY <2>1 DEF ram
    <3>. QED
      BY <1>1, <1>2, <3>1, RestoreFrame
  <2>3. saveContext[getPhysicalAddress(CPU, CPU.SP - 6)] = CPU.pc
    BY <2>1 DEF Frame
  <2>. QED
    BY <1>1, <2>2, <2>3 DEF Registers, Resume, ram
<1>3. Machine!Room(CPU) => CPU' = CPU \/ Machine!Adjusted(CPU, CPU')
  BY <1>1, <1>2 DEF Machine!Adjusted, Registers
<1>. QED
  BY <1>1, <1>3, SaveBelow, ResumeRefines

(* What the addresses of a context that fits have to do with each other:   *)
(* two of its words do not share one. *)
LEMMA FrameDistinct ==
  ASSUME CPU \in Registers, NEW j \in 1 .. 7, NEW k \in 1 .. 7, j # k
  PROVE  getPhysicalAddress(CPU, CPU.SP - j) # getPhysicalAddress(CPU, CPU.SP - k)
BY DEF getPhysicalAddress, Registers

(* A service that overwrites the j-th word of the saved context, or fails  *)
(* to, leaves the others alone, and nothing else changes. *)
LEMMA Overwritten ==
  ASSUME TypeOK, NEW j \in 6 .. 7, NEW w \in Int, NEW ram,
         ram = writeMemory(Saved, saveContext, CPU.SP - j, w)
  PROVE  /\ Below(ram)
         /\ Machine!Room(CPU) =>
              /\ \A k \in (1 .. 7) \ {j} : ram[getPhysicalAddress(CPU, CPU.SP - k)] = Frame[k]
              /\ ram[getPhysicalAddress(CPU, CPU.SP - j)] \in {w, Frame[j]}
<1>. DEFINE at == getPhysicalAddress(CPU, CPU.SP - j)
<1>1. CPU \in Registers /\ RAM \in Memories
  BY DEF TypeOK, Memories
<1>2. getPhysicalAddress(Saved, CPU.SP - j) = at
  BY <1>1 DEF Saved, Registers, getPhysicalAddress
<1>3. at \in Machine!Frame(CPU)
  BY DEF Machine!Frame
<1>4. ram = saveContext \/ ram = [saveContext EXCEPT ![at] = w]
  BY <1>2 DEF writeMemory
<1>5. Below(ram)
  BY <1>1, <1>3, <1>4, SaveBelow DEF Below
<1>6. ASSUME Machine!Room(CPU), NEW k \in (1 .. 7) \ {j}
      PROVE  ram[getPhysicalAddress(CPU, CPU.SP - k)] = Frame[k]
  <2>1. saveContext[getPhysicalAddress(CPU, CPU.SP - k)] = Frame[k]
    BY <1>1, <1>6, SavedFrame
  <2>2. getPhysicalAddress(CPU, CPU.SP - k) # at
    BY <1>1, FrameDistinct
  <2>3. getPhysicalAddress(CPU, CPU.SP - k) \in Addresses
    BY <1>6 DEF Machine!Room, Accessible
  <2>. HIDE DEF at
  <2>. QED
    BY <1>1, <1>4, <2>1, <2>2, <2>3, SaveType DEF Memories
<1>7. ASSUME Machine!Room(CPU)
      PROVE  ram[at] \in {w, Frame[j]}
  <2>1. saveContext[at] = Frame[j]
    BY <1>1, <1>7, SavedFrame
  <2>2. at \in Addresses
    BY <1>7 DEF Machine!Room, Accessible
  <2>. HIDE DEF at
  <2>. QED
    BY <1>1, <1>4, <2>1, <2>2, SaveType DEF Memories
<1>. QED
  BY <1>5, <1>6, <1>7

(* The AC a handler puts back is the one on the stack. *)
LEMMA PoppedAC ==
  ASSUME CPU \in Registers, Machine!Room(CPU), NEW ram
  PROVE  SavedAC(ram) = ram[getPhysicalAddress(CPU, CPU.SP - 7)]
<1>1. /\ Saved.SP = CPU.SP - 7 /\ Saved.mode = CPU.mode
      /\ Saved.RB = CPU.RB /\ Saved.RL = CPU.RL
  BY DEF Saved, Registers
<1>2. Accessible(CPU, CPU.SP - 7)
  BY DEF Machine!Room
<1>. HIDE DEF Saved
<1>. QED
  BY <1>1, <1>2, SMTT(30) DEF SavedAC, readMemory, Accessible, isProtectionViolation,
     getPhysicalAddress

(* Interrupts whose handler keeps the AC on the stack. *)
LEMMA KeepRefines ==
  ASSUME TypeOK, NEW code \in Codes, Handle(code), NEW next \in {"cycle", "switch"},
         Resume(saveContext, SavedAC(saveContext), next)
  PROVE  Machine!Next
<1>1. CPU \in Registers
  BY DEF TypeOK
<1>2. Machine!Room(CPU) => SavedAC(saveContext) = CPU.AC
  <2>1. ASSUME Machine!Room(CPU)
        PROVE  SavedAC(saveContext) = Frame[7]
    BY <1>1, <2>1, PoppedAC, SavedFrame
  <2>. QED
    BY <2>1 DEF Frame
<1>. HIDE DEF SavedAC
<1>. QED
  BY <1>2, GoOnRefines

(* A service that has to wait is executed again, or, if the saved program  *)
(* counter could not be overwritten, was executed for nothing. *)
LEMMA AgainRefines ==
  ASSUME TypeOK, SyscallAgain
  PROVE  Machine!Next
<1>. DEFINE read == readMemory(Saved, saveContext, Saved.SP + 1, 0)
            back == intToWord(wordToInt(read) - 1)
            ram == writeMemory(Saved, saveContext, Saved.SP + 1, back)
<1>1. /\ CPU \in Registers /\ RAM \in Memories /\ CPU.interruptEnable
      /\ Handle("IC_SYSCALL") /\ "IC_SYSCALL" \in Codes
  BY DEF TypeOK, Memories, SyscallAgain, Handle, Codes
<1>2. wordToInt(CPU.AC) \in {2, 3}
  BY DEF SyscallAgain, Service
<1>3. Resume(ram, SavedAC(ram), "switch")
  BY DEF SyscallAgain
<1>4. Saved.SP + 1 = CPU.SP - 6 /\ Saved.SP + 1 \in Int
  BY <1>1 DEF Saved, Registers
<1>5. back \in Int
  <2>1. read \in Int
    BY <1>4, SavedType, ReadType
  <2>. QED
    BY <2>1, WordToIntType, IntToWordType
<1>6. Machine!Room(CPU) => back = intToWord(wordToInt(CPU.pc) - 1)
  <2>1. ASSUME Machine!Room(CPU) PROVE read = CPU.pc
    <3>1. Accessible(CPU, CPU.SP - 6)
      BY <2>1 DEF Machine!Room
    <3>2. saveContext[getPhysicalAddress(CPU, CPU.SP - 6)] = Frame[6]
      BY <1>1, <2>1, SavedFrame
    <3>3. Saved.mode = CPU.mode /\ Saved.RB = CPU.RB /\ Saved.RL = CPU.RL
      BY <1>1 DEF Saved, Registers
    <3>4. Frame[6] = CPU.pc
      BY DEF Frame
    <3>. HIDE DEF Saved
    <3>. QED
      BY <1>4, <3>1, <3>2, <3>3, <3>4, SMTT(30) DEF readMemory, Accessible, isProtectionViolation,
         getPhysicalAddress
  <2>. QED
    BY <2>1
<1>7. ram = writeMemory(Saved, saveContext, CPU.SP - 6, back)
  BY <1>4
<1>. HIDE DEF read, back, ram
<1>8. /\ Below(ram)
      /\ Machine!Room(CPU) =>
           /\ \A k \in (1 .. 7) \ {6} : ram[getPhysicalAddress(CPU, CPU.SP - k)] = Frame[k]
           /\ ram[getPhysicalAddress(CPU, CPU.SP - 6)] \in {back, Frame[6]}
  BY <1>5, <1>7, Overwritten
<1>9. ASSUME Machine!Room(CPU)
      PROVE  CPU' = CPU \/ Machine!Repeated(CPU, CPU')
  <2>. DEFINE pc == ram[getPhysicalAddress(CPU, CPU.SP - 6)]
  <2>1. restoreContext(Saved, ram, SavedAC(ram)) = [CPU EXCEPT !.AC = SavedAC(ram), !.pc = pc]
    <3>1. \A k \in 1 .. 5 : ram[getPhysicalAddress(CPU, CPU.SP - k)] = Frame[k]
      BY <1>8, <1>9
    <3>. DEFINE ac == SavedAC(ram)
    <3>. HIDE DEF ac
    <3>2. restoreContext(Saved, ram, ac) =
            [CPU EXCEPT !.AC = ac, !.pc = ram[getPhysicalAddress(CPU, CPU.SP - 6)]]
      BY <1>1, <1>9, <3>1, RestoreFrame
    <3>. QED
      BY <3>2 DEF ac
  <2>2. SavedAC(ram) = CPU.AC
    <3>1. SavedAC(ram) = Frame[7]
      BY <1>1, <1>8, <1>9, PoppedAC
    <3>. QED
      BY <3>1 DEF Frame
  <2>3. pc \in {intToWord(wordToInt(CPU.pc) - 1), CPU.pc}
    BY <1>6, <1>8, <1>9 DEF Frame
  <2>. HIDE DEF pc
  <2>4. CPU' = [CPU EXCEPT !.pc = pc]
    BY <1>1, <1>3, <2>1, <2>2 DEF Resume, Registers
  <2>. QED
    BY <1>1, <1>2, <2>3, <2>4 DEF Machine!Repeated, Registers
<1>. QED
  BY <1>1, <1>3, <1>8, <1>9, ResumeRefines

(* The answer of a read is in AC, unless the saved AC could not be         *)
(* overwritten. *)
LEMMA ReadRefines ==
  ASSUME TypeOK, SyscallRead
  PROVE  Machine!Next
<1>1. /\ CPU \in Registers /\ RAM \in Memories /\ CPU.interruptEnable
      /\ Handle("IC_SYSCALL") /\ "IC_SYSCALL" \in Codes /\ wordToInt(CPU.AC) = 3
  BY DEF TypeOK, Memories, SyscallRead, Handle, Codes, Service
<1>2. PICK n \in Inputs :
        Resume(writeMemory(Saved, saveContext, Saved.SP, intToWord(n)),
               SavedAC(writeMemory(Saved, saveContext, Saved.SP, intToWord(n))), "cycle")
  BY DEF SyscallRead
<1>. DEFINE ram == writeMemory(Saved, saveContext, Saved.SP, intToWord(n))
<1>3. Saved.SP = CPU.SP - 7
  BY <1>1 DEF Saved, Registers
<1>4. intToWord(n) \in Int
  BY CpuAssumption, IntToWordType
<1>5. ram = writeMemory(Saved, saveContext, CPU.SP - 7, intToWord(n))
  BY <1>3
<1>6. Resume(ram, SavedAC(ram), "cycle")
  BY <1>2
<1>. HIDE DEF ram
<1>7. /\ Below(ram)
      /\ Machine!Room(CPU) =>
           \A k \in (1 .. 7) \ {7} : ram[getPhysicalAddress(CPU, CPU.SP - k)] = Frame[k]
  BY <1>4, <1>5, Overwritten
<1>8. ASSUME Machine!Room(CPU)
      PROVE  Machine!Answered(CPU, CPU')
  <2>1. restoreContext(Saved, ram, SavedAC(ram)) =
          [CPU EXCEPT !.AC = SavedAC(ram), !.pc = ram[getPhysicalAddress(CPU, CPU.SP - 6)]]
    <3>1. \A k \in 1 .. 5 : ram[getPhysicalAddress(CPU, CPU.SP - k)] = Frame[k]
      BY <1>7, <1>8
    <3>. DEFINE ac == SavedAC(ram)
    <3>. HIDE DEF ac
    <3>2. restoreContext(Saved, ram, ac) =
            [CPU EXCEPT !.AC = ac, !.pc = ram[getPhysicalAddress(CPU, CPU.SP - 6)]]
      BY <1>1, <1>8, <3>1, RestoreFrame
    <3>. QED
      BY <3>2 DEF ac
  <2>2. ram[getPhysicalAddress(CPU, CPU.SP - 6)] = CPU.pc
    BY <1>7, <1>8 DEF Frame
  <2>3. CPU' = [CPU EXCEPT !.AC = SavedAC(ram)]
    BY <1>1, <1>6, <2>1, <2>2 DEF Resume, Registers
  <2>. HIDE DEF SavedAC
  <2>. QED
    BY <1>1, <2>3 DEF Machine!Answered, Registers
<1>. QED
  BY <1>1, <1>6, <1>7, <1>8, ResumeRefines

(* Every step is one of the machine, or nothing a process could notice. *)
LEMMA NextRefines ==
  ASSUME TypeOK, [Next]_vars
  PROVE  [Machine!Next]_(Machine!mvars)
<1>1. CASE UNCHANGED vars
  BY <1>1 DEF vars, Machine!mvars
<1>2. CASE FetchFails
  <2>1. Below(RAM')
    BY <1>2 DEF FetchFails, Below, TypeOK
  <2>. QED
    BY <1>2, <2>1, EndRefines DEF FetchFails, TypeOK
<1>3. CASE Execute
  <2>1. PICK p \in alive : p = current
    BY <1>3 DEF Execute, TypeOK
  <2>2. Regs[p] = CPU /\ Regs' = [Regs EXCEPT ![p] = CPU']
    BY <1>3, <2>1 DEF Execute, Regs
  <2>3. Machine!Execute(p)
    BY <1>3, <2>1, <2>2 DEF Execute, Machine!Execute, Regs
  <2>. QED
    BY <2>3 DEF Machine!Next
<1>4. CASE NothingToHandle
  BY <1>4 DEF NothingToHandle, Machine!mvars
<1>5. CASE HandleFault \/ SyscallHalt
  BY <1>5, HaltRefines DEF HandleFault, SyscallHalt, Codes
<1>6. CASE HandleOverflow
  BY <1>6, GoOnRefines DEF HandleOverflow, Codes
<1>7. CASE HandleTimer \/ HandleIODone \/ SyscallGoOn \/ SyscallSleep
  BY <1>7, KeepRefines DEF HandleTimer, HandleIODone, SyscallGoOn, SyscallSleep, Codes
<1>8. CASE SyscallAgain
  BY <1>8, AgainRefines
<1>9. CASE SyscallRead
  BY <1>9, ReadRefines
<1>10. CASE Switch
  <2>1. alive' = alive /\ RAM' = RAM /\ interruptValue' = interruptValue
    BY <1>10 DEF Switch
  <2>2. ASSUME NEW q \in alive
        PROVE  (IF q = current' THEN CPU' ELSE context'[q]) = (IF q = current THEN CPU ELSE context[q])
    BY <1>10, <2>2 DEF Switch, TypeOK
  <2>3. UNCHANGED Machine!mvars
    BY <2>1, <2>2 DEF Machine!mvars
  <2>. QED
    BY <2>3
<1>. QED
  BY <1>1, <1>2, <1>3, <1>4, <1>5, <1>6, <1>7, <1>8, <1>9, <1>10 DEF Next, checkInterrupts

(* The CPU implements the machine a program may expect: interrupts, and    *)
(* the processes that run in between, leave its registers and its memory   *)
(* alone, whatever the programs, as long as there is room for seven words  *)
(* below the stack. *)
THEOREM Refinement == Spec => ImplementsMachine
<1>1. Init => Machine!Init
  BY InitType DEF TypeOK, Machine!Init
<1>. QED
  BY <1>1, NextRefines, TypeCorrect, PTL DEF Spec, ImplementsMachine, Machine!Spec
=============================================================================
