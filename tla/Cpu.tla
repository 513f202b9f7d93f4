-------------------------------- MODULE Cpu ---------------------------------
(***************************************************************************)
(* The instruction cycle of the virtual CPU and its interrupts, with the   *)
(* context saved on the stack of the program that runs (src/hardware/      *)
(* cpu.c, the parts of src/kernel/syscalls.c that read or change that      *)
(* stack, and the change of processes in src/kernel/scheduler.c).          *)
(*                                                                         *)
(* One step is an instruction, or the handling of an interrupt from the    *)
(* saving of the context to its restoring: no other thread uses the CPU,   *)
(* the pending interrupts or the partition of the process meanwhile.       *)
(* Which process runs next, and whether the monitor is open, is left open  *)
(* (the module Kernel decides it).                                         *)
(***************************************************************************)
EXTENDS Isa, Sequences

CONSTANTS
  Processes, Base, Limit,  \* the partition of each process
  Programs,                \* process -> the programs it may have, sequences of words
  StartPC,                 \* process -> where they start (_start), counted from 1
  TIMER_QUANTUM,
  Inputs,                  \* what is typed when a program reads
  MaxSteps                 \* bound: so many instructions are executed

ASSUME CpuAssumption ==
  /\ Processes # {}
  /\ Base \in [Processes -> Addresses] /\ Limit \in [Processes -> Addresses]
  /\ \A p \in Processes : Base[p] <= Limit[p]
  /\ \A p, q \in Processes : p # q => (Base[p] .. Limit[p]) \cap (Base[q] .. Limit[q]) = {}
  /\ \A p \in Processes : Programs[p] \subseteq Seq(Int)
  /\ StartPC \in [Processes -> Int]
  /\ TIMER_QUANTUM \in Nat /\ Inputs \subseteq Int /\ MaxSteps \in Nat

VARIABLES
  CPU, RAM,
  interruptBitmap,  \* the pending interrupts
  interruptValue,   \* the result of the last overflow
  context,          \* the registers in the process table
  alive,            \* the processes that have not ended
  current,          \* currentActiveProcess
  phase,            \* "cycle", "check" (checkInterrupts), "switch" (schedulerTick)
  steps             \* how many instructions have been executed

vars == <<CPU, RAM, interruptBitmap, interruptValue, context, alive, current, phase, steps>>

Faults == {"IC_INVALID_INSTR", "IC_INVALID_ADDR"}
Codes == Faults \union {"IC_OVERFLOW", "IC_SYSCALL", "IC_TIMER", "IC_IO_DONE"}

(* The order in which checkInterrupts looks for a pending interrupt, of    *)
(* those somebody raises.                                                  *)
Priority == [c \in Codes |->
  CASE c = "IC_INVALID_INSTR" -> 1 [] c = "IC_INVALID_ADDR" -> 2 [] c = "IC_OVERFLOW" -> 3
    [] c = "IC_SYSCALL" -> 4 [] c = "IC_TIMER" -> 5 [] c = "IC_IO_DONE" -> 6]

ToHandle(bitmap) == CHOOSE c \in bitmap : \A d \in bitmap : Priority[c] <= Priority[d]

(* createProcess: the registers of a process whose program has n words.    *)
NewContext(p, n) ==
  [AC |-> 0, pc |-> StartPC[p] - 1, cc |-> 0, mode |-> MODE_USER, RB |-> Base[p], RL |-> Limit[p], RX |-> n,
   SP |-> Limit[p] - Base[p], interruptEnable |-> TRUE, timerLimit |-> TIMER_QUANTUM,
   cyclesCounter |-> 0]

(* The word at an address once the processes' programs have been loaded.   *)
Loaded(load, a) ==
  IF \E p \in Processes : a - Base[p] + 1 \in DOMAIN load[p]
    THEN LET p == CHOOSE q \in Processes : a - Base[q] + 1 \in DOMAIN load[q]
         IN  load[p][a - Base[p] + 1]
    ELSE 0

Init ==
  /\ \E load \in [Processes -> UNION {Programs[p] : p \in Processes}] :
       /\ \A p \in Processes : load[p] \in Programs[p] /\ Len(load[p]) <= Limit[p] - Base[p] + 1
       /\ RAM = [a \in Addresses |-> Loaded(load, a)]
       /\ context = [p \in Processes |-> NewContext(p, Len(load[p]))]
  /\ current \in Processes
  /\ CPU = context[current]
  /\ interruptBitmap = {}
  /\ interruptValue = 0
  /\ alive = Processes
  /\ phase = "cycle"
  /\ steps = 0

-----------------------------------------------------------------------------
(*                                 cpuStep                                 *)

(* fetch fails: the process ends, with what is pending left pending.       *)
FetchFails ==
  /\ phase = "cycle"
  /\ ~Accessible(CPU, CPU.pc)
  /\ alive' = alive \ {current}
  /\ phase' = "switch"
  /\ UNCHANGED <<CPU, RAM, interruptBitmap, interruptValue, context, current, steps>>

Execute ==
  /\ phase = "cycle"
  /\ steps < MaxSteps
  /\ Accessible(CPU, CPU.pc)
  /\ \E o \in Cycle(CPU, RAM) :
       /\ CPU' = o.r
       /\ RAM' = o.ram
       /\ interruptBitmap' = interruptBitmap \union o.raises
       /\ interruptValue' = IF "IC_OVERFLOW" \in o.raises THEN o.value ELSE interruptValue
  /\ phase' = "check"
  /\ steps' = steps + 1
  /\ UNCHANGED <<context, alive, current>>

-----------------------------------------------------------------------------
(*                             checkInterrupts                             *)

(* saveContext: seven pushes, each of which fails for itself.              *)
Frame == <<CPU.RX, CPU.RL, CPU.RB, CPU.mode, CPU.cc, CPU.pc, CPU.AC>>

Pushed(k) == Writable(CPU, CPU.SP - k, Frame[k])

saveContext ==
  [a \in Addresses |->
     IF \E k \in 1 .. 7 : Pushed(k) /\ a = getPhysicalAddress(CPU, CPU.SP - k)
       THEN Frame[CPU.SP - (IF CPU.mode = MODE_KERNEL THEN a ELSE a - CPU.RB)]
       ELSE RAM[a]]

Saved == [CPU EXCEPT !.SP = @ - 7]

(* Mutant: condition code and mode are popped in the order they were       *)
(* pushed.                                                                 *)
restoreContextSwapped(r, ram, ac) ==
  LET user == [r EXCEPT !.AC = ac, !.pc = readMemory(r, ram, r.SP + 1, 0),
                        !.mode = readMemory(r, ram, r.SP + 2, 0),
                        !.cc = readMemory(r, ram, r.SP + 3, 0)]
      based == [user EXCEPT !.RB = readMemory(user, ram, r.SP + 4, 0)]
      fenced == [based EXCEPT !.RL = readMemory(based, ram, r.SP + 5, 0)]
  IN  [fenced EXCEPT !.RX = readMemory(fenced, ram, r.SP + 6, 0), !.SP = r.SP + 7,
                     !.interruptEnable = TRUE]

(* restoreContext: seven pops, each with the mode, base and limit popped   *)
(* so far; one that fails gives 0.  Interrupts are enabled again.          *)
restoreContext(r, ram, ac) ==
  LET user == [r EXCEPT !.AC = ac, !.pc = readMemory(r, ram, r.SP + 1, 0),
                        !.cc = readMemory(r, ram, r.SP + 2, 0),
                        !.mode = readMemory(r, ram, r.SP + 3, 0)]
      based == [user EXCEPT !.RB = readMemory(user, ram, r.SP + 4, 0)]
      fenced == [based EXCEPT !.RL = readMemory(based, ram, r.SP + 5, 0)]
  IN  [fenced EXCEPT !.RX = readMemory(fenced, ram, r.SP + 6, 0), !.SP = r.SP + 7,
                     !.interruptEnable = TRUE]

SavedAC(ram) == readMemory(Saved, ram, Saved.SP, 0)

NothingToHandle ==
  /\ phase = "check"
  /\ interruptBitmap = {} \/ ~CPU.interruptEnable
  /\ phase' = "cycle"
  /\ UNCHANGED <<CPU, RAM, interruptBitmap, interruptValue, context, alive, current, steps>>

Handle(code) ==
  /\ phase = "check"
  /\ interruptBitmap # {} /\ CPU.interruptEnable
  /\ code = ToHandle(interruptBitmap)
  /\ interruptBitmap' = interruptBitmap \ {code}
  /\ UNCHANGED <<interruptValue, context, current, steps>>

(* The handler answers false: the process ends, nothing is restored.       *)
Halt ==
  /\ CPU' = [Saved EXCEPT !.interruptEnable = TRUE]
  /\ RAM' = saveContext
  /\ alive' = alive \ {current}
  /\ phase' = "switch"

(* The handler answers true, having left ram in memory.                    *)
Resume(ram, ac, next) ==
  /\ CPU' = restoreContext(Saved, ram, ac)
  /\ RAM' = ram
  /\ phase' = next
  /\ UNCHANGED alive

HandleFault == \E code \in Faults : Handle(code) /\ Halt

HandleOverflow == Handle("IC_OVERFLOW") /\ Resume(saveContext, Wrapped(interruptValue), "cycle")

HandleTimer == Handle("IC_TIMER") /\ Resume(saveContext, SavedAC(saveContext), "switch")

HandleIODone == Handle("IC_IO_DONE") /\ Resume(saveContext, SavedAC(saveContext), "cycle")

-----------------------------------------------------------------------------
(* handleSyscall.  The parameter is on top of the program's stack, seven   *)
(* words above SP.                                                         *)
Service == wordToInt(CPU.AC)

Parameter == readMemory(Saved, saveContext, Saved.SP + 7, 0)

HasParameter == Accessible(Saved, Saved.SP + 7)

(* exit; print and sleep with no parameter on the stack; a negative sleep. *)
SyscallHalt ==
  /\ Handle("IC_SYSCALL")
  /\ \/ Service = 1
     \/ Service \in {2, 4} /\ ~HasParameter
     \/ Service = 4 /\ HasParameter /\ wordToInt(Parameter) < 0
  /\ Halt

(* print with the monitor open, no sleep, an unknown service.              *)
SyscallGoOn ==
  /\ Handle("IC_SYSCALL")
  /\ \/ Service = 2 /\ HasParameter
     \/ Service = 4 /\ HasParameter /\ wordToInt(Parameter) = 0
     \/ Service \notin 1 .. 4
  /\ Resume(saveContext, SavedAC(saveContext), "cycle")

SyscallSleep ==
  /\ Handle("IC_SYSCALL")
  /\ Service = 4 /\ HasParameter /\ wordToInt(Parameter) > 0
  /\ Resume(saveContext, SavedAC(saveContext), "switch")

(* print and read with the monitor closed: the saved PC is moved back to   *)
(* the SVC.                                                                *)
SyscallAgain ==
  /\ Handle("IC_SYSCALL")
  /\ Service = 3 \/ (Service = 2 /\ HasParameter)
  /\ LET savedPc == wordToInt(readMemory(Saved, saveContext, Saved.SP + 1, 0))
         ram == writeMemory(Saved, saveContext, Saved.SP + 1, intToWord(savedPc - 1))
     IN  Resume(ram, SavedAC(ram), "switch")

(* read with the monitor open: the answer overwrites the saved AC.         *)
SyscallRead ==
  /\ Handle("IC_SYSCALL")
  /\ Service = 3
  /\ \E n \in Inputs :
       LET ram == writeMemory(Saved, saveContext, Saved.SP, intToWord(n))
       IN  Resume(ram, SavedAC(ram), "cycle")

-----------------------------------------------------------------------------
(* schedulerTick: the registers are saved, also those of a process that    *)
(* ended, and those of the next process are loaded.                        *)
Switch ==
  /\ phase = "switch"
  /\ context' = [context EXCEPT ![current] = CPU]
  /\ \E p \in alive :
       /\ current' = p
       /\ CPU' = context'[p]
  /\ phase' = "cycle"
  /\ UNCHANGED <<RAM, interruptBitmap, interruptValue, alive, steps>>

checkInterrupts ==
  \/ NothingToHandle
  \/ HandleFault \/ HandleOverflow \/ HandleTimer \/ HandleIODone
  \/ SyscallHalt \/ SyscallGoOn \/ SyscallSleep \/ SyscallAgain \/ SyscallRead

Next == FetchFails \/ Execute \/ checkInterrupts \/ Switch

Spec == Init /\ [][Next]_vars

-----------------------------------------------------------------------------
(*                                Properties                               *)

(* Every word of the RAM passes the test of writeMemory, unless a program  *)
(* was loaded with it: what is saved of the registers is no exception.     *)
Word(w) ==
  IS_VALID_INSTRUCTION(w) \/ \E p \in Processes : \E code \in Programs[p] :
                               \E k \in DOMAIN code : w = code[k]

TypeOK ==
  /\ CPU \in Registers
  /\ RAM \in [Addresses -> Int] /\ \A a \in Addresses : Word(RAM[a])
  /\ interruptBitmap \subseteq Codes
  /\ interruptValue \in Int
  /\ context \in [Processes -> Registers]
  /\ alive \subseteq Processes /\ current \in Processes
  /\ phase \in {"cycle", "check", "switch"}
  /\ phase # "switch" => current \in alive
  /\ steps \in 0 .. MaxSteps

(* Interrupts are transparent: the CPU implements the machine a program    *)
(* may expect (UserMachine), although it keeps the program's registers on  *)
(* the program's own stack and one set of pending interrupts for all.      *)
Machine == INSTANCE UserMachine
  WITH regs <- [p \in alive |-> IF p = current THEN CPU ELSE context[p]],
       lastOverflow <- interruptValue

ImplementsMachine == Machine!Spec

(* In user mode nothing is written outside [RB, RL], neither by an         *)
(* instruction nor when the context is saved (ARCHITECTURE.md, protection  *)
(* check); SDMAON is the exception.                                        *)
Transfers ==
  phase = "cycle" /\ Accessible(CPU, CPU.pc) /\ Fetched(CPU, RAM).op = "SDMAON"

WritesFenced ==
  [][CPU.mode # MODE_KERNEL /\ ~Transfers =>
       \A a \in Addresses : RAM'[a] # RAM[a] => a \in CPU.RB .. CPU.RL]_vars

(* The result of an arithmetic instruction is exact, or is known by the    *)
(* condition code to be too large for a word; then, and only then, an      *)
(* overflow is raised.                                                     *)
Operand == fetchOperand(CPU, RAM, Fetched(CPU, RAM))

Exact(n) ==
  IF n \in -MAX_MAGNITUDE .. MAX_MAGNITUDE
    THEN wordToInt(CPU'.AC) = n /\ CPU'.cc # CC_OVERFLOW
    ELSE CPU'.cc = CC_OVERFLOW /\ "IC_OVERFLOW" \in interruptBitmap'

ArithmeticExact ==
  [][Execute /\ Fetched(CPU, RAM).op \in {"SUM", "RES", "MULT"} /\ Operand.raises = {} =>
       LET a == wordToInt(CPU.AC)
           b == wordToInt(Operand.word)
       IN  Exact(CASE Fetched(CPU, RAM).op = "SUM" -> a + b
                   [] Fetched(CPU, RAM).op = "RES" -> a - b
                   [] Fetched(CPU, RAM).op = "MULT" -> a * b)]_vars
=============================================================================
